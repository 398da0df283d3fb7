------------------------------- MODULE Health --------------------------------
(***************************************************************************)
(* The health report (runtime/health.ts): what collectHealth derives from  *)
(* the durable records with bounded queries, over every small store.  The  *)
(* queries are answered from one moment; the state of the report is what   *)
(* an operator acts on.                                                    *)
(***************************************************************************)
EXTENDS Naturals, Sequences, FiniteSets

CONSTANTS CountLimit,     \* options.countLimit
          MaxRows         \* bound: records in the store

\* collectHealth throws on every other limit.
ASSUME HealthAssumption == CountLimit \in Nat \ {0}

VARIABLES rows,           \* the records, oldest first
          sources         \* what the host supplies

healthVars == <<rows, sources>>

Environments == {"production", "staging"}

\* The records health looks at: their collection and what it tells apart.  The
\* application requires a "declared" name, "selection" and "credential" are the
\* intelligence records of an environment.  The material of a secret is what
\* custody says of its reference: "set", "lost" (missing or revoked), "unknown"
\* for any other answer and none; a "legacy" secret holds a raw value and has
\* no reference.
Plain(collection, is) == [in |-> collection, is |-> is, env |-> "none", material |-> "none"]
HealthRows ==
    {Plain("endpoints", is) : is \in {"enabled", "disabled"}}
    \cup {Plain("schedules", is) : is \in {"enabled", "disabled"}}
    \cup {Plain(collection, "failed") : collection \in {"deliveries", "jobs", "notifications", "noticeDeliveries"}}
    \cup {[in |-> "variables", is |-> is, env |-> e, material |-> "none"] : is \in {"selection", "declared", "other"}, e \in Environments}
    \cup {[in |-> "secrets", is |-> is, env |-> e, material |-> m] :
             is \in {"declared", "credential"}, e \in Environments, m \in {"set", "lost", "unknown", "legacy"}}

HealthInit ==
    /\ rows = <<>>
    /\ sources \in [authorizer : BOOLEAN, credentials : BOOLEAN, custody : BOOLEAN, tenant : BOOLEAN]

AddRow ==
    /\ Len(rows) < MaxRows
    /\ \E row \in HealthRows : rows' = Append(rows, row)
    /\ UNCHANGED sources

HealthNext == AddRow

HealthSpec == HealthInit /\ [][HealthNext]_healthVars

\* Lists of records are sets of places in `rows`, which is their order.
Matching(collection, is) == {i \in DOMAIN rows : rows[i].in = collection /\ (is = "any" \/ rows[i].is = is)}

\* Mutant: no row is read beyond the limit.
BoundTight == CountLimit
\* boundedFind reads one row more than is counted.
BoundedFind == CountLimit + 1
\* The first max of them.
Bounded(list, max) == {i \in list : Cardinality({j \in list : j <= i}) <= max}
Found(collection, is) == Bounded(Matching(collection, is), BoundedFind)

\* rows(), count() and the capped set.
Rows(collection, is) == Bounded(Found(collection, is), CountLimit)
Count(collection, is) == Cardinality(Rows(collection, is))
Capped(collection, is) == Cardinality(Found(collection, is)) > CountLimit
Filter(list, Test(_)) == {i \in list : Test(rows[i])}
CountIf(list, Test(_)) == Cardinality(Filter(list, Test))

ConfigurationRows == Rows("variables", "any") \cup Rows("secrets", "any")

\* The names of an environment, of variables and of secrets alike.
PresentNames(env) == {rows[i].is : i \in Filter(ConfigurationRows, LAMBDA row : row.env = env)}

\* The environments that have configuration, or production.
Configured == IF ConfigurationRows = {} THEN {"production"} ELSE {rows[i].env : i \in ConfigurationRows}

\* The required name is looked for only when a tenant is given.
MissingRequired == IF sources.tenant THEN Cardinality({e \in Configured : "declared" \notin PresentNames(e)}) ELSE 0
LegacySecretValues == CountIf(Rows("secrets", "any"), LAMBDA row : row.material = "legacy")

\* materialStatus: custody is asked of a reference; an error is no answer.
BindingState(row) == IF row.material \in {"set", "lost"} THEN row.material ELSE "unknown"
MissingMaterial == IF sources.custody THEN CountIf(Rows("secrets", "any"), LAMBDA row : BindingState(row) = "lost") ELSE 0

BoundCredentials == {rows[i].env : i \in Filter(Rows("secrets", "any"), LAMBDA row : row.is = "credential")}
MissingCredentials ==
    LET selections == Filter(Rows("variables", "any"), LAMBDA row : row.is = "selection")
    IN  CountIf(selections, LAMBDA row : row.env \notin BoundCredentials)

DisabledEndpoints == CountIf(Rows("endpoints", "any"), LAMBDA row : row.is = "disabled")
ActiveEndpoints == Count("endpoints", "any") - DisabledEndpoints

WebhookReasons == Count("deliveries", "failed") > 0 \/ (ActiveEndpoints > 0 /\ ~sources.credentials)

\* The keys and the files are never degraded and are left out.
ServiceState == [
    webhooks      |-> IF Count("endpoints", "any") = 0 THEN "unconfigured"
                      ELSE IF WebhookReasons THEN "degraded"
                      ELSE IF ActiveEndpoints = 0 THEN "disabled" ELSE "ok",
    jobs          |-> IF Count("jobs", "failed") > 0 THEN "degraded" ELSE "ok",
    schedules     |-> IF Count("schedules", "enabled") + Count("schedules", "disabled") = 0 THEN "unconfigured"
                      ELSE IF Count("schedules", "enabled") = 0 THEN "disabled" ELSE "ok",
    notifications |-> IF Count("noticeDeliveries", "failed") + Count("notifications", "failed") > 0 THEN "degraded" ELSE "ok",
    configuration |-> IF MissingRequired + LegacySecretValues + MissingMaterial > 0 THEN "degraded"
                      ELSE IF Count("variables", "any") + Count("secrets", "any") = 0 THEN "unconfigured" ELSE "ok",
    intelligence  |-> IF CountIf(Rows("variables", "any"), LAMBDA row : row.is = "selection") = 0 THEN "unconfigured"
                      ELSE IF MissingCredentials > 0 THEN "degraded" ELSE "ok"]

\* Without an authorizer every effect fails closed, whatever the state says.
Gate(state) == IF sources.authorizer THEN state ELSE "disabled"

Status ==
    IF ~sources.authorizer THEN "unconfigured"
    ELSE IF \E service \in DOMAIN ServiceState : Gate(ServiceState[service]) = "degraded" THEN "degraded"
    ELSE "ok"

(***************************************************************************)
(* Properties                                                              *)
(***************************************************************************)
HasRow(Test(_)) == \E i \in DOMAIN rows : Test(rows[i])

\* What a report that says ok hides of what an operator must act on, however
\* many records there are: failed work is found by its own query; a raw secret
\* value, or material custody says is missing or revoked, is missed only when
\* the report says that the list of secrets was cut; and failed deliveries only
\* when no endpoint is left.  Material custody gives no answer for is not lost.
OkMeansQuiet ==
    Status = "ok" =>
        /\ ~HasRow(LAMBDA row : row.in \in {"jobs", "notifications", "noticeDeliveries"} /\ row.is = "failed")
        /\ HasRow(LAMBDA row : row.in = "secrets" /\ row.material = "legacy") => Capped("secrets", "any")
        /\ (sources.custody /\ HasRow(LAMBDA row : row.in = "secrets" /\ row.material = "lost")) => Capped("secrets", "any")
        /\ HasRow(LAMBDA row : row.in = "deliveries" /\ row.is = "failed") => ~HasRow(LAMBDA row : row.in = "endpoints")

\* A count is either exact or named among the capped ones.
CountsExactOrCapped ==
    \A query \in {<<"endpoints", "any">>, <<"deliveries", "failed">>, <<"jobs", "failed">>, <<"secrets", "any">>} :
        Count(query[1], query[2]) = Cardinality(Matching(query[1], query[2])) \/ Capped(query[1], query[2])

\* Some environment that is configured, or production when none is, has no
\* record of the required name: neither a variable nor a binding.
LacksDeclared ==
    LET of(env) == {i \in DOMAIN rows : rows[i].in \in {"variables", "secrets"} /\ rows[i].env = env} IN
    \/ \A env \in Environments : of(env) = {}
    \/ \E env \in Environments : of(env) # {} /\ ~\E i \in of(env) : rows[i].is = "declared"

ListsCut == Capped("secrets", "any") \/ Capped("variables", "any")

\* When no list was cut, a required name is reported as missing exactly when
\* some environment with configuration has no record of that name.  A variable
\* of the name stands for a binding, whatever kind the declaration is.
MissingIsMissing == (sources.tenant /\ ~ListsCut) => (MissingRequired > 0 <=> LacksDeclared)

\* A report that was not cut is degraded only over work that failed, endpoints
\* nobody can sign for, a secret with a raw value or lost material, or a name or
\* credential that is missing: custody that gives no answer never fails health.
DegradedHasCause ==
    (Status = "degraded" /\ ~ListsCut) =>
        \/ HasRow(LAMBDA row : row.is = "failed")
        \/ ~sources.credentials /\ HasRow(LAMBDA row : row.in = "endpoints" /\ row.is = "enabled")
        \/ HasRow(LAMBDA row : row.in = "secrets" /\ (row.material = "legacy" \/ (sources.custody /\ row.material = "lost")))
        \/ sources.tenant /\ LacksDeclared
        \/ \E e \in Environments :
              /\ HasRow(LAMBDA row : row.in = "variables" /\ row.is = "selection" /\ row.env = e)
              /\ ~HasRow(LAMBDA row : row.in = "secrets" /\ row.is = "credential" /\ row.env = e)

\* The report may be relied upon, also where its lists are cut.
ReportSound == OkMeansQuiet /\ CountsExactOrCapped /\ MissingIsMissing /\ DegradedHasCause
=============================================================================
