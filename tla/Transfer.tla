------------------------------ MODULE Transfer ------------------------------
(***************************************************************************)
(* Configuration export and import (src/src/configuration/transfer.ts).    *)
(* An import reads the target, plans each item of the document against     *)
(* what it has read, and writes the items one after the other through the  *)
(* services that own them.  It is not a transaction: an item that fails is *)
(* reported and the next one is tried.  The process may stop in between.   *)
(* Other imports and an operator write the same target.                    *)
(*                                                                         *)
(* A document has at most one item of each kind.  An entry of the target   *)
(* is a live record with its identifier and its content: a value, a set of *)
(* events, a payload.                                                      *)
(***************************************************************************)
EXTENDS Naturals, FiniteSets, SequencesExt

CONSTANTS Imports,        \* imports
          Documents,      \* the exported documents: kind -> content or NoItem
          Present,        \* the content an entry of the target has at the start
          NoItem,         \* no item of this kind
          MaxEdits        \* bound: entries the operator disables

VARIABLES target,         \* kind -> the live entries of the target
          created,        \* how many records were created so far
          imports,        \* the imports in progress and their reports
          edits,          \* history: entries the operator disabled
          crossed,        \* history: an import began before another had ended
          alone           \* history: imports not stopped that met no other writer since they began

ASSUME TransferAssumption == NoItem \notin {"create", "update", "failed"}

transferVars == <<target, created, imports, edits, crossed, alone>>

ItemOrder == <<"variable", "secret", "endpoint", "schedule">>
ItemKinds == Range(ItemOrder)
ReadOrder == <<{"variable", "secret"}, {"endpoint"}, {"schedule"}>>

IdleImport == [pc |-> "idle", at |-> 1, dryRun |-> FALSE, overwrite |-> FALSE,
               document |-> [k \in ItemKinds |-> NoItem], snapshot |-> [k \in ItemKinds |-> {}],
               steps |-> <<>>, report |-> [k \in ItemKinds |-> NoItem]]

\* A name is a variable or a secret, never both.
TransferInit ==
    /\ target \in [ItemKinds -> {{}, {[id |-> 0, content |-> Present]}}]
    /\ target["variable"] = {} \/ target["secret"] = {}
    /\ created = 0
    /\ imports = [i \in Imports |-> IdleImport]
    /\ edits = 0
    /\ crossed = FALSE
    /\ alone = {}

Item(i) == ItemOrder[imports[i].at]
Requested(i) == imports[i].document[Item(i)]
Open(i) == imports[i].pc \notin {"idle", "done", "stopped"}

\* parseExportDocument has accepted the document.
BeginImport(i) ==
    /\ imports[i].pc = "idle"
    /\ \E d \in Documents, dry \in BOOLEAN, over \in BOOLEAN :
         imports' = [imports EXCEPT ![i] = [IdleImport EXCEPT !.pc = "read", !.document = d,
                                               !.dryRun = dry, !.overwrite = over]]
    /\ alone' = IF \E j \in Imports : Open(j) THEN {} ELSE alone \union {i}
    /\ crossed' = (crossed \/ \E j \in Imports : Open(j))
    /\ UNCHANGED <<target, created, edits>>

\* The reads of the target, before anything is planned: configuration, then
\* endpoints and schedules when the document has some.
ReadTarget(i) ==
    LET kinds == {k \in ReadOrder[imports[i].at] : k \in ReadOrder[1] \/ imports[i].document[k] # NoItem}
        last == imports[i].at = Len(ReadOrder)
    IN  /\ imports[i].pc = "read"
        /\ imports' = [imports EXCEPT ![i].snapshot = [k \in ItemKinds |-> IF k \in kinds THEN target[k] ELSE @[k]],
                                      ![i].at = IF last THEN 1 ELSE @ + 1,
                                      ![i].pc = IF last THEN "plan" ELSE "read"]
        /\ UNCHANGED <<target, created, edits, crossed, alone>>

Differing(over) == IF over THEN "update" ELSE "conflict"

\* The name is used for the other of the two kinds that share the names.
OtherKind(kind, snapshot) ==
    \/ kind = "variable" /\ snapshot["secret"] # {}
    \/ kind = "secret" /\ snapshot["variable"] # {}

\* The entries an item is compared with: the first live endpoint of the URL,
\* whichever that is; the schedules of the slot, the variable, the binding.
Candidates(kind, found) == IF kind = "endpoint" /\ found # {} THEN {{e} : e \in found} ELSE {found}

\* Mutant form: an entry that a run left half replaced hides the new one.
OnlyThere(found, content) == \A e \in found : e.content = content

AlreadyThere(found, content) == \E e \in found : e.content = content

\* The action planned for an item.  A secret is never written; an endpoint
\* without a signing reference, and an item whose service is not mounted, would
\* be reported as skip and not written either.
Planned(kind, content, snapshot, found, over) ==
    CASE content = NoItem -> NoItem
      [] content # NoItem /\ OtherKind(kind, snapshot) -> "conflict"
      [] OTHER -> IF kind = "secret" THEN (IF found = {} THEN "missing" ELSE "unchanged")
                  ELSE IF found = {} THEN "create"
                  ELSE IF AlreadyThere(found, content) THEN "unchanged" ELSE Differing(over)

Disable(e) == [op |-> "disable", entry |-> e]
Write == [op |-> "write"]

\* Mutant form: the old entries go before the new one is there.
DisableThenCreate(kind, action, found) ==
    IF action = "update" /\ kind # "variable" THEN Append(SetToSeq({Disable(e) : e \in found}), Write) ELSE <<Write>>

\* Mutant form: what an entry replaces stays.
CreateOnly(kind, action, found) == <<Write>>

\* Endpoints and schedules are immutable: an update registers the new one,
\* then disables what it replaces; a variable is updated in place.
ItemSteps(kind, action, found) ==
    IF action = "update" /\ kind # "variable" THEN <<Write>> \o SetToSeq({Disable(e) : e \in found}) ELSE <<Write>>

Writing(import, action) == ~import.dryRun /\ action \in {"create", "update"}

\* The next step of the item, the next item, or the report.
Continue(import) ==
    IF import.steps # <<>> THEN import
    ELSE IF import.at = Len(ItemOrder) THEN [import EXCEPT !.pc = "done"]
    ELSE [import EXCEPT !.pc = "plan", !.at = @ + 1]

PlanItem(i) ==
    /\ imports[i].pc = "plan"
    /\ \E found \in Candidates(Item(i), imports[i].snapshot[Item(i)]) :
         LET action == Planned(Item(i), Requested(i), imports[i].snapshot, found, imports[i].overwrite)
         IN  imports' = [imports EXCEPT ![i] = Continue([@ EXCEPT
                !.report[Item(i)] = action,
                !.pc = "apply",
                !.steps = IF Writing(imports[i], action) THEN ItemSteps(Item(i), action, found) ELSE <<>>])]
    /\ UNCHANGED <<target, created, edits, crossed, alone>>

\* createVariable refuses a name that is used by now, updateVariable one that
\* is gone; an endpoint or a schedule gets a new record.
Accepted(i) ==
    \/ Item(i) # "variable"
    \/ imports[i].report["variable"] = "create" /\ target["variable"] = {} /\ target["secret"] = {}
    \/ imports[i].report["variable"] = "update" /\ target["variable"] # {}

\* One step of an item.  Disabling answers null for a record that is gone:
\* that is not an error.
ApplyStep(i) ==
    LET step == Head(imports[i].steps)
        kept == IF Item(i) = "variable" THEN {} ELSE target[Item(i)]
    IN  /\ imports[i].pc = "apply"
        /\ step.op = "write" => Accepted(i)
        /\ target' = [target EXCEPT ![Item(i)] =
              IF step.op = "write" THEN kept \union {[id |-> created + 1, content |-> Requested(i)]}
                                   ELSE @ \ {step.entry}]
        /\ created' = IF step.op = "write" THEN created + 1 ELSE created
        /\ imports' = [imports EXCEPT ![i] = Continue([@ EXCEPT !.steps = Tail(imports[i].steps)])]
        /\ alone' = alone \intersect {i}
        /\ UNCHANGED <<edits, crossed>>

\* The step throws (denied, unavailable, changed concurrently): the item is
\* reported with its error and the next one is tried.
FailItem(i) ==
    /\ imports[i].pc = "apply"
    /\ imports' = [imports EXCEPT ![i] = Continue([@ EXCEPT !.report[Item(i)] = "failed", !.steps = <<>>])]
    /\ UNCHANGED <<target, created, edits, crossed, alone>>

\* An operator disables an endpoint or a schedule, or deletes a variable.
OperatorDisables ==
    /\ edits < MaxEdits /\ edits' = edits + 1
    /\ \E k \in ItemKinds : \E e \in target[k] : target' = [target EXCEPT ![k] = @ \ {e}]
    /\ alone' = {}
    /\ UNCHANGED <<created, imports, crossed>>

\* The process of the import stops, before or between the writes of an item
\* (elsewhere it is as if the import ended there); somebody may import again.
StopImport(i) ==
    /\ imports[i].pc = "apply"
    /\ imports' = [imports EXCEPT ![i].pc = "stopped", ![i].steps = <<>>]
    /\ alone' = alone \ {i}
    /\ UNCHANGED <<target, created, edits, crossed>>

TransferNext ==
    \/ OperatorDisables
    \/ \E i \in Imports : BeginImport(i) \/ ReadTarget(i) \/ PlanItem(i) \/ ApplyStep(i) \/ FailItem(i) \/ StopImport(i)

TransferSpec == TransferInit /\ [][TransferNext]_transferVars

-----------------------------------------------------------------------------
\* Whatever fails, stops or overlaps, imports leave no endpoint, schedule or
\* variable without a live entry where there was one: only an operator can.
NeverCutOff == edits = 0 => \A k \in ItemKinds : target[k] # {} => target'[k] # {} \/ edits' # edits

\* An import that is a dry run writes nothing, and one without overwrite
\* removes and replaces nothing that is in the target, though its plan was
\* made from an earlier reading.
OnlyOverwriteReplaces == \A i \in Imports : imports'[i] # imports[i] =>
    /\ imports[i].dryRun => target' = target
    /\ ~imports[i].overwrite => \A k \in ItemKinds : target[k] \subseteq target'[k]

\* No step of an import takes away what it should leave, whatever happened
\* since the target was read.
ImportKeeps == [][NeverCutOff /\ OnlyOverwriteReplaces]_transferVars

\* Importing the same document again is safe: after an import that met no
\* other writer and no two endpoints of one URL, and reported no failure, a plan
\* of the same document would write nothing more (docs/configuration.md,
\* "applied items report `unchanged`").
RerunIsUnchanged == \A i \in alone :
    (/\ imports[i].pc = "done" /\ ~imports[i].dryRun
     /\ "failed" \notin Range(imports[i].report) /\ Cardinality(imports[i].snapshot["endpoint"]) <= 1) =>
      \A k \in ItemKinds : \A found \in Candidates(k, target[k]) :
        Planned(k, imports[i].document[k], target, found, imports[i].overwrite) \notin {"create", "update"}

\* The replacement of an endpoint was reported as failed, or stopped in between.
Halfway(i) ==
    \/ imports[i].report["endpoint"] = "failed"
    \/ imports[i].pc = "stopped" /\ Item(i) = "endpoint"

\* While imports take turns, however many items fail and wherever an import
\* stops before it is run again, no run creates what is there: no two live
\* entries of a kind have the same content.  An endpoint may be registered
\* twice, but only after a replacement that ended halfway: its URL has two
\* subscriptions then, and an import compares with the first it finds.
NothingTwice ==
    ~crossed => \A k \in ItemKinds : \A e, f \in target[k] :
        e # f /\ e.content = f.content => k = "endpoint" /\ \E i \in Imports : Halfway(i)
=============================================================================
