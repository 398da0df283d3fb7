---------------------------- MODULE Intelligence ----------------------------
(***************************************************************************)
(* IntelligenceService (src/src/intelligence/service.ts).  The selection   *)
(* is one configuration variable and the credential one secret binding,    *)
(* two records of the configuration store: a call that changes both writes *)
(* them one after the other.                                               *)
(*                                                                         *)
(* A destination stands for a provider with the endpoint it resolves to;   *)
(* the model name is left out.  No provider of the catalog refuses a       *)
(* credential, so a destination requires one or may have one.  A record    *)
(* has the identifier of the call that inserts it.                         *)
(***************************************************************************)
EXTENDS Naturals

CONSTANTS Destinations,   \* provider and endpoint
          Required,       \* the destinations whose provider requires a credential
          Credentials,    \* credential references
          Editors,        \* calls of the service
          Nothing         \* no credential, no record

SelectionRows == [id : Editors, dest : Destinations, version : Nat]
BindingRows == [id : Editors, ref : Credentials, version : Nat]

ASSUME IntelligenceAssumption ==
    /\ Required \subseteq Destinations
    /\ Nothing \notin Destinations \union Credentials \union SelectionRows \union BindingRows

VARIABLES selections,     \* the INTELLIGENCE_CONFIG records
          bindings,       \* the INTELLIGENCE_CREDENTIAL records
          editors,        \* the calls
          paired,         \* history: <<credential, destination>> a caller asked for
          beside,         \* history: <<call, credential, destination>> selected when the call bound it
          overlapped      \* history: two calls that write were in progress together

intelligenceVars == <<selections, bindings, editors, paired, beside, overlapped>>

Row(S) == IF S = {} THEN {Nothing} ELSE S

IdleEditor == [op |-> "none", pc |-> "idle", dest |-> Nothing, ref |-> Nothing,
               selection |-> Nothing, binding |-> Nothing, read |-> {}]

IntelligenceInit ==
    /\ selections = {} /\ bindings = {}
    /\ editors = [e \in Editors |-> IdleEditor]
    /\ paired = {} /\ beside = {}
    /\ overlapped = FALSE

EditorAt(e, pc) == editors' = [editors EXCEPT ![e].pc = pc]
Writes(op) == op \in {"set", "setCredential", "removeCredential"}
Busy(e) == Writes(editors[e].op) /\ editors[e].pc \notin {"idle", "done", "failed"}

\* own, validateSelection and requireCredentialRef have passed.
Edit(e) ==
    /\ editors[e].pc = "idle"
    /\ \E op \in {"set", "setCredential", "removeCredential", "resolveRuntime"},
          d \in Destinations \union {Nothing}, r \in Credentials \union {Nothing} :
        /\ (op = "set") <=> (d # Nothing)
        /\ (op = "setCredential") => (r # Nothing)
        /\ (op \in {"removeCredential", "resolveRuntime"}) => (r = Nothing)
        /\ editors' = [editors EXCEPT ![e] = [IdleEditor EXCEPT !.op = op, !.dest = d, !.ref = r, !.pc = "load"]]
        /\ paired' = IF op = "set" /\ r # Nothing THEN paired \union {<<r, d>>} ELSE paired
        /\ overlapped' = (overlapped \/ (Writes(op) /\ \E f \in Editors : Busy(f)))
    /\ UNCHANGED <<selections, bindings, beside>>

\* The authority denies, a read or a write of the store or of the audit fails,
\* or the process stops: what was written stays.
EditFails(e) ==
    /\ editors[e].pc \notin {"idle", "done", "failed"}
    /\ EditorAt(e, "failed")
    /\ UNCHANGED <<selections, bindings, paired, beside, overlapped>>

\* load: the two records are read side by side.
LoadSelection(e) ==
    /\ editors[e].pc = "load" /\ "selection" \notin editors[e].read
    /\ \E s \in Row(selections) :
         editors' = [editors EXCEPT ![e].selection = s, ![e].read = @ \union {"selection"}]
    /\ UNCHANGED <<selections, bindings, paired, beside, overlapped>>

LoadBinding(e) ==
    /\ editors[e].pc = "load" /\ "binding" \notin editors[e].read
    /\ \E b \in Row(bindings) :
         editors' = [editors EXCEPT ![e].binding = b, ![e].read = @ \union {"binding"}]
    /\ UNCHANGED <<selections, bindings, paired, beside, overlapped>>

\* Mutant form: a credential is kept whatever the destination.
KeepAlways(e) == editors[e].binding # Nothing /\ editors[e].ref = Nothing

DestinationChanged(e) == editors[e].selection = Nothing \/ editors[e].selection.dest # editors[e].dest
KeepCredential(e) == editors[e].binding # Nothing /\ editors[e].ref = Nothing /\ ~DestinationChanged(e)

\* What is written first, when nothing is refused.
SetStep(e) ==
    IF editors[e].dest \in Required /\ editors[e].ref = Nothing /\ ~KeepCredential(e) THEN "failed"
    ELSE IF editors[e].binding # Nothing /\ editors[e].ref = Nothing /\ ~KeepCredential(e) THEN "detach"
    ELSE IF editors[e].ref # Nothing THEN "bind"
    ELSE "save"

SetCredentialStep(e) == IF editors[e].selection = Nothing THEN "failed" ELSE "bind"

RemoveCredentialStep(e) ==
    CASE editors[e].selection = Nothing -> "failed"
      [] editors[e].selection # Nothing /\ editors[e].selection.dest \in Required -> "failed"
      [] OTHER -> IF editors[e].binding = Nothing THEN "done" ELSE "detach"

Decide(e) ==
    LET step == CASE editors[e].op = "set" -> SetStep(e)
                  [] editors[e].op = "setCredential" -> SetCredentialStep(e)
                  [] editors[e].op = "removeCredential" -> RemoveCredentialStep(e)
                  [] OTHER -> "done"
    IN  /\ editors[e].pc = "load" /\ editors[e].read = {"selection", "binding"}
        /\ EditorAt(e, step)
        /\ paired' = IF editors[e].op = "setCredential" /\ step = "bind"
                     THEN paired \union {<<editors[e].ref, editors[e].selection.dest>>} ELSE paired
        /\ UNCHANGED <<selections, bindings, beside, overlapped>>

AfterCredential(e) == IF editors[e].op = "set" THEN "save" ELSE "done"

\* deleteSecret takes the record's identifier, not its version.
Detach(e) ==
    /\ editors[e].pc = "detach"
    /\ bindings' = {b \in bindings : b.id # editors[e].binding.id}
    /\ EditorAt(e, AfterCredential(e))
    /\ UNCHANGED <<selections, paired, beside, overlapped>>

\* saveSecret: a new record, or the one that was read if its version is still
\* the same; otherwise 'Configuration changed concurrently'.
Bind(e) ==
    LET old == editors[e].binding
        row == IF old = Nothing THEN [id |-> e, ref |-> editors[e].ref, version |-> 1]
                                ELSE [old EXCEPT !.ref = editors[e].ref, !.version = @ + 1]
    IN  /\ editors[e].pc = "bind"
        /\ IF old = Nothing \/ old \in bindings
           THEN /\ bindings' = (bindings \ {old}) \union {row}
                /\ beside' = beside \union {<<e, row.ref, s.dest>> : s \in selections}
                /\ EditorAt(e, AfterCredential(e))
           ELSE EditorAt(e, "failed") /\ UNCHANGED <<bindings, beside>>
        /\ UNCHANGED <<selections, paired, overlapped>>

\* saveVariable: updateIfVersion of the record that was read.
SelectionUnchanged(e) == editors[e].selection \in selections

SaveSelection(e) ==
    LET old == editors[e].selection
        row == IF old = Nothing THEN [id |-> e, dest |-> editors[e].dest, version |-> 1]
                                ELSE [old EXCEPT !.dest = editors[e].dest, !.version = @ + 1]
    IN  /\ editors[e].pc = "save"
        /\ IF old = Nothing \/ SelectionUnchanged(e)
           THEN /\ selections' = {s \in selections : s.id # row.id} \union {row}
                /\ EditorAt(e, "done")
           ELSE EditorAt(e, "failed") /\ UNCHANGED selections
        /\ UNCHANGED <<bindings, paired, beside, overlapped>>

IntelligenceNext == \E e \in Editors :
    \/ Edit(e) \/ EditFails(e) \/ LoadSelection(e) \/ LoadBinding(e) \/ Decide(e)
    \/ Detach(e) \/ Bind(e) \/ SaveSelection(e)

IntelligenceSpec == IntelligenceInit /\ [][IntelligenceNext]_intelligenceVars

-----------------------------------------------------------------------------
\* What resolveRuntime hands to the execution boundary: the destination, and
\* the credential when one is bound.
Resolved(e) == editors[e].op = "resolveRuntime" /\ editors[e].pc = "done" /\ editors[e].selection # Nothing
                 /\ editors[e].binding # Nothing
Handed(e) == <<editors[e].binding.ref, editors[e].selection.dest>>

\* While callers take turns, a credential stands beside a destination only when
\* a caller asked for the two together, or when a `set` that was to select
\* another destination bound it and has not saved that selection, because it is
\* still to do so or failed in between: the code binds first.  A selection that
\* moves never carries along a credential it found.
Unsaved(e) == editors[e].op = "set" /\ editors[e].pc \in {"save", "failed"}
NotCarriedOver == ~overlapped => \A b \in bindings, s \in selections :
    \/ <<b.ref, s.dest>> \in paired
    \/ \E e \in Editors : Unsaved(e) /\ <<e, b.ref, s.dest>> \in beside

\* Of two calls that read the same selection only one replaces it: a record of
\* the selection is changed one version at a time.
SelectionByVersion == \A s \in selections : \A t \in selections' :
    (t.id = s.id /\ t # s) => t.version = s.version + 1

\* The service's comment "Moving it to a different destination without a new
\* credential would hand it to a host the user never chose": every pair handed
\* out is one that a caller asked for.
HandedAsChosen == \A e \in Editors : Resolved(e) => Handed(e) \in paired
=============================================================================
