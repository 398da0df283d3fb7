--------------------------- MODULE AuditedEffect ----------------------------
(***************************************************************************)
(* What the authority gateway promises about effects and their evidence,   *)
(* without calls, answers, contexts, transactions or failures: a request   *)
(* is decided once; its row says started before its effect exists and      *)
(* succeeded only when it does; a row that says denied or failed is final; *)
(* a transaction enters its rows and its effects at once.                  *)
(***************************************************************************)
CONSTANT Requests

VARIABLES
  decision, \* request -> none, or what was decided
  row,      \* request -> the outcome that its evidence row shows
  done      \* requests whose effect exists

auditVars == <<decision, row, done>>

Init ==
  /\ decision = [r \in Requests |-> "none"]
  /\ row = [r \in Requests |-> "none"]
  /\ done = {}

Decide(r) ==
  /\ decision[r] = "none"
  /\ \E d \in {"allow", "refuse"} : decision' = [decision EXCEPT ![r] = d]
  /\ UNCHANGED <<row, done>>

Enter(r, outcome) ==
  /\ row' = [row EXCEPT ![r] = outcome]
  /\ UNCHANGED <<decision, done>>

Deny(r) == decision[r] = "refuse" /\ row[r] = "none" /\ Enter(r, "denied")

Begin(r) == decision[r] = "allow" /\ row[r] = "none" /\ Enter(r, "started")

Perform(r) ==
  /\ row[r] = "started" /\ r \notin done
  /\ done' = done \union {r}
  /\ UNCHANGED <<decision, row>>

Finish(r) == row[r] = "started" /\ r \in done /\ Enter(r, "succeeded")

\* Also after Finish: a completion that took effect may have been reported as failed.
Fail(r) == row[r] \in {"started", "succeeded"} /\ Enter(r, "failed")

\* A transaction may have rows whose effects it did not queue.
Commit(audited, performed) ==
  /\ performed \subseteq audited
  /\ \A r \in audited : decision[r] = "allow" /\ row[r] = "none" /\ r \notin done
  /\ row' = [r \in Requests |-> IF r \in audited THEN "succeeded" ELSE row[r]]
  /\ done' = done \union performed
  /\ UNCHANGED decision

Next ==
  \/ \E r \in Requests : Decide(r) \/ Deny(r) \/ Begin(r) \/ Perform(r) \/ Finish(r) \/ Fail(r)
  \/ \E audited, performed \in SUBSET Requests : Commit(audited, performed)

Spec == Init /\ [][Next]_auditVars

=============================================================================
