----------------------------- MODULE Authority ------------------------------
(***************************************************************************)
(* The policy enforcement point: ServiceGateway (src/authority/gateway.ts), *)
(* execution contexts (context.ts), effect evidence (evidence.ts) and the  *)
(* transactions that use contexts (src/runtime/transaction-services.ts).   *)
(*                                                                         *)
(* A request is either a call of execute, whose effect creates a durable   *)
(* record (a job, a schedule, a delivery), or a call of authorize, whose   *)
(* context is later queued in a transaction that creates the record.  The  *)
(* record carries the decision that authorized it; whoever runs it asks    *)
(* attest for evidence of that decision.  Decisions are named by requests. *)
(*                                                                         *)
(* execute is cut at its awaits: every store write may fail, and a failed  *)
(* write may have taken effect.  expiresAt is kept as the time left.       *)
(***************************************************************************)
EXTENDS Naturals

CONSTANTS
  Requests,    \* calls of the gateway; a request names its decision as well
  Txs,         \* transactions
  ContextLife, \* CONTEXT_TTL_MS, in ticks
  MaxFaults,   \* bound: store writes that fail
  MaxCrashes   \* bound: calls whose process stops

ASSUME AuthorityAssumption ==
  /\ ContextLife \in Nat \ {0}
  /\ MaxFaults \in Nat
  /\ MaxCrashes \in Nat

VARIABLES
  pc,       \* request -> where the call waits, or how it ended
  kind,     \* request -> execute, or authorize for a transaction
  answer,   \* request -> what AuthBoundry has answered so far
  live,     \* request -> what is left of the life of its context
  consumed, \* contexts that a transaction has used
  evidence, \* request -> the outcome of its evidence row
  created,  \* requests whose durable record exists
  tx,       \* transaction -> its stage
  effects,  \* transaction -> requests whose record it has queued
  rows,     \* transaction -> requests whose evidence it has queued
  pending,  \* transaction -> requests whose endpoints are being validated
  spoiled,  \* transactions with a validation that failed
  faults, crashes, \* used-up bounds
  \* history, read by no action
  decided,   \* request -> the decision the gateway acted on
  verdicts   \* request -> what runners of its record found

callVars == <<pc, kind, answer, live, decided>>
storeVars == <<evidence, created>>
txVars == <<consumed, tx, effects, rows, pending, spoiled>>
boundVars == <<faults, crashes>>
vars == <<pc, kind, answer, live, consumed, evidence, created, tx, effects, rows,
          pending, spoiled, faults, crashes, decided, verdicts>>

Outcomes == {"none", "started", "succeeded", "failed", "denied"}

TypeOK ==
  /\ pc \in [Requests -> {"new", "deciding", "refusing", "issued", "recording", "effect",
                          "completing", "failing", "returned", "thrown"}]
  /\ kind \in [Requests -> {"execute", "authorize"}]
  /\ answer \in [Requests -> {"unasked", "asked", "allow", "deny", "error"}]
  /\ live \in [Requests -> Nat]
  /\ consumed \subseteq Requests
  /\ evidence \in [Requests -> Outcomes]
  /\ created \subseteq Requests
  /\ tx \in [Txs -> {"idle", "open", "settling", "committed", "aborted"}]
  /\ effects \in [Txs -> SUBSET Requests]
  /\ rows \in [Txs -> SUBSET Requests]
  /\ pending \in [Txs -> SUBSET Requests]
  /\ spoiled \subseteq Txs
  /\ faults \in 0..MaxFaults /\ crashes \in 0..MaxCrashes
  /\ decided \in [Requests -> {"none", "allow", "refuse"}]
  /\ verdicts \in [Requests -> SUBSET {"ran", "denied"}]

Init ==
  /\ pc = [r \in Requests |-> "new"]
  /\ kind \in [Requests -> {"execute", "authorize"}]
  /\ answer = [r \in Requests |-> "unasked"]
  /\ live = [r \in Requests |-> 0]
  /\ consumed = {}
  /\ evidence = [r \in Requests |-> "none"]
  /\ created = {}
  /\ tx = [t \in Txs |-> "idle"]
  /\ effects = [t \in Txs |-> {}]
  /\ rows = [t \in Txs |-> {}]
  /\ pending = [t \in Txs |-> {}]
  /\ spoiled = {}
  /\ faults = 0 /\ crashes = 0
  /\ decided = [r \in Requests |-> "none"]
  /\ verdicts = [r \in Requests |-> {}]

-----------------------------------------------------------------------------
(* authorize and decide *)

Goto(r, where) == pc' = [pc EXCEPT ![r] = where]

\* An error of authorize: execute records the refusal, authorize itself does not.
Refused(r) ==
  /\ Goto(r, IF kind[r] = "execute" THEN "refusing" ELSE "thrown")
  /\ decided' = [decided EXCEPT ![r] = "refuse"]

\* The capability, the resource type or the principal is wrong: nothing is recorded.
Reject(r) ==
  /\ pc[r] = "new"
  /\ Goto(r, "thrown")
  /\ UNCHANGED <<kind, answer, live, decided, storeVars, txVars, boundVars, verdicts>>

\* Ownership, or enforceCredential.
RefuseUnasked(r) ==
  /\ pc[r] = "new"
  /\ Refused(r)
  /\ UNCHANGED <<kind, answer, live, storeVars, txVars, boundVars, verdicts>>

Ask(r) ==
  /\ pc[r] = "new"
  /\ Goto(r, "deciding")
  /\ answer' = [answer EXCEPT ![r] = "asked"]
  /\ UNCHANGED <<kind, live, decided, storeVars, txVars, boundVars, verdicts>>

\* AuthBoundry answers, in time or not at all or too late; "error" stands for an
\* exception and for a decision that validateDecision rejects.
Answer(r, a) ==
  /\ answer[r] = "asked"
  /\ answer' = [answer EXCEPT ![r] = a]
  /\ UNCHANGED <<pc, kind, live, decided, storeVars, txVars, boundVars, verdicts>>

Receive(r) ==
  /\ pc[r] = "deciding"
  /\ answer[r] # "asked"
  /\ IF answer[r] = "allow"
       THEN /\ Goto(r, IF kind[r] = "execute" THEN "recording" ELSE "issued")
            /\ decided' = [decided EXCEPT ![r] = "allow"]
            /\ live' = [live EXCEPT ![r] = ContextLife]
       ELSE Refused(r) /\ UNCHANGED live
  /\ UNCHANGED <<kind, answer, storeVars, txVars, boundVars, verdicts>>

\* Mutant: a timeout that leaves it to the answer to settle the call.
TimeoutWaits(r) ==
  /\ pc[r] = "deciding" /\ answer[r] # "asked"
  /\ Refused(r)
  /\ UNCHANGED <<kind, answer, live, storeVars, txVars, boundVars, verdicts>>

\* The timer wins the race; the answer may still come, and settles nothing.
Timeout(r) ==
  /\ pc[r] = "deciding"
  /\ Refused(r)
  /\ UNCHANGED <<kind, answer, live, storeVars, txVars, boundVars, verdicts>>

-----------------------------------------------------------------------------
(* execute, after the decision *)

\* A write of the evidence row of r: it succeeds, and the call goes on at next, or it
\* fails, with or without effect, and the call goes on at onError.
WriteEvidence(r, outcome, next, onError) ==
  /\ \/ /\ evidence' = [evidence EXCEPT ![r] = outcome]
        /\ Goto(r, next)
        /\ UNCHANGED faults
     \/ /\ faults < MaxFaults
        /\ faults' = faults + 1
        /\ evidence' \in {evidence, [evidence EXCEPT ![r] = outcome]}
        /\ Goto(r, onError)
  /\ UNCHANGED <<kind, answer, live, decided, created, txVars, crashes, verdicts>>

\* recordRefusal: an error of the store is swallowed.
RecordRefusal(r) == pc[r] = "refusing" /\ WriteEvidence(r, "denied", "thrown", "thrown")

\* Mutant: the effect runs although its evidence could not be written.
RecordBestEffort(r) == pc[r] = "recording" /\ WriteEvidence(r, "started", "effect", "effect")

\* The started row.
RecordStarted(r) == pc[r] = "recording" /\ WriteEvidence(r, "started", "effect", "thrown")

\* The effect creates the record and audits it: it returns, or throws before or after
\* the record exists.
Perform(r) ==
  /\ pc[r] = "effect"
  /\ \/ /\ created' = created \union {r}
        /\ Goto(r, "completing")
     \/ /\ created' \in {created, created \union {r}}
        /\ Goto(r, "failing")
  /\ UNCHANGED <<kind, answer, live, decided, evidence, txVars, boundVars, verdicts>>

\* The succeeded outcome.  The write is inside the try: its error is handled like one
\* of the effect.
Complete(r) == pc[r] = "completing" /\ WriteEvidence(r, "succeeded", "returned", "failing")

\* Mutant: the outcome is written in a finally clause.
RecordFinally(r) == pc[r] = "failing" /\ WriteEvidence(r, "succeeded", "thrown", "thrown")

\* The catch clause: failed, provider_error or denied, which nobody tells apart; an
\* error of the store is swallowed.
RecordFailure(r) == pc[r] = "failing" /\ WriteEvidence(r, "failed", "thrown", "thrown")

\* The process stops: nobody gets a result.
Crash(r) ==
  /\ crashes < MaxCrashes
  /\ pc[r] \in {"deciding", "refusing", "recording", "effect", "completing", "failing"}
  /\ crashes' = crashes + 1
  /\ Goto(r, "thrown")
  /\ UNCHANGED <<kind, answer, live, decided, storeVars, txVars, faults, verdicts>>

-----------------------------------------------------------------------------
(* attest, by whoever runs the record *)

\* Mutant: only a completed effect attests.
AttestedWhenDone(r) == evidence[r] = "succeeded"

\* The row allows, and says started or succeeded.
Attested(r) == evidence[r] \in {"started", "succeeded"}

Run(r) ==
  /\ r \in created
  /\ verdicts' = [verdicts EXCEPT ![r] = @ \union {IF Attested(r) THEN "ran" ELSE "denied"}]
  /\ UNCHANGED <<callVars, storeVars, txVars, boundVars>>

-----------------------------------------------------------------------------
(* transaction *)

Begin(t) ==
  /\ tx[t] = "idle"
  /\ tx' = [tx EXCEPT ![t] = "open"]
  /\ UNCHANGED <<callVars, storeVars, consumed, effects, rows, pending, spoiled, boundVars, verdicts>>

\* Mutant: a context may be used again.
UsableAgain(r) == pc[r] = "issued" /\ live[r] > 0

\* consumeExecutionContext.
Usable(r) == pc[r] = "issued" /\ live[r] > 0 /\ r \notin consumed

\* The context is consumed and its evidence queued before what it was issued for is
\* compared with what is queued (its resource type is fixed by its capability).
Authorized(t, r) ==
  /\ tx[t] = "open"
  /\ Usable(r)
  /\ consumed' = consumed \union {r}
  /\ rows' = [rows EXCEPT ![t] = @ \union {r}]

\* queueJob, queueNotification.
Queue(t, r) ==
  /\ Authorized(t, r)
  /\ effects' = [effects EXCEPT ![t] = @ \union {r}]
  /\ UNCHANGED <<callVars, storeVars, tx, pending, spoiled, boundVars, verdicts>>

\* queueWebhookDeliveries: the endpoints are validated while the callback goes on.
QueueDeliveries(t, r) ==
  /\ Authorized(t, r)
  /\ pending' = [pending EXCEPT ![t] = @ \union {r}]
  /\ UNCHANGED <<callVars, storeVars, tx, effects, spoiled, boundVars, verdicts>>

\* The context does not fit what is queued, and the callback carries on: the evidence
\* stays queued without an effect.
QueueRefused(t, r) ==
  /\ Authorized(t, r)
  /\ UNCHANGED <<callVars, storeVars, tx, effects, pending, spoiled, boundVars, verdicts>>

Validate(t, r) ==
  /\ tx[t] \in {"open", "settling"}
  /\ r \in pending[t]
  /\ pending' = [pending EXCEPT ![t] = @ \ {r}]
  /\ \/ effects' = [effects EXCEPT ![t] = @ \union {r}] /\ UNCHANGED spoiled
     \/ spoiled' = spoiled \union {t} /\ UNCHANGED effects
  /\ UNCHANGED <<callVars, storeVars, consumed, tx, rows, boundVars, verdicts>>

\* The callback has returned.
Settle(t) ==
  /\ tx[t] = "open"
  /\ tx' = [tx EXCEPT ![t] = "settling"]
  /\ UNCHANGED <<callVars, storeVars, consumed, effects, rows, pending, spoiled, boundVars, verdicts>>

\* Every validation has succeeded.
Ready(t) == tx[t] = "settling" /\ pending[t] = {} /\ t \notin spoiled

\* One FeltDB transaction.
Commit(t) ==
  /\ Ready(t)
  /\ tx' = [tx EXCEPT ![t] = "committed"]
  /\ created' = created \union effects[t]
  /\ evidence' = [r \in Requests |-> IF r \in rows[t] THEN "succeeded" ELSE evidence[r]]
  /\ UNCHANGED <<callVars, consumed, effects, rows, pending, spoiled, boundVars, verdicts>>

\* The callback throws, a validation failed, FeltDB refuses or the process stops.
Abort(t) ==
  /\ tx[t] \in {"open", "settling"}
  /\ tx' = [tx EXCEPT ![t] = "aborted"]
  /\ UNCHANGED <<callVars, storeVars, consumed, effects, rows, pending, spoiled, boundVars, verdicts>>

-----------------------------------------------------------------------------

Tick ==
  /\ \E r \in Requests : live[r] > 0
  /\ live' = [r \in Requests |-> IF live[r] > 0 THEN live[r] - 1 ELSE 0]
  /\ UNCHANGED <<pc, kind, answer, decided, storeVars, txVars, boundVars, verdicts>>

\* What the process that serves r does next.
Serve(r) ==
  \/ Receive(r) \/ Timeout(r) \/ RecordRefusal(r) \/ RecordStarted(r)
  \/ Perform(r) \/ Complete(r) \/ RecordFailure(r)

Next ==
  \/ \E r \in Requests : Reject(r) \/ RefuseUnasked(r) \/ Ask(r)
  \/ \E r \in Requests, a \in {"allow", "deny", "error"} : Answer(r, a)
  \/ \E r \in Requests : Serve(r) \/ Crash(r) \/ Run(r)
  \/ \E t \in Txs : Begin(t) \/ Settle(t) \/ Commit(t) \/ Abort(t)
  \/ \E t \in Txs, r \in Requests :
       Queue(t, r) \/ QueueDeliveries(t, r) \/ QueueRefused(t, r) \/ Validate(t, r)
  \/ Tick

Spec == Init /\ [][Next]_vars

\* A call that was started goes on: stores answer, effects return and timers fire.
\* Nothing makes AuthBoundry answer.
FairSpec == Spec /\ \A r \in Requests : WF_vars(Serve(r))

-----------------------------------------------------------------------------
(* Properties *)

\* The call of execute returned a result, or the transaction that queued the record
\* was committed.
Promised(r) ==
  \/ kind[r] = "execute" /\ pc[r] = "returned"
  \/ \E t \in Txs : tx[t] = "committed" /\ r \in effects[t]

\* Nothing is created on an answer that came after the timeout, was no allow, or was
\* never given, whether through execute or through a transaction (decide, authorize).
CreatedWasAllowed == \A r \in created : decided[r] = "allow" /\ answer[r] = "allow"

\* A record never exists without an evidence row of its decision, whatever writes fail
\* and whoever crashes (run writes the started row first; commit writes both).
CreatedHasEvidence == \A r \in created : evidence[r] # "none"

\* Nothing exists without an allow that came in time and a row that records it.
RecordsSound == TypeOK /\ CreatedWasAllowed /\ CreatedHasEvidence

\* A record whose creation was reported to its caller is never turned away as
\* unattested, by a runner that looks before, between or after the evidence writes
\* (attest, run, commit).
PromisedRuns == \A r \in Requests : Promised(r) => r \in created /\ "denied" \notin verdicts[r]

\* A context authorizes one effect: no two committed transactions hold the same one,
\* also when both had it open at once or its first user was aborted (consumeExecutionContext).
SingleUse ==
  \A t1, t2 \in Txs :
    t1 # t2 => rows[t1] \intersect rows[t2] = {} /\ effects[t1] \intersect rows[t2] = {}

\* A transaction commits only what was validated: no queued delivery is left out or
\* still being looked at (_settle).
CommittedWasValidated ==
  \A t \in Txs : tx[t] = "committed" => pending[t] = {} /\ t \notin spoiled

\* Transactions use a context once and wait for their validations.
TransactionsSound == SingleUse /\ CommittedWasValidated

Audit == INSTANCE AuditedEffect WITH decision <- decided, row <- evidence, done <- created

\* Whatever answers come late, writes fail with or without effect, transactions abort and
\* processes stop, the evidence tells of every effect what AuditedEffect says (authorize,
\* run, recordRefusal, commit).
ImplementsAudit == Audit!Spec

\* Every call of execute ends, even if AuthBoundry never answers (decide's timer).
CallsEnd == \A r \in Requests : pc[r] = "deciding" ~> pc[r] \in {"returned", "thrown", "issued"}

=============================================================================
