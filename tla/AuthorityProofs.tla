--------------------------- MODULE AuthorityProofs ---------------------------
(***************************************************************************)
(* Proofs about Authority, for any sets of requests and transactions, any  *)
(* life of contexts and any number of failing writes and crashes.          *)
(***************************************************************************)
EXTENDS Authority, TLAPS

-----------------------------------------------------------------------------
(* The inductive invariant *)

\* Where a call stands tells what was decided: only execute goes on after an
\* allow, only authorize issues a context, and a call that is not decided yet,
\* or was refused, has created nothing.
StageKnows ==
  \A r \in Requests :
    /\ pc[r] \in {"recording", "effect", "completing", "failing", "returned", "issued"}
         => decided[r] = "allow" /\ answer[r] = "allow"
    /\ pc[r] \in {"refusing", "recording", "effect", "completing", "failing", "returned"} => kind[r] = "execute"
    /\ pc[r] = "issued" => kind[r] = "authorize"
    /\ pc[r] \in {"new", "deciding", "refusing", "recording"} => r \notin created

\* The row is there before the effect and says started until the call completes
\* it; a record whose call may still return was turned away by nobody.
RowKnows ==
  \A r \in Requests :
    /\ pc[r] \in {"effect", "completing"} => evidence[r] = "started" /\ "denied" \notin verdicts[r]
    /\ pc[r] \in {"completing", "returned"} => r \in created
    /\ pc[r] = "returned" => evidence[r] = "succeeded" /\ "denied" \notin verdicts[r]
    /\ pc[r] = "issued" /\ r \in created => evidence[r] = "succeeded" /\ "denied" \notin verdicts[r]
    /\ r \notin created => verdicts[r] = {}

\* What a transaction has queued it was authorized for, with a context that
\* was issued and that no other transaction has used.
QueuedWasIssued ==
  /\ \A r \in consumed : pc[r] = "issued"
  /\ \A t \in Txs : rows[t] \subseteq consumed /\ effects[t] \subseteq rows[t] /\ pending[t] \subseteq rows[t]
  /\ \A t1, t2 \in Txs : t1 # t2 => rows[t1] \intersect rows[t2] = {}

\* What was committed exists.
CommittedExists == \A t \in Txs : tx[t] = "committed" => effects[t] \subseteq created

AuthorityInv ==
  /\ TypeOK /\ CreatedWasAllowed /\ CreatedHasEvidence /\ CommittedWasValidated
  /\ StageKnows /\ RowKnows /\ QueuedWasIssued /\ CommittedExists

-----------------------------------------------------------------------------
(* Steps *)

\* Nothing was asked for and nothing exists.
LEMMA InitInv == Init => AuthorityInv
  BY AuthorityAssumption
  DEF Init, AuthorityInv, TypeOK, CreatedWasAllowed, CreatedHasEvidence, CommittedWasValidated,
              StageKnows, RowKnows, QueuedWasIssued, CommittedExists, Outcomes,
              callVars, storeVars, txVars, boundVars

\* Until it is decided a call has created nothing, and only an allow that
\* came before the timeout lets it go on.
LEMMA DecideKeepsInv ==
  ASSUME AuthorityInv, NEW r \in Requests,
         \/ Reject(r) \/ RefuseUnasked(r) \/ Ask(r) \/ Receive(r) \/ Timeout(r)
         \/ \E a \in {"allow", "deny", "error"} : Answer(r, a)
  PROVE  AuthorityInv'
  <1> USE AuthorityAssumption
      DEF AuthorityInv, TypeOK, CreatedWasAllowed, CreatedHasEvidence, CommittedWasValidated,
              StageKnows, RowKnows, QueuedWasIssued, CommittedExists, Outcomes,
              callVars, storeVars, txVars, boundVars
  <1>1. CASE Reject(r)
    BY <1>1 DEF Reject, Goto
  <1>2. CASE RefuseUnasked(r)
    BY <1>2 DEF RefuseUnasked, Refused, Goto
  <1>3. CASE Ask(r)
    BY <1>3 DEF Ask, Goto
  <1>4. CASE Receive(r)
    <2>1. CASE answer[r] = "allow"
      <3> DEFINE next == IF kind[r] = "execute" THEN "recording" ELSE "issued"
      <3>1. /\ pc[r] = "deciding"
            /\ pc' = [pc EXCEPT ![r] = next]
            /\ decided' = [decided EXCEPT ![r] = "allow"]
            /\ live' = [live EXCEPT ![r] = ContextLife]
            /\ UNCHANGED <<kind, answer, evidence, created, consumed, tx, effects, rows,
                           pending, spoiled, faults, crashes, verdicts>>
        BY <1>4, <2>1 DEF Receive, Goto
      <3>2. next \in {"recording", "issued"} /\ (next = "recording" <=> kind[r] = "execute")
        OBVIOUS
      <3> HIDE DEF next
      <3>3. TypeOK'
        BY <3>1, <3>2
      <3>4. (CreatedWasAllowed /\ CreatedHasEvidence /\ CommittedWasValidated)'
        BY <3>1
      <3>5. StageKnows'
        BY <2>1, <3>1, <3>2
      <3>6. RowKnows'
        BY <3>1, <3>2
      <3>7. (QueuedWasIssued /\ CommittedExists)'
        BY <3>1
      <3>8. QED
        BY <3>3, <3>4, <3>5, <3>6, <3>7
    <2>2. CASE answer[r] # "allow"
      <3>1. /\ pc[r] = "deciding"
            /\ pc' = [pc EXCEPT ![r] = IF kind[r] = "execute" THEN "refusing" ELSE "thrown"]
            /\ decided' = [decided EXCEPT ![r] = "refuse"]
            /\ UNCHANGED <<kind, answer, live, evidence, created, consumed, tx, effects, rows,
                           pending, spoiled, faults, crashes, verdicts>>
        BY <1>4, <2>2 DEF Receive, Refused, Goto
      <3>2. TypeOK'
        BY <3>1
      <3>3. (CreatedWasAllowed /\ CreatedHasEvidence /\ CommittedWasValidated)'
        BY <3>1
      <3>4. (StageKnows /\ RowKnows)'
        BY <3>1
      <3>5. (QueuedWasIssued /\ CommittedExists)'
        BY <3>1
      <3>6. QED
        BY <3>2, <3>3, <3>4, <3>5
    <2>3. QED
      BY <2>1, <2>2
  <1>5. CASE Timeout(r)
    BY <1>5 DEF Timeout, Refused, Goto
  <1>6. CASE \E a \in {"allow", "deny", "error"} : Answer(r, a)
    BY <1>6 DEF Answer
  <1>7. QED
    BY <1>1, <1>2, <1>3, <1>4, <1>5, <1>6

\* The row of a call is written, or not, or perhaps.
LEMMA WriteEvidenceSteps ==
  ASSUME NEW r \in Requests, NEW outcome, NEW next, NEW onError,
         WriteEvidence(r, outcome, next, onError)
  PROVE  /\ evidence' \in {evidence, [evidence EXCEPT ![r] = outcome]}
         /\ \/ pc' = [pc EXCEPT ![r] = next] /\ evidence' = [evidence EXCEPT ![r] = outcome]
            \/ pc' = [pc EXCEPT ![r] = onError]
         /\ faults' = faults \/ (faults < MaxFaults /\ faults' = faults + 1)
         /\ UNCHANGED <<kind, answer, live, decided, created, consumed, tx, effects, rows,
                        pending, spoiled, crashes, verdicts>>
  BY DEF WriteEvidence, Goto, txVars

\* A call that was decided writes its row before the effect and keeps it
\* afterwards, whatever fails; a runner that looks meanwhile is not misled.
LEMMA ExecuteKeepsInv ==
  ASSUME AuthorityInv, NEW r \in Requests,
         \/ RecordRefusal(r) \/ RecordStarted(r) \/ Perform(r) \/ Complete(r)
         \/ RecordFailure(r) \/ Crash(r) \/ Run(r)
  PROVE  AuthorityInv'
  <1> USE AuthorityAssumption
      DEF AuthorityInv, TypeOK, CreatedWasAllowed, CreatedHasEvidence, CommittedWasValidated,
              StageKnows, RowKnows, QueuedWasIssued, CommittedExists, Outcomes,
              callVars, storeVars, txVars, boundVars
  <1>1. CASE RecordRefusal(r)
    <2>1. pc[r] = "refusing" /\ WriteEvidence(r, "denied", "thrown", "thrown")
      BY <1>1 DEF RecordRefusal
    <2>2. /\ faults' \in 0..MaxFaults
          /\ UNCHANGED <<kind, answer, live, decided, created, consumed, tx, effects, rows,
                         pending, spoiled, crashes, verdicts>>
      BY <2>1, WriteEvidenceSteps
    <2>3. evidence' \in {evidence, [evidence EXCEPT ![r] = "denied"]}
      BY <2>1, WriteEvidenceSteps
    <2>4. pc' = [pc EXCEPT ![r] = "thrown"]
      BY <2>1, WriteEvidenceSteps
    <2>5. TypeOK'
      BY <2>1, <2>2, <2>3, <2>4
    <2>6. (CreatedWasAllowed /\ CreatedHasEvidence /\ CommittedWasValidated /\ CommittedExists)'
      BY <2>2, <2>3
    <2>7. (StageKnows /\ RowKnows)'
      BY <2>1, <2>2, <2>3, <2>4
    <2>8. QueuedWasIssued'
      BY <2>1, <2>2, <2>4
    <2>9. QED
      BY <2>5, <2>6, <2>7, <2>8
  <1>2. CASE RecordStarted(r)
    <2>1. pc[r] = "recording" /\ WriteEvidence(r, "started", "effect", "thrown")
      BY <1>2 DEF RecordStarted
    <2>2. /\ faults' \in 0..MaxFaults
          /\ UNCHANGED <<kind, answer, live, decided, created, consumed, tx, effects, rows,
                         pending, spoiled, crashes, verdicts>>
      BY <2>1, WriteEvidenceSteps
    <2>3. evidence' \in {evidence, [evidence EXCEPT ![r] = "started"]}
      BY <2>1, WriteEvidenceSteps
    <2>4. evidence' \in [Requests -> Outcomes]
      BY <2>3
    <2>5. (CreatedWasAllowed /\ CreatedHasEvidence /\ CommittedWasValidated /\ CommittedExists)'
      BY <2>2, <2>3
    <2>6. CASE pc' = [pc EXCEPT ![r] = "effect"] /\ evidence' = [evidence EXCEPT ![r] = "started"]
      <3>1. TypeOK'
        BY <2>2, <2>4, <2>6
      <3>2. (StageKnows /\ RowKnows)'
        BY <2>1, <2>2, <2>6
      <3>3. QueuedWasIssued'
        BY <2>1, <2>2, <2>6
      <3>4. QED
        BY <2>5, <3>1, <3>2, <3>3
    <2>7. CASE pc' = [pc EXCEPT ![r] = "thrown"]
      <3>1. TypeOK'
        BY <2>2, <2>4, <2>7
      <3>2. (StageKnows /\ RowKnows)'
        BY <2>1, <2>2, <2>3, <2>7
      <3>3. QueuedWasIssued'
        BY <2>1, <2>2, <2>7
      <3>4. QED
        BY <2>5, <3>1, <3>2, <3>3
    <2>8. QED
      BY <2>1, <2>6, <2>7, WriteEvidenceSteps
  <1>3. CASE Perform(r)
    <2>1. /\ pc[r] = "effect"
          /\ UNCHANGED <<kind, answer, live, decided, evidence, consumed, tx, effects, rows,
                         pending, spoiled, faults, crashes, verdicts>>
      BY <1>3 DEF Perform
    <2>2. CASE created' = created \union {r} /\ pc' = [pc EXCEPT ![r] = "completing"]
      BY <2>1, <2>2
    <2>3. CASE created' \in {created, created \union {r}} /\ pc' = [pc EXCEPT ![r] = "failing"]
      BY <2>1, <2>3
    <2>4. QED
      BY <1>3, <2>2, <2>3 DEF Perform, Goto
  <1>4. CASE Complete(r)
    <2>1. pc[r] = "completing" /\ WriteEvidence(r, "succeeded", "returned", "failing")
      BY <1>4 DEF Complete
    <2>2. /\ faults' \in 0..MaxFaults
          /\ UNCHANGED <<kind, answer, live, decided, created, consumed, tx, effects, rows,
                         pending, spoiled, crashes, verdicts>>
      BY <2>1, WriteEvidenceSteps
    <2>3. evidence' \in {evidence, [evidence EXCEPT ![r] = "succeeded"]}
      BY <2>1, WriteEvidenceSteps
    <2>4. evidence' \in [Requests -> Outcomes]
      BY <2>3
    <2>5. (CreatedWasAllowed /\ CreatedHasEvidence /\ CommittedWasValidated /\ CommittedExists)'
      BY <2>2, <2>3
    <2>6. CASE pc' = [pc EXCEPT ![r] = "returned"] /\ evidence' = [evidence EXCEPT ![r] = "succeeded"]
      <3>1. TypeOK'
        BY <2>2, <2>4, <2>6
      <3>2. (StageKnows /\ RowKnows)'
        BY <2>1, <2>2, <2>6
      <3>3. QueuedWasIssued'
        BY <2>1, <2>2, <2>6
      <3>4. QED
        BY <2>5, <3>1, <3>2, <3>3
    <2>7. CASE pc' = [pc EXCEPT ![r] = "failing"]
      <3>1. TypeOK'
        BY <2>2, <2>4, <2>7
      <3>2. (StageKnows /\ RowKnows)'
        BY <2>1, <2>2, <2>3, <2>7
      <3>3. QueuedWasIssued'
        BY <2>1, <2>2, <2>7
      <3>4. QED
        BY <2>5, <3>1, <3>2, <3>3
    <2>8. QED
      BY <2>1, <2>6, <2>7, WriteEvidenceSteps
  <1>5. CASE RecordFailure(r)
    <2>1. pc[r] = "failing" /\ WriteEvidence(r, "failed", "thrown", "thrown")
      BY <1>5 DEF RecordFailure
    <2>2. /\ faults' \in 0..MaxFaults
          /\ UNCHANGED <<kind, answer, live, decided, created, consumed, tx, effects, rows,
                         pending, spoiled, crashes, verdicts>>
      BY <2>1, WriteEvidenceSteps
    <2>3. evidence' \in {evidence, [evidence EXCEPT ![r] = "failed"]}
      BY <2>1, WriteEvidenceSteps
    <2>4. pc' = [pc EXCEPT ![r] = "thrown"]
      BY <2>1, WriteEvidenceSteps
    <2>5. TypeOK'
      BY <2>1, <2>2, <2>3, <2>4
    <2>6. (CreatedWasAllowed /\ CreatedHasEvidence /\ CommittedWasValidated /\ CommittedExists)'
      BY <2>2, <2>3
    <2>7. (StageKnows /\ RowKnows)'
      BY <2>1, <2>2, <2>3, <2>4
    <2>8. QueuedWasIssued'
      BY <2>1, <2>2, <2>4
    <2>9. QED
      BY <2>5, <2>6, <2>7, <2>8
  <1>6. CASE Crash(r)
    BY <1>6 DEF Crash, Goto
  <1>7. CASE Run(r)
    BY <1>7 DEF Run, Attested
  <1>8. QED
    BY <1>1, <1>2, <1>3, <1>4, <1>5, <1>6, <1>7

\* A transaction takes a context from everyone else, and commits rows and
\* records together.
LEMMA TransactionKeepsInv ==
  ASSUME AuthorityInv, NEW t \in Txs,
         \/ Begin(t) \/ Settle(t) \/ Commit(t) \/ Abort(t)
         \/ \E r \in Requests :
              Queue(t, r) \/ QueueDeliveries(t, r) \/ QueueRefused(t, r) \/ Validate(t, r)
  PROVE  AuthorityInv'
  <1> USE AuthorityAssumption
      DEF AuthorityInv, TypeOK, CreatedWasAllowed, CreatedHasEvidence, CommittedWasValidated,
              StageKnows, RowKnows, QueuedWasIssued, CommittedExists, Outcomes,
              callVars, storeVars, txVars, boundVars
  <1>1. CASE Begin(t)
    BY <1>1 DEF Begin
  <1>2. CASE Settle(t)
    BY <1>2 DEF Settle
  <1>3. CASE Commit(t)
    BY <1>3 DEF Commit, Ready
  <1>4. CASE Abort(t)
    BY <1>4 DEF Abort
  <1>5. ASSUME NEW r \in Requests, Queue(t, r)
        PROVE  AuthorityInv'
    BY <1>5 DEF Queue, Authorized, Usable
  <1>6. ASSUME NEW r \in Requests, QueueDeliveries(t, r)
        PROVE  AuthorityInv'
    BY <1>6 DEF QueueDeliveries, Authorized, Usable
  <1>7. ASSUME NEW r \in Requests, QueueRefused(t, r)
        PROVE  AuthorityInv'
    BY <1>7 DEF QueueRefused, Authorized, Usable
  <1>8. ASSUME NEW r \in Requests, Validate(t, r)
        PROVE  AuthorityInv'
    <2>1. /\ tx[t] \in {"open", "settling"} /\ r \in pending[t]
          /\ pending' = [pending EXCEPT ![t] = @ \ {r}]
          /\ UNCHANGED <<pc, kind, answer, live, decided, evidence, created, consumed, tx, rows,
                         faults, crashes, verdicts>>
      BY <1>8 DEF Validate
    <2>2. CASE effects' = [effects EXCEPT ![t] = @ \union {r}] /\ UNCHANGED spoiled
      BY <2>1, <2>2
    <2>3. CASE spoiled' = spoiled \union {t} /\ UNCHANGED effects
      BY <2>1, <2>3
    <2>4. QED
      BY <1>8, <2>2, <2>3 DEF Validate
  <1> HIDE DEF AuthorityInv
  <1>9. QED
    BY <1>1, <1>2, <1>3, <1>4, <1>5, <1>6, <1>7, <1>8

-----------------------------------------------------------------------------
(* Theorems *)

\* In every reachable state a call stands where its decision and its row allow
\* it to, and transactions hold disjoint contexts that were issued to them.
THEOREM AuthorityInvariance == Spec => []AuthorityInv
  <1>1. Init => AuthorityInv
    BY InitInv
  <1>2. AuthorityInv /\ [Next]_vars => AuthorityInv'
    <2> SUFFICES ASSUME AuthorityInv, [Next]_vars
                 PROVE  AuthorityInv'
      OBVIOUS
    <2>1. ASSUME NEW r \in Requests,
                 \/ Reject(r) \/ RefuseUnasked(r) \/ Ask(r) \/ Receive(r) \/ Timeout(r)
                 \/ \E a \in {"allow", "deny", "error"} : Answer(r, a)
          PROVE  AuthorityInv'
      BY <2>1, DecideKeepsInv
    <2>2. ASSUME NEW r \in Requests,
                 \/ RecordRefusal(r) \/ RecordStarted(r) \/ Perform(r) \/ Complete(r)
                 \/ RecordFailure(r) \/ Crash(r) \/ Run(r)
          PROVE  AuthorityInv'
      BY <2>2, ExecuteKeepsInv
    <2>3. ASSUME NEW t \in Txs,
                 \/ Begin(t) \/ Settle(t) \/ Commit(t) \/ Abort(t)
                 \/ \E r \in Requests :
                      Queue(t, r) \/ QueueDeliveries(t, r) \/ QueueRefused(t, r) \/ Validate(t, r)
          PROVE  AuthorityInv'
      BY <2>3, TransactionKeepsInv
    <2>4. CASE Tick
      BY <2>4, AuthorityAssumption
      DEF Tick, AuthorityInv, TypeOK, CreatedWasAllowed, CreatedHasEvidence, CommittedWasValidated,
              StageKnows, RowKnows, QueuedWasIssued, CommittedExists, Outcomes,
              callVars, storeVars, txVars, boundVars
    <2>5. CASE UNCHANGED vars
      BY <2>5
      DEF vars, AuthorityInv, TypeOK, CreatedWasAllowed, CreatedHasEvidence, CommittedWasValidated,
              StageKnows, RowKnows, QueuedWasIssued, CommittedExists, Outcomes,
              callVars, storeVars, txVars, boundVars
    <2>6. QED
      BY <2>1, <2>2, <2>3, <2>4, <2>5 DEF Next, Serve
  <1>3. QED
    BY <1>1, <1>2, PTL DEF Spec

\* Nothing exists without an allow that came in time and an evidence row,
\* whatever calls time out, writes fail and processes stop (authorize, decide,
\* execute, commit): for any number of calls and transactions.
THEOREM RecordsSoundAlways == Spec => []RecordsSound
  <1>1. AuthorityInv => RecordsSound
    BY DEF AuthorityInv, RecordsSound
  <1>2. QED
    BY <1>1, AuthorityInvariance, PTL

\* A record that was reported to its caller is never turned away by attest.
THEOREM PromisedRunsAlways == Spec => []PromisedRuns
  <1>1. AuthorityInv => PromisedRuns
    <2> SUFFICES ASSUME AuthorityInv, NEW r \in Requests, Promised(r)
                 PROVE  r \in created /\ "denied" \notin verdicts[r]
      BY DEF PromisedRuns
    <2>1. CASE pc[r] = "returned"
      BY <2>1 DEF AuthorityInv, RowKnows
    <2>2. CASE \E t \in Txs : tx[t] = "committed" /\ r \in effects[t]
      <3>1. r \in created
        BY <2>2 DEF AuthorityInv, CommittedExists
      <3>2. pc[r] = "issued"
        BY <2>2 DEF AuthorityInv, QueuedWasIssued
      <3>3. QED
        BY <3>1, <3>2 DEF AuthorityInv, RowKnows
    <2>3. QED
      BY <2>1, <2>2 DEF Promised
  <1>2. QED
    BY <1>1, AuthorityInvariance, PTL

\* A context authorizes one effect, however transactions overlap and abort, and a
\* transaction commits only what was validated (consumeExecutionContext, _settle).
THEOREM TransactionsSoundAlways == Spec => []TransactionsSound
  <1>1. AuthorityInv => TransactionsSound
    BY DEF AuthorityInv, QueuedWasIssued, CommittedWasValidated, SingleUse, TransactionsSound
  <1>2. QED
    BY <1>1, AuthorityInvariance, PTL

-----------------------------------------------------------------------------
(* Authority implements AuditedEffect *)

\* A call that has not come to its decision has none, one that has not come to its row
\* has none, and only a transaction that was committed writes the row of a context.
AuditKnows ==
  \A r \in Requests :
    /\ pc[r] \in {"new", "deciding"} => decided[r] = "none"
    /\ pc[r] = "refusing" => decided[r] = "refuse"
    /\ pc[r] \in {"new", "deciding", "refusing", "recording"} => evidence[r] = "none"
    /\ pc[r] = "failing" => evidence[r] \in {"started", "succeeded"}
    /\ pc[r] = "issued" /\ evidence[r] # "none"
         => \E t \in Txs : tx[t] = "committed" /\ r \in rows[t]

\* What the refinement is proved from: each step keeps the invariant and is a step, or
\* no step, of AuditedEffect.
AuditStep == AuditKnows' /\ [Audit!Next]_(Audit!auditVars)

\* Only the arrival at a decision decides, and nothing is written before it.
LEMMA DecideRefines ==
  ASSUME AuthorityInv, AuditKnows, NEW r \in Requests,
         \/ Reject(r) \/ RefuseUnasked(r) \/ Ask(r) \/ Receive(r) \/ Timeout(r)
         \/ \E a \in {"allow", "deny", "error"} : Answer(r, a)
  PROVE  AuditStep
  <1>1. UNCHANGED <<evidence, created, tx, rows>>
    BY DEF Reject, RefuseUnasked, Ask, Receive, Timeout, Answer, Refused, storeVars, txVars
  <1>2. pc \in [Requests -> {"new", "deciding", "refusing", "issued", "recording", "effect",
                             "completing", "failing", "returned", "thrown"}]
        /\ decided \in [Requests -> {"none", "allow", "refuse"}]
    BY DEF AuthorityInv, TypeOK
  <1>3. CASE UNCHANGED <<pc, decided>>
    <2>1. AuditKnows'
      BY <1>1, <1>3 DEF AuditKnows
    <2>2. QED
      BY <1>1, <1>3, <2>1 DEF AuditStep, Audit!auditVars
  <1>4. CASE /\ pc[r] = "new" /\ UNCHANGED decided
             /\ \E next \in {"deciding", "thrown"} : pc' = [pc EXCEPT ![r] = next]
    <2>1. PICK next \in {"deciding", "thrown"} : pc' = [pc EXCEPT ![r] = next]
      BY <1>4
    <2>2. AuditKnows'
      BY <1>1, <1>2, <1>4, <2>1 DEF AuditKnows
    <2>3. QED
      BY <1>1, <1>4, <2>2 DEF AuditStep, Audit!auditVars
  <1>5. CASE /\ pc[r] \in {"new", "deciding"}
             /\ \E next, d : /\ <<next, d>> \in {<<"refusing", "refuse">>, <<"thrown", "refuse">>,
                                               <<"recording", "allow">>, <<"issued", "allow">>}
                             /\ pc' = [pc EXCEPT ![r] = next]
                             /\ decided' = [decided EXCEPT ![r] = d]
    <2>1. PICK next, d : /\ <<next, d>> \in {<<"refusing", "refuse">>, <<"thrown", "refuse">>,
                                            <<"recording", "allow">>, <<"issued", "allow">>}
                         /\ pc' = [pc EXCEPT ![r] = next]
                         /\ decided' = [decided EXCEPT ![r] = d]
      BY <1>5
    <2>2. next \in {"refusing", "thrown", "recording", "issued"} /\ d \in {"allow", "refuse"}
          /\ (next = "refusing" => d = "refuse")
      BY <2>1
    <2>3. decided[r] = "none" /\ evidence[r] = "none"
      BY <1>5 DEF AuditKnows
    <2>4. AuditKnows'
      BY <1>1, <1>2, <2>1, <2>2, <2>3 DEF AuditKnows
    <2>5. Audit!Decide(r)
      BY <1>1, <2>1, <2>2, <2>3 DEF Audit!Decide
    <2>6. QED
      BY <2>4, <2>5 DEF AuditStep, Audit!Next
  <1>6. QED
    BY <1>3, <1>4, <1>5 DEF Reject, RefuseUnasked, Ask, Receive, Timeout, Answer, Refused, Goto

\* A row that may have been written: it was, or nothing was.
LEMMA WriteRefines ==
  ASSUME AuthorityInv, NEW r \in Requests, NEW outcome \in Outcomes, NEW next, NEW onError,
         WriteEvidence(r, outcome, next, onError)
  PROVE  UNCHANGED Audit!auditVars \/ Audit!Enter(r, outcome)
  BY WriteEvidenceSteps DEF Audit!auditVars, Audit!Enter

\* Each write finds the row as AuditedEffect wants it, and the effect finds it started.
LEMMA ExecuteRefines ==
  ASSUME AuthorityInv, AuditKnows, NEW r \in Requests,
         \/ RecordRefusal(r) \/ RecordStarted(r) \/ Perform(r) \/ Complete(r)
         \/ RecordFailure(r) \/ Crash(r) \/ Run(r)
  PROVE  AuditStep
  <1>1. pc \in [Requests -> {"new", "deciding", "refusing", "issued", "recording", "effect",
                             "completing", "failing", "returned", "thrown"}]
        /\ evidence \in [Requests -> Outcomes]
    BY DEF AuthorityInv, TypeOK
  <1> DEFINE Moved(next) == pc' = [pc EXCEPT ![r] = next]
  <1>2. CASE RecordRefusal(r)
    <2>1. pc[r] = "refusing" /\ WriteEvidence(r, "denied", "thrown", "thrown")
      BY <1>2 DEF RecordRefusal
    <2>2. decided[r] = "refuse" /\ evidence[r] = "none"
      BY <2>1 DEF AuditKnows
    <2>3. /\ UNCHANGED <<decided, tx, rows>> /\ Moved("thrown")
          /\ evidence' \in {evidence, [evidence EXCEPT ![r] = "denied"]}
      BY <2>1, WriteEvidenceSteps
    <2>4. AuditKnows'
      BY <1>1, <2>3 DEF AuditKnows
    <2>5. UNCHANGED Audit!auditVars \/ Audit!Deny(r)
      BY <2>1, <2>2, WriteRefines DEF Audit!Deny, Outcomes
    <2>6. QED
      BY <2>4, <2>5 DEF AuditStep, Audit!Next
  <1>3. CASE RecordStarted(r)
    <2>1. pc[r] = "recording" /\ WriteEvidence(r, "started", "effect", "thrown")
      BY <1>3 DEF RecordStarted
    <2>2. decided[r] = "allow" /\ evidence[r] = "none"
      BY <2>1 DEF AuditKnows, AuthorityInv, StageKnows
    <2>3. /\ UNCHANGED <<decided, tx, rows>> /\ (Moved("effect") \/ Moved("thrown"))
          /\ evidence' \in {evidence, [evidence EXCEPT ![r] = "started"]}
      BY <2>1, WriteEvidenceSteps
    <2>4. AuditKnows'
      BY <1>1, <2>3 DEF AuditKnows
    <2>5. UNCHANGED Audit!auditVars \/ Audit!Begin(r)
      BY <2>1, <2>2, WriteRefines DEF Audit!Begin, Outcomes
    <2>6. QED
      BY <2>4, <2>5 DEF AuditStep, Audit!Next
  <1>4. CASE Perform(r)
    <2>1. /\ pc[r] = "effect" /\ UNCHANGED <<decided, evidence, tx, rows>>
          /\ created' \in {created, created \union {r}}
          /\ (Moved("completing") \/ Moved("failing"))
      BY <1>4 DEF Perform, Goto, txVars
    <2>2. evidence[r] = "started"
      BY <2>1 DEF AuthorityInv, RowKnows
    <2>3. AuditKnows'
      BY <1>1, <2>1, <2>2 DEF AuditKnows
    <2>4. UNCHANGED Audit!auditVars \/ Audit!Perform(r)
      BY <2>1, <2>2 DEF Audit!auditVars, Audit!Perform
    <2>5. QED
      BY <2>3, <2>4 DEF AuditStep, Audit!Next
  <1>5. CASE Complete(r)
    <2>1. pc[r] = "completing" /\ WriteEvidence(r, "succeeded", "returned", "failing")
      BY <1>5 DEF Complete
    <2>2. evidence[r] = "started" /\ r \in created
      BY <2>1 DEF AuthorityInv, RowKnows
    <2>3. /\ UNCHANGED <<decided, tx, rows>> /\ (Moved("returned") \/ Moved("failing"))
          /\ evidence' \in {evidence, [evidence EXCEPT ![r] = "succeeded"]}
      BY <2>1, WriteEvidenceSteps
    <2>4. AuditKnows'
      BY <1>1, <2>2, <2>3 DEF AuditKnows
    <2>5. UNCHANGED Audit!auditVars \/ Audit!Finish(r)
      BY <2>1, <2>2, WriteRefines DEF Audit!Finish, Outcomes
    <2>6. QED
      BY <2>4, <2>5 DEF AuditStep, Audit!Next
  <1>6. CASE RecordFailure(r)
    <2>1. pc[r] = "failing" /\ WriteEvidence(r, "failed", "thrown", "thrown")
      BY <1>6 DEF RecordFailure
    <2>2. evidence[r] \in {"started", "succeeded"}
      BY <2>1 DEF AuditKnows
    <2>3. /\ UNCHANGED <<decided, tx, rows>> /\ Moved("thrown")
          /\ evidence' \in {evidence, [evidence EXCEPT ![r] = "failed"]}
      BY <2>1, WriteEvidenceSteps
    <2>4. AuditKnows'
      BY <1>1, <2>3 DEF AuditKnows
    <2>5. UNCHANGED Audit!auditVars \/ Audit!Fail(r)
      BY <2>1, <2>2, WriteRefines DEF Audit!Fail, Outcomes
    <2>6. QED
      BY <2>4, <2>5 DEF AuditStep, Audit!Next
  <1>7. CASE Crash(r) \/ Run(r)
    <2>1. /\ UNCHANGED <<decided, evidence, created, tx, rows>>
          /\ UNCHANGED pc \/ Moved("thrown")
      BY <1>7 DEF Crash, Run, Goto, callVars, storeVars, txVars
    <2>2. AuditKnows'
      BY <1>1, <2>1 DEF AuditKnows
    <2>3. QED
      BY <2>1, <2>2 DEF AuditStep, Audit!auditVars
  <1>8. QED
    BY <1>2, <1>3, <1>4, <1>5, <1>6, <1>7

\* What a transaction commits was allowed and has no row yet: its contexts were issued,
\* and another transaction that committed them would share them.
LEMMA CommitRefines ==
  ASSUME AuthorityInv, AuditKnows, NEW t \in Txs, Commit(t)
  PROVE  AuditStep
  <1>1. /\ tx[t] = "settling" /\ tx' = [tx EXCEPT ![t] = "committed"]
        /\ created' = created \union effects[t]
        /\ evidence' = [r \in Requests |-> IF r \in rows[t] THEN "succeeded" ELSE evidence[r]]
        /\ UNCHANGED <<pc, decided, rows>>
    BY DEF Commit, Ready, callVars
  <1>2. /\ rows[t] \subseteq Requests /\ effects[t] \subseteq rows[t]
        /\ \A r \in rows[t] : pc[r] = "issued"
        /\ tx \in [Txs -> {"idle", "open", "settling", "committed", "aborted"}]
    BY DEF AuthorityInv, TypeOK, QueuedWasIssued
  <1>3. ASSUME NEW r \in rows[t]
        PROVE  decided[r] = "allow" /\ evidence[r] = "none" /\ r \notin created
    <2>1. r \in Requests /\ pc[r] = "issued"
      BY <1>2
    <2>2. evidence[r] = "none"
      <3> SUFFICES ASSUME evidence[r] # "none" PROVE FALSE
        OBVIOUS
      <3>1. PICK u \in Txs : tx[u] = "committed" /\ r \in rows[u]
        BY <2>1 DEF AuditKnows
      <3>2. u # t
        BY <1>1, <3>1
      <3>3. QED
        BY <3>1, <3>2 DEF AuthorityInv, QueuedWasIssued
    <2>3. QED
      BY <2>1, <2>2 DEF AuthorityInv, StageKnows, CreatedHasEvidence
  <1>4. Audit!Commit(rows[t], effects[t])
    BY <1>1, <1>2, <1>3 DEF Audit!Commit
  <1>5. AuditKnows'
    <2> SUFFICES ASSUME NEW r \in Requests
                 PROVE  /\ pc[r] \in {"new", "deciding"} => decided[r] = "none"
                        /\ pc[r] = "refusing" => decided[r] = "refuse"
                        /\ pc[r] \in {"new", "deciding", "refusing", "recording"} => evidence'[r] = "none"
                        /\ pc[r] = "failing" => evidence'[r] \in {"started", "succeeded"}
                        /\ pc[r] = "issued" /\ evidence'[r] # "none"
                             => \E u \in Txs : tx'[u] = "committed" /\ r \in rows[u]
      BY <1>1 DEF AuditKnows
    <2>1. CASE r \in rows[t]
      BY <1>1, <1>2, <2>1
    <2>2. CASE r \notin rows[t]
      <3>1. evidence'[r] = evidence[r]
        BY <1>1, <2>2
      <3>2. \A u \in Txs : tx[u] = "committed" => tx'[u] = "committed"
        BY <1>1, <1>2
      <3>3. QED
        BY <3>1, <3>2 DEF AuditKnows
    <2>3. QED
      BY <2>1, <2>2
  <1>6. Audit!Next
    <2>1. rows[t] \in SUBSET Requests /\ effects[t] \in SUBSET Requests
      BY <1>2
    <2>2. QED
      BY <1>4, <2>1, Zenon DEF Audit!Next
  <1>7. QED
    BY <1>5, <1>6 DEF AuditStep

\* Everything else a transaction does is seen in neither the rows nor the records.
LEMMA TransactionRefines ==
  ASSUME AuthorityInv, AuditKnows, NEW t \in Txs,
         \/ Begin(t) \/ Settle(t) \/ Abort(t)
         \/ \E r \in Requests :
              Queue(t, r) \/ QueueDeliveries(t, r) \/ QueueRefused(t, r) \/ Validate(t, r)
  PROVE  AuditStep
  <1>1. UNCHANGED <<pc, decided, evidence, created>>
    BY DEF Begin, Settle, Abort, Queue, QueueDeliveries, QueueRefused, Validate, callVars, storeVars
  <1>2. tx[t] # "committed" /\ \E s : tx' = [tx EXCEPT ![t] = s]
    <2>1. tx = [tx EXCEPT ![t] = tx[t]]
      BY DEF AuthorityInv, TypeOK
    <2>2. QED
      BY <2>1 DEF Begin, Settle, Abort, Queue, QueueDeliveries, QueueRefused, Validate, Authorized
  <1>3. \A u \in Txs : u # t => rows'[u] = rows[u]
    BY DEF AuthorityInv, TypeOK, Begin, Settle, Abort, Queue, QueueDeliveries, QueueRefused, Validate, Authorized
  <1>4. \A u \in Txs : tx[u] = "committed" => tx'[u] = "committed" /\ rows'[u] = rows[u]
    BY <1>2, <1>3 DEF AuthorityInv, TypeOK
  <1>5. AuditKnows'
    BY <1>1, <1>4 DEF AuditKnows
  <1>6. QED
    BY <1>1, <1>5 DEF AuditStep, Audit!auditVars

\* The gateway, its contexts and its transactions implement AuditedEffect, for any number
\* of calls and transactions and any number of failing writes and crashes: every effect is
\* decided, recorded and performed in the order that its evidence tells.
THEOREM AuditRefinement == Spec => ImplementsAudit
  <1>1. Init => AuditKnows /\ Audit!Init
    BY DEF Init, AuditKnows, Audit!Init
  <1>2. AuthorityInv /\ AuditKnows /\ [Next]_vars => AuditStep
    <2> SUFFICES ASSUME AuthorityInv, AuditKnows, [Next]_vars
                 PROVE  AuditStep
      OBVIOUS
    <2>1. ASSUME NEW r \in Requests,
                 \/ Reject(r) \/ RefuseUnasked(r) \/ Ask(r) \/ Receive(r) \/ Timeout(r)
                 \/ \E a \in {"allow", "deny", "error"} : Answer(r, a)
          PROVE  AuditStep
      BY <2>1, DecideRefines
    <2>2. ASSUME NEW r \in Requests,
                 \/ RecordRefusal(r) \/ RecordStarted(r) \/ Perform(r) \/ Complete(r)
                 \/ RecordFailure(r) \/ Crash(r) \/ Run(r)
          PROVE  AuditStep
      BY <2>2, ExecuteRefines
    <2>3. ASSUME NEW t \in Txs, Commit(t)
          PROVE  AuditStep
      BY <2>3, CommitRefines
    <2>4. ASSUME NEW t \in Txs,
                 \/ Begin(t) \/ Settle(t) \/ Abort(t)
                 \/ \E r \in Requests :
                      Queue(t, r) \/ QueueDeliveries(t, r) \/ QueueRefused(t, r) \/ Validate(t, r)
          PROVE  AuditStep
      BY <2>4, TransactionRefines
    <2>5. CASE Tick \/ UNCHANGED vars
      <3>1. UNCHANGED <<pc, decided, evidence, created, tx, rows>>
        BY <2>5 DEF Tick, vars, storeVars, txVars
      <3>2. QED
        BY <3>1 DEF AuditStep, AuditKnows, Audit!auditVars
    <2>6. QED
      BY <2>1, <2>2, <2>3, <2>4, <2>5 DEF Next, Serve
  <1>3. QED
    BY <1>1, <1>2, AuthorityInvariance, PTL DEF Spec, ImplementsAudit, Audit!Spec, AuditStep
=============================================================================
