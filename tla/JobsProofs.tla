----------------------------- MODULE JobsProofs -----------------------------
(***************************************************************************)
(* Proofs about Jobs, for any number of jobs, executors and callers, any   *)
(* maxAttempts, lease and delay, and any values of the bounds.             *)
(***************************************************************************)
EXTENDS Jobs, TLAPS

-----------------------------------------------------------------------------
(* Type correctness *)

\* The initial state is well typed.
LEMMA InitTypeOK == Init => TypeOK
  BY JobsAssumption DEF Init, TypeOK, Record, Statuses, AbsentJob, NoSnapshot, Snapshot, NoRequest

\* Changing status and attempt count changes nothing else.
LEMMA OutcomeFields ==
  ASSUME NEW r \in Record, NEW s \in Statuses, NEW n \in Nat
  PROVE  /\ Outcome(r, s, n) \in Record
         /\ Outcome(r, s, n).status = s
         /\ Outcome(r, s, n).attemptCount = n
         /\ Outcome(r, s, n).leaseExpiresAt = r.leaseExpiresAt
  BY DEF Outcome, Record

\* What a claim makes of a record.
LEMMA ClaimFields ==
  ASSUME NEW r \in Record
  PROVE  \E new \in Record :
           /\ new = [r EXCEPT !.status = "running", !.leaseExpiresAt = LeaseDuration]
           /\ new.status = "running" /\ new.attemptCount = r.attemptCount
  <1>1. PICK n \in Nat : n = LeaseDuration
    BY JobsAssumption
  <1>2. PICK s \in Statuses : s = "running"
    BY DEF Statuses
  <1> DEFINE new == [r EXCEPT !.status = s, !.leaseExpiresAt = n]
  <1>3. new \in Record
    BY DEF Record
  <1>4. new.status = s /\ new.attemptCount = r.attemptCount
    BY DEF Record
  <1>5. QED
    BY <1>1, <1>2, <1>3, <1>4

\* What a manual retry makes of a record.
LEMMA ResetFields ==
  ASSUME NEW r \in Record
  PROVE  /\ [Outcome(r, "pending", 0) EXCEPT !.nextAttemptAt = 0] \in Record
         /\ [Outcome(r, "pending", 0) EXCEPT !.nextAttemptAt = 0].status = "pending"
         /\ [Outcome(r, "pending", 0) EXCEPT !.nextAttemptAt = 0].attemptCount = 0
  <1>1. PICK n \in Nat : n = 0
    OBVIOUS
  <1>2. "pending" \in Statuses
    BY DEF Statuses
  <1>3. PICK o \in Record : o = Outcome(r, "pending", n) /\ o.status = "pending" /\ o.attemptCount = n
    BY <1>2, OutcomeFields
  <1>4. /\ [o EXCEPT !.nextAttemptAt = n] \in Record
        /\ [o EXCEPT !.nextAttemptAt = n].status = "pending"
        /\ [o EXCEPT !.nextAttemptAt = n].attemptCount = n
    BY <1>3 DEF Record
  <1>5. QED
    BY <1>1, <1>3, <1>4

\* Passing time runs the remaining times down and changes nothing else.
LEMMA ElapsedFields ==
  ASSUME NEW r \in Record
  PROVE  /\ Elapsed(r) \in Record
         /\ Elapsed(r).status = r.status
         /\ Elapsed(r).attemptCount = r.attemptCount
         /\ Elapsed(r).version = r.version
         /\ Elapsed(r).leaseExpiresAt = Less(r.leaseExpiresAt)
  <1>1. PICK a \in Nat, b \in Nat, c \in Nat :
          a = Less(r.runAt) /\ b = Less(r.nextAttemptAt) /\ c = Less(r.leaseExpiresAt)
    BY DEF Less, Record
  <1>2. Elapsed(r) = [r EXCEPT !.runAt = a, !.nextAttemptAt = b, !.leaseExpiresAt = c]
    BY <1>1 DEF Elapsed
  <1>3. QED
    BY <1>1, <1>2 DEF Record

\* A versioned write puts the new record in place, one version up, and leaves the
\* other records alone.
LEMMA WriteEffect ==
  ASSUME TypeOK, NEW j \in JobIds, NEW new \in Record,
         jobs' = [jobs EXCEPT ![j] = Written(j, new)]
  PROVE  /\ jobs' \in [JobIds -> Record]
         /\ jobs'[j].version = jobs[j].version + 1
         /\ jobs'[j].status = new.status
         /\ jobs'[j].attemptCount = new.attemptCount
         /\ jobs'[j].leaseExpiresAt = new.leaseExpiresAt
         /\ \A k \in JobIds : k # j => jobs'[k] = jobs[k]
  <1>1. PICK n \in Nat : n = jobs[j].version + 1
    BY DEF TypeOK, Record
  <1>2. Written(j, new) = [new EXCEPT !.version = n]
    BY <1>1 DEF Written
  <1>3. /\ Written(j, new) \in Record
        /\ Written(j, new).version = n
        /\ Written(j, new).status = new.status
        /\ Written(j, new).attemptCount = new.attemptCount
        /\ Written(j, new).leaseExpiresAt = new.leaseExpiresAt
    BY <1>2 DEF Record
  <1>4. QED
    BY <1>1, <1>3 DEF TypeOK

\* The record after a failed attempt: one more attempt, no longer running, and a
\* backoff that is a natural number.
LEMMA AfterFailureFields ==
  ASSUME TypeOK, NEW w \in Executors, pc[w] # "idle"
  PROVE  /\ AfterFailure(w) \in Record
         /\ AfterFailure(w).status = IF LastAttempt(w) THEN "failed" ELSE "retrying"
         /\ AfterFailure(w).attemptCount = seen[w].attemptCount + 1
  <1> DEFINE n == seen[w].attemptCount + 1
  <1>1. Current(w) \in Record /\ seen[w].attemptCount \in Nat /\ n \in Nat
    BY DEF TypeOK, Current
  <1> HIDE DEF n
  <1>2. CASE LastAttempt(w)
    <2>1. AfterFailure(w) = Outcome(Current(w), "failed", n)
      BY <1>2 DEF AfterFailure, n
    <2>2. "failed" \in Statuses
      BY DEF Statuses
    <2>3. AfterFailure(w) \in Record /\ AfterFailure(w).status = "failed" /\ AfterFailure(w).attemptCount = n
      BY <1>1, <2>1, <2>2, OutcomeFields
    <2>4. QED
      BY <1>2, <2>3 DEF n
  <1>3. CASE ~LastAttempt(w)
    <2>1. Backoff(seen[w].attemptCount) \in Nat
      BY <1>1, <1>3, JobsAssumption, BackoffAssumption DEF LastAttempt
    <2>2. PICK r \in Record : /\ r = Outcome(Current(w), "retrying", n)
                              /\ r.status = "retrying" /\ r.attemptCount = n
      <3>1. "retrying" \in Statuses
        BY DEF Statuses
      <3>2. QED
        BY <1>1, <3>1, OutcomeFields
    <2>3. AfterFailure(w) = [r EXCEPT !.nextAttemptAt = Backoff(seen[w].attemptCount)]
      BY <1>3, <2>2 DEF AfterFailure, n
    <2>4. AfterFailure(w) \in Record /\ AfterFailure(w).status = "retrying" /\ AfterFailure(w).attemptCount = n
      BY <2>1, <2>2, <2>3 DEF Record
    <2>5. QED
      BY <1>3, <2>4 DEF n
  <1>4. QED
    BY <1>2, <1>3

\* Returning from executeJob leaves the executor well typed.
LEMMA ReturnType ==
  ASSUME TypeOK, NEW w \in Executors, Return(w)
  PROVE  /\ pc' \in [Executors -> {"idle", "abandoned", "claim", "authorize", "handler"}]
         /\ target' \in [Executors -> JobIds \union {NoJob}]
         /\ seen' \in [Executors -> [version: Nat, attemptCount: Nat]]
         /\ held' \in [Executors -> Nat]
         /\ \A x \in Executors : pc'[x] # "idle" => target'[x] \in JobIds
  BY DEF TypeOK, Return, NoSnapshot, Snapshot, AbsentJob

\* A settlement with a well-typed record preserves type correctness.
LEMMA SettleType ==
  ASSUME TypeOK, NEW w \in Executors, pc[w] # "idle",
         NEW new \in Record, NEW consumes \in BOOLEAN,
         Settle(w, new, consumes), outages' \in 0..MaxOutages
  PROVE  TypeOK'
  <1>1. target[w] \in JobIds
    BY DEF TypeOK
  <1>2. jobs' \in [JobIds -> Record]
    BY <1>1, WriteEffect DEF Settle, TypeOK
  <1>3. excused' \in [JobIds -> Nat]
    <2>1. CASE UNCHANGED excused \/ excused' = [excused EXCEPT ![target[w]] = @ + 1]
      BY <1>1, <2>1 DEF TypeOK
    <2>2. QED
      BY <1>1, <2>1 DEF Settle, TypeOK
  <1>4. Return(w)
    BY DEF Settle
  <1>5. QED
    BY <1>2, <1>3, <1>4, ReturnType DEF Settle, TypeOK

\* Every step preserves type correctness.
LEMMA NextTypeOK == TypeOK /\ [Next]_vars => TypeOK'
  <1> SUFFICES ASSUME TypeOK, [Next]_vars PROVE TypeOK'
    OBVIOUS
  <1> USE JobsAssumption
  <1>1. ASSUME NEW j \in JobIds, NEW delay \in 0..MaxRunAt, CreateJob(j, delay) PROVE TypeOK'
    <2>1. NewJob(delay) \in Record
      BY DEF NewJob, Record, Statuses
    <2>2. jobs' \in [JobIds -> Record]
      BY <1>1, <2>1 DEF CreateJob, TypeOK
    <2>3. QED
      BY <1>1, <2>2 DEF CreateJob, TypeOK, execVars, boundVars, historyVars
  <1>2. ASSUME NEW w \in Executors, ListDue(w) PROVE TypeOK'
    <2>1. due' \in [Executors -> SUBSET JobIds]
      BY <1>2 DEF ListDue, TypeOK, DueJobs
    <2>2. QED
      BY <1>2, <2>1 DEF ListDue, TypeOK, boundVars, historyVars
  <1>3. ASSUME NEW w \in Executors, NEW j \in JobIds, ReadJob(w, j) PROVE TypeOK'
    <2>1. Snapshot(jobs[j]) \in [version: Nat, attemptCount: Nat]
      BY DEF TypeOK, Record, Snapshot
    <2>2. due' \in [Executors -> SUBSET JobIds]
      BY <1>3 DEF ReadJob, TypeOK
    <2>3. CASE LeaseHeld(jobs[j])
      BY <1>3, <2>2, <2>3 DEF ReadJob, TypeOK, boundVars, historyVars
    <2>4. CASE ~LeaseHeld(jobs[j])
      <3>1. /\ pc' \in [Executors -> {"idle", "abandoned", "claim", "authorize", "handler"}]
            /\ target' \in [Executors -> JobIds \union {NoJob}]
            /\ \A x \in Executors : pc'[x] # "idle" => target'[x] \in JobIds
        <4>1. PICK p \in {"abandoned", "claim"} : pc' = [pc EXCEPT ![w] = p]
          BY <1>3, <2>4 DEF ReadJob
        <4>2. target' = [target EXCEPT ![w] = j]
          BY <1>3, <2>4 DEF ReadJob
        <4>3. QED
          BY <4>1, <4>2 DEF TypeOK
      <3>2. seen' \in [Executors -> [version: Nat, attemptCount: Nat]]
        BY <1>3, <2>1, <2>4 DEF ReadJob, TypeOK
      <3>3. QED
        BY <1>3, <2>2, <3>1, <3>2 DEF ReadJob, TypeOK, boundVars, historyVars
    <2>5. QED
      BY <2>3, <2>4
  <1>4. ASSUME NEW w \in Executors, CountAbandoned(w) PROVE TypeOK'
    <2> DEFINE j == target[w]
               n == seen[w].attemptCount + 1
    <2>1. j \in JobIds /\ n \in Nat /\ jobs[j] \in Record
      BY <1>4 DEF CountAbandoned, TypeOK
    <2>2. Outcome(jobs[j], "failed", n) \in Record /\ Outcome(jobs[j], "running", n) \in Record
      <3> HIDE DEF j, n
      <3>1. QED BY <2>1, OutcomeFields DEF Statuses
    <2>3. CASE Return(w)
      <3>1. jobs' \in [JobIds -> Record]
        BY <1>4, <2>1, <2>2, <2>3, WriteEffect DEF CountAbandoned, TypeOK
      <3>2. QED
        BY <1>4, <2>3, <3>1, ReturnType DEF CountAbandoned, TypeOK, boundVars, historyVars
    <2>4. CASE ~Return(w)
      <3>1. jobs' = [jobs EXCEPT ![j] = Written(j, Outcome(jobs[j], "running", n))]
        BY <1>4, <2>4 DEF CountAbandoned
      <3>2. jobs' \in [JobIds -> Record]
        BY <3>1, <2>1, <2>2, WriteEffect
      <3>3. Snapshot(jobs'[j]) \in [version: Nat, attemptCount: Nat]
        BY <3>2, <2>1 DEF Snapshot, Record
      <3>4. /\ pc' = [pc EXCEPT ![w] = "claim"]
            /\ seen' = [seen EXCEPT ![w] = Snapshot(jobs'[j])]
            /\ UNCHANGED <<target, held, due, asked, boundVars, historyVars>>
        BY <1>4, <2>4 DEF CountAbandoned
      <3>5. seen' \in [Executors -> [version: Nat, attemptCount: Nat]]
        BY <3>3, <3>4 DEF TypeOK
      <3>6. QED
        BY <2>1, <3>2, <3>4, <3>5 DEF TypeOK, boundVars, historyVars
    <2>5. QED
      BY <2>3, <2>4
  <1>5. ASSUME NEW w \in Executors, Claim(w) PROVE TypeOK'
    <2> DEFINE j == target[w]
               new == [jobs[j] EXCEPT !.status = "running", !.leaseExpiresAt = LeaseDuration]
    <2>1. j \in JobIds /\ new \in Record
      <3>1. j \in JobIds /\ jobs[j] \in Record
        BY <1>5 DEF Claim, TypeOK
      <3>2. QED
        BY <3>1 DEF Record, Statuses
    <2>2. CASE Return(w) /\ UNCHANGED <<jobs, holder, claims>>
      BY <1>5, <2>2, ReturnType DEF Claim, TypeOK, boundVars
    <2>3. CASE ~(Return(w) /\ UNCHANGED <<jobs, holder, claims>>)
      <3>1. jobs' = [jobs EXCEPT ![j] = Written(j, new)]
        BY <1>5, <2>3 DEF Claim
      <3>2. jobs' \in [JobIds -> Record]
        BY <3>1, <2>1, WriteEffect
      <3>3. Snapshot(jobs'[j]) \in [version: Nat, attemptCount: Nat]
        BY <3>2, <2>1 DEF Snapshot, Record
      <3>4. /\ pc' = [pc EXCEPT ![w] = "authorize"]
            /\ seen' = [seen EXCEPT ![w] = Snapshot(jobs'[j])]
            /\ held' = [held EXCEPT ![w] = LeaseDuration]
            /\ holder' = [holder EXCEPT ![j] = w]
            /\ claims' = [claims EXCEPT ![j] = @ + 1]
            /\ UNCHANGED <<target, due, asked, boundVars, excused, resetAt>>
        BY <1>5, <2>3 DEF Claim
      <3>5. seen' \in [Executors -> [version: Nat, attemptCount: Nat]]
        BY <3>3, <3>4 DEF TypeOK
      <3>6. held' \in [Executors -> Nat] /\ claims' \in [JobIds -> Nat]
        BY <2>1, <3>4 DEF TypeOK
      <3>7. QED
        BY <2>1, <3>2, <3>4, <3>5, <3>6 DEF TypeOK, boundVars
    <2>4. QED
      BY <2>2, <2>3
  <1>6. ASSUME NEW w \in Executors, NoHandler(w) \/ Deny(w) \/ Postpone(w) \/ Complete(w) \/ Fail(w)
        PROVE TypeOK'
    <2>1. pc[w] # "idle" /\ outages' \in 0..MaxOutages
      <3>1. pc[w] # "idle"
        BY <1>6 DEF NoHandler, Deny, Postpone, Complete, Fail, Executing
      <3>2. UNCHANGED outages \/ (outages < MaxOutages /\ outages' = outages + 1)
        BY <1>6 DEF NoHandler, Deny, Postpone, Complete, Fail
      <3>3. QED
        BY <3>1, <3>2 DEF TypeOK
    <2>2. Current(w) \in Record
      BY <2>1 DEF Current, TypeOK
    <2>3. /\ [Current(w) EXCEPT !.status = "failed"] \in Record
          /\ [Current(w) EXCEPT !.status = "completed"] \in Record
          /\ [Current(w) EXCEPT !.status = "retrying", !.nextAttemptAt = RetryDelay] \in Record
      BY <2>2 DEF Record, Statuses
    <2>4. AfterFailure(w) \in Record
      BY <2>1, AfterFailureFields
    <2>5. QED
      BY <1>6, <2>1, <2>3, <2>4, SettleType DEF NoHandler, Deny, Postpone, Complete, Fail
  <1>7. ASSUME NEW w \in Executors, StartHandler(w) PROVE TypeOK'
    BY <1>7 DEF StartHandler, TypeOK, boundVars, historyVars
  <1>8. ASSUME NEW w \in Executors, Crash(w) PROVE TypeOK'
    BY <1>8, ReturnType DEF Crash, TypeOK, historyVars
  <1>9. ASSUME NEW c \in Callers, NEW j \in JobIds, RequestRetry(c, j) PROVE TypeOK'
    BY <1>9 DEF RequestRetry, TypeOK, Record, NoRequest, execVars, historyVars
  <1>10. ASSUME NEW c \in Callers, ResetJob(c) PROVE TypeOK'
    <2> DEFINE j == asked[c].job
               new == [Outcome(jobs[j], "pending", 0) EXCEPT !.nextAttemptAt = 0]
    <2>1. j \in JobIds /\ new \in Record
      <3>1. j \in JobIds /\ jobs[j] \in Record
        BY <1>10 DEF ResetJob, TypeOK
      <3>2. QED
        BY <3>1, ResetFields
    <2>2. asked' \in [Callers -> [job: JobIds \union {NoJob}, version: Nat]]
      BY <1>10 DEF ResetJob, TypeOK, NoRequest
    <2>3. \A x \in Callers : asked'[x] # NoRequest => asked'[x].job \in JobIds
      BY <1>10 DEF ResetJob, TypeOK
    <2>4. CASE VersionMatches(j, asked[c].version)
      <3>1. jobs' = [jobs EXCEPT ![j] = Written(j, new)]
        BY <1>10, <2>4 DEF ResetJob
      <3>2. jobs' \in [JobIds -> Record]
        BY <3>1, <2>1, WriteEffect
      <3>3. jobs'[j].version \in Nat
        BY <3>2, <2>1 DEF Record
      <3>4. /\ claims' = [claims EXCEPT ![j] = 0]
            /\ excused' = [excused EXCEPT ![j] = 0]
            /\ resetAt' = [resetAt EXCEPT ![j] = jobs'[j].version]
            /\ UNCHANGED <<execVars, boundVars, holder>>
        BY <1>10, <2>4 DEF ResetJob
      <3>5. claims' \in [JobIds -> Nat] /\ excused' \in [JobIds -> Nat] /\ resetAt' \in [JobIds -> Nat]
        BY <2>1, <3>3, <3>4 DEF TypeOK
      <3>6. QED
        BY <2>2, <2>3, <3>2, <3>4, <3>5 DEF TypeOK, execVars, boundVars
    <2>5. CASE ~VersionMatches(j, asked[c].version)
      BY <1>10, <2>2, <2>3, <2>5 DEF ResetJob, TypeOK, execVars, boundVars
    <2>6. QED
      BY <2>4, <2>5
  <1>11. ASSUME NEW c \in Callers, RefuseRetry(c) PROVE TypeOK'
    BY <1>11 DEF RefuseRetry, TypeOK, NoRequest, execVars, boundVars, historyVars
  <1>12. ASSUME Tick PROVE TypeOK'
    <2>1. \A j \in JobIds : Elapsed(jobs[j]) \in Record
      BY ElapsedFields DEF TypeOK
    <2>2. \A w \in Executors : Less(held[w]) \in Nat
      BY DEF TypeOK, Less
    <2>3. QED
      BY <1>12, <2>1, <2>2 DEF Tick, TypeOK, boundVars, historyVars
  <1>13. CASE UNCHANGED vars
    BY <1>13 DEF vars, TypeOK
  <1>14. QED
    BY <1>1, <1>2, <1>3, <1>4, <1>5, <1>6, <1>7, <1>8, <1>9, <1>10, <1>11, <1>12, <1>13
    DEF Next, Execute

\* Type correctness of the job queue in every reachable state: records, versions,
\* remaining times and executors stay in their domains, whatever the constants.
THEOREM TypeCorrect == Spec => []TypeOK
  BY InitTypeOK, NextTypeOK, PTL DEF Spec

-----------------------------------------------------------------------------
(* The inductive invariant *)

\* The invariant holds before any job exists.
LEMMA InitInv == Init => Inv
  BY DEF Init, Inv, CreatedFirst, NoFutureVersion, FreshKnows, LeaseKeepsFresh, AttemptsAccounted,
         Fresh, Executing, AbsentJob, NoRequest, One, TypeOK

\* The part of the invariant that speaks of one executor.
ExecutorInv(w) ==
  /\ \A j \in JobIds : j \in due[w] => jobs[j].status # "absent"
  /\ pc[w] # "idle" => /\ jobs[target[w]].status # "absent"
                       /\ seen[w].version <= jobs[target[w]].version
  /\ Fresh(w) =>
       /\ seen[w].attemptCount = jobs[target[w]].attemptCount
       /\ pc[w] = "abandoned" => Abandoned(jobs[target[w]])
       /\ pc[w] = "claim" /\ jobs[target[w]].status = "running" =>
            /\ jobs[target[w]].leaseExpiresAt = 0
            /\ claims[target[w]] <= jobs[target[w]].attemptCount + excused[target[w]]
       /\ Executing(w) =>
            /\ jobs[target[w]].status = "running"
            /\ jobs[target[w]].leaseExpiresAt = held[w]
            /\ holder[target[w]] = w
  /\ Executing(w) /\ held[w] > 0 => Fresh(w) \/ seen[w].version < resetAt[target[w]]

\* The part that speaks of one job, and the part that speaks of one caller.
JobInv(j) ==
  /\ jobs[j].status = "absent" => claims[j] = 0 /\ resetAt[j] = 0
  /\ resetAt[j] <= jobs[j].version
  /\ claims[j] <= jobs[j].attemptCount + excused[j] + One(jobs[j].status = "running")

CallerInv(c) == asked[c] # NoRequest => jobs[asked[c].job].status # "absent"

\* The invariant, regrouped.
LEMMA InvByParts ==
  ASSUME TypeOK
  PROVE  Inv <=> /\ \A w \in Executors : ExecutorInv(w)
                 /\ \A j \in JobIds : JobInv(j)
                 /\ \A c \in Callers : CallerInv(c)
  BY DEF Inv, CreatedFirst, NoFutureVersion, FreshKnows, LeaseKeepsFresh, AttemptsAccounted,
         ExecutorInv, JobInv, CallerInv, TypeOK

\* The same, about the state a step leads to.
LEMMA InvFromPartsNext ==
  ASSUME TypeOK', \A w \in Executors : ExecutorInv(w)', \A j \in JobIds : JobInv(j)',
         \A c \in Callers : CallerInv(c)'
  PROVE  Inv'
  BY DEF Inv, CreatedFirst, NoFutureVersion, FreshKnows, LeaseKeepsFresh, AttemptsAccounted,
         ExecutorInv, JobInv, CallerInv, TypeOK

\* x waits where it waited, with what it held.
Unmoved(x) ==
  /\ pc'[x] = pc[x] /\ target'[x] = target[x] /\ seen'[x] = seen[x]
  /\ held'[x] = held[x] /\ due'[x] = due[x]

\* The step writes job j and no other.
WritesOnly(j) ==
  /\ jobs'[j].version = jobs[j].version + 1
  /\ jobs'[j].status # "absent"
  /\ \A k \in JobIds : k # j =>
       /\ jobs'[k] = jobs[k]
       /\ claims'[k] = claims[k] /\ excused'[k] = excused[k]
       /\ holder'[k] = holder[k] /\ resetAt'[k] = resetAt[k]

\* A write of job j keeps the invariant of an executor it does not move, unless it
\* overtakes that executor inside its lease; a manual retry may.
LEMMA Bystander ==
  ASSUME TypeOK, TypeOK', NEW j \in JobIds, NEW x \in Executors,
         ExecutorInv(x), WritesOnly(j), Unmoved(x),
         \/ resetAt'[j] = jobs'[j].version
         \/ /\ resetAt'[j] = resetAt[j]
            /\ ~(Executing(x) /\ target[x] = j /\ held[x] > 0 /\ Fresh(x))
  PROVE  ExecutorInv(x)'
  <1>1. CASE pc[x] = "idle"
    BY <1>1 DEF ExecutorInv, Unmoved, WritesOnly, Fresh, Executing, TypeOK
  <1>2. CASE pc[x] # "idle" /\ target[x] # j
    <2>1. PICK k \in JobIds : k = target[x]
      BY <1>2 DEF TypeOK
    <2>2. /\ jobs'[k] = jobs[k] /\ claims'[k] = claims[k] /\ excused'[k] = excused[k]
          /\ holder'[k] = holder[k] /\ resetAt'[k] = resetAt[k]
      BY <1>2, <2>1 DEF WritesOnly
    <2>3. \A i \in JobIds : i \in due'[x] => jobs'[i].status # "absent"
      BY DEF ExecutorInv, Unmoved, WritesOnly
    <2>4. (Fresh(x)' <=> Fresh(x)) /\ (Executing(x)' <=> Executing(x))
      BY <2>1, <2>2 DEF Fresh, Executing, Unmoved
    <2>5. QED
      BY <2>1, <2>2, <2>3, <2>4 DEF ExecutorInv, Unmoved, Abandoned
  <1>3. CASE pc[x] # "idle" /\ target[x] = j
    <2>1. /\ seen[x].version \in Nat /\ jobs[j].version \in Nat /\ jobs'[j].version \in Nat
          /\ seen[x].version < jobs'[j].version
      BY <1>3 DEF ExecutorInv, WritesOnly, TypeOK, Record
    <2>2. ~Fresh(x)'
      BY <1>3, <2>1 DEF Fresh, Unmoved
    <2>3. \A k \in JobIds : k \in due'[x] => jobs'[k].status # "absent"
      BY DEF ExecutorInv, Unmoved, WritesOnly
    <2>4. Executing(x)' /\ held'[x] > 0 => seen'[x].version < resetAt'[target'[x]]
      BY <1>3, <2>1 DEF ExecutorInv, Unmoved, Executing
    <2>5. QED
      BY <1>3, <2>1, <2>2, <2>3, <2>4 DEF ExecutorInv, Unmoved, WritesOnly
  <1>4. QED
    BY <1>1, <1>2, <1>3

\* A write of job j keeps the invariant when its writers and job j keep theirs.
LEMMA WriteKeepsInv ==
  ASSUME TypeOK, TypeOK', Inv, NEW j \in JobIds, NEW W \in SUBSET Executors, WritesOnly(j),
         \A w \in W : ExecutorInv(w)',
         JobInv(j)',
         \A x \in Executors \ W : Unmoved(x),
         \/ resetAt'[j] = jobs'[j].version
         \/ /\ resetAt'[j] = resetAt[j]
            /\ \A x \in Executors \ W : ~(Executing(x) /\ target[x] = j /\ held[x] > 0 /\ Fresh(x)),
         \A c \in Callers : asked'[c] = asked[c] \/ asked'[c] = NoRequest
  PROVE  Inv'
  <1>1. /\ \A w \in Executors : ExecutorInv(w)
        /\ \A k \in JobIds : JobInv(k)
        /\ \A c \in Callers : CallerInv(c)
    BY InvByParts
  <1>2. \A w \in Executors : ExecutorInv(w)'
    BY <1>1, Bystander
  <1>3. \A k \in JobIds : JobInv(k)'
    BY <1>1 DEF JobInv, WritesOnly
  <1>4. \A k \in JobIds : jobs'[k].status = "absent" => jobs[k].status = "absent"
    BY DEF WritesOnly
  <1>5. \A c \in Callers : asked'[c] # NoRequest => asked'[c] = asked[c] /\ asked[c].job \in JobIds
    BY DEF TypeOK
  <1>6. \A c \in Callers : CallerInv(c)'
    BY <1>1, <1>4, <1>5 DEF CallerInv
  <1>7. QED
    BY <1>2, <1>3, <1>6, InvFromPartsNext

\* A step that leaves the store alone keeps the invariant when those it moves do.
LEMMA ReadKeepsInv ==
  ASSUME TypeOK, TypeOK', Inv, NEW W \in SUBSET Executors,
         UNCHANGED <<jobs, claims, excused, holder, resetAt>>,
         \A w \in W : ExecutorInv(w)',
         \A x \in Executors \ W : Unmoved(x),
         \A c \in Callers : \/ asked'[c] = asked[c] \/ asked'[c] = NoRequest
                            \/ jobs[asked'[c].job].status # "absent"
  PROVE  Inv'
  <1>1. /\ \A w \in Executors : ExecutorInv(w)
        /\ \A k \in JobIds : JobInv(k)
        /\ \A c \in Callers : CallerInv(c)
    BY InvByParts
  <1>2. ASSUME NEW x \in Executors, x \notin W PROVE ExecutorInv(x)'
    BY <1>1, <1>2 DEF ExecutorInv, Unmoved, Fresh, Executing
  <1>3. \A w \in Executors : ExecutorInv(w)'
    BY <1>2
  <1>4. \A k \in JobIds : JobInv(k)'
    BY <1>1 DEF JobInv
  <1>5. \A c \in Callers : CallerInv(c)'
    BY <1>1 DEF CallerInv
  <1>6. QED
    BY <1>3, <1>4, <1>5, InvFromPartsNext

\* An executor that returned holds nothing the invariant speaks of but its due list.
LEMMA ReturnKeepsExecutorInv ==
  ASSUME TypeOK, NEW w \in Executors, ExecutorInv(w), Return(w), due'[w] \subseteq due[w],
         \A k \in JobIds : jobs[k].status # "absent" => jobs'[k].status # "absent"
  PROVE  ExecutorInv(w)' /\ \A x \in Executors \ {w} : due'[x] = due[x] => Unmoved(x)
  <1>1. pc'[w] = "idle"
    BY DEF Return, TypeOK
  <1>2. ExecutorInv(w)'
    BY <1>1 DEF ExecutorInv, Fresh, Executing
  <1>3. \A x \in Executors \ {w} : due'[x] = due[x] => Unmoved(x)
    BY DEF Return, Unmoved, TypeOK
  <1>4. QED
    BY <1>2, <1>3

\* Giving up keeps the invariant: a lost write, or a crash.
LEMMA GiveUpKeepsInv ==
  ASSUME TypeOK, TypeOK', Inv, NEW w \in Executors, Return(w),
         UNCHANGED <<jobs, asked, claims, excused, holder, resetAt>>,
         due' = due \/ due' = [due EXCEPT ![w] = {}]
  PROVE  Inv'
  <1>1. ExecutorInv(w)
    BY InvByParts
  <1>2. due'[w] \subseteq due[w] /\ \A x \in Executors \ {w} : due'[x] = due[x]
    BY DEF TypeOK
  <1>3. ExecutorInv(w)' /\ \A x \in Executors \ {w} : Unmoved(x)
    BY <1>1, <1>2, ReturnKeepsExecutorInv
  <1>4. PICK W \in SUBSET Executors : W = {w}
    OBVIOUS
  <1>5. QED
    BY <1>3, <1>4, ReadKeepsInv

\* No other executor is inside a lease on the job that w, whose write takes effect,
\* is about to settle, to count or to claim.
LEMMA NobodyOvertaken ==
  ASSUME TypeOK, Inv, NEW w \in Executors, pc[w] # "idle", Fresh(w)
  PROVE  \A x \in Executors \ {w} :
           ~(Executing(x) /\ target[x] = target[w] /\ held[x] > 0 /\ Fresh(x))
  <1> SUFFICES ASSUME NEW x \in Executors \ {w},
                      Executing(x), target[x] = target[w], held[x] > 0, Fresh(x)
               PROVE  FALSE
    OBVIOUS
  <1>1. ExecutorInv(w) /\ ExecutorInv(x)
    BY InvByParts
  <1>2. /\ holder[target[w]] = x /\ jobs[target[w]].status = "running"
        /\ jobs[target[w]].leaseExpiresAt > 0
    BY <1>1 DEF ExecutorInv
  <1>3. CASE Executing(w)
    BY <1>1, <1>2, <1>3 DEF ExecutorInv
  <1>4. CASE pc[w] \in {"abandoned", "claim"}
    BY <1>1, <1>2, <1>4, JobsAssumption DEF ExecutorInv, Abandoned, TypeOK
  <1>5. QED
    BY <1>3, <1>4 DEF Executing, TypeOK

\* Settling an attempt keeps the invariant, whether the write takes effect or not.
LEMMA SettleKeepsInv ==
  ASSUME TypeOK, TypeOK', Inv, NEW w \in Executors, Executing(w),
         NEW new \in Record, NEW consumes \in BOOLEAN,
         new.status \notin {"absent", "running"},
         new.attemptCount = IF consumes THEN seen[w].attemptCount + 1 ELSE jobs[target[w]].attemptCount,
         Settle(w, new, consumes)
  PROVE  Inv'
  <1>0. PICK j \in JobIds : j = target[w]
    BY DEF Executing, TypeOK
  <1>1. pc[w] # "idle" /\ Return(w) /\ due' = due /\ asked' = asked
    BY DEF Executing, Settle
  <1>2. ExecutorInv(w) /\ JobInv(j)
    BY <1>0, <1>1, InvByParts
  <1>3. CASE ~VersionMatches(j, seen[w].version)
    <2>1. UNCHANGED <<jobs, excused, claims, holder, resetAt>>
      BY <1>0, <1>3 DEF Settle
    <2>2. QED
      BY <1>0, <1>1, <2>1, GiveUpKeepsInv
  <1>4. CASE VersionMatches(j, seen[w].version)
    <2>1. Fresh(w)
      BY <1>0, <1>1, <1>4 DEF Fresh, VersionMatches
    <2>2. /\ jobs' = [jobs EXCEPT ![j] = Written(j, new)]
          /\ excused' = [excused EXCEPT ![j] = IF consumes THEN @ ELSE @ + 1]
          /\ UNCHANGED <<claims, holder, resetAt>>
      BY <1>0, <1>4 DEF Settle
    <2>3. /\ jobs'[j].version = jobs[j].version + 1
          /\ jobs'[j].status = new.status
          /\ jobs'[j].attemptCount = new.attemptCount
          /\ \A k \in JobIds : k # j => jobs'[k] = jobs[k]
      BY <1>0, <1>1, <2>2, WriteEffect
    <2>4. WritesOnly(j)
      BY <1>0, <1>1, <2>2, <2>3 DEF WritesOnly, TypeOK
    <2>5. JobInv(j)'
      <3>1. /\ jobs[j].status = "running" /\ seen[w].attemptCount = jobs[j].attemptCount
        BY <1>0, <1>2, <2>1 DEF ExecutorInv
      <3>2. claims[j] <= jobs[j].attemptCount + excused[j] + 1
        BY <1>2, <3>1 DEF JobInv, One
      <3>3. /\ claims[j] \in Nat /\ excused[j] \in Nat /\ jobs[j].attemptCount \in Nat
            /\ resetAt[j] \in Nat /\ jobs[j].version \in Nat
        BY <1>0, <1>1 DEF TypeOK, Record
      <3>4. excused'[j] = IF consumes THEN excused[j] ELSE excused[j] + 1
        BY <1>0, <1>1, <2>2 DEF TypeOK
      <3>5. claims'[j] <= jobs'[j].attemptCount + excused'[j]
        BY <1>0, <2>2, <2>3, <3>1, <3>2, <3>3, <3>4
      <3>6. resetAt'[j] <= jobs'[j].version
        BY <1>2, <2>2, <2>3, <3>3 DEF JobInv
      <3>7. QED
        <4>1. jobs'[j].attemptCount \in Nat /\ excused'[j] \in Nat
          BY DEF TypeOK, Record
        <4>2. jobs'[j].status \notin {"absent", "running"}
          BY <2>3
        <4>3. QED
          BY <3>5, <3>6, <4>1, <4>2 DEF JobInv, One
    <2>6. ExecutorInv(w)' /\ \A x \in Executors \ {w} : Unmoved(x)
      BY <1>0, <1>1, <1>2, <2>3, ReturnKeepsExecutorInv
    <2>7. \A x \in Executors \ {w} : ~(Executing(x) /\ target[x] = j /\ held[x] > 0 /\ Fresh(x))
      BY <1>0, <1>1, <2>1, NobodyOvertaken
    <2>8. PICK W \in SUBSET Executors : W = {w}
      OBVIOUS
    <2>9. /\ resetAt'[j] = resetAt[j]
          /\ \A c \in Callers : asked'[c] = asked[c]
          /\ \A x \in W : ExecutorInv(x)'
          /\ \A x \in Executors \ W : Unmoved(x)
          /\ \A x \in Executors \ W : ~(Executing(x) /\ target[x] = j /\ held[x] > 0 /\ Fresh(x))
      BY <1>0, <1>1, <2>2, <2>6, <2>7, <2>8
    <2>10. QED
      BY <1>0, <1>1, <2>4, <2>5, <2>9, WriteKeepsInv
  <1>5. QED
    BY <1>3, <1>4

\* Counting an abandoned attempt keeps the invariant.
LEMMA CountAbandonedKeepsInv ==
  ASSUME TypeOK, TypeOK', Inv, NEW w \in Executors, CountAbandoned(w)
  PROVE  Inv'
  <1>1. PICK j \in JobIds : j = target[w]
    BY DEF CountAbandoned, TypeOK
  <1>2. PICK n \in Nat : n = seen[w].attemptCount + 1
    BY DEF TypeOK
  <1>3. pc[w] = "abandoned" /\ UNCHANGED <<due, asked, claims, excused, holder, resetAt>>
    BY DEF CountAbandoned, historyVars
  <1>4. ExecutorInv(w) /\ JobInv(j)
    BY InvByParts
  <1>5. CASE ~VersionMatches(j, seen[w].version)
    <2>1. Return(w) /\ UNCHANGED jobs
      BY <1>1, <1>5 DEF CountAbandoned
    <2>2. QED
      BY <1>3, <2>1, GiveUpKeepsInv
  <1>6. CASE VersionMatches(j, seen[w].version)
    <2>1. Fresh(w)
      BY <1>1, <1>3, <1>6 DEF Fresh, VersionMatches
    <2>2. /\ jobs[j].status = "running" /\ jobs[j].leaseExpiresAt = 0
          /\ seen[w].attemptCount = jobs[j].attemptCount
      BY <1>1, <1>3, <1>4, <2>1 DEF ExecutorInv, Abandoned
    <2>3. PICK s \in {"failed", "running"} :
            /\ jobs' = [jobs EXCEPT ![j] = Written(j, Outcome(jobs[j], s, n))]
            /\ \/ s = "failed" /\ Return(w)
               \/ /\ s = "running"
                  /\ seen' = [seen EXCEPT ![w] = Snapshot(jobs'[j])]
                  /\ pc' = [pc EXCEPT ![w] = "claim"]
                  /\ UNCHANGED <<target, held>>
      BY <1>1, <1>2, <1>6 DEF CountAbandoned
    <2>4. PICK new \in Record : /\ new = Outcome(jobs[j], s, n) /\ new.status = s
                                /\ new.attemptCount = n /\ new.leaseExpiresAt = 0
      <3>1. jobs[j] \in Record /\ s \in Statuses
        BY DEF TypeOK, Statuses
      <3>2. QED
        BY <2>2, <3>1, OutcomeFields
    <2>5. /\ jobs'[j].version = jobs[j].version + 1
          /\ jobs'[j].status = s
          /\ jobs'[j].attemptCount = n
          /\ jobs'[j].leaseExpiresAt = 0
          /\ \A k \in JobIds : k # j => jobs'[k] = jobs[k]
      BY <2>3, <2>4, WriteEffect
    <2>6. WritesOnly(j)
      BY <1>3, <2>5 DEF WritesOnly
    <2>7. /\ claims[j] \in Nat /\ excused[j] \in Nat /\ jobs[j].attemptCount \in Nat
          /\ resetAt[j] \in Nat /\ jobs[j].version \in Nat
      BY DEF TypeOK, Record
    <2>8. claims[j] <= n + excused[j]
      BY <1>2, <1>4, <2>2, <2>7 DEF JobInv, One
    <2>9. JobInv(j)'
      BY <1>3, <1>4, <2>5, <2>7, <2>8 DEF JobInv, One
    <2>10. ExecutorInv(w)' /\ \A x \in Executors \ {w} : Unmoved(x)
      <3>1. CASE Return(w)
        BY <1>3, <1>4, <2>5, <3>1, ReturnKeepsExecutorInv
      <3>2. CASE ~Return(w)
        <4>1. /\ s = "running" /\ pc'[w] = "claim" /\ target'[w] = j /\ due'[w] = due[w]
              /\ seen'[w] = Snapshot(jobs'[j])
          BY <1>1, <1>3, <2>3, <3>2 DEF TypeOK
        <4>2. /\ seen'[w].version = jobs'[j].version
              /\ seen'[w].attemptCount = jobs'[j].attemptCount
          BY <4>1 DEF Snapshot
        <4>3. \A k \in JobIds : k \in due'[w] => jobs'[k].status # "absent"
          BY <1>4, <2>5, <4>1 DEF ExecutorInv
        <4>4. claims'[j] <= jobs'[j].attemptCount + excused'[j]
          BY <1>3, <2>5, <2>8
        <4>5. jobs'[j].version \in Nat
          BY DEF TypeOK, Record
        <4>6. ExecutorInv(w)'
          BY <2>5, <4>1, <4>2, <4>3, <4>4, <4>5 DEF ExecutorInv, Executing, Fresh
        <4>7. \A x \in Executors \ {w} : Unmoved(x)
          BY <1>3, <2>3, <3>2 DEF Unmoved, TypeOK
        <4>8. QED
          BY <4>6, <4>7
      <3>3. QED
        BY <3>1, <3>2
    <2>11. \A x \in Executors \ {w} : ~(Executing(x) /\ target[x] = j /\ held[x] > 0 /\ Fresh(x))
      BY <1>1, <1>3, <2>1, NobodyOvertaken
    <2>12. PICK W \in SUBSET Executors : W = {w}
      OBVIOUS
    <2>13. QED
      BY <1>3, <2>6, <2>9, <2>10, <2>11, <2>12, WriteKeepsInv
  <1>7. QED
    BY <1>5, <1>6

\* Claiming a job keeps the invariant.
LEMMA ClaimKeepsInv ==
  ASSUME TypeOK, TypeOK', Inv, NEW w \in Executors, Claim(w)
  PROVE  Inv'
  <1>1. PICK j \in JobIds : j = target[w]
    BY DEF Claim, TypeOK
  <1>2. pc[w] = "claim" /\ UNCHANGED <<due, asked, excused, resetAt>>
    BY DEF Claim
  <1>3. ExecutorInv(w) /\ JobInv(j)
    BY InvByParts
  <1>4. CASE ~VersionMatches(j, seen[w].version)
    <2>1. Return(w) /\ UNCHANGED <<jobs, holder, claims>>
      BY <1>1, <1>4 DEF Claim
    <2>2. QED
      BY <1>2, <2>1, GiveUpKeepsInv
  <1>5. CASE VersionMatches(j, seen[w].version)
    <2> DEFINE new == [jobs[j] EXCEPT !.status = "running", !.leaseExpiresAt = LeaseDuration]
    <2>1. Fresh(w)
      BY <1>1, <1>2, <1>5 DEF Fresh, VersionMatches
    <2>2. /\ new \in Record /\ new.status = "running" /\ new.leaseExpiresAt = LeaseDuration
          /\ new.attemptCount = jobs[j].attemptCount
      <3>1. jobs[j] \in Record /\ LeaseDuration \in Nat
        BY JobsAssumption DEF TypeOK
      <3>2. QED
        BY <3>1 DEF Record, Statuses
    <2>3. /\ jobs' = [jobs EXCEPT ![j] = Written(j, new)]
          /\ seen' = [seen EXCEPT ![w] = Snapshot(jobs'[j])]
          /\ pc' = [pc EXCEPT ![w] = "authorize"]
          /\ held' = [held EXCEPT ![w] = LeaseDuration]
          /\ holder' = [holder EXCEPT ![j] = w]
          /\ claims' = [claims EXCEPT ![j] = @ + 1]
          /\ UNCHANGED target
      BY <1>1, <1>5 DEF Claim
    <2> HIDE DEF new
    <2>4. /\ jobs'[j].version = jobs[j].version + 1
          /\ jobs'[j].status = "running"
          /\ jobs'[j].attemptCount = jobs[j].attemptCount
          /\ jobs'[j].leaseExpiresAt = LeaseDuration
          /\ \A k \in JobIds : k # j => jobs'[k] = jobs[k]
      BY <2>2, <2>3, WriteEffect
    <2>5. WritesOnly(j)
      BY <1>2, <2>3, <2>4 DEF WritesOnly, TypeOK
    <2>6. /\ claims[j] \in Nat /\ excused[j] \in Nat /\ jobs[j].attemptCount \in Nat
          /\ resetAt[j] \in Nat /\ jobs[j].version \in Nat
      BY DEF TypeOK, Record
    <2>7. claims[j] <= jobs[j].attemptCount + excused[j]
      BY <1>1, <1>2, <1>3, <2>1, <2>6 DEF JobInv, One, ExecutorInv
    <2>8. claims'[j] = claims[j] + 1
      BY <2>3 DEF TypeOK
    <2>9. JobInv(j)'
      BY <1>2, <1>3, <2>4, <2>6, <2>7, <2>8 DEF JobInv, One
    <2>10. ExecutorInv(w)'
      <3>1. /\ pc'[w] = "authorize" /\ target'[w] = j /\ held'[w] = LeaseDuration /\ holder'[j] = w
            /\ due'[w] = due[w] /\ seen'[w] = Snapshot(jobs'[j])
        BY <1>1, <1>2, <2>3 DEF TypeOK
      <3>2. /\ seen'[w].version = jobs'[j].version
            /\ seen'[w].attemptCount = jobs'[j].attemptCount
        BY <3>1 DEF Snapshot
      <3>3. \A k \in JobIds : k \in due'[w] => jobs'[k].status # "absent"
        BY <1>3, <2>4, <3>1 DEF ExecutorInv
      <3>4. jobs'[j].version \in Nat
        BY DEF TypeOK, Record
      <3>5. QED
        BY <2>4, <3>1, <3>2, <3>3, <3>4 DEF ExecutorInv, Executing, Fresh
    <2>11. \A x \in Executors \ {w} : Unmoved(x)
      BY <1>2, <2>3 DEF Unmoved, TypeOK
    <2>12. \A x \in Executors \ {w} : ~(Executing(x) /\ target[x] = j /\ held[x] > 0 /\ Fresh(x))
      BY <1>1, <1>2, <2>1, NobodyOvertaken
    <2>13. PICK W \in SUBSET Executors : W = {w}
      OBVIOUS
    <2>14. QED
      BY <1>2, <2>5, <2>9, <2>10, <2>11, <2>12, <2>13, WriteKeepsInv
  <1>6. QED
    BY <1>4, <1>5

\* Creating a job keeps the invariant: nobody knew of the id.
LEMMA CreateJobKeepsInv ==
  ASSUME TypeOK, TypeOK', Inv, NEW j \in JobIds, NEW delay \in 0..MaxRunAt, CreateJob(j, delay)
  PROVE  Inv'
  <1>1. /\ \A w \in Executors : ExecutorInv(w)
        /\ \A k \in JobIds : JobInv(k)
        /\ \A c \in Callers : CallerInv(c)
    BY InvByParts
  <1>2. /\ UNCHANGED <<pc, due, target, seen, held, asked, claims, excused, holder, resetAt>>
        /\ jobs[j].status = "absent"
        /\ jobs' = [jobs EXCEPT ![j] = NewJob(delay)]
    BY DEF CreateJob, execVars, historyVars
  <1>3. \A k \in JobIds : k # j => jobs'[k] = jobs[k]
    BY <1>2 DEF TypeOK
  <1>4. /\ jobs'[j].status # "absent" /\ jobs'[j].status # "running"
        /\ jobs'[j].attemptCount = 0 /\ jobs'[j].version = 1
    <2>1. /\ NewJob(delay).status # "absent" /\ NewJob(delay).status # "running"
          /\ NewJob(delay).attemptCount = 0 /\ NewJob(delay).version = 1
      BY DEF NewJob
    <2>2. QED
      BY <1>2, <2>1 DEF TypeOK
  <1>5. ASSUME NEW w \in Executors PROVE ExecutorInv(w)'
    <2>1. ExecutorInv(w) /\ \A k \in JobIds : k \in due'[w] => jobs'[k].status # "absent"
      BY <1>1, <1>2, <1>4, <1>3 DEF ExecutorInv
    <2>2. CASE pc[w] = "idle"
      BY <1>2, <2>1, <2>2 DEF ExecutorInv, Fresh, Executing
    <2>3. CASE pc[w] # "idle"
      <3>1. PICK k \in JobIds : k = target[w]
        BY <2>3 DEF TypeOK
      <3>2. k # j /\ jobs'[k] = jobs[k]
        BY <1>2, <1>3, <2>1, <2>3, <3>1 DEF ExecutorInv
      <3>3. QED
        BY <1>2, <2>1, <3>1, <3>2 DEF ExecutorInv, Fresh, Executing
    <2>4. QED
      BY <2>2, <2>3
  <1>6. ASSUME NEW k \in JobIds PROVE JobInv(k)'
    <2>1. CASE k = j
      <3>1. claims[j] = 0 /\ resetAt[j] = 0 /\ excused[j] \in Nat
        BY <1>1, <1>2 DEF JobInv, TypeOK
      <3>2. QED
        BY <1>2, <1>4, <2>1, <3>1 DEF JobInv, One
    <2>2. CASE k # j
      BY <1>1, <1>2, <1>3, <2>2 DEF JobInv
    <2>3. QED
      BY <2>1, <2>2
  <1>7. \A c \in Callers : CallerInv(c)'
    BY <1>1, <1>2, <1>3, <1>4 DEF CallerInv, TypeOK
  <1>8. QED
    BY <1>5, <1>6, <1>7, InvFromPartsNext

\* Taking a due list keeps the invariant: only created jobs are due.
LEMMA ListDueKeepsInv ==
  ASSUME TypeOK, TypeOK', Inv, NEW w \in Executors, ListDue(w)
  PROVE  Inv'
  <1>1. /\ UNCHANGED <<jobs, pc, target, seen, held, asked, claims, excused, holder, resetAt>>
        /\ pc[w] = "idle"
    BY DEF ListDue, historyVars
  <1>2. due'[w] \subseteq DueJobs /\ \A x \in Executors \ {w} : due'[x] = due[x]
    BY DEF ListDue, TypeOK
  <1>3. ExecutorInv(w)'
    BY <1>1, <1>2 DEF ExecutorInv, Fresh, Executing, DueJobs, IsDue
  <1>4. PICK W \in SUBSET Executors : W = {w}
    OBVIOUS
  <1>5. \A x \in Executors \ W : Unmoved(x)
    BY <1>1, <1>2, <1>4 DEF Unmoved
  <1>6. QED
    BY <1>1, <1>3, <1>4, <1>5, ReadKeepsInv

\* Reading a job keeps the invariant: what is read is fresh, and a running job is
\* read past the lease test only when its lease has run out.
LEMMA ReadJobKeepsInv ==
  ASSUME TypeOK, TypeOK', Inv, NEW w \in Executors, NEW j \in JobIds, ReadJob(w, j)
  PROVE  Inv'
  <1>1. /\ UNCHANGED <<jobs, held, asked, claims, excused, holder, resetAt>>
        /\ pc[w] = "idle" /\ j \in due[w] /\ due' = [due EXCEPT ![w] = @ \ {j}]
    BY DEF ReadJob, historyVars
  <1>2. ExecutorInv(w) /\ due'[w] \subseteq due[w] /\ \A x \in Executors \ {w} : due'[x] = due[x]
    BY <1>1, InvByParts DEF TypeOK
  <1>3. ExecutorInv(w)' /\ \A x \in Executors \ {w} : Unmoved(x)
    <2>1. CASE LeaseHeld(jobs[j])
      <3>1. UNCHANGED <<pc, target, seen>>
        BY <2>1 DEF ReadJob
      <3>2. QED
        BY <1>1, <1>2, <3>1 DEF ExecutorInv, Fresh, Executing, Unmoved
    <2>2. CASE ~LeaseHeld(jobs[j])
      <3>1. PICK p \in {"abandoned", "claim"} :
              /\ p = IF Abandoned(jobs[j]) THEN "abandoned" ELSE "claim"
              /\ pc' = [pc EXCEPT ![w] = p]
              /\ target' = [target EXCEPT ![w] = j]
              /\ seen' = [seen EXCEPT ![w] = Snapshot(jobs[j])]
        BY <2>2 DEF ReadJob
      <3>2. pc'[w] = p /\ target'[w] = j /\ seen'[w] = Snapshot(jobs[j])
        BY <3>1 DEF TypeOK
      <3>3. seen'[w].version = jobs[j].version /\ seen'[w].attemptCount = jobs[j].attemptCount
        BY <3>2 DEF Snapshot
      <3>4. p = "claim" => jobs[j].status # "running"
        BY <2>2, <3>1 DEF LeaseHeld, Abandoned, TypeOK, Record
      <3>5. p = "abandoned" => Abandoned(jobs[j])
        BY <3>1
      <3>6. jobs[j].status # "absent" /\ jobs[j].version \in Nat
        BY <1>1, <1>2 DEF ExecutorInv, TypeOK, Record
      <3>7. ExecutorInv(w)'
        BY <1>1, <1>2, <3>2, <3>3, <3>4, <3>5, <3>6 DEF ExecutorInv, Executing, Fresh
      <3>8. \A x \in Executors \ {w} : Unmoved(x)
        BY <1>1, <1>2, <3>1 DEF Unmoved, TypeOK
      <3>9. QED
        BY <3>7, <3>8
    <2>3. QED
      BY <2>1, <2>2
  <1>4. PICK W \in SUBSET Executors : W = {w}
    OBVIOUS
  <1>5. QED
    BY <1>1, <1>3, <1>4, ReadKeepsInv

\* Starting the handler keeps the invariant: w was executing and still is.
LEMMA StartHandlerKeepsInv ==
  ASSUME TypeOK, TypeOK', Inv, NEW w \in Executors, StartHandler(w)
  PROVE  Inv'
  <1>1. /\ UNCHANGED <<jobs, due, target, seen, held, asked, claims, excused, holder, resetAt>>
        /\ pc[w] = "authorize" /\ pc' = [pc EXCEPT ![w] = "handler"]
    BY DEF StartHandler, historyVars
  <1>2. pc'[w] = "handler" /\ \A x \in Executors \ {w} : Unmoved(x)
    BY <1>1 DEF TypeOK, Unmoved
  <1>3. ExecutorInv(w)
    BY InvByParts
  <1>4. ExecutorInv(w)'
    BY <1>1, <1>2, <1>3 DEF ExecutorInv, Fresh, Executing
  <1>5. PICK W \in SUBSET Executors : W = {w}
    OBVIOUS
  <1>6. QED
    BY <1>1, <1>2, <1>4, <1>5, ReadKeepsInv

\* An outcome other than a failed attempt leaves the attempt count as it is.
LEMMA OutcomeWrites ==
  ASSUME TypeOK, NEW w \in Executors, NoHandler(w) \/ Deny(w) \/ Postpone(w) \/ Complete(w)
  PROVE  \E new \in Record : /\ Settle(w, new, FALSE)
                             /\ new.status \in {"failed", "completed", "retrying"}
                             /\ new.attemptCount = jobs[target[w]].attemptCount
  <1>1. Executing(w) /\ pc[w] # "idle"
    BY DEF NoHandler, Deny, Postpone, Complete, Executing
  <1>2. Current(w) \in Record /\ Current(w) = jobs[target[w]] /\ RetryDelay \in Nat
    BY <1>1, JobsAssumption DEF Current, TypeOK
  <1>3. ASSUME NEW s \in {"failed", "completed"}
        PROVE  /\ [Current(w) EXCEPT !.status = s] \in Record
               /\ [Current(w) EXCEPT !.status = s].status = s
               /\ [Current(w) EXCEPT !.status = s].attemptCount = jobs[target[w]].attemptCount
    BY <1>2 DEF Record, Statuses
  <1>4. /\ [Current(w) EXCEPT !.status = "retrying", !.nextAttemptAt = RetryDelay] \in Record
        /\ [Current(w) EXCEPT !.status = "retrying", !.nextAttemptAt = RetryDelay].status = "retrying"
        /\ [Current(w) EXCEPT !.status = "retrying", !.nextAttemptAt = RetryDelay].attemptCount
             = jobs[target[w]].attemptCount
    BY <1>2 DEF Record, Statuses
  <1>5. CASE NoHandler(w) \/ Deny(w)
    BY <1>3, <1>5 DEF NoHandler, Deny
  <1>6. CASE Complete(w)
    BY <1>3, <1>6 DEF Complete
  <1>7. CASE Postpone(w)
    BY <1>4, <1>7 DEF Postpone
  <1>8. QED
    BY <1>5, <1>6, <1>7

\* The five ways an attempt ends keep the invariant.
LEMMA OutcomesKeepInv ==
  ASSUME TypeOK, TypeOK', Inv, NEW w \in Executors,
         NoHandler(w) \/ Deny(w) \/ Postpone(w) \/ Complete(w) \/ Fail(w)
  PROVE  Inv'
  <1>1. Executing(w) /\ pc[w] # "idle"
    BY DEF NoHandler, Deny, Postpone, Complete, Fail, Executing
  <1>3. CASE Fail(w)
    <2>1. Settle(w, AfterFailure(w), TRUE)
      BY <1>3 DEF Fail
    <2>2. PICK new \in Record : /\ new = AfterFailure(w)
                                /\ new.status \notin {"absent", "running"}
                                /\ new.attemptCount = seen[w].attemptCount + 1
      BY <1>1, AfterFailureFields
    <2>3. QED
      BY <1>1, <2>1, <2>2, SettleKeepsInv
  <1>4. CASE ~Fail(w)
    <2>1. PICK new \in Record : /\ Settle(w, new, FALSE)
                                /\ new.status \notin {"absent", "running"}
                                /\ new.attemptCount = jobs[target[w]].attemptCount
      BY <1>4, OutcomeWrites
    <2>2. QED
      BY <1>1, <2>1, SettleKeepsInv
  <1>5. QED
    BY <1>3, <1>4

\* A manual retry keeps the invariant: it overtakes whoever works on the job, and
\* says so in resetAt.
LEMMA ResetJobKeepsInv ==
  ASSUME TypeOK, TypeOK', Inv, NEW c \in Callers, ResetJob(c)
  PROVE  Inv'
  <1>1. PICK j \in JobIds : j = asked[c].job
    BY DEF ResetJob, TypeOK
  <1>2. /\ UNCHANGED <<pc, due, target, seen, held, holder>>
        /\ asked' = [asked EXCEPT ![c] = NoRequest]
    BY DEF ResetJob, execVars
  <1>3. \A b \in Callers : asked'[b] = asked[b] \/ asked'[b] = NoRequest
    BY <1>2 DEF TypeOK
  <1>4. PICK W \in SUBSET Executors : W = {}
    OBVIOUS
  <1>5. \A x \in Executors : Unmoved(x)
    BY <1>2 DEF Unmoved
  <1>6. CASE ~VersionMatches(j, asked[c].version)
    <2>1. UNCHANGED <<jobs, claims, excused, resetAt>>
      BY <1>1, <1>6 DEF ResetJob
    <2>2. QED
      BY <1>2, <1>3, <1>4, <1>5, <2>1, ReadKeepsInv
  <1>7. CASE VersionMatches(j, asked[c].version)
    <2>1. PICK new \in Record :
            /\ new = [Outcome(jobs[j], "pending", 0) EXCEPT !.nextAttemptAt = 0]
            /\ new.status = "pending" /\ new.attemptCount = 0
      <3>1. jobs[j] \in Record
        BY DEF TypeOK
      <3>2. QED
        BY <3>1, ResetFields
    <2>2. /\ jobs' = [jobs EXCEPT ![j] = Written(j, new)]
          /\ claims' = [claims EXCEPT ![j] = 0]
          /\ excused' = [excused EXCEPT ![j] = 0]
          /\ resetAt' = [resetAt EXCEPT ![j] = jobs'[j].version]
      BY <1>1, <1>7, <2>1 DEF ResetJob
    <2>3. /\ jobs'[j].version = jobs[j].version + 1
          /\ jobs'[j].status = "pending"
          /\ jobs'[j].attemptCount = 0
          /\ \A k \in JobIds : k # j => jobs'[k] = jobs[k]
      BY <2>1, <2>2, WriteEffect
    <2>4. WritesOnly(j)
      BY <1>2, <2>2, <2>3 DEF WritesOnly, TypeOK
    <2>5. claims'[j] = 0 /\ excused'[j] = 0 /\ resetAt'[j] = jobs'[j].version
      BY <2>2 DEF TypeOK
    <2>6. jobs'[j].version \in Nat
      BY DEF TypeOK, Record
    <2>7. JobInv(j)'
      BY <2>3, <2>5, <2>6 DEF JobInv, One
    <2>8. QED
      BY <1>3, <1>4, <1>5, <2>4, <2>5, <2>7, WriteKeepsInv
  <1>8. QED
    BY <1>6, <1>7

\* Asking for a retry, and having it refused, keep the invariant.
LEMMA AskKeepsInv ==
  ASSUME TypeOK, TypeOK', Inv,
         NEW c \in Callers, RefuseRetry(c) \/ \E j \in JobIds : RequestRetry(c, j)
  PROVE  Inv'
  <1>1. UNCHANGED <<jobs, pc, due, target, seen, held, claims, excused, holder, resetAt>>
    BY DEF RefuseRetry, RequestRetry, execVars, historyVars
  <1>2. \A b \in Callers : \/ asked'[b] = asked[b] \/ asked'[b] = NoRequest
                           \/ jobs[asked'[b].job].status # "absent"
    BY DEF RefuseRetry, RequestRetry, TypeOK
  <1>3. PICK W \in SUBSET Executors : W = {}
    OBVIOUS
  <1>4. \A x \in Executors : Unmoved(x)
    BY <1>1 DEF Unmoved
  <1>5. QED
    BY <1>1, <1>2, <1>3, <1>4, ReadKeepsInv

\* Time keeps the invariant: a lease runs down for its holder as it does in the record.
LEMMA TickKeepsInv ==
  ASSUME TypeOK, TypeOK', Inv, Tick
  PROVE  Inv'
  <1>1. /\ \A w \in Executors : ExecutorInv(w)
        /\ \A k \in JobIds : JobInv(k)
        /\ \A c \in Callers : CallerInv(c)
    BY InvByParts
  <1>2. /\ UNCHANGED <<pc, due, target, seen, asked, claims, excused, holder, resetAt>>
        /\ \A w \in Executors : held'[w] = Less(held[w])
    BY DEF Tick, historyVars
  <1>3. \A k \in JobIds :
          /\ jobs'[k].status = jobs[k].status /\ jobs'[k].attemptCount = jobs[k].attemptCount
          /\ jobs'[k].version = jobs[k].version
          /\ jobs'[k].leaseExpiresAt = Less(jobs[k].leaseExpiresAt)
    BY ElapsedFields DEF Tick, TypeOK
  <1>4. Less(0) = 0 /\ \A n \in Nat : Less(n) > 0 => n > 0
    BY DEF Less
  <1>5. ASSUME NEW w \in Executors PROVE ExecutorInv(w)'
    <2>1. CASE pc[w] = "idle"
      BY <1>1, <1>2, <1>3, <2>1 DEF ExecutorInv, Fresh, Executing
    <2>2. CASE pc[w] # "idle"
      <3>1. PICK k \in JobIds : k = target[w]
        BY <2>2 DEF TypeOK
      <3>2. (Fresh(w)' <=> Fresh(w)) /\ (Executing(w)' <=> Executing(w))
        BY <1>2, <1>3, <3>1 DEF Fresh, Executing
      <3>3. \A i \in JobIds : i \in due'[w] => jobs'[i].status # "absent"
        BY <1>1, <1>2, <1>3 DEF ExecutorInv
      <3>4. held[w] \in Nat /\ (held'[w] > 0 => held[w] > 0)
        BY <1>2, <1>4 DEF TypeOK
      <3>5. ExecutorInv(w)
        BY <1>1
      <3>6. QED
        BY <1>2, <1>3, <1>4, <3>1, <3>2, <3>3, <3>4, <3>5 DEF ExecutorInv, Abandoned
    <2>3. QED
      BY <2>1, <2>2
  <1>6. \A k \in JobIds : JobInv(k)'
    BY <1>1, <1>2, <1>3 DEF JobInv
  <1>7. \A c \in Callers : CallerInv(c)'
    BY <1>1, <1>2, <1>3 DEF CallerInv, TypeOK
  <1>8. QED
    BY <1>5, <1>6, <1>7, InvFromPartsNext

\* Every step keeps the invariant.
LEMMA NextInv == TypeOK /\ TypeOK' /\ Inv /\ [Next]_vars => Inv'
  <1> SUFFICES ASSUME TypeOK, TypeOK', Inv, [Next]_vars PROVE Inv'
    OBVIOUS
  <1>1. CASE \E j \in JobIds, delay \in 0..MaxRunAt : CreateJob(j, delay)
    BY <1>1, CreateJobKeepsInv
  <1>2. ASSUME NEW w \in Executors, Execute(w) PROVE Inv'
    BY <1>2, ListDueKeepsInv, ReadJobKeepsInv, CountAbandonedKeepsInv, ClaimKeepsInv,
       StartHandlerKeepsInv, OutcomesKeepInv DEF Execute
  <1>3. ASSUME NEW w \in Executors, Crash(w) PROVE Inv'
    BY <1>3, GiveUpKeepsInv DEF Crash, historyVars
  <1>4. CASE \E c \in Callers, j \in JobIds : RequestRetry(c, j)
    BY <1>4, AskKeepsInv
  <1>5. CASE \E c \in Callers : ResetJob(c) \/ RefuseRetry(c)
    BY <1>5, AskKeepsInv, ResetJobKeepsInv
  <1>6. CASE Tick
    BY <1>6, TickKeepsInv
  <1>7. CASE UNCHANGED vars
    BY <1>7 DEF vars, Inv, CreatedFirst, NoFutureVersion, FreshKnows, LeaseKeepsFresh,
                AttemptsAccounted, Fresh, Executing
  <1>8. QED
    BY <1>1, <1>2, <1>3, <1>4, <1>5, <1>6, <1>7 DEF Next

-----------------------------------------------------------------------------
(* Safety *)

\* The invariant holds in every reachable state, for any number of executors and jobs.
THEOREM Invariance == Spec => []Inv
  <1>1. Init => TypeOK /\ Inv
    BY InitTypeOK, InitInv
  <1>2. TypeOK /\ Inv /\ [Next]_vars => (TypeOK /\ Inv)'
    BY NextTypeOK, NextInv
  <1>3. QED
    BY <1>1, <1>2, PTL DEF Spec

\* However executors, crashes, expired leases and lost writes interleave, no run of a
\* job escapes its attempt count (executeJob, recordExecutionFailure).
THEOREM AttemptsAccountedAlways == Spec => []AttemptsAccounted
  BY Invariance, PTL DEF Inv

\* Two executors never hold a running lease on one job without a manual retry between
\* their claims (executeJob's lease test, claim).
THEOREM LeaseExclusiveAlways == Spec => []LeaseExclusive
  <1>1. TypeOK /\ Inv => LeaseExclusive
    <2> SUFFICES ASSUME TypeOK, Inv, NEW w1 \in Executors, NEW w2 \in Executors,
                        w1 # w2, Executing(w1), Executing(w2), target[w1] = target[w2],
                        held[w1] > 0, held[w2] > 0,
                        ~(seen[w1].version < resetAt[target[w1]]),
                        ~(seen[w2].version < resetAt[target[w2]])
                 PROVE  FALSE
      BY DEF LeaseExclusive
    <2>1. Fresh(w1) /\ Fresh(w2)
      BY DEF Inv, LeaseKeepsFresh
    <2>2. holder[target[w1]] = w1 /\ holder[target[w2]] = w2
      BY <2>1 DEF Inv, FreshKnows
    <2>3. QED
      BY <2>2
  <1>2. QED
    BY <1>1, TypeCorrect, Invariance, PTL

\* A settlement with a status other than running is a proper one: its write takes
\* effect only for the executor of the latest claim.
LEMMA SettleIsProper ==
  ASSUME TypeOK, Inv, NEW w \in Executors, Executing(w),
         NEW new, NEW consumes, Settle(w, new, consumes), NEW j \in JobIds, jobs'[j] # jobs[j]
  PROVE  SettledProperly(j)
  <1>1. VersionMatches(target[w], seen[w].version) /\ j = target[w]
    BY DEF Settle, TypeOK
  <1>2. Fresh(w)
    BY <1>1 DEF Fresh, VersionMatches, Executing
  <1>3. holder[j] = w
    BY <1>1, <1>2 DEF Inv, FreshKnows
  <1>4. pc'[w] = "idle"
    BY DEF Settle, Return, TypeOK
  <1>5. QED
    BY <1>1, <1>3, <1>4 DEF SettledProperly

\* Late writes of superseded executors settle nothing: a running job is settled by the
\* executor of its latest claim, by one that found the lease expired, or by a manual
\* retry (updateJob's expected version).
THEOREM SettledByHolderAlways == Spec => SettledByHolder
  <1>1. TypeOK /\ Inv /\ [Next]_vars => [SettlesProperly]_vars
    <2> SUFFICES ASSUME TypeOK, Inv, Next, NEW j \in JobIds,
                        jobs[j].status = "running", jobs'[j].status # "running"
                 PROVE  SettledProperly(j)
      BY DEF SettlesProperly
    <2>1. jobs'[j] # jobs[j]
      OBVIOUS
    <2>2. ASSUME NEW k \in JobIds, NEW delay \in 0..MaxRunAt, CreateJob(k, delay) PROVE FALSE
      BY <2>2, <2>1 DEF CreateJob, TypeOK
    <2>3. ASSUME NEW w \in Executors, Execute(w) PROVE SettledProperly(j)
      <3>1. CASE ListDue(w) \/ StartHandler(w) \/ \E k \in JobIds : ReadJob(w, k)
        BY <2>1, <3>1 DEF ListDue, StartHandler, ReadJob
      <3>2. CASE CountAbandoned(w)
        <4>1. pc[w] = "abandoned" /\ j = target[w] /\ VersionMatches(j, seen[w].version)
          BY <2>1, <3>2 DEF CountAbandoned, TypeOK
        <4>2. Fresh(w)
          BY <4>1 DEF Fresh, VersionMatches
        <4>3. jobs[j].leaseExpiresAt = 0
          BY <4>1, <4>2 DEF Inv, FreshKnows, Abandoned
        <4>4. QED
          BY <4>1, <4>3 DEF SettledProperly
      <3>3. CASE Claim(w)
        <4>1. j = target[w] /\ jobs' = [jobs EXCEPT ![j] = Written(j,
                 [@ EXCEPT !.status = "running", !.leaseExpiresAt = LeaseDuration])]
          BY <2>1, <3>3 DEF Claim, TypeOK
        <4>2. jobs[j] \in Record
          BY DEF TypeOK
        <4>3. PICK new \in Record : /\ new = [jobs[j] EXCEPT !.status = "running", !.leaseExpiresAt = LeaseDuration]
                                    /\ new.status = "running"
          BY <4>2, ClaimFields
        <4>4. jobs' = [jobs EXCEPT ![j] = Written(j, new)]
          BY <4>1, <4>3
        <4>5. jobs'[j].status = "running"
          BY <4>3, <4>4, WriteEffect
        <4>6. QED
          BY <4>5
      <3>4. CASE NoHandler(w) \/ Deny(w) \/ Postpone(w) \/ Complete(w) \/ Fail(w)
        <4>1. Executing(w) /\ \E new, consumes : Settle(w, new, consumes)
          BY <3>4 DEF NoHandler, Deny, Postpone, Complete, Fail, Executing
        <4>2. QED
          BY <2>1, <4>1, SettleIsProper
      <3>5. QED
        BY <2>3, <3>1, <3>2, <3>3, <3>4 DEF Execute
    <2>4. ASSUME NEW c \in Callers, ResetJob(c) PROVE SettledProperly(j)
      <3>1. j = asked[c].job /\ resetAt' = [resetAt EXCEPT ![j] = jobs'[j].version]
        BY <2>1, <2>4 DEF ResetJob, TypeOK
      <3>2. PICK new \in Record : jobs' = [jobs EXCEPT ![j] = Written(j, new)]
        <4>1. jobs' = [jobs EXCEPT ![j] =
                        Written(j, [Outcome(@, "pending", 0) EXCEPT !.nextAttemptAt = 0])]
          BY <2>1, <2>4, <3>1 DEF ResetJob
        <4>2. jobs[j] \in Record
          BY DEF TypeOK
        <4>3. QED
          BY <4>1, <4>2, ResetFields
      <3>3. jobs'[j].version = jobs[j].version + 1
        BY <3>2, WriteEffect
      <3>4. resetAt'[j] # resetAt[j]
        <4>1. resetAt'[j] = jobs'[j].version
          BY <3>1 DEF TypeOK
        <4>2. resetAt[j] <= jobs[j].version /\ resetAt[j] \in Nat /\ jobs[j].version \in Nat
          BY DEF Inv, NoFutureVersion, TypeOK, Record
        <4>3. QED
          BY <3>3, <4>1, <4>2
      <3>5. QED
        BY <3>4 DEF SettledProperly
    <2>5. ASSUME Tick PROVE FALSE
      BY <2>5, ElapsedFields DEF Tick, TypeOK
    <2>6. QED
      BY <2>1, <2>2, <2>3, <2>4, <2>5 DEF Next, Crash, RequestRetry, RefuseRetry
  <1>2. QED
    BY <1>1, TypeCorrect, Invariance, PTL DEF Spec, SettledByHolder

-----------------------------------------------------------------------------
(* Refinement *)

\* A write of one record, in the terms of JobLifecycle.
LEMMA WriteBecomes ==
  ASSUME TypeOK, NEW j \in JobIds, NEW new \in Record,
         jobs' = [jobs EXCEPT ![j] = Written(j, new)]
  PROVE  Lifecycle!Become(j, new.status, new.attemptCount)
  <1>1. /\ jobs' \in [JobIds -> Record]
        /\ jobs'[j].status = new.status /\ jobs'[j].attemptCount = new.attemptCount
        /\ \A k \in JobIds : k # j => jobs'[k] = jobs[k]
    BY WriteEffect
  <1>2. [k \in JobIds |-> jobs[k].status]' = [[k \in JobIds |-> jobs[k].status] EXCEPT ![j] = new.status]
    BY <1>1
  <1>3. [k \in JobIds |-> jobs[k].attemptCount]'
          = [[k \in JobIds |-> jobs[k].attemptCount] EXCEPT ![j] = new.attemptCount]
    BY <1>1
  <1>4. QED
    BY <1>2, <1>3 DEF Lifecycle!Become

\* A step that changes no status and no attempt count is a stutter of JobLifecycle.
LEMMA Stutters ==
  ASSUME \A k \in JobIds : /\ jobs'[k].status = jobs[k].status
                           /\ jobs'[k].attemptCount = jobs[k].attemptCount
  PROVE  UNCHANGED Lifecycle!lifecycleVars
  BY DEF Lifecycle!lifecycleVars

\* A settlement is lost, or it is written on a running job whose attempts its writer knows.
LEMMA SettleBecomes ==
  ASSUME TypeOK, Inv, NEW w \in Executors, Executing(w), NEW new \in Record, NEW consumes,
         Settle(w, new, consumes)
  PROVE  \/ UNCHANGED jobs
         \/ /\ target[w] \in JobIds
            /\ jobs[target[w]].status = "running"
            /\ jobs[target[w]].attemptCount = seen[w].attemptCount
            /\ Lifecycle!Become(target[w], new.status, new.attemptCount)
  <1>1. PICK j \in JobIds : j = target[w]
    BY DEF Executing, TypeOK
  <1>2. CASE VersionMatches(j, seen[w].version)
    <2>1. Fresh(w)
      BY <1>1, <1>2 DEF Fresh, VersionMatches, Executing
    <2>2. jobs[j].status = "running" /\ jobs[j].attemptCount = seen[w].attemptCount
      BY <1>1, <2>1 DEF Inv, FreshKnows
    <2>3. jobs' = [jobs EXCEPT ![j] = Written(j, new)]
      BY <1>1, <1>2 DEF Settle
    <2>4. QED
      BY <1>1, <2>2, <2>3, WriteBecomes
  <1>3. CASE ~VersionMatches(j, seen[w].version)
    BY <1>1, <1>3 DEF Settle
  <1>4. QED
    BY <1>2, <1>3

\* Every step of the queue is a step of JobLifecycle or a stutter.
LEMMA StepRefines ==
  ASSUME TypeOK, Inv, Next
  PROVE  [Lifecycle!Next]_(Lifecycle!lifecycleVars)
  <1> USE DEF Lifecycle!Next
  <1>1. ASSUME NEW j \in JobIds, NEW delay \in 0..MaxRunAt, CreateJob(j, delay)
        PROVE  Lifecycle!Create(j)
    <2>1. jobs[j].status = "absent" /\ jobs' = [jobs EXCEPT ![j] = NewJob(delay)]
      BY <1>1 DEF CreateJob
    <2>2. PICK s \in {"pending", "scheduled"} : s = NewJob(delay).status /\ NewJob(delay).attemptCount = 0
      BY DEF NewJob
    <2>3. [k \in JobIds |-> jobs[k].status]' = [[k \in JobIds |-> jobs[k].status] EXCEPT ![j] = s]
      BY <2>1, <2>2 DEF TypeOK
    <2>4. [k \in JobIds |-> jobs[k].attemptCount]'
            = [[k \in JobIds |-> jobs[k].attemptCount] EXCEPT ![j] = 0]
      BY <2>1, <2>2 DEF TypeOK
    <2>5. QED
      BY <2>1, <2>3, <2>4 DEF Lifecycle!Create, Lifecycle!Become
  <1>2. ASSUME NEW w \in Executors, CountAbandoned(w)
        PROVE  UNCHANGED jobs \/ \E j \in JobIds : Lifecycle!Abandon(j)
    <2>1. PICK j \in JobIds : j = target[w]
      BY <1>2 DEF CountAbandoned, TypeOK
    <2>2. PICK n \in Nat : n = seen[w].attemptCount + 1
      BY DEF TypeOK
    <2>3. CASE VersionMatches(j, seen[w].version)
      <3>1. pc[w] = "abandoned" /\ Fresh(w)
        BY <1>2, <2>1, <2>3 DEF CountAbandoned, Fresh, VersionMatches
      <3>2. jobs[j].status = "running" /\ n = jobs[j].attemptCount + 1
        BY <2>1, <2>2, <3>1 DEF Inv, FreshKnows, Abandoned
      <3>3. PICK s \in {"failed", "running"} :
              /\ s = IF n >= MaxAttempts THEN "failed" ELSE "running"
              /\ jobs' = [jobs EXCEPT ![j] = Written(j, Outcome(jobs[j], s, n))]
        BY <1>2, <2>1, <2>2, <2>3 DEF CountAbandoned
      <3>4. PICK new \in Record : /\ new = Outcome(jobs[j], s, n) /\ new.status = s
                                  /\ new.attemptCount = n
        <4>1. jobs[j] \in Record /\ s \in Statuses
          BY DEF TypeOK, Statuses
        <4>2. QED
          BY <4>1, OutcomeFields
      <3>5. Lifecycle!Become(j, s, n)
        BY <3>3, <3>4, WriteBecomes
      <3>6. QED
        BY <3>2, <3>3, <3>5 DEF Lifecycle!Abandon, Lifecycle!Become
    <2>4. CASE ~VersionMatches(j, seen[w].version)
      BY <1>2, <2>1, <2>4 DEF CountAbandoned
    <2>5. QED
      BY <2>3, <2>4
  <1>3. ASSUME NEW w \in Executors, Claim(w)
        PROVE  UNCHANGED jobs \/ \E j \in JobIds : Lifecycle!Start(j)
    <2>1. PICK j \in JobIds : j = target[w]
      BY <1>3 DEF Claim, TypeOK
    <2>2. CASE VersionMatches(j, seen[w].version)
      <3>1. jobs[j] \in Record /\ LeaseDuration \in Nat /\ jobs[j].status # "absent"
        BY <1>3, <2>1, JobsAssumption DEF TypeOK, Claim, Inv, CreatedFirst
      <3>2. PICK new \in Record :
              /\ new = [jobs[j] EXCEPT !.status = "running", !.leaseExpiresAt = LeaseDuration]
              /\ new.status = "running" /\ new.attemptCount = jobs[j].attemptCount
        BY <3>1, ClaimFields
      <3>3. jobs' = [jobs EXCEPT ![j] = Written(j, new)]
        BY <1>3, <2>1, <2>2, <3>2 DEF Claim
      <3>4. Lifecycle!Become(j, new.status, new.attemptCount)
        BY <3>2, <3>3, WriteBecomes
      <3>5. /\ [k \in JobIds |-> jobs[k].status][j] # "absent"
            /\ [k \in JobIds |-> jobs[k].attemptCount][j] = new.attemptCount
        BY <3>1, <3>2
      <3>6. Lifecycle!Start(j)
        BY <3>2, <3>4, <3>5, Zenon DEF Lifecycle!Start, Lifecycle!Become
      <3>7. QED
        BY <3>6
    <2>3. CASE ~VersionMatches(j, seen[w].version)
      BY <1>3, <2>1, <2>3 DEF Claim
    <2>4. QED
      BY <2>2, <2>3
  <1>4. ASSUME NEW w \in Executors, NoHandler(w) \/ Deny(w) \/ Postpone(w) \/ Complete(w)
        PROVE  UNCHANGED jobs \/ \E j \in JobIds : Lifecycle!Refuse(j) \/ Lifecycle!Defer(j) \/ Lifecycle!Succeed(j)
    <2>1. Executing(w) /\ Current(w) \in Record /\ Current(w) = jobs[target[w]]
      BY <1>4 DEF NoHandler, Deny, Postpone, Complete, Executing, Current, TypeOK
    <2>2. PICK new \in Record : /\ Settle(w, new, FALSE)
                                /\ new.status \in {"failed", "completed", "retrying"}
                                /\ new.attemptCount = jobs[target[w]].attemptCount
      <3>1. ASSUME NEW s \in {"failed", "completed"}
            PROVE  /\ [Current(w) EXCEPT !.status = s] \in Record
                   /\ [Current(w) EXCEPT !.status = s].status = s
                   /\ [Current(w) EXCEPT !.status = s].attemptCount = jobs[target[w]].attemptCount
        BY <2>1 DEF Record, Statuses
      <3>2. RetryDelay \in Nat
        BY JobsAssumption
      <3>3. /\ [Current(w) EXCEPT !.status = "retrying", !.nextAttemptAt = RetryDelay] \in Record
            /\ [Current(w) EXCEPT !.status = "retrying", !.nextAttemptAt = RetryDelay].status = "retrying"
            /\ [Current(w) EXCEPT !.status = "retrying", !.nextAttemptAt = RetryDelay].attemptCount
                 = jobs[target[w]].attemptCount
        BY <2>1, <3>2 DEF Record, Statuses
      <3>4. CASE NoHandler(w) \/ Deny(w)
        BY <3>1, <3>4 DEF NoHandler, Deny
      <3>5. CASE Complete(w)
        BY <3>1, <3>5 DEF Complete
      <3>6. CASE Postpone(w)
        BY <3>3, <3>6 DEF Postpone
      <3>7. QED
        BY <1>4, <3>4, <3>5, <3>6
    <2>3. CASE UNCHANGED jobs
      BY <2>3
    <2>4. CASE ~UNCHANGED jobs
      <3>1. PICK j \in JobIds : /\ j = target[w] /\ jobs[j].status = "running"
                                /\ Lifecycle!Become(j, new.status, new.attemptCount)
        BY <2>1, <2>2, <2>4, SettleBecomes
      <3>2. /\ [k \in JobIds |-> jobs[k].status][j] = "running"
            /\ [k \in JobIds |-> jobs[k].attemptCount][j] = new.attemptCount
            /\ new.status \in {"failed", "retrying", "completed"}
        BY <2>1, <2>2, <3>1
      <3>3. Lifecycle!Refuse(j) \/ Lifecycle!Defer(j) \/ Lifecycle!Succeed(j)
        BY <3>1, <3>2, Zenon DEF Lifecycle!Become, Lifecycle!Refuse, Lifecycle!Defer, Lifecycle!Succeed
      <3>4. QED
        BY <3>3
    <2>5. QED
      BY <2>3, <2>4
  <1>5. ASSUME NEW w \in Executors, Fail(w)
        PROVE  UNCHANGED jobs \/ \E j \in JobIds : Lifecycle!Miss(j)
    <2>1. Executing(w) /\ Settle(w, AfterFailure(w), TRUE) /\ pc[w] # "idle"
      BY <1>5 DEF Fail, Executing
    <2>2. PICK new \in Record : /\ new = AfterFailure(w)
                                /\ new.status = IF LastAttempt(w) THEN "failed" ELSE "retrying"
                                /\ new.attemptCount = seen[w].attemptCount + 1
      BY <2>1, AfterFailureFields
    <2>3. CASE UNCHANGED jobs
      BY <2>3
    <2>4. CASE ~UNCHANGED jobs
      <3>1. PICK j \in JobIds : /\ j = target[w] /\ jobs[j].status = "running"
                                /\ jobs[j].attemptCount = seen[w].attemptCount
                                /\ Lifecycle!Become(j, new.status, new.attemptCount)
        BY <2>1, <2>2, <2>4, SettleBecomes
      <3>2. PICK n \in Nat : n = seen[w].attemptCount + 1
        BY DEF TypeOK
      <3>3. PICK s \in {"failed", "retrying"} :
              s = new.status /\ s = IF n >= MaxAttempts THEN "failed" ELSE "retrying"
        BY <2>2, <3>2 DEF LastAttempt
      <3>4. Lifecycle!Become(j, s, n) /\ n = jobs[j].attemptCount + 1
        BY <2>2, <3>1, <3>2, <3>3
      <3>5. QED
        BY <3>1, <3>3, <3>4 DEF Lifecycle!Become, Lifecycle!Miss
    <2>5. QED
      BY <2>3, <2>4
  <1>6. ASSUME NEW c \in Callers, ResetJob(c)
        PROVE  UNCHANGED jobs \/ \E j \in JobIds : Lifecycle!Reset(j)
    <2>1. PICK j \in JobIds : j = asked[c].job
      BY <1>6 DEF ResetJob, TypeOK
    <2>2. CASE VersionMatches(j, asked[c].version)
      <3>1. jobs[j] \in Record /\ jobs[j].status # "absent"
        BY <1>6, <2>1 DEF ResetJob, TypeOK, Inv, CreatedFirst
      <3>2. PICK new \in Record :
              /\ new = [Outcome(jobs[j], "pending", 0) EXCEPT !.nextAttemptAt = 0]
              /\ new.status = "pending" /\ new.attemptCount = 0
        BY <3>1, ResetFields
      <3>3. jobs' = [jobs EXCEPT ![j] = Written(j, new)]
        BY <1>6, <2>1, <2>2, <3>2 DEF ResetJob
      <3>4. QED
        BY <3>1, <3>2, <3>3, WriteBecomes DEF Lifecycle!Reset
    <2>3. CASE ~VersionMatches(j, asked[c].version)
      BY <1>6, <2>1, <2>3 DEF ResetJob
    <2>4. QED
      BY <2>2, <2>3
  <1>7. CASE Tick
    <2>1. \A k \in JobIds : /\ jobs'[k].status = jobs[k].status
                            /\ jobs'[k].attemptCount = jobs[k].attemptCount
      BY <1>7, ElapsedFields DEF Tick, TypeOK
    <2>2. QED
      BY <2>1, Stutters
  <1>8. CASE UNCHANGED jobs
    BY <1>8, Stutters
  <1>9. QED
    BY <1>1, <1>2, <1>3, <1>4, <1>5, <1>6, <1>7, <1>8
    DEF Next, Execute, Crash, ListDue, ReadJob, StartHandler, RequestRetry, RefuseRetry

\* The job queue implements JobLifecycle, for any number of executors, jobs and callers.
THEOREM Refinement == Spec => ImplementsLifecycle
  <1>1. Init => Lifecycle!Init
    BY DEF Init, AbsentJob, Lifecycle!Init
  <1>2. TypeOK /\ Inv /\ [Next]_vars => [Lifecycle!Next]_(Lifecycle!lifecycleVars)
    <2>1. ASSUME TypeOK, Inv, Next PROVE [Lifecycle!Next]_(Lifecycle!lifecycleVars)
      BY <2>1, StepRefines
    <2>2. ASSUME UNCHANGED vars PROVE UNCHANGED Lifecycle!lifecycleVars
      BY <2>2, Stutters DEF vars
    <2>3. QED
      BY <2>1, <2>2
  <1>3. QED
    BY <1>1, <1>2, TypeCorrect, Invariance, PTL DEF Spec, ImplementsLifecycle, Lifecycle!Spec


-----------------------------------------------------------------------------
(* One executor: a process with the managed loop alone, or a JobWorker of one slot *)

OneExecutor == (\A v, w \in Executors : v = w) /\ MaxAttempts > 0

\* A job that may be run without a manual retry.
Live == {"scheduled", "pending", "running", "retrying"}

\* What the executor has listed or works on is live: nobody else settles it.
ListedLive ==
  \A w \in Executors :
    /\ \A j \in due[w] : jobs[j].status \in Live
    /\ pc[w] # "idle" => jobs[target[w]].status \in Live /\ target[w] \notin due[w]

\* A live job has an attempt left.
AttemptLeft(j) ==
  /\ jobs[j].attemptCount <= MaxAttempts
  /\ jobs[j].status \in Live => jobs[j].attemptCount < MaxAttempts

SoloInv == ListedLive /\ \A j \in JobIds : AttemptLeft(j)

\* Before any job exists, nothing is listed.
LEMMA SoloInit == ASSUME OneExecutor PROVE Init => SoloInv
  BY JobsAssumption DEF OneExecutor, Init, SoloInv, ListedLive, AttemptLeft, AbsentJob, Live

\* A step that leaves the records alone, and works on what was listed.
LEMMA SoloReads ==
  ASSUME TypeOK, SoloInv, UNCHANGED jobs,
         \A w \in Executors : /\ due'[w] \subseteq due[w] \/ \A j \in due'[w] : IsDue(jobs[j])
                              /\ pc'[w] # "idle" => /\ target'[w] \notin due'[w]
                                                    /\ target'[w] \in due[w] \/ (pc[w] # "idle" /\ target'[w] = target[w])
  PROVE  SoloInv'
  <1>1. \A j \in JobIds : IsDue(jobs[j]) => jobs[j].status \in Live
    BY DEF IsDue, Live
  <1>2. \A j \in JobIds : AttemptLeft(j)'
    BY DEF SoloInv, AttemptLeft
  <1>3. ASSUME NEW w \in Executors
        PROVE  /\ \A j \in due'[w] : jobs'[j].status \in Live
               /\ pc'[w] # "idle" => jobs'[target'[w]].status \in Live /\ target'[w] \notin due'[w]
    <2>1. /\ \A j \in due[w] : jobs[j].status \in Live
          /\ pc[w] # "idle" => jobs[target[w]].status \in Live
      BY DEF SoloInv, ListedLive
    <2>2. \A j \in due'[w] : jobs'[j].status \in Live
      <3>1. CASE due'[w] \subseteq due[w]
        BY <2>1, <3>1
      <3>2. CASE \A j \in due'[w] : IsDue(jobs[j])
        BY <3>2 DEF IsDue, Live
      <3>3. QED
        BY <3>1, <3>2
    <2>3. QED
      BY <2>1, <2>2
  <1>4. QED
    BY <1>2, <1>3 DEF SoloInv, ListedLive

\* The executor writes the record it works on.
LEMMA SoloWrites ==
  ASSUME OneExecutor, TypeOK, SoloInv, NEW w \in Executors, pc[w] # "idle", UNCHANGED due,
         NEW new \in Record, jobs' = [jobs EXCEPT ![target[w]] = Written(target[w], new)],
         new.attemptCount <= MaxAttempts, new.status \in Live => new.attemptCount < MaxAttempts,
         pc'[w] = "idle" \/ (new.status \in Live /\ target'[w] = target[w])
  PROVE  SoloInv'
  <1>1. target[w] \in JobIds /\ due[w] \subseteq JobIds
    BY DEF TypeOK
  <1>2. /\ jobs'[target[w]].status = new.status /\ jobs'[target[w]].attemptCount = new.attemptCount
        /\ \A k \in JobIds : k # target[w] => jobs'[k] = jobs[k]
    BY <1>1, WriteEffect
  <1>3. \A j \in JobIds : AttemptLeft(j)'
    BY <1>2 DEF SoloInv, AttemptLeft
  <1>4. ListedLive'
    <2>1. \A v \in Executors : v = w
      BY DEF OneExecutor
    <2>2. target[w] \notin due[w] /\ \A j \in due[w] : jobs[j].status \in Live
      BY DEF SoloInv, ListedLive
    <2>3. \A j \in due'[w] : jobs'[j].status \in Live
      BY <1>1, <1>2, <2>2
    <2>4. pc'[w] # "idle" => jobs'[target'[w]].status \in Live /\ target'[w] \notin due'[w]
      BY <1>2, <2>2
    <2>5. QED
      BY <2>1, <2>3, <2>4 DEF ListedLive
  <1>5. QED
    BY <1>3, <1>4 DEF SoloInv

\* Somebody else writes a record, which keeps it live or makes it so.
LEMMA SoloSees ==
  ASSUME SoloInv, TypeOK, UNCHANGED <<pc, due, target>>,
         \A j \in JobIds : /\ jobs[j].status \in Live => jobs'[j].status \in Live
                           /\ AttemptLeft(j)'
  PROVE  SoloInv'
  <1>1. ASSUME NEW w \in Executors
        PROVE  /\ \A j \in due'[w] : jobs'[j].status \in Live
               /\ pc'[w] # "idle" => jobs'[target'[w]].status \in Live /\ target'[w] \notin due'[w]
    <2>1. due[w] \subseteq JobIds /\ (pc[w] # "idle" => target[w] \in JobIds)
      BY DEF TypeOK
    <2>2. QED
      BY <2>1 DEF SoloInv, ListedLive
  <1>2. QED
    BY <1>1 DEF SoloInv, ListedLive

\* An attempt that ends leaves the attempts within their limit: the count that is written
\* comes from the record it is written to.
LEMMA SoloSettles ==
  ASSUME OneExecutor, TypeOK, Inv, SoloInv, NEW w \in Executors, Executing(w), NEW new, NEW consumes,
         Settle(w, new, consumes),
         \/ \E s \in {"failed", "completed", "retrying"} :
              new \in Record /\ new.status = s /\ new.attemptCount = jobs[target[w]].attemptCount
         \/ new = AfterFailure(w)
  PROVE  SoloInv'
  <1>1. pc[w] # "idle" /\ target[w] \in JobIds /\ UNCHANGED due /\ pc'[w] = "idle"
    BY DEF Executing, TypeOK, Settle, Return
  <1>2. CASE VersionMatches(target[w], seen[w].version)
    <2>1. jobs' = [jobs EXCEPT ![target[w]] = Written(target[w], new)]
      BY <1>2 DEF Settle
    <2>2. /\ jobs[target[w]].status \in Live /\ jobs[target[w]].attemptCount < MaxAttempts
          /\ jobs[target[w]].attemptCount \in Nat /\ MaxAttempts \in Nat
      BY <1>1, JobsAssumption DEF SoloInv, ListedLive, AttemptLeft, TypeOK, Record
    <2>3. seen[w].attemptCount = jobs[target[w]].attemptCount
      BY <1>1, <1>2 DEF Inv, FreshKnows, Fresh, VersionMatches
    <2>4. new \in Record /\ new.attemptCount <= MaxAttempts /\ (new.status \in Live => new.attemptCount < MaxAttempts)
      <3>1. CASE new = AfterFailure(w)
        <4>1. /\ new \in Record /\ new.attemptCount = jobs[target[w]].attemptCount + 1
              /\ new.status = IF LastAttempt(w) THEN "failed" ELSE "retrying"
          BY <1>1, <2>3, <3>1, AfterFailureFields
        <4>2. LastAttempt(w) <=> jobs[target[w]].attemptCount + 1 >= MaxAttempts
          BY <2>3 DEF LastAttempt
        <4>3. QED
          BY <2>2, <4>1, <4>2 DEF Live
      <3>2. CASE new \in Record /\ new.attemptCount = jobs[target[w]].attemptCount
        BY <2>2, <3>2
      <3>3. QED
        BY <3>1, <3>2
    <2>5. QED
      BY <1>1, <2>1, <2>4, SoloWrites
  <1>3. CASE ~VersionMatches(target[w], seen[w].version)
    <2>1. UNCHANGED jobs
      BY <1>3 DEF Settle
    <2>2. \A v \in Executors : v = w
      BY DEF OneExecutor
    <2>3. QED
      BY <1>1, <2>1, <2>2, SoloReads
  <1>4. QED
    BY <1>2, <1>3

\* A job is claimed, and an abandoned attempt counted, only while an attempt is left.
LEMMA SoloClaims ==
  ASSUME OneExecutor, TypeOK, Inv, SoloInv, NEW w \in Executors, CountAbandoned(w) \/ Claim(w)
  PROVE  SoloInv'
  <1>1. PICK j \in JobIds : j = target[w]
    BY DEF CountAbandoned, Claim, TypeOK
  <1>2. /\ pc[w] # "idle" /\ UNCHANGED due /\ jobs[j] \in Record /\ seen[w].attemptCount \in Nat
        /\ \A v \in Executors : v = w
    BY <1>1 DEF CountAbandoned, Claim, TypeOK, OneExecutor
  <1>3. CASE ~VersionMatches(j, seen[w].version)
    <2>1. Return(w) /\ UNCHANGED jobs
      BY <1>1, <1>3 DEF CountAbandoned, Claim
    <2>2. pc'[w] = "idle"
      BY <2>1 DEF Return, TypeOK
    <2>3. QED
      BY <1>2, <2>1, <2>2, SoloReads
  <1>4. CASE VersionMatches(j, seen[w].version)
    <2>1. /\ jobs[j].attemptCount < MaxAttempts /\ jobs[j].attemptCount \in Nat /\ MaxAttempts \in Nat
          /\ seen[w].attemptCount = jobs[j].attemptCount
      <3>1. jobs[j].attemptCount < MaxAttempts
        BY <1>1, <1>2 DEF SoloInv, ListedLive, AttemptLeft
      <3>2. seen[w].attemptCount = jobs[j].attemptCount
        BY <1>1, <1>2, <1>4 DEF Inv, FreshKnows, Fresh, VersionMatches
      <3>3. QED
        BY <1>2, <3>1, <3>2, JobsAssumption DEF Record
    <2>2. CASE CountAbandoned(w)
      <3>1. PICK n \in Nat : n = seen[w].attemptCount + 1
        BY <1>2
      <3>2. PICK s \in {"failed", "running"} :
              /\ jobs' = [jobs EXCEPT ![j] = Written(j, Outcome(jobs[j], s, n))]
              /\ \/ s = "failed" /\ n >= MaxAttempts /\ Return(w)
                 \/ /\ s = "running" /\ ~(n >= MaxAttempts)
                    /\ UNCHANGED target
        BY <1>1, <1>4, <2>2, <3>1 DEF CountAbandoned
      <3>3. PICK new \in Record : new = Outcome(jobs[j], s, n) /\ new.status = s /\ new.attemptCount = n
        <4>1. s \in Statuses
          BY DEF Statuses
        <4>2. QED
          BY <1>2, <4>1, OutcomeFields
      <3>4. new.attemptCount <= MaxAttempts /\ (new.status \in Live => new.attemptCount < MaxAttempts)
        BY <2>1, <3>1, <3>2, <3>3 DEF Live
      <3>5. pc'[w] = "idle" \/ (new.status \in Live /\ target'[w] = target[w])
        BY <3>2, <3>3 DEF Return, TypeOK, Live
      <3>6. jobs' = [jobs EXCEPT ![target[w]] = Written(target[w], new)]
        BY <1>1, <3>2, <3>3
      <3>7. QED
        BY <1>2, <3>4, <3>5, <3>6, SoloWrites
    <2>3. CASE Claim(w)
      <3>1. PICK new \in Record : /\ new = [jobs[j] EXCEPT !.status = "running", !.leaseExpiresAt = LeaseDuration]
                                  /\ new.status = "running" /\ new.attemptCount = jobs[j].attemptCount
        BY <1>2, ClaimFields
      <3>2. jobs' = [jobs EXCEPT ![target[w]] = Written(target[w], new)] /\ UNCHANGED target
        BY <1>1, <1>4, <2>3, <3>1 DEF Claim
      <3>3. /\ new.status \in Live /\ new.attemptCount < MaxAttempts /\ new.attemptCount <= MaxAttempts
        BY <2>1, <3>1 DEF Live
      <3>4. QED
        BY <1>2, <3>2, <3>3, SoloWrites
    <2>4. QED
      BY <2>2, <2>3
  <1>5. QED
    BY <1>3, <1>4

\* Every step keeps SoloInv.
LEMMA SoloNext ==
  ASSUME OneExecutor PROVE TypeOK /\ Inv /\ SoloInv /\ [Next]_vars => SoloInv'
  <1>1. SUFFICES ASSUME TypeOK, Inv, SoloInv, [Next]_vars PROVE SoloInv'
    OBVIOUS
  <1>2. ASSUME NEW j \in JobIds, NEW delay \in 0..MaxRunAt, CreateJob(j, delay) PROVE SoloInv'
    <2>1. /\ jobs' = [jobs EXCEPT ![j] = NewJob(delay)] /\ jobs[j].status = "absent"
          /\ UNCHANGED <<pc, due, target>>
      BY <1>2 DEF CreateJob, execVars
    <2>2. jobs'[j] = NewJob(delay) /\ \A k \in JobIds : k # j => jobs'[k] = jobs[k]
      BY <1>1, <2>1 DEF TypeOK
    <2>3. jobs'[j].attemptCount = 0 /\ jobs[j].status \notin Live
      BY <2>1, <2>2 DEF NewJob, Live
    <2>4. AttemptLeft(j)'
      BY <2>3, JobsAssumption DEF AttemptLeft, OneExecutor
    <2>5. ASSUME NEW k \in JobIds, k # j PROVE jobs'[k].status = jobs[k].status /\ AttemptLeft(k)'
      BY <1>1, <2>2, <2>5 DEF AttemptLeft, SoloInv
    <2>6. QED
      BY <1>1, <2>1, <2>3, <2>4, <2>5, SoloSees
  <1>3. ASSUME NEW w \in Executors, Execute(w) \/ Crash(w) PROVE SoloInv'
    <2>1. \A v \in Executors : v = w
      BY DEF OneExecutor
    <2>2. CASE ListDue(w)
      <3>1. UNCHANGED <<jobs, pc, target>> /\ pc[w] = "idle"
        BY <2>2 DEF ListDue
      <3>2. \A j \in due'[w] : IsDue(jobs[j])
        BY <1>1, <2>2 DEF ListDue, DueJobs, TypeOK
      <3>3. QED
        BY <1>1, <2>1, <3>1, <3>2, SoloReads
    <2>3. ASSUME NEW j \in JobIds, ReadJob(w, j) PROVE SoloInv'
      <3>1. UNCHANGED jobs /\ j \in due[w] /\ pc[w] = "idle" /\ due'[w] = due[w] \ {j}
        BY <1>1, <2>3 DEF ReadJob, TypeOK
      <3>2. pc'[w] = "idle" \/ target'[w] = j
        BY <1>1, <2>3, <3>1 DEF ReadJob, TypeOK
      <3>3. QED
        BY <1>1, <2>1, <3>1, <3>2, SoloReads
    <2>4. CASE CountAbandoned(w) \/ Claim(w)
      BY <1>1, <2>4, SoloClaims
    <2>5. CASE NoHandler(w) \/ Deny(w) \/ Postpone(w) \/ Complete(w)
      <3>1. PICK new \in Record : /\ Settle(w, new, FALSE)
                                  /\ new.status \in {"failed", "completed", "retrying"}
                                  /\ new.attemptCount = jobs[target[w]].attemptCount
        BY <1>1, <2>5, OutcomeWrites
      <3>2. Executing(w)
        BY <2>5 DEF NoHandler, Deny, Postpone, Complete, Executing
      <3>3. QED
        BY <1>1, <3>1, <3>2, SoloSettles
    <2>6. CASE Fail(w)
      <3>1. Executing(w) /\ Settle(w, AfterFailure(w), TRUE)
        BY <2>6 DEF Fail
      <3>2. PICK new : new = AfterFailure(w)
        OBVIOUS
      <3>3. QED
        BY <1>1, <3>1, <3>2, SoloSettles
    <2>7. CASE StartHandler(w)
      <3>1. UNCHANGED <<jobs, due, target>> /\ pc[w] # "idle" /\ target[w] \notin due[w]
        BY <1>1, <2>7 DEF StartHandler, SoloInv, ListedLive
      <3>2. QED
        BY <1>1, <2>1, <3>1, SoloReads
    <2>8. CASE Crash(w)
      <3>1. UNCHANGED jobs /\ due'[w] = {} /\ pc'[w] = "idle"
        BY <1>1, <2>8 DEF Crash, Return, TypeOK
      <3>2. QED
        BY <1>1, <2>1, <3>1, SoloReads
    <2>9. QED
      BY <1>3, <2>2, <2>3, <2>4, <2>5, <2>6, <2>7, <2>8 DEF Execute
  <1>4. ASSUME NEW c \in Callers, ResetJob(c) PROVE SoloInv'
    <2>1. PICK j \in JobIds : j = asked[c].job
      BY <1>1, <1>4 DEF ResetJob, TypeOK
    <2>2. UNCHANGED <<pc, due, target>>
      BY <1>4 DEF ResetJob, execVars
    <2>3. CASE VersionMatches(j, asked[c].version)
      <3>1. PICK new \in Record : /\ jobs' = [jobs EXCEPT ![j] = Written(j, new)]
                                  /\ new.status = "pending" /\ new.attemptCount = 0
        <4>1. jobs' = [jobs EXCEPT ![j] = Written(j, [Outcome(jobs[j], "pending", 0) EXCEPT !.nextAttemptAt = 0])]
          BY <1>4, <2>1, <2>3 DEF ResetJob
        <4>2. jobs[j] \in Record
          BY <1>1 DEF TypeOK
        <4>3. QED
          BY <4>1, <4>2, ResetFields
      <3>2. /\ jobs'[j].status = "pending" /\ jobs'[j].attemptCount = 0
            /\ \A k \in JobIds : k # j => jobs'[k] = jobs[k]
        BY <1>1, <3>1, WriteEffect
      <3>3. jobs'[j].status \in Live /\ AttemptLeft(j)'
        BY <3>2, JobsAssumption DEF AttemptLeft, OneExecutor, Live
      <3>4. ASSUME NEW k \in JobIds, k # j PROVE jobs'[k].status = jobs[k].status /\ AttemptLeft(k)'
        BY <1>1, <3>2, <3>4 DEF AttemptLeft, SoloInv
      <3>5. QED
        BY <1>1, <2>2, <3>3, <3>4, SoloSees
    <2>4. CASE ~VersionMatches(j, asked[c].version)
      <3>1. UNCHANGED jobs
        BY <1>4, <2>1, <2>4 DEF ResetJob
      <3>2. \A k \in JobIds : AttemptLeft(k)'
        BY <1>1, <3>1 DEF AttemptLeft, SoloInv
      <3>3. QED
        BY <1>1, <2>2, <3>1, <3>2, SoloSees
    <2>5. QED
      BY <2>3, <2>4
  <1>5. CASE Tick
    <2>1. /\ \A j \in JobIds : jobs'[j].status = jobs[j].status /\ jobs'[j].attemptCount = jobs[j].attemptCount
          /\ UNCHANGED <<pc, due, target>>
      BY <1>1, <1>5, ElapsedFields DEF Tick, TypeOK
    <2>2. \A j \in JobIds : AttemptLeft(j)'
      BY <1>1, <2>1 DEF AttemptLeft, SoloInv
    <2>3. QED
      BY <1>1, <2>1, <2>2, SoloSees
  <1>6. CASE UNCHANGED <<jobs, pc, due, target>>
    BY <1>1, <1>6 DEF SoloInv, ListedLive, AttemptLeft
  <1>7. QED
    BY <1>1, <1>2, <1>3, <1>4, <1>5, <1>6 DEF Next, RequestRetry, RefuseRetry, execVars, vars

\* With one executor a job is given no more than maxAttempts attempts, for any limit above zero
\* and whatever crashes, outages and manual retries there are (executeJob, recordExecutionFailure).
THEOREM AttemptsBoundedWithOneExecutor == ASSUME OneExecutor PROVE Spec => []AttemptsBounded
  <1>1. SoloInv => AttemptsBounded
    BY DEF SoloInv, AttemptLeft, AttemptsBounded
  <1>2. Init => SoloInv
    BY SoloInit
  <1>3. TypeOK /\ Inv /\ SoloInv /\ [Next]_vars => SoloInv'
    BY SoloNext
  <1>4. QED
    BY <1>1, <1>2, <1>3, TypeCorrect, Invariance, PTL DEF Spec

\* With one executor a completed job is run again only after a manual retry: the list the executor
\* works through holds no job that somebody else completes (executeJob, which does not look at
\* the settled statuses again).
THEOREM CompletedIsFinalWithOneExecutor == ASSUME OneExecutor PROVE Spec => CompletedIsFinal
  <1> DEFINE Stays == \A j \in JobIds :
                        jobs[j].status = "completed" /\ jobs'[j].status # "completed" => resetAt'[j] # resetAt[j]
  <1>1. TypeOK /\ Inv /\ SoloInv /\ [Next]_vars => [Stays]_vars
    <2>1. SUFFICES ASSUME TypeOK, Inv, SoloInv, Next, NEW j \in JobIds,
                          jobs[j].status = "completed", jobs'[j].status # "completed"
                   PROVE  resetAt'[j] # resetAt[j]
      OBVIOUS
    <2>2. jobs'[j] # jobs[j]
      BY <2>1
    <2>3. ASSUME NEW k \in JobIds, NEW delay \in 0..MaxRunAt, CreateJob(k, delay) PROVE FALSE
      BY <2>1, <2>2, <2>3 DEF CreateJob, TypeOK
    <2>4. ASSUME NEW w \in Executors, Execute(w) PROVE FALSE
      <3>1. pc[w] # "idle" /\ target[w] = j
        <4>1. CASE CountAbandoned(w) \/ Claim(w)
          BY <2>1, <2>2, <4>1 DEF CountAbandoned, Claim, TypeOK
        <4>2. CASE NoHandler(w) \/ Deny(w) \/ Postpone(w) \/ Complete(w) \/ Fail(w)
          BY <2>1, <2>2, <4>2 DEF NoHandler, Deny, Postpone, Complete, Fail, Executing, Settle, TypeOK
        <4>3. QED
          BY <2>2, <2>4, <4>1, <4>2 DEF Execute, ListDue, ReadJob, StartHandler
      <3>2. jobs[j].status \in Live
        BY <2>1, <3>1 DEF SoloInv, ListedLive
      <3>3. QED
        BY <2>1, <3>2 DEF Live
    <2>5. ASSUME NEW c \in Callers, ResetJob(c) PROVE resetAt'[j] # resetAt[j]
      <3>0. j = asked[c].job /\ VersionMatches(j, asked[c].version)
        BY <2>1, <2>2, <2>5 DEF ResetJob, TypeOK
      <3>1. /\ resetAt' = [resetAt EXCEPT ![j] = jobs'[j].version]
            /\ jobs' = [jobs EXCEPT ![j] = Written(j, [Outcome(jobs[j], "pending", 0) EXCEPT !.nextAttemptAt = 0])]
        BY <2>5, <3>0 DEF ResetJob
      <3>2. jobs[j] \in Record /\ resetAt[j] <= jobs[j].version /\ resetAt[j] \in Nat /\ jobs[j].version \in Nat
        BY <2>1 DEF Inv, NoFutureVersion, TypeOK, Record
      <3>3. jobs'[j].version = jobs[j].version + 1
        BY <2>1, <3>1, <3>2, ResetFields, WriteEffect
      <3>4. resetAt'[j] = jobs'[j].version
        BY <2>1, <3>1 DEF TypeOK
      <3>5. QED
        BY <3>2, <3>3, <3>4
    <2>6. ASSUME Tick PROVE FALSE
      BY <2>1, <2>6, ElapsedFields DEF Tick, TypeOK
    <2>7. QED
      BY <2>1, <2>2, <2>3, <2>4, <2>5, <2>6 DEF Next, Crash, RequestRetry, RefuseRetry
  <1>2. Init => SoloInv
    BY SoloInit
  <1>3. TypeOK /\ Inv /\ SoloInv /\ [Next]_vars => SoloInv'
    BY SoloNext
  <1>4. QED
    BY <1>1, <1>2, <1>3, TypeCorrect, Invariance, PTL DEF Spec, CompletedIsFinal
=============================================================================
