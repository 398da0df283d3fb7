-------------------------------- MODULE Jobs --------------------------------
(***************************************************************************)
(* The durable job queue: JobService (src/jobs/service.ts), its FeltDB     *)
(* store (src/jobs/store.ts), the JobWorker poll loop (src/jobs/worker.ts) *)
(* and the managed runtime loop (startManagedLoop in runtime/appport.ts).  *)
(*                                                                         *)
(* Every await of executeJob is a point where the other executors, the     *)
(* callers and the clock may step, so executeJob is cut into one action    *)
(* per await.  The store's only write is a compare-and-set on __version.   *)
(*                                                                         *)
(* Instants (runAt, nextAttemptAt, leaseExpiresAt) are kept as the time    *)
(* that is left until them, run down by Tick: the code only ever compares  *)
(* them with now.  0 means reached, or never set.                          *)
(***************************************************************************)
EXTENDS Naturals, FiniteSets

CONSTANTS
  JobIds,        \* ids of the jobs a tenant may create
  Loops,         \* managed runtime loops, one per process
  Slots,         \* concurrency slots of JobWorkers
  Callers,       \* clients that ask for a manual retry
  NoJob,         \* not a job: the executor or the caller holds none
  MaxAttempts,   \* job.maxAttempts
  LeaseDuration, \* leaseDurationMs, in ticks
  RetryDelay,    \* INITIAL_RETRY_DELAY_MS, in ticks
  MaxRunAt,      \* bound: how far ahead a job may be scheduled, in ticks
  MaxCrashes,    \* bound: executors that stop in mid-flight
  MaxOutages,    \* bound: AUTHORITY_UNAVAILABLE / AUTHORIZATION_TIMEOUT answers
  MaxResets,     \* bound: manual retries asked for
  MaxVersion     \* bound: a record at this version is not claimed again

Executors == Loops \union Slots

ASSUME JobsAssumption ==
  /\ NoJob \notin JobIds
  /\ Loops \intersect Slots = {}
  /\ MaxAttempts \in Nat
  /\ LeaseDuration \in Nat \ {0}
  /\ RetryDelay \in Nat \ {0}
  /\ MaxRunAt \in Nat
  /\ MaxCrashes \in Nat
  /\ MaxOutages \in Nat
  /\ MaxResets \in Nat
  /\ MaxVersion \in Nat

VARIABLES
  jobs,     \* the jobs collection
  pc,       \* executor -> where in executeJob it waits
  due,      \* executor -> what is left of the due list it took
  target,   \* executor -> the job it executes
  seen,     \* executor -> version and attempts of the record it read or wrote last
  asked,    \* caller -> the job and version its retry read
  crashes, outages, resets,       \* used-up bounds
  \* history, read by no action
  held,     \* executor -> what is left of the lease it claimed
  holder,   \* job -> the executor of the latest claim
  claims,   \* job -> claims since the latest manual retry
  excused,  \* job -> settlements since then that consume no attempt
  resetAt   \* job -> version written by the latest manual retry

execVars == <<pc, due, target, seen, held>>
boundVars == <<crashes, outages, resets>>
historyVars == <<holder, claims, excused, resetAt>>
vars == <<jobs, pc, due, target, seen, asked, crashes, outages, resets,
          held, holder, claims, excused, resetAt>>

-----------------------------------------------------------------------------
(* Records *)

Statuses == {"absent", "scheduled", "pending", "running", "retrying",
             "completed", "failed"}

Record == [status: Statuses, attemptCount: Nat, runAt: Nat,
           nextAttemptAt: Nat, leaseExpiresAt: Nat, version: Nat]

AbsentJob == [status |-> "absent", attemptCount |-> 0, runAt |-> 0,
              nextAttemptAt |-> 0, leaseExpiresAt |-> 0, version |-> 0]

\* What executeJob goes on to use of the record it holds.
Snapshot(job) == [version |-> job.version, attemptCount |-> job.attemptCount]

NoSnapshot == Snapshot(AbsentJob)

NoRequest == [job |-> NoJob, version |-> 0]

TypeOK ==
  /\ jobs \in [JobIds -> Record]
  /\ pc \in [Executors -> {"idle", "abandoned", "claim", "authorize", "handler"}]
  /\ due \in [Executors -> SUBSET JobIds]
  /\ target \in [Executors -> JobIds \union {NoJob}]
  /\ seen \in [Executors -> [version: Nat, attemptCount: Nat]]
  /\ asked \in [Callers -> [job: JobIds \union {NoJob}, version: Nat]]
  /\ crashes \in 0..MaxCrashes /\ outages \in 0..MaxOutages /\ resets \in 0..MaxResets
  /\ held \in [Executors -> Nat]
  /\ holder \in [JobIds -> Executors \union {NoJob}]
  /\ claims \in [JobIds -> Nat]
  /\ excused \in [JobIds -> Nat]
  /\ resetAt \in [JobIds -> Nat]
  /\ \A w \in Executors : pc[w] # "idle" => target[w] \in JobIds
  /\ \A c \in Callers : asked[c] # NoRequest => asked[c].job \in JobIds

Init ==
  /\ jobs = [j \in JobIds |-> AbsentJob]
  /\ pc = [w \in Executors |-> "idle"]
  /\ due = [w \in Executors |-> {}]
  /\ target = [w \in Executors |-> NoJob]
  /\ seen = [w \in Executors |-> NoSnapshot]
  /\ asked = [c \in Callers |-> NoRequest]
  /\ crashes = 0 /\ outages = 0 /\ resets = 0
  /\ held = [w \in Executors |-> 0]
  /\ holder = [j \in JobIds |-> NoJob]
  /\ claims = [j \in JobIds |-> 0]
  /\ excused = [j \in JobIds |-> 0]
  /\ resetAt = [j \in JobIds |-> 0]

-----------------------------------------------------------------------------
(* The store *)

\* Mutant: the expected version is ignored.
UnconditionalWrite(j, version) == TRUE

\* A write guarded by the version the writer read: FeltDB's updateIfVersion.
VersionMatches(j, version) == jobs[j].version = version

Written(j, new) == [new EXCEPT !.version = jobs[j].version + 1]

\* The record with a new status and attempt count.
Outcome(job, status, attemptCount) ==
  [job EXCEPT !.status = status, !.attemptCount = attemptCount]

\* Mutant: jobs whose worker stopped are never listed.
IsDueUnlessRunning(job) ==
  \/ job.status \in {"pending", "scheduled"} /\ job.runAt = 0
  \/ job.status = "retrying" /\ job.nextAttemptAt = 0

\* Mutant: an expired lease makes a job due whatever its status.
IsDueByLease(job) ==
  \/ job.status \in {"pending", "scheduled"} /\ job.runAt = 0
  \/ job.status = "retrying" /\ job.nextAttemptAt = 0
  \/ job.status # "absent" /\ job.leaseExpiresAt = 0

\* What FeltDbJobStore.listDue returns.
IsDue(job) ==
  \/ job.status \in {"pending", "scheduled"} /\ job.runAt = 0
  \/ job.status = "retrying" /\ job.nextAttemptAt = 0
  \/ job.status = "running" /\ job.leaseExpiresAt = 0

DueJobs == {j \in JobIds : IsDue(jobs[j])}

-----------------------------------------------------------------------------
(* Creating jobs: enqueue and schedule, both through createJobRecord *)

NewJob(delay) ==
  [status |-> IF delay = 0 THEN "pending" ELSE "scheduled", attemptCount |-> 0,
   runAt |-> delay, nextAttemptAt |-> 0, leaseExpiresAt |-> 0, version |-> 1]

CreateJob(j, delay) ==
  /\ jobs[j].status = "absent"
  /\ jobs' = [jobs EXCEPT ![j] = NewJob(delay)]
  /\ UNCHANGED <<execVars, asked, boundVars, historyVars>>

-----------------------------------------------------------------------------
(* Polling *)

\* A managed loop takes the whole due list and works through it before it lists
\* again; a JobWorker slot takes one job of the list it read.
ListDue(w) ==
  /\ pc[w] = "idle"
  /\ due[w] = {}
  /\ DueJobs # {}
  /\ due' \in {[due EXCEPT ![w] = S] :
                 S \in IF w \in Loops THEN {DueJobs} ELSE {{j} : j \in DueJobs}}
  /\ UNCHANGED <<jobs, pc, target, seen, held, asked, boundVars, historyVars>>

\* executeJob returns: w waits for the next job of its list.
Return(w) ==
  /\ pc' = [pc EXCEPT ![w] = "idle"]
  /\ target' = [target EXCEPT ![w] = NoJob]
  /\ seen' = [seen EXCEPT ![w] = NoSnapshot]
  /\ held' = [held EXCEPT ![w] = 0]

-----------------------------------------------------------------------------
(* executeJob *)

\* Mutant: running jobs are taken whether their lease runs or not.
NeverHeld(job) == FALSE

\* The job is held by a lease that is still running: executeJob returns false.
\* (No record ever carries a leaseOwner, so the owner test never lets one by.)
LeaseHeld(job) == job.status = "running" /\ job.leaseExpiresAt > 0

Abandoned(job) == job.status = "running" /\ job.leaseExpiresAt = 0

\* jobStore.get, up to the next write.
ReadJob(w, j) ==
  /\ pc[w] = "idle"
  /\ j \in due[w]
  /\ due' = [due EXCEPT ![w] = @ \ {j}]
  /\ IF LeaseHeld(jobs[j])
       THEN UNCHANGED <<pc, target, seen>>
       ELSE /\ pc' = [pc EXCEPT ![w] = IF Abandoned(jobs[j]) THEN "abandoned" ELSE "claim"]
            /\ target' = [target EXCEPT ![w] = j]
            /\ seen' = [seen EXCEPT ![w] = Snapshot(jobs[j])]
  /\ UNCHANGED <<jobs, held, asked, boundVars, historyVars>>

\* Mutant: an abandoned job is taken over without counting the abandoned attempt.
TakeOver(w) ==
  /\ pc[w] = "abandoned"
  /\ pc' = [pc EXCEPT ![w] = "claim"]
  /\ UNCHANGED <<jobs, due, target, seen, held, asked, boundVars, historyVars>>

\* The write that counts the attempt an expired lease abandoned; the last attempt
\* fails the job.
CountAbandoned(w) ==
  LET j == target[w]
      attemptCount == seen[w].attemptCount + 1
      exhausted == attemptCount >= MaxAttempts
  IN
  /\ pc[w] = "abandoned"
  /\ \/ /\ ~VersionMatches(j, seen[w].version)
        /\ Return(w)
        /\ UNCHANGED jobs
     \/ /\ VersionMatches(j, seen[w].version)
        /\ exhausted
        /\ jobs' = [jobs EXCEPT ![j] = Written(j, Outcome(@, "failed", attemptCount))]
        /\ Return(w)
     \/ /\ VersionMatches(j, seen[w].version)
        /\ ~exhausted
        /\ jobs' = [jobs EXCEPT ![j] = Written(j, Outcome(@, "running", attemptCount))]
        /\ seen' = [seen EXCEPT ![w] = Snapshot(jobs'[j])]
        /\ pc' = [pc EXCEPT ![w] = "claim"]
        /\ UNCHANGED <<target, held>>
  /\ UNCHANGED <<due, asked, boundVars, historyVars>>

\* jobStore.claim: the status of the record is not looked at again.
Claim(w) ==
  LET j == target[w] IN
  /\ pc[w] = "claim"
  /\ \/ /\ ~VersionMatches(j, seen[w].version)
        /\ Return(w)
        /\ UNCHANGED <<jobs, holder, claims>>
     \/ /\ VersionMatches(j, seen[w].version)
        /\ jobs[j].version < MaxVersion
        /\ jobs' = [jobs EXCEPT ![j] = Written(j, [@ EXCEPT !.status = "running",
                                                    !.leaseExpiresAt = LeaseDuration])]
        /\ seen' = [seen EXCEPT ![w] = Snapshot(jobs'[j])]
        /\ pc' = [pc EXCEPT ![w] = "authorize"]
        /\ held' = [held EXCEPT ![w] = LeaseDuration]
        /\ holder' = [holder EXCEPT ![j] = w]
        /\ claims' = [claims EXCEPT ![j] = @ + 1]
        /\ UNCHANGED target
  /\ UNCHANGED <<due, asked, boundVars, excused, resetAt>>

\* A write that ends the attempt w claimed.  It is lost when the record has moved
\* on since.
Settle(w, new, consumesAttempt) ==
  LET j == target[w] IN
  /\ IF VersionMatches(j, seen[w].version)
       THEN /\ jobs' = [jobs EXCEPT ![j] = Written(j, new)]
            /\ excused' = [excused EXCEPT ![j] = IF consumesAttempt THEN @ ELSE @ + 1]
       ELSE UNCHANGED <<jobs, excused>>
  /\ Return(w)
  /\ UNCHANGED <<due, asked, crashes, resets, holder, claims, resetAt>>

\* The record as it is when w's write reaches it.
Current(w) == jobs[target[w]]

Executing(w) == pc[w] \in {"authorize", "handler"}

\* No handler is registered for the job's type: failed.
NoHandler(w) ==
  /\ pc[w] = "authorize"
  /\ Settle(w, [Current(w) EXCEPT !.status = "failed"], FALSE)
  /\ UNCHANGED outages

\* No durable principal, an unattested one, or DENIED / UNAUTHENTICATED from
\* jobs.execute or from an effect inside the handler.
Deny(w) ==
  /\ Executing(w)
  /\ Settle(w, [Current(w) EXCEPT !.status = "failed"], FALSE)
  /\ UNCHANGED outages

\* AUTHORITY_UNAVAILABLE or AUTHORIZATION_TIMEOUT from jobs.execute or from an
\* effect inside the handler: back to retrying, with no attempt consumed.
Postpone(w) ==
  /\ Executing(w)
  /\ outages < MaxOutages
  /\ outages' = outages + 1
  /\ Settle(w, [Current(w) EXCEPT !.status = "retrying",
                                    !.nextAttemptAt = RetryDelay], FALSE)

\* jobs.execute is allowed, or the mode is legacy: the handler starts.
StartHandler(w) ==
  /\ pc[w] = "authorize"
  /\ pc' = [pc EXCEPT ![w] = "handler"]
  /\ UNCHANGED <<jobs, due, target, seen, held, asked, boundVars, historyVars>>

\* completeJob.
Complete(w) ==
  /\ pc[w] = "handler"
  /\ Settle(w, [Current(w) EXCEPT !.status = "completed"], FALSE)
  /\ UNCHANGED outages

\* Mutant: one attempt too many.
LastAttemptPassed(w) == seen[w].attemptCount + 1 > MaxAttempts

\* recordExecutionFailure, with the attempt count the claim returned.
LastAttempt(w) == seen[w].attemptCount + 1 >= MaxAttempts

Backoff(attemptCount) == RetryDelay * 2^attemptCount

\* The provers have no theory of exponentiation.
ASSUME BackoffAssumption == \A n \in 0..MaxAttempts : Backoff(n) \in Nat

AfterFailure(w) ==
  IF LastAttempt(w)
    THEN Outcome(Current(w), "failed", seen[w].attemptCount + 1)
    ELSE [Outcome(Current(w), "retrying", seen[w].attemptCount + 1)
            EXCEPT !.nextAttemptAt = Backoff(seen[w].attemptCount)]

\* Any other error, of the handler or of the gateway around it.
Fail(w) ==
  /\ Executing(w)
  /\ Settle(w, AfterFailure(w), TRUE)
  /\ UNCHANGED outages

\* The process stops, or a store call throws out of executeJob: the rest of the
\* due list is dropped with it.
Crash(w) ==
  /\ crashes < MaxCrashes
  /\ pc[w] # "idle" \/ due[w] # {}
  /\ crashes' = crashes + 1
  /\ due' = [due EXCEPT ![w] = {}]
  /\ Return(w)
  /\ UNCHANGED <<jobs, asked, outages, resets, historyVars>>

-----------------------------------------------------------------------------
(* Manual retry: the version is read before jobs.retry is authorized *)

RequestRetry(c, j) ==
  /\ asked[c] = NoRequest
  /\ resets < MaxResets
  /\ jobs[j].status # "absent"
  /\ asked' = [asked EXCEPT ![c] = [job |-> j, version |-> jobs[j].version]]
  /\ resets' = resets + 1
  /\ UNCHANGED <<jobs, execVars, crashes, outages, historyVars>>

\* resetJob, whatever the status of the job.
ResetJob(c) ==
  LET j == asked[c].job IN
  /\ asked[c] # NoRequest
  /\ IF VersionMatches(j, asked[c].version)
       THEN /\ jobs' = [jobs EXCEPT ![j] =
                         Written(j, [Outcome(@, "pending", 0) EXCEPT !.nextAttemptAt = 0])]
            /\ claims' = [claims EXCEPT ![j] = 0]
            /\ excused' = [excused EXCEPT ![j] = 0]
            /\ resetAt' = [resetAt EXCEPT ![j] = jobs'[j].version]
       ELSE UNCHANGED <<jobs, claims, excused, resetAt>>
  /\ asked' = [asked EXCEPT ![c] = NoRequest]
  /\ UNCHANGED <<execVars, boundVars, holder>>

\* jobs.retry is refused.
RefuseRetry(c) ==
  /\ asked[c] # NoRequest
  /\ asked' = [asked EXCEPT ![c] = NoRequest]
  /\ UNCHANGED <<jobs, execVars, boundVars, historyVars>>

-----------------------------------------------------------------------------
(* Time *)

Less(t) == IF t > 0 THEN t - 1 ELSE 0

Elapsed(job) == [job EXCEPT !.runAt = Less(@), !.nextAttemptAt = Less(@),
                            !.leaseExpiresAt = Less(@)]

Tick ==
  /\ jobs # [j \in JobIds |-> Elapsed(jobs[j])]
  /\ jobs' = [j \in JobIds |-> Elapsed(jobs[j])]
  /\ held' = [w \in Executors |-> Less(held[w])]
  /\ UNCHANGED <<pc, due, target, seen, asked, boundVars, historyVars>>

-----------------------------------------------------------------------------

Execute(w) ==
  \/ ListDue(w)
  \/ \E j \in JobIds : ReadJob(w, j)
  \/ CountAbandoned(w) \/ Claim(w)
  \/ NoHandler(w) \/ Deny(w) \/ Postpone(w) \/ StartHandler(w)
  \/ Complete(w) \/ Fail(w)

Next ==
  \/ \E j \in JobIds, delay \in 0..MaxRunAt : CreateJob(j, delay)
  \/ \E w \in Executors : Execute(w) \/ Crash(w)
  \/ \E c \in Callers, j \in JobIds : RequestRetry(c, j)
  \/ \E c \in Callers : ResetJob(c) \/ RefuseRetry(c)
  \/ Tick

Spec == Init /\ [][Next]_vars

\* Time passes, executors that have not stopped take their next step, and handlers
\* and authorizers answer.  Nothing makes a client create or retry a job.
FairSpec == Spec /\ WF_vars(Tick) /\ \A w \in Executors : WF_vars(Execute(w))

-----------------------------------------------------------------------------
(* Properties *)

One(condition) == IF condition THEN 1 ELSE 0

\* Every claim is paid for: since the latest manual retry a job was claimed at most
\* once per attempt counted against maxAttempts, once per settlement that consumes
\* none (completed, denied, unregistered, authority unavailable), and once for the
\* claim that is still running.  So no interleaving of executors, expired leases and
\* lost writes gives a job a run that its attempt count does not know of: the reason
\* why a job that stops its worker every time ends (executeJob).
AttemptsAccounted ==
  \A j \in JobIds :
    claims[j] <= jobs[j].attemptCount + excused[j] + One(jobs[j].status = "running")

\* Two executors never work on the same job inside their leases, unless a manual
\* retry came between their claims (executeJob's lease test and the versioned claim).
LeaseExclusive ==
  \A w1, w2 \in Executors :
    /\ w1 # w2
    /\ Executing(w1) /\ Executing(w2)
    /\ target[w1] = target[w2]
    /\ held[w1] > 0 /\ held[w2] > 0
    => \E w \in {w1, w2} : seen[w].version < resetAt[target[w]]

\* The step ends the running attempt of j as it may be ended.
SettledProperly(j) ==
  \/ \E w \in Executors : holder[j] = w /\ target[w] = j /\ Executing(w) /\ pc'[w] = "idle"
  \/ \E w \in Executors : target[w] = j /\ pc[w] = "abandoned" /\ jobs[j].leaseExpiresAt = 0
  \/ resetAt'[j] # resetAt[j]

SettlesProperly ==
  \A j \in JobIds :
    jobs[j].status = "running" /\ jobs'[j].status # "running" => SettledProperly(j)

\* A running job is settled by the executor of its latest claim, by an executor that
\* found the lease expired, or by a manual retry: the late write of an executor whose
\* claim was superseded changes nothing (updateJob's expected version).
SettledByHolder == [][SettlesProperly]_vars

\* The queue as a whole implements the life of a job record that JobLifecycle states:
\* in particular no outcome is ever written on a job that is not running.
Lifecycle == INSTANCE JobLifecycle
               WITH status <- [j \in JobIds |-> jobs[j].status],
                    attempts <- [j \in JobIds |-> jobs[j].attemptCount]

ImplementsLifecycle == Lifecycle!Spec

\* However executors stop and authority fails, every job that was created ends up
\* completed or failed for good: no crash leaves one running and no lost race leaves
\* one undue (listDue with its stale leases, and recordExecutionFailure's backoff).
EventuallySettled ==
  \A j \in JobIds :
    jobs[j].status # "absent" ~> [](jobs[j].status \in {"completed", "failed"})

-----------------------------------------------------------------------------
(* The inductive invariant behind the safety properties *)

\* Only created jobs are listed, executed and retried, and none was ever claimed or
\* reset before it was created.
CreatedFirst ==
  /\ \A w \in Executors, j \in JobIds :
       j \in due[w] \/ (pc[w] # "idle" /\ target[w] = j) => jobs[j].status # "absent"
  /\ \A c \in Callers : asked[c] # NoRequest => jobs[asked[c].job].status # "absent"
  /\ \A j \in JobIds : jobs[j].status = "absent" => claims[j] = 0 /\ resetAt[j] = 0

\* Versions only grow: nobody has seen a version that is not written yet.
NoFutureVersion ==
  /\ \A w \in Executors : pc[w] # "idle" => seen[w].version <= jobs[target[w]].version
  /\ \A j \in JobIds : resetAt[j] <= jobs[j].version

\* w has seen the record as it is now, so its next write takes effect.
Fresh(w) == pc[w] # "idle" /\ seen[w].version = jobs[target[w]].version

\* What an executor whose next write takes effect knows of the record.
FreshKnows ==
  \A w \in Executors : Fresh(w) =>
    /\ seen[w].attemptCount = jobs[target[w]].attemptCount
    /\ pc[w] = "abandoned" => Abandoned(jobs[target[w]])
    /\ pc[w] = "claim" /\ jobs[target[w]].status = "running" =>
         /\ jobs[target[w]].leaseExpiresAt = 0
         /\ claims[target[w]] <= jobs[target[w]].attemptCount + excused[target[w]]
    /\ Executing(w) =>
         /\ jobs[target[w]].status = "running"
         /\ jobs[target[w]].leaseExpiresAt = held[w]
         /\ holder[target[w]] = w

\* While its lease runs, only a manual retry makes an executor's claim stale.
LeaseKeepsFresh ==
  \A w \in Executors :
    Executing(w) /\ held[w] > 0 => Fresh(w) \/ seen[w].version < resetAt[target[w]]

\* The conjunction that every step preserves: what executors know of the records
\* they are about to write (executeJob between two awaits).
Inv == CreatedFirst /\ NoFutureVersion /\ FreshKnows /\ LeaseKeepsFresh
       /\ AttemptsAccounted

-----------------------------------------------------------------------------
(* Statements of the documentation that hold with a single executor, or not at all *)

\* A completed job is run again only after a manual retry.
CompletedIsFinal ==
  [][\A j \in JobIds :
       jobs[j].status = "completed" /\ jobs'[j].status # "completed"
         => resetAt'[j] # resetAt[j]]_vars

\* A job that was given maxAttempts attempts is given no other one.
AttemptsBounded == \A j \in JobIds : jobs[j].attemptCount <= MaxAttempts

=============================================================================
