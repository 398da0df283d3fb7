---------------------------- MODULE Notifications ---------------------------
(***************************************************************************)
(* NotificationService (src/notifications/service.ts) with its stores: the *)
(* life of one notification, identified by its idempotency key, and of its *)
(* delivery on each channel, through notify, delivery attempts, retries on *)
(* jobs, manual retries, reading, expiry, deletion and restarts.           *)
(*                                                                         *)
(* A process is an operation of a client or a delivery attempt, cut at its *)
(* awaits.  Content, recipients and authorization are left out: an         *)
(* operation that is refused changes nothing.  Instants are kept as the    *)
(* time left until them.  A job is run at least once (module Jobs); its    *)
(* own maxAttempts (3) is not reached while MaxFaults <= 2.                *)
(***************************************************************************)
EXTENDS Naturals, FiniteSets

CONSTANTS
  Channels,     \* channels the notification asks for
  Unavailable,  \* channels that are not registered any more
  Procs,        \* processes
  MaxAttempts,  \* maxDeliveryAttempts
  MaxTries,     \* attempts at a versioned write of the notification (5)
  Lease,        \* ATTEMPT_LEASE_MS
  Backoff,      \* the retry delay
  Lifetime,     \* time to expiresAt
  MaxNotifies,  \* bound: calls of notify
  MaxOps,       \* bound: other operations of clients
  MaxFaults,    \* bound: process stops, store and audit calls that fail
  Setups        \* services: with jobs and inline, with jobs and queued, without jobs

Never == Lifetime + 1

ASSUME NotificationsAssumption ==
  /\ Channels # {} /\ Unavailable \subseteq Channels /\ IsFiniteSet(Channels) /\ IsFiniteSet(Procs)
  /\ MaxAttempts \in Nat \ {0} /\ MaxTries \in Nat /\ MaxTries >= 3
  /\ Lease \in Nat /\ Backoff \in Nat /\ Lifetime \in Nat
  /\ MaxNotifies \in Nat /\ MaxOps \in Nat /\ MaxFaults \in Nat
  /\ Setups \subseteq {"inline", "queued", "jobless"}

VARIABLES
  setup,     \* how the service was built
  up,        \* its process runs
  notice,    \* the notification
  delivery,  \* channel -> its delivery
  jobs,      \* channel -> number of delivery jobs with each time left
  asked,     \* channels with an attempt that was started and has not read yet
  proc,      \* processes
  notifies, ops, faults,
  accepts    \* history: channel -> how often it took the notification

vars == <<setup, up, notice, delivery, jobs, asked, proc, notifies, ops, faults, accepts>>

Notice ==
  [exists : BOOLEAN, status : {"pending", "delivered", "failed", "read", "acknowledged", "expired"},
   read : BOOLEAN, acknowledged : BOOLEAN, dismissed : BOOLEAN, expires : 0..Never, version : Nat]

NoNotice ==
  [exists |-> FALSE, status |-> "pending", read |-> FALSE, acknowledged |-> FALSE,
   dismissed |-> FALSE, expires |-> Never, version |-> 0]

\* lease: until lastAttemptAt is ATTEMPT_LEASE_MS old.  History: whether the last claim has
\* no result yet, and how many claims were followed by another one before they had one.
Delivery ==
  [exists : BOOLEAN, status : {"pending", "delivered", "failed", "retrying"}, attempts : Nat, max : Nat,
   lease : 0..Lease, next : 0..Backoff, version : Nat, open : BOOLEAN, overtaken : Nat]

NoDelivery ==
  [exists |-> FALSE, status |-> "pending", attempts |-> 0, max |-> MaxAttempts,
   lease |-> 0, next |-> 0, version |-> 0, open |-> FALSE, overtaken |-> 0]

Goals == {"none", "delivered", "failed", "expired", "read", "acknowledged", "dismissed"}

Proc ==
  [pc : {"idle", "create", "created", "dispatch", "read", "notice", "claim", "deliver", "finish", "schedule",
         "audit", "list", "load", "store", "retry", "retried", "recover", "clear", "remove"},
   ch : Channels \union {"none"}, mode : {"initial", "scheduled", "manual"},
   seen : [version : Nat, attempts : Nat, max : Nat],
   result : {"none", "delivered", "failed", "rejected", "deleted"},
   expired : BOOLEAN, goal : Goals, held : Nat, tries : 0..MaxTries]

NotSeen == [version |-> 0, attempts |-> 0, max |-> 0]

Idle ==
  [pc |-> "idle", ch |-> "none", mode |-> "initial", seen |-> NotSeen, result |-> "none",
   expired |-> FALSE, goal |-> "none", held |-> 0, tries |-> 0]

TypeOK ==
  /\ setup \in Setups /\ up \in BOOLEAN
  /\ notice \in Notice
  /\ delivery \in [Channels -> Delivery]
  /\ jobs \in [Channels -> [0..Backoff -> Nat]]
  /\ asked \in [Channels -> Nat]
  /\ proc \in [Procs -> Proc]
  /\ notifies \in 0..MaxNotifies /\ ops \in 0..MaxOps /\ faults \in 0..MaxFaults
  /\ accepts \in [Channels -> Nat]

Init ==
  /\ setup \in Setups /\ up = TRUE
  /\ notice = NoNotice
  /\ delivery = [ch \in Channels |-> NoDelivery]
  /\ jobs = [ch \in Channels |-> [t \in 0..Backoff |-> 0]]
  /\ asked = [ch \in Channels |-> 0]
  /\ proc = [p \in Procs |-> Idle]
  /\ notifies = 0 /\ ops = 0 /\ faults = 0
  /\ accepts = [ch \in Channels |-> 0]

-----------------------------------------------------------------------------
(* Reads, writes and faults *)

HasJobs == setup # "jobless"

\* Mutant: the record is overwritten whatever happened to it since it was read.
UnconditionalWrite(record, version) == record.exists

\* updateIfVersion: the record that is merged is the one with the expected version.
VersionMatches(record, version) == record.exists /\ record.version = version

Goto(p, where) == proc' = [proc EXCEPT ![p] = IF where = "idle" THEN Idle ELSE [@ EXCEPT !.pc = where]]

\* A job of an attempt that throws is run again; any other caller has the error or ignores it.
Rerun(js, p) == IF proc[p].mode = "scheduled" THEN [js EXCEPT ![proc[p].ch][0] = @ + 1] ELSE js

\* A call of the store, of the job queue or of the audit sink throws.
Throw(p) ==
  /\ faults < MaxFaults /\ faults' = faults + 1
  /\ jobs' = Rerun(jobs, p)
  /\ Goto(p, "idle")
  /\ UNCHANGED <<setup, up, notice, delivery, asked, notifies, ops, accepts>>

\* dispatch: attempts of these deliveries begin, or are left to jobs.
Dispatch(chs) ==
  IF setup = "queued"
    THEN /\ jobs' = [ch \in Channels |-> IF ch \in chs THEN [jobs[ch] EXCEPT ![0] = @ + 1] ELSE jobs[ch]]
         /\ UNCHANGED asked
    ELSE /\ asked' = [ch \in Channels |-> asked[ch] + IF ch \in chs THEN 1 ELSE 0]
         /\ UNCHANGED jobs

-----------------------------------------------------------------------------
(* notify *)

StartNotify(p) ==
  /\ up /\ proc[p].pc = "idle" /\ notifies < MaxNotifies
  /\ notifies' = notifies + 1
  /\ Goto(p, "create")
  /\ UNCHANGED <<setup, up, notice, delivery, jobs, asked, ops, faults, accepts>>

\* createWithDeliveries: one transaction, which requires that there is no notification.
Create(p) ==
  /\ proc[p].pc = "create"
  /\ IF notice.exists
       THEN Goto(p, "dispatch") /\ UNCHANGED <<notice, delivery>>
       ELSE /\ \E e \in {Lifetime, Never} :
                 notice' = [NoNotice EXCEPT !.exists = TRUE, !.version = 1, !.expires = e]
            /\ delivery' = [ch \in Channels |-> [NoDelivery EXCEPT !.exists = TRUE, !.version = 1]]
            /\ Goto(p, "created")
  /\ UNCHANGED <<setup, up, jobs, asked, notifies, ops, faults, accepts>>

AuditCreated(p) ==
  /\ proc[p].pc = "created"
  /\ Goto(p, "dispatch")
  /\ UNCHANGED <<setup, up, notice, delivery, jobs, asked, notifies, ops, faults, accepts>>

\* dispatchPending; then the result is read, which may expire the notification.
DispatchPending(p) ==
  /\ proc[p].pc = "dispatch"
  /\ Dispatch({ch \in Channels : delivery[ch].exists /\ delivery[ch].status = "pending" /\ delivery[ch].attempts = 0})
  /\ proc' = [proc EXCEPT ![p] = [Idle EXCEPT !.pc = "load", !.goal = "expired"]]
  /\ UNCHANGED <<setup, up, notice, delivery, notifies, ops, faults, accepts>>

-----------------------------------------------------------------------------
(* attemptDelivery *)

Attempt(p, ch, mode) == proc' = [proc EXCEPT ![p] = [Idle EXCEPT !.pc = "read", !.ch = ch, !.mode = mode]]

StartInitial(p, ch) ==
  /\ up /\ proc[p].pc = "idle" /\ asked[ch] > 0
  /\ asked' = [asked EXCEPT ![ch] = @ - 1]
  /\ Attempt(p, ch, "initial")
  /\ UNCHANGED <<setup, up, notice, delivery, jobs, notifies, ops, faults, accepts>>

\* runDeliveryJob
StartJob(p, ch) ==
  /\ up /\ proc[p].pc = "idle" /\ jobs[ch][0] > 0
  /\ jobs' = [jobs EXCEPT ![ch][0] = @ - 1]
  /\ Attempt(p, ch, "scheduled")
  /\ UNCHANGED <<setup, up, notice, delivery, asked, notifies, ops, faults, accepts>>

Attemptable(d, mode) ==
  /\ d.exists /\ d.status \notin {"delivered", "failed"}
  /\ ~(mode = "scheduled" /\ d.status = "retrying" /\ d.next > 0)
  /\ ~(d.status = "pending" /\ d.lease > 0)

ReadDelivery(p) ==
  LET d == delivery[proc[p].ch] IN
  /\ proc[p].pc = "read"
  /\ IF Attemptable(d, proc[p].mode)
       THEN proc' = [proc EXCEPT ![p].pc = "notice",
                                 ![p].seen = [version |-> d.version, attempts |-> d.attempts, max |-> d.max]]
       ELSE Goto(p, "idle")
  /\ UNCHANGED <<setup, up, notice, delivery, jobs, asked, notifies, ops, faults, accepts>>

\* A deleted or expired notification, or a channel that is gone, ends the delivery.
ReadNotice(p) ==
  LET end == ~notice.exists \/ notice.expires = 0 \/ proc[p].ch \in Unavailable IN
  /\ proc[p].pc = "notice"
  /\ proc' = [proc EXCEPT ![p].pc = IF end THEN "finish" ELSE "claim",
                          ![p].result = IF ~notice.exists THEN "deleted" ELSE IF end THEN "rejected" ELSE "none",
                          ![p].expired = notice.exists /\ notice.expires = 0]
  /\ UNCHANGED <<setup, up, notice, delivery, jobs, asked, notifies, ops, faults, accepts>>

Claim(p) ==
  LET q == proc[p]
      d == delivery[q.ch]
  IN /\ q.pc = "claim"
     /\ IF VersionMatches(d, q.seen.version)
          THEN /\ delivery' = [delivery EXCEPT ![q.ch] =
                    [d EXCEPT !.attempts = q.seen.attempts + 1, !.lease = Lease, !.version = @ + 1,
                              !.open = TRUE, !.overtaken = IF d.open THEN @ + 1 ELSE @]]
               /\ proc' = [proc EXCEPT ![p] = [q EXCEPT !.pc = "deliver",
                    !.seen = [q.seen EXCEPT !.version = d.version + 1, !.attempts = q.seen.attempts + 1]]]
          ELSE Goto(p, "idle") /\ UNCHANGED delivery
     /\ UNCHANGED <<setup, up, notice, jobs, asked, notifies, ops, faults, accepts>>

\* channel.deliver: it takes the notification, fails or throws, or refuses it for good.
Deliver(p) ==
  /\ proc[p].pc = "deliver"
  /\ \E r \in {"delivered", "failed", "rejected"} :
       /\ proc' = [proc EXCEPT ![p].pc = "finish", ![p].result = r]
       /\ accepts' = [accepts EXCEPT ![proc[p].ch] = IF r = "delivered" THEN @ + 1 ELSE @]
  /\ UNCHANGED <<setup, up, notice, delivery, jobs, asked, notifies, ops, faults>>

CanRetry(q) == q.result = "failed" /\ HasJobs /\ q.seen.attempts < q.seen.max

\* finishDelivery: its versioned write.
Finish(p) ==
  LET q == proc[p]
      d == delivery[q.ch]
      status == IF q.result = "delivered" THEN "delivered" ELSE IF CanRetry(q) THEN "retrying" ELSE "failed"
      new == [d EXCEPT !.status = status, !.next = IF status = "retrying" THEN Backoff ELSE 0,
                       !.version = @ + 1, !.open = FALSE]
      after == IF q.expired THEN [Idle EXCEPT !.pc = "load", !.goal = "expired"] ELSE Idle
  IN /\ q.pc = "finish"
     /\ \/ /\ VersionMatches(d, q.seen.version)
           /\ delivery' = [delivery EXCEPT ![q.ch] = new]
           /\ IF q.result # "deleted"
                THEN Goto(p, IF status = "retrying" THEN "schedule" ELSE "audit")
                ELSE proc' = [proc EXCEPT ![p] = after]
        \/ /\ ~VersionMatches(d, q.seen.version)
           /\ proc' = [proc EXCEPT ![p] = after]
           /\ UNCHANGED delivery
     /\ UNCHANGED <<setup, up, notice, jobs, asked, notifies, ops, faults, accepts>>

\* Mutant: the retry is recorded and no job carries it.
ScheduleNothing(p) ==
  /\ proc[p].pc = "schedule"
  /\ Goto(p, "audit")
  /\ UNCHANGED <<setup, up, notice, delivery, jobs, asked, notifies, ops, faults, accepts>>

\* scheduleAttempt, a write of its own
Schedule(p) ==
  /\ proc[p].pc = "schedule"
  /\ jobs' = [jobs EXCEPT ![proc[p].ch][Backoff] = @ + 1]
  /\ Goto(p, "audit")
  /\ UNCHANGED <<setup, up, notice, delivery, asked, notifies, ops, faults, accepts>>

Audit(p) ==
  /\ proc[p].pc = "audit"
  /\ Goto(p, "list")
  /\ UNCHANGED <<setup, up, notice, delivery, jobs, asked, notifies, ops, faults, accepts>>

-----------------------------------------------------------------------------
(* The status of the notification *)

\* refreshStatus: what the listed deliveries make of the notification.
Verdict ==
  LET listed == {ch \in Channels : delivery[ch].exists}
  IN IF \E ch \in listed : delivery[ch].status = "delivered" THEN "delivered"
     ELSE IF listed # {} /\ \A ch \in listed : delivery[ch].status = "failed" THEN "failed"
     ELSE "none"

ListDeliveries(p) ==
  /\ proc[p].pc = "list"
  /\ IF Verdict = "none" /\ ~proc[p].expired THEN Goto(p, "idle")
     ELSE proc' = [proc EXCEPT ![p].pc = "load", ![p].goal = IF Verdict = "none" THEN "expired" ELSE Verdict]
  /\ UNCHANGED <<setup, up, notice, delivery, jobs, asked, notifies, ops, faults, accepts>>

\* The change a caller of transitionNotification, or mutate, still wants.
Wanted(goal, n) ==
  CASE goal = "delivered" -> n.status \in {"pending", "failed"}
    [] goal = "failed" -> n.status = "pending"
    [] goal = "expired" -> n.expires = 0 /\ n.status \in {"pending", "delivered", "failed"}
    [] goal = "read" -> ~n.read
    [] goal = "acknowledged" -> ~n.acknowledged
    [] goal = "dismissed" -> ~n.dismissed

Changed(goal, n) ==
  CASE goal = "read" -> [n EXCEPT !.read = TRUE, !.version = @ + 1,
                                  !.status = IF @ = "acknowledged" THEN @ ELSE "read"]
    [] goal = "acknowledged" -> [n EXCEPT !.read = TRUE, !.acknowledged = TRUE, !.status = "acknowledged",
                                          !.version = @ + 1]
    [] goal = "dismissed" -> [n EXCEPT !.dismissed = TRUE, !.version = @ + 1]
    [] OTHER -> [n EXCEPT !.status = goal, !.version = @ + 1]

\* A transition is over: an attempt that found the notification expired still expires it.
Done(p) ==
  proc' = [proc EXCEPT ![p] = IF @.expired /\ @.goal # "expired"
                                THEN [Idle EXCEPT !.pc = "load", !.goal = "expired"] ELSE Idle]

Load(p) ==
  /\ proc[p].pc = "load"
  /\ IF notice.exists /\ Wanted(proc[p].goal, notice)
       THEN proc' = [proc EXCEPT ![p].pc = "store", ![p].held = notice.version]
       ELSE Done(p)
  /\ UNCHANGED <<setup, up, notice, delivery, jobs, asked, notifies, ops, faults, accepts>>

Store(p) ==
  /\ proc[p].pc = "store"
  /\ IF VersionMatches(notice, proc[p].held)
       THEN notice' = Changed(proc[p].goal, notice) /\ Done(p)
       ELSE /\ IF proc[p].tries + 1 < MaxTries
                 THEN proc' = [proc EXCEPT ![p].pc = "load", ![p].tries = @ + 1]
                 ELSE Done(p)
            /\ UNCHANGED notice
  /\ UNCHANGED <<setup, up, delivery, jobs, asked, notifies, ops, faults, accepts>>

-----------------------------------------------------------------------------
(* Other operations of clients *)

Operate(p, new) ==
  /\ up /\ proc[p].pc = "idle" /\ notice.exists /\ ops < MaxOps
  /\ ops' = ops + 1
  /\ proc' = [proc EXCEPT ![p] = new]
  /\ UNCHANGED <<setup, up, notice, delivery, jobs, asked, notifies, faults, accepts>>

\* get and list, which expire what they read; markRead, acknowledge and dismiss.
StartChange(p) ==
  \E goal \in {"expired", "read", "acknowledged", "dismissed"} :
    Operate(p, [Idle EXCEPT !.pc = "load", !.goal = goal])

StartRetry(p) == \E ch \in Channels : Operate(p, [Idle EXCEPT !.pc = "retry", !.ch = ch])

\* retryDelivery: read, and write by version; another await in between changes nothing, since
\* the version is compared.
RetryFailed(p) ==
  LET d == delivery[proc[p].ch] IN
  /\ proc[p].pc = "retry"
  /\ IF d.exists /\ d.status = "failed"
       THEN /\ delivery' = [delivery EXCEPT ![proc[p].ch] =
                 [d EXCEPT !.status = "retrying", !.max = d.attempts + MaxAttempts, !.next = 0, !.version = @ + 1]]
            /\ Goto(p, "retried")
       ELSE Goto(p, "idle") /\ UNCHANGED delivery
  /\ UNCHANGED <<setup, up, notice, jobs, asked, notifies, ops, faults, accepts>>

\* The audit, then a job, or the attempt itself.
RetryNow(p) ==
  /\ proc[p].pc = "retried"
  /\ IF HasJobs
       THEN jobs' = [jobs EXCEPT ![proc[p].ch][0] = @ + 1] /\ Goto(p, "idle")
       ELSE Attempt(p, proc[p].ch, "manual") /\ UNCHANGED jobs
  /\ UNCHANGED <<setup, up, notice, delivery, asked, notifies, ops, faults, accepts>>

StartRecover(p) == Operate(p, [Idle EXCEPT !.pc = "recover"])

\* recoverDeliveries
Recoverable == {ch \in Channels : delivery[ch].exists /\ delivery[ch].status = "pending" /\ delivery[ch].lease = 0}

RecoverDeliveries(p) ==
  /\ proc[p].pc = "recover"
  /\ Dispatch(Recoverable)
  /\ Goto(p, "idle")
  /\ UNCHANGED <<setup, up, notice, delivery, notifies, ops, faults, accepts>>

StartDelete(p) == Operate(p, [Idle EXCEPT !.pc = "clear"])

\* delete: the deliveries, then the notification.
DeleteDeliveries(p) ==
  /\ proc[p].pc = "clear"
  /\ delivery' = [ch \in Channels |-> NoDelivery]
  /\ Goto(p, "remove")
  /\ UNCHANGED <<setup, up, notice, jobs, asked, notifies, ops, faults, accepts>>

DeleteNotice(p) ==
  /\ proc[p].pc = "remove"
  /\ notice' = NoNotice
  /\ Goto(p, "idle")
  /\ UNCHANGED <<setup, up, delivery, jobs, asked, notifies, ops, faults, accepts>>

-----------------------------------------------------------------------------
(* Stops, restarts and time *)

\* The process stops: its attempts are lost, and the jobs they were made for come back.
Crash ==
  /\ up /\ faults < MaxFaults
  /\ faults' = faults + 1
  /\ up' = FALSE
  /\ jobs' = [ch \in Channels |-> [jobs[ch] EXCEPT
       ![0] = @ + Cardinality({p \in Procs : proc[p].pc # "idle" /\ proc[p].mode = "scheduled" /\ proc[p].ch = ch})]]
  /\ proc' = [p \in Procs |-> Idle]
  /\ asked' = [ch \in Channels |-> 0]
  /\ UNCHANGED <<setup, notice, delivery, notifies, ops, accepts>>

\* start() calls recoverDeliveries.
Restart ==
  /\ ~up
  /\ up' = TRUE
  /\ Dispatch(Recoverable)
  /\ UNCHANGED <<setup, notice, delivery, proc, notifies, ops, faults, accepts>>

Less(t) == IF t > 0 THEN t - 1 ELSE 0

Tick ==
  /\ \/ notice.expires \notin {0, Never}
     \/ \E ch \in Channels : delivery[ch].lease > 0 \/ delivery[ch].next > 0 \/ \E t \in 1..Backoff : jobs[ch][t] > 0
  /\ notice' = [notice EXCEPT !.expires = IF @ = Never THEN Never ELSE Less(@)]
  /\ delivery' = [ch \in Channels |-> [delivery[ch] EXCEPT !.lease = Less(@), !.next = Less(@)]]
  /\ jobs' = [ch \in Channels |-> [t \in 0..Backoff |->
       (IF t = 0 THEN jobs[ch][0] ELSE 0) + (IF t < Backoff THEN jobs[ch][t + 1] ELSE 0)]]
  /\ UNCHANGED <<setup, up, asked, proc, notifies, ops, faults, accepts>>

Step(p) ==
  \/ Create(p) \/ AuditCreated(p) \/ DispatchPending(p)
  \/ ReadDelivery(p) \/ ReadNotice(p) \/ Claim(p) \/ Deliver(p) \/ Finish(p) \/ Schedule(p) \/ Audit(p)
  \/ ListDeliveries(p) \/ Load(p) \/ Store(p)
  \/ RetryFailed(p) \/ RetryNow(p) \/ RecoverDeliveries(p) \/ DeleteDeliveries(p) \/ DeleteNotice(p)

Work(p) == \E ch \in Channels : StartInitial(p, ch) \/ StartJob(p, ch)

Next ==
  \/ \E p \in Procs :
       \/ StartNotify(p) \/ StartChange(p) \/ StartRetry(p) \/ StartRecover(p) \/ StartDelete(p)
       \/ Work(p) \/ Step(p)
       \/ proc[p].pc # "idle" /\ Throw(p)
  \/ Crash \/ Restart \/ Tick

Spec == Init /\ [][Next]_vars

-----------------------------------------------------------------------------
(* Properties *)

\* A delivered delivery stays so, whatever other attempts of it report, until the
\* notification is deleted (attemptDelivery, finishDelivery).
DeliveredForGood ==
  \A ch \in Channels : delivery[ch].exists /\ delivery[ch].status = "delivered"
       => ~delivery'[ch].exists \/ delivery'[ch].status = "delivered"

\* What the recipient did is not undone by deliveries that end later or by the expiry: the
\* status of a notification is read or acknowledged exactly if it was (mutate,
\* transitionNotification).
RecipientWins ==
  /\ notice.read <=> notice.status \in {"read", "acknowledged"}
  /\ notice.acknowledged <=> notice.status = "acknowledged"

\* maxAttempts is exceeded only by attempts that took over from one without a result
\* (attemptDelivery, finishDelivery, recoverDeliveries).
AttemptsAccounted ==
  \A ch \in Channels : delivery[ch].attempts <= delivery[ch].max + delivery[ch].overtaken

\* While the lease of a first attempt runs, no other attempt takes over from it, whoever
\* dispatches the delivery again (attemptDelivery's lease test and claim).
LeaseHolds ==
  \A ch \in Channels :
       (/\ delivery[ch].exists /\ delivery[ch].status = "pending" /\ delivery[ch].lease > 0
        /\ delivery'[ch].exists)
       => delivery'[ch].overtaken = delivery[ch].overtaken

\* Once nothing is under way, and nothing failed, the notification says what its deliveries
\* say (refreshStatus, from a list that may be stale).
StatusFollows ==
  (/\ faults = 0 /\ notice.exists
   /\ \A p \in Procs : proc[p].pc = "idle"
   /\ \A ch \in Channels : asked[ch] = 0)
  => /\ (\E ch \in Channels : delivery[ch].status = "delivered") => notice.status \notin {"pending", "failed"}
     /\ (\A ch \in Channels : delivery[ch].status = "failed") => notice.status # "pending"

\* Unless a call fails or the process stops, a delivery that is not settled is carried by
\* something that will go on with it: an attempt, a job or the call that made it
\* (dispatchPending, finishDelivery with scheduleAttempt, retryDelivery).
Carried ==
  \A ch \in Channels :
    (delivery[ch].exists /\ delivery[ch].status \in {"pending", "retrying"} /\ faults = 0)
    => \/ asked[ch] > 0
       \/ \E t \in 0..Backoff : jobs[ch][t] > 0
       \/ \E p \in Procs : proc[p].ch = ch \/ proc[p].pc \in {"created", "dispatch"}

\* A notification and its deliveries make sense together: the recipient's action wins, the
\* attempts are accounted for, the status follows, and what is not settled is carried.
NotificationSound == TypeOK /\ RecipientWins /\ AttemptsAccounted /\ StatusFollows /\ Carried

\* No late result takes a delivered delivery back, and none takes over inside a lease.
DeliveriesHold == [][DeliveredForGood /\ LeaseHolds]_vars
=============================================================================
