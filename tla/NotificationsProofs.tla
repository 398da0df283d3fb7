------------------------- MODULE NotificationsProofs ------------------------
(***************************************************************************)
(* Proofs about Notifications, for any number of channels and processes,   *)
(* any limits, leases and delays, and any values of the bounds.            *)
(***************************************************************************)
EXTENDS Notifications, FiniteSetTheorems, TLAPS

-----------------------------------------------------------------------------
(* The inductive invariant: deliveries and their attempts *)

Unsettled == {"pending", "retrying"}

\* The places of an attempt that has read its delivery, and of a change of the notification.
Attempting == {"notice", "claim", "deliver", "finish"}
Changing == {"load", "store"}

\* A claim is paid for, by an attempt that is left or by the claim it takes over from.
Paid(d) ==
  /\ ~d.exists => d = NoDelivery
  /\ d.attempts <= d.max + d.overtaken
  /\ d.status \in Unsettled /\ ~d.open => d.attempts < d.max + d.overtaken
  /\ d.status = "pending" /\ ~d.open => d.attempts = 0 /\ d.lease = 0

\* The attempt q has seen its delivery as it is now, so its next write takes effect.
Fresh(q) ==
  /\ q.pc \in Attempting /\ q.ch \in Channels
  /\ VersionMatches(delivery[q.ch], q.seen.version)

\* What the attempt q knows of its delivery.
Attempts(q) ==
  /\ q.pc \in Attempting \union {"read", "schedule", "retry", "retried"} => q.ch \in Channels
  /\ q.mode = "scheduled" => q.ch \in Channels
  /\ q.pc \in Attempting /\ delivery[q.ch].exists => q.seen.version <= delivery[q.ch].version
  /\ Fresh(q) =>
       /\ delivery[q.ch].status \in Unsettled
       /\ q.seen.attempts = delivery[q.ch].attempts /\ q.seen.max = delivery[q.ch].max
       /\ q.pc \in {"notice", "claim"} /\ delivery[q.ch].status = "pending" => delivery[q.ch].lease = 0
  /\ q.pc = "finish" /\ q.result = "deleted" => ~notice.exists

\* Who may go on with a delivery: an attempt that has seen it, an attempt about to begin, a
\* job, the call that made it, and the attempt that is to schedule the next one.
Held(ch) == \E p \in Procs : proc[p].ch = ch /\ Fresh(proc[p])
AtWork(ch) == \E p \in Procs : proc[p].ch = ch /\ proc[p].pc \in {"read", "retried"}
Waiting(ch) == asked[ch] > 0 \/ AtWork(ch) \/ \E t \in 0..Backoff : jobs[ch][t] > 0
Dispatching == \E p \in Procs : proc[p].pc \in {"created", "dispatch"}
Scheduling(ch) == \E p \in Procs : proc[p].ch = ch /\ proc[p].pc = "schedule"
Timed(ch) == \E t \in delivery[ch].next..Backoff : jobs[ch][t] > 0

\* Somebody goes on with a delivery that is not settled, in time.
Carrier(ch) ==
  \/ Held(ch)
  \/ delivery[ch].status = "pending" /\ ~delivery[ch].open /\ (Waiting(ch) \/ Dispatching)
  \/ delivery[ch].status = "retrying" /\ (Scheduling(ch) \/ Timed(ch) \/ (delivery[ch].next = 0 /\ Waiting(ch)))

CarryInv(ch) ==
  delivery[ch].exists /\ delivery[ch].status \in Unsettled /\ faults = 0 => Carrier(ch)

-----------------------------------------------------------------------------
(* The inductive invariant: the status of the notification *)

One(condition) == IF condition THEN 1 ELSE 0

\* The notification has changed since q read it.
Stale(q) == q.pc = "store" /\ q.held # notice.version

\* The change q was overtaken only by changes that still leave it to do: one to failed and
\* one dismissal.
Contended(q) ==
  /\ q.goal = "delivered" /\ notice.status \in {"pending", "failed"} =>
       q.tries + One(Stale(q)) <= One(notice.status = "failed") + One(notice.dismissed)
  /\ q.goal = "failed" /\ notice.status = "pending" =>
       q.tries + One(Stale(q)) <= One(notice.dismissed)

\* What the change q knows of the notification: what it has read is still so.
Changes(q) ==
  /\ q.pc \notin Changing => q.tries = 0
  /\ q.pc \in Changing => q.goal # "none"
  /\ q.pc = "store" /\ notice.exists => q.held <= notice.version
  /\ q.pc = "store" /\ notice.exists /\ ~Stale(q) => Wanted(q.goal, notice)
  /\ q.pc \in Changing /\ notice.exists => Contended(q)

\* q will list the deliveries, or has a verdict to write.
Telling(q, verdict) ==
  q.pc \in {"audit", "list"} \/ (q.pc \in Changing /\ q.goal = verdict)

Told(verdict) == \E p \in Procs : Telling(proc[p], verdict)

ToldInv ==
  notice.exists /\ faults = 0 =>
    /\ (\E ch \in Channels : delivery[ch].status = "delivered") /\ notice.status \in {"pending", "failed"}
         => Told("delivered")
    /\ (\A ch \in Channels : delivery[ch].status = "failed") /\ notice.status = "pending"
         => Told("failed")

\* The deliveries go before the notification.
NoDeliveries == \A ch \in Channels : ~delivery[ch].exists
DeletedInv == ~notice.exists => notice = NoNotice /\ NoDeliveries
Removes(q) == q.pc = "remove" => NoDeliveries

-----------------------------------------------------------------------------
(* The whole invariant *)

Local(q) == Attempts(q) /\ Changes(q) /\ Removes(q)

NotificationInv ==
  /\ TypeOK /\ RecipientWins /\ DeletedInv /\ ToldInv
  /\ \A ch \in Channels : Paid(delivery[ch]) /\ CarryInv(ch)
  /\ \A p \in Procs : Local(proc[p])

\* A notification is created under the id of a deleted one only when nobody is left between
\* a read of the old one, or of its deliveries, and the write that follows: ids are derived
\* from the idempotency key, and versions start again.
QuietCreate ==
  ~notice.exists /\ notice'.exists =>
    \A p \in Procs : proc[p].pc \notin Attempting \union Changing \union {"remove"}

-----------------------------------------------------------------------------
(* Processes and records *)

Places ==
  {"idle", "create", "created", "dispatch", "read", "notice", "claim", "deliver", "finish", "schedule",
   "audit", "list", "load", "store", "retry", "retried", "recover", "clear", "remove"}

LEMMA IdleFields ==
  /\ Idle \in Proc /\ Idle.pc = "idle" /\ Idle.ch = "none" /\ Idle.mode = "initial" /\ Idle.tries = 0
  /\ Idle.goal = "none" /\ Idle.result = "none" /\ Idle.expired = FALSE
  BY NotificationsAssumption DEF Idle, Proc, NotSeen, Goals

LEMMA NoDeliveryFields ==
  /\ NoDelivery \in Delivery /\ ~NoDelivery.exists /\ NoDelivery.status = "pending" /\ Paid(NoDelivery)
  /\ NoDelivery.lease = 0 /\ NoDelivery.next = 0
  <1>1. NoDelivery \in Delivery
    BY NotificationsAssumption DEF Delivery, NoDelivery
  <1>2. Paid(NoDelivery)
    BY NotificationsAssumption DEF Paid, NoDelivery
  <1>3. QED
    BY <1>1, <1>2 DEF NoDelivery

LEMMA NewDelivery ==
  ASSUME NEW d \in Delivery PROVE [d EXCEPT !.exists = TRUE, !.version = 1] \in Delivery
  BY DEF Delivery

LEMMA ClaimedDelivery ==
  ASSUME NEW d \in Delivery, NEW a \in Nat, NEW l \in 0..Lease, NEW v \in Nat, NEW o \in Nat
  PROVE [d EXCEPT !.attempts = a, !.lease = l, !.version = v, !.open = TRUE, !.overtaken = o] \in Delivery
  BY DEF Delivery

LEMMA FinishedDelivery ==
  ASSUME NEW d \in Delivery, NEW s \in {"delivered", "retrying", "failed"}, NEW n \in 0..Backoff, NEW v \in Nat
  PROVE [d EXCEPT !.status = s, !.next = n, !.version = v, !.open = FALSE] \in Delivery
  BY DEF Delivery

LEMMA RetriedDelivery ==
  ASSUME NEW d \in Delivery, NEW m \in Nat, NEW v \in Nat
  PROVE [d EXCEPT !.status = "retrying", !.max = m, !.next = 0, !.version = v] \in Delivery
  <1>1. 0 \in 0..Backoff
    BY NotificationsAssumption
  <1>2. QED
    BY <1>1 DEF Delivery

\* A process that goes to another place.
LEMMA Turned ==
  ASSUME NEW q \in Proc, NEW to \in Places
  PROVE \E k \in Proc : /\ k = [q EXCEPT !.pc = to]
                        /\ k.pc = to /\ k.ch = q.ch /\ k.mode = q.mode /\ k.seen = q.seen /\ k.result = q.result
                        /\ k.goal = q.goal /\ k.held = q.held /\ k.tries = q.tries
  <1> DEFINE k == [q EXCEPT !.pc = to]
  <1>1. k \in Proc
    BY DEF Proc, Places
  <1>2. /\ k.pc = to /\ k.ch = q.ch /\ k.mode = q.mode /\ k.seen = q.seen /\ k.result = q.result
        /\ k.goal = q.goal /\ k.held = q.held /\ k.tries = q.tries
    BY DEF Proc
  <1>3. QED
    BY <1>1, <1>2

LEMMA Loading ==
  ASSUME NEW goal \in Goals
  PROVE \E k \in Proc : /\ k = [Idle EXCEPT !.pc = "load", !.goal = goal]
                        /\ k.pc = "load" /\ k.goal = goal /\ k.mode = "initial" /\ k.tries = 0 /\ k.ch = "none"
  <1> DEFINE k == [Idle EXCEPT !.pc = "load", !.goal = goal]
  <1>1. k \in Proc
    BY IdleFields DEF Proc
  <1>2. k.pc = "load" /\ k.goal = goal /\ k.mode = "initial" /\ k.tries = 0 /\ k.ch = "none"
    BY DEF Idle
  <1>3. QED
    BY <1>1, <1>2

\* The change that marks an expired notification.
LEMMA LoadExpired ==
  \E k \in Proc : /\ k = [Idle EXCEPT !.pc = "load", !.goal = "expired"]
                 /\ k.pc = "load" /\ k.goal = "expired" /\ k.mode = "initial" /\ k.tries = 0
  <1> DEFINE k == [Idle EXCEPT !.pc = "load", !.goal = "expired"]
  <1>1. k \in Proc
    <2>1. "expired" \in Goals
      BY DEF Goals
    <2>2. QED
      BY <2>1, IdleFields DEF Proc
  <1>2. k.pc = "load" /\ k.goal = "expired" /\ k.mode = "initial" /\ k.tries = 0
    BY DEF Idle
  <1>3. QED
    BY <1>1, <1>2

LEMMA WentTo ==
  ASSUME NEW p, NEW to, Goto(p, to)
  PROVE proc' = [proc EXCEPT ![p] = IF to = "idle" THEN Idle ELSE [proc[p] EXCEPT !.pc = to]]
  BY DEF Goto

-----------------------------------------------------------------------------
(* Jobs and attempts that are asked for *)

JobCounts == [Channels -> [0..Backoff -> Nat]]

\* Another job of a channel.
LEMMA JobAdded ==
  ASSUME jobs \in JobCounts, NEW ch \in Channels, Backoff \in Nat, NEW t \in 0..Backoff,
         jobs' = [jobs EXCEPT ![ch][t] = @ + 1]
  PROVE /\ jobs' \in JobCounts /\ jobs'[ch][t] > 0
        /\ \A c \in Channels : \A u \in 0..Backoff : jobs[c][u] > 0 => jobs'[c][u] > 0
  <1>1. jobs' = [jobs EXCEPT ![ch] = [jobs[ch] EXCEPT ![t] = jobs[ch][t] + 1]]
    OBVIOUS
  <1>2. jobs[ch] \in [0..Backoff -> Nat] /\ jobs[ch][t] \in Nat /\ jobs[ch][t] + 1 \in Nat
    BY DEF JobCounts
  <1>3. PICK f \in [0..Backoff -> Nat] : f = [jobs[ch] EXCEPT ![t] = jobs[ch][t] + 1]
    BY <1>2
  <1>4. f[t] > 0 /\ \A u \in 0..Backoff : jobs[ch][u] > 0 => f[u] > 0
    BY <1>2, <1>3
  <1>5. jobs' \in JobCounts /\ jobs'[ch] = f /\ \A c \in Channels : c # ch => jobs'[c] = jobs[c]
    BY <1>1, <1>3 DEF JobCounts
  <1>6. QED
    BY <1>4, <1>5

\* A job of a channel is taken.
LEMMA JobTaken ==
  ASSUME jobs \in JobCounts, NEW ch \in Channels, jobs[ch][0] > 0, Backoff \in Nat,
         jobs' = [jobs EXCEPT ![ch][0] = @ - 1]
  PROVE /\ jobs' \in JobCounts
        /\ \A c \in Channels : \A u \in 0..Backoff : jobs[c][u] > 0 /\ ~(c = ch /\ u = 0) => jobs'[c][u] > 0
  <1>1. jobs' = [jobs EXCEPT ![ch] = [jobs[ch] EXCEPT ![0] = jobs[ch][0] - 1]]
    OBVIOUS
  <1>2. jobs[ch] \in [0..Backoff -> Nat] /\ 0 \in 0..Backoff /\ jobs[ch][0] \in Nat /\ jobs[ch][0] - 1 \in Nat
    BY DEF JobCounts
  <1>3. PICK f \in [0..Backoff -> Nat] : f = [jobs[ch] EXCEPT ![0] = jobs[ch][0] - 1]
    BY <1>2
  <1>4. \A u \in 0..Backoff : jobs[ch][u] > 0 /\ u # 0 => f[u] > 0
    BY <1>2, <1>3
  <1>5. jobs' \in JobCounts /\ jobs'[ch] = f /\ \A c \in Channels : c # ch => jobs'[c] = jobs[c]
    BY <1>1, <1>3 DEF JobCounts
  <1>6. QED
    BY <1>4, <1>5

\* What dispatch asks for is waiting, and nothing is forgotten.
LEMMA Dispatched ==
  ASSUME TypeOK, NEW chs, Dispatch(chs)
  PROVE /\ jobs' \in JobCounts /\ asked' \in [Channels -> Nat]
        /\ \A c \in Channels : \A u \in 0..Backoff : jobs[c][u] > 0 => jobs'[c][u] > 0
        /\ \A c \in Channels : asked[c] > 0 => asked'[c] > 0
        /\ \A c \in Channels : c \in chs => asked'[c] > 0 \/ jobs'[c][0] > 0
  <1>1. jobs \in JobCounts /\ asked \in [Channels -> Nat] /\ 0 \in 0..Backoff
    BY NotificationsAssumption DEF TypeOK, JobCounts
  <1>2. CASE setup = "queued"
    <2>1. /\ jobs' = [c \in Channels |-> IF c \in chs THEN [jobs[c] EXCEPT ![0] = jobs[c][0] + 1] ELSE jobs[c]]
          /\ asked' = asked
      BY <1>2 DEF Dispatch
    <2>2. ASSUME NEW c \in Channels
          PROVE /\ jobs'[c] \in [0..Backoff -> Nat]
                /\ \A u \in 0..Backoff : jobs[c][u] > 0 => jobs'[c][u] > 0
                /\ c \in chs => jobs'[c][0] > 0
      <3>1. jobs[c] \in [0..Backoff -> Nat] /\ jobs[c][0] \in Nat
        BY <1>1 DEF JobCounts
      <3>2. jobs'[c] = IF c \in chs THEN [jobs[c] EXCEPT ![0] = jobs[c][0] + 1] ELSE jobs[c]
        BY <2>1
      <3>3. CASE c \in chs
        <4>1. jobs'[c] = [jobs[c] EXCEPT ![0] = jobs[c][0] + 1]
          BY <3>2, <3>3
        <4>2. jobs'[c] \in [0..Backoff -> Nat]
          BY <1>1, <3>1, <4>1
        <4>3. jobs'[c][0] > 0
          <5>1. jobs'[c][0] = jobs[c][0] + 1
            BY <1>1, <3>1, <4>1
          <5>2. QED
            BY <3>1, <5>1
        <4>4. \A u \in 0..Backoff : u # 0 => jobs'[c][u] = jobs[c][u]
          BY <1>1, <3>1, <4>1
        <4>5. QED
          BY <3>3, <4>2, <4>3, <4>4
      <3>4. QED
        BY <3>1, <3>2, <3>3
    <2>3. jobs' \in JobCounts
      BY <2>1, <2>2 DEF JobCounts
    <2>4. QED
      BY <1>1, <2>1, <2>2, <2>3
  <1>3. CASE setup # "queued"
    <2>1. asked' = [c \in Channels |-> asked[c] + IF c \in chs THEN 1 ELSE 0] /\ jobs' = jobs
      BY <1>3 DEF Dispatch
    <2>2. QED
      BY <1>1, <2>1
  <1>4. QED
    BY <1>2, <1>3
-----------------------------------------------------------------------------
(* A process moves *)

LEMMA Moved ==
  ASSUME proc \in [Procs -> Proc], NEW p \in Procs, NEW q \in Proc, proc' = [proc EXCEPT ![p] = q]
  PROVE proc' \in [Procs -> Proc] /\ proc'[p] = q /\ \A r \in Procs : r # p => proc'[r] = proc[r]
  OBVIOUS

\* The others keep their parts, and the one that moves has those of its new place.
LEMMA RolesKept ==
  ASSUME proc \in [Procs -> Proc], NEW p \in Procs, NEW q \in Proc, proc' = [proc EXCEPT ![p] = q],
         NEW ch, NEW verdict
  PROVE /\ AtWork(ch) => AtWork(ch)' \/ (proc[p].ch = ch /\ proc[p].pc \in {"read", "retried"})
        /\ q.ch = ch /\ q.pc \in {"read", "retried"} => AtWork(ch)'
        /\ Dispatching => Dispatching' \/ proc[p].pc \in {"created", "dispatch"}
        /\ q.pc \in {"created", "dispatch"} => Dispatching'
        /\ Scheduling(ch) => Scheduling(ch)' \/ (proc[p].ch = ch /\ proc[p].pc = "schedule")
        /\ q.ch = ch /\ q.pc = "schedule" => Scheduling(ch)'
        /\ Told(verdict) => Told(verdict)' \/ Telling(proc[p], verdict)
        /\ Telling(q, verdict) => Told(verdict)'
  <1>1. proc'[p] = q /\ \A r \in Procs : r # p => proc'[r] = proc[r]
    OBVIOUS
  <1>2. /\ AtWork(ch) => AtWork(ch)' \/ (proc[p].ch = ch /\ proc[p].pc \in {"read", "retried"})
        /\ q.ch = ch /\ q.pc \in {"read", "retried"} => AtWork(ch)'
    BY <1>1, Zenon DEF AtWork
  <1>3. /\ Dispatching => Dispatching' \/ proc[p].pc \in {"created", "dispatch"}
        /\ q.pc \in {"created", "dispatch"} => Dispatching'
    BY <1>1, Zenon DEF Dispatching
  <1>4. /\ Scheduling(ch) => Scheduling(ch)' \/ (proc[p].ch = ch /\ proc[p].pc = "schedule")
        /\ q.ch = ch /\ q.pc = "schedule" => Scheduling(ch)'
    BY <1>1, Zenon DEF Scheduling
  <1>5. /\ Told(verdict) => Told(verdict)' \/ Telling(proc[p], verdict)
        /\ Telling(q, verdict) => Told(verdict)'
    BY <1>1, Zenon DEF Told, Telling
  <1>6. QED
    BY <1>2, <1>3, <1>4, <1>5

LEMMA HeldKept ==
  ASSUME proc \in [Procs -> Proc], NEW p \in Procs, NEW q \in Proc, proc' = [proc EXCEPT ![p] = q],
         NEW ch \in Channels, delivery'[ch] = delivery[ch]
  PROVE /\ Held(ch) => Held(ch)' \/ (proc[p].ch = ch /\ Fresh(proc[p]))
        /\ q.ch = ch /\ Fresh(q)' => Held(ch)'
  <1>1. proc'[p] = q /\ \A r \in Procs : r # p => proc'[r] = proc[r]
    OBVIOUS
  <1>2. ASSUME NEW r \in Procs, proc[r].ch = ch, Fresh(proc[r]), r # p
        PROVE proc'[r].ch = ch /\ Fresh(proc[r])'
    <2>1. proc'[r] = proc[r]
      BY <1>1, <1>2
    <2>2. Fresh(proc[r])'
      BY <1>2, <2>1 DEF Fresh, VersionMatches
    <2>3. QED
      BY <1>2, <2>1, <2>2
  <1>3. Held(ch) => Held(ch)' \/ (proc[p].ch = ch /\ Fresh(proc[p]))
    BY <1>2, Zenon DEF Held
  <1>4. q.ch = ch /\ Fresh(q)' => proc'[p].ch = ch /\ Fresh(proc[p])'
    BY <1>1 DEF Fresh
  <1>5. QED
    BY <1>3, <1>4, Zenon DEF Held

\* What a process knows stays so while the notification and the deliveries do.
LEMMA LocalUnchanged ==
  ASSUME NEW k, Local(k), UNCHANGED <<notice, delivery>>
  PROVE Local(k)'
  <1>1. Fresh(k)' = Fresh(k) /\ NoDeliveries' = NoDeliveries /\ Stale(k)' = Stale(k)
    BY DEF Fresh, VersionMatches, NoDeliveries, Stale
  <1>2. Attempts(k)'
    BY <1>1 DEF Local, Attempts
  <1>3. Contended(k)' = Contended(k)
    BY <1>1 DEF Contended, One
  <1>4. Changes(k)'
    BY <1>1, <1>3 DEF Local, Changes, Wanted
  <1>5. Removes(k)'
    BY <1>1 DEF Local, Removes
  <1>6. QED
    BY <1>2, <1>4, <1>5 DEF Local

\* The notification and its deliveries stay as they are.
LEMMA ProcMoved ==
  ASSUME NotificationInv, NEW p \in Procs, NEW q \in Proc, proc' = [proc EXCEPT ![p] = q],
         UNCHANGED <<notice, delivery>>, TypeOK', Local(q), ToldInv', \A ch \in Channels : CarryInv(ch)'
  PROVE NotificationInv'
  <1>1. proc \in [Procs -> Proc]
    BY DEF NotificationInv, TypeOK
  <1>2. proc'[p] = q /\ \A r \in Procs : r # p => proc'[r] = proc[r]
    BY <1>1
  <1>3. ASSUME NEW r \in Procs
        PROVE Local(proc[r])'
    <2>1. PICK k : k = proc'[r]
      OBVIOUS
    <2>2. Local(k)
      BY <1>2, <2>1, Zenon DEF NotificationInv
    <2>3. Local(k)'
      BY <2>2, LocalUnchanged
    <2>4. QED
      BY <2>1, <2>3 DEF Local, Attempts, Fresh, VersionMatches, Changes, Stale, Contended, One, Removes, NoDeliveries
  <1>4. RecipientWins' /\ DeletedInv' /\ \A ch \in Channels : Paid(delivery[ch])'
    BY DEF NotificationInv, RecipientWins, DeletedInv, NoDeliveries, Paid
  <1>5. QED
    BY <1>3, <1>4 DEF NotificationInv
\* The deliveries are carried on if the one that moves keeps its part.
LEMMA CarryMoved ==
  ASSUME NotificationInv, NEW p \in Procs, NEW q \in Proc, proc' = [proc EXCEPT ![p] = q],
         UNCHANGED <<delivery, faults>>, NEW ch \in Channels,
         \A t \in 0..Backoff : jobs[ch][t] > 0 => jobs'[ch][t] > 0, asked[ch] > 0 => asked'[ch] > 0,
         proc[p].ch = ch /\ Fresh(proc[p]) => q.ch = ch /\ Fresh(q),
         proc[p].ch = ch /\ proc[p].pc \in {"read", "retried"} => Waiting(ch)',
         proc[p].pc \in {"created", "dispatch"} => q.pc \in {"created", "dispatch"},
         proc[p].ch = ch /\ proc[p].pc = "schedule" => Timed(ch)'
  PROVE CarryInv(ch)'
  <1>1. proc \in [Procs -> Proc] /\ delivery[ch] \in Delivery /\ CarryInv(ch)
    BY DEF NotificationInv, TypeOK
  <1>2. delivery[ch].next \in 0..Backoff
    BY <1>1 DEF Delivery
  <1>3. Held(ch) => Held(ch)'
    <2>1. Fresh(q) => Fresh(q)'
      BY DEF Fresh, VersionMatches
    <2>2. QED
      BY <1>1, <2>1, HeldKept
  <1>4. Waiting(ch) => Waiting(ch)'
    <2>1. AtWork(ch) => Waiting(ch)'
      BY <1>1, RolesKept DEF Waiting
    <2>2. QED
      BY <2>1 DEF Waiting
  <1>5. Dispatching => Dispatching'
    BY <1>1, RolesKept
  <1>6. Scheduling(ch) => Scheduling(ch)' \/ Timed(ch)'
    BY <1>1, RolesKept
  <1>7. Timed(ch) => Timed(ch)'
    BY <1>2, NotificationsAssumption DEF Timed
  <1>8. Carrier(ch) => Carrier(ch)'
    <2>1. delivery'[ch] = delivery[ch]
      OBVIOUS
    <2>2. QED
      BY <1>3, <1>4, <1>5, <1>6, <1>7, <2>1 DEF Carrier
  <1>9. QED
    BY <1>1, <1>8 DEF CarryInv

\* The notification is still told if the one that moves has still to.
LEMMA ToldMoved ==
  ASSUME NotificationInv, NEW p \in Procs, NEW q \in Proc, proc' = [proc EXCEPT ![p] = q],
         UNCHANGED <<notice, delivery, faults>>,
         \A v \in {"delivered", "failed"} : Telling(proc[p], v) => Telling(q, v)
  PROVE ToldInv'
  <1>1. proc \in [Procs -> Proc] /\ ToldInv
    BY DEF NotificationInv, TypeOK
  <1>2. (Told("delivered") => Told("delivered")') /\ (Told("failed") => Told("failed")')
    BY <1>1, RolesKept
  <1>3. QED
    BY <1>1, <1>2 DEF ToldInv

Spare(q) == q.pc \in {"idle", "create", "retry", "recover", "clear", "remove"}

\* Nothing depends on a process at such a place.
LEMMA QuietMove ==
  ASSUME NotificationInv, NEW p \in Procs, NEW q \in Proc, proc' = [proc EXCEPT ![p] = q], Spare(proc[p]),
         UNCHANGED <<notice, delivery, faults>>, TypeOK', Local(q),
         \A c \in Channels : \A t \in 0..Backoff : jobs[c][t] > 0 => jobs'[c][t] > 0,
         \A c \in Channels : asked[c] > 0 => asked'[c] > 0
  PROVE NotificationInv'
  <1>1. /\ ~Fresh(proc[p])
        /\ proc[p].pc \notin {"read", "retried", "created", "dispatch", "schedule"}
        /\ \A v \in {"delivered", "failed"} : ~Telling(proc[p], v)
    BY DEF Spare, Fresh, Attempting, Telling, Changing
  <1>2. \A ch \in Channels : CarryInv(ch)'
    BY <1>1, CarryMoved
  <1>3. ToldInv'
    BY <1>1, ToldMoved
  <1>4. QED
    BY <1>2, <1>3, ProcMoved

\* After a fault nothing is promised of what was under way.
LEMMA FaultyMove ==
  ASSUME NotificationInv, NEW p \in Procs, NEW q \in Proc, proc' = [proc EXCEPT ![p] = q], faults' > 0,
         UNCHANGED <<notice, delivery>>, TypeOK', Local(q)
  PROVE NotificationInv'
  <1>1. ToldInv' /\ \A ch \in Channels : CarryInv(ch)'
    BY DEF ToldInv, CarryInv, TypeOK
  <1>2. QED
    BY <1>1, ProcMoved

LEMMA LocalIdle ==
  ASSUME NotificationInv PROVE Local(Idle)
  BY IdleFields DEF Local, Attempts, Fresh, Attempting, Changes, Changing, Removes

\* The steps of a process, with the types of what they change.
LEMMA StartTypes ==
  ASSUME TypeOK, NEW p \in Procs, NEW q \in Proc, proc' = [proc EXCEPT ![p] = q],
         UNCHANGED <<setup, up, notice, delivery, accepts>>, jobs' \in JobCounts, asked' \in [Channels -> Nat],
         notifies' \in 0..MaxNotifies, ops' \in 0..MaxOps, faults' \in 0..MaxFaults
  PROVE TypeOK'
  BY DEF TypeOK, JobCounts
-----------------------------------------------------------------------------
(* Calls that begin *)

\* A process that goes to a place where nothing is expected of it.
LEMMA TurnedLocal ==
  ASSUME NotificationInv, NEW p \in Procs, proc[p].pc \notin Changing,
         NEW to \in {"create", "created", "dispatch", "audit", "list"}
  PROVE \E k \in Proc : k = [proc[p] EXCEPT !.pc = to] /\ k.pc = to /\ k.ch = proc[p].ch /\ Local(k)
  <1>1. proc[p] \in Proc /\ Local(proc[p])
    BY DEF NotificationInv, TypeOK
  <1>2. PICK k \in Proc : /\ k = [proc[p] EXCEPT !.pc = to]
                          /\ k.pc = to /\ k.ch = proc[p].ch /\ k.mode = proc[p].mode /\ k.tries = proc[p].tries
    <2>1. to \in Places
      BY DEF Places
    <2>2. QED
      BY <1>1, <2>1, Turned
  <1>3. Local(k)
    BY <1>1, <1>2 DEF Local, Attempts, Fresh, Attempting, Changes, Changing, Removes
  <1>4. QED
    BY <1>2, <1>3

LEMMA StartNotifyStep == ASSUME NotificationInv, NEW p \in Procs, StartNotify(p) PROVE NotificationInv'
  <1>1. TypeOK /\ proc[p].pc = "idle" /\ jobs \in JobCounts /\ asked \in [Channels -> Nat] /\ faults \in 0..MaxFaults
    BY DEF NotificationInv, TypeOK, StartNotify, JobCounts
  <1>2. PICK k \in Proc : k = [proc[p] EXCEPT !.pc = "create"] /\ Local(k)
    BY <1>1, TurnedLocal DEF Changing
  <1>3. proc' = [proc EXCEPT ![p] = k]
    BY <1>2, WentTo DEF StartNotify
  <1>4. notifies' \in 0..MaxNotifies /\ ops' \in 0..MaxOps /\ faults' \in 0..MaxFaults
    BY NotificationsAssumption DEF NotificationInv, TypeOK, StartNotify
  <1>5. UNCHANGED <<setup, up, notice, delivery, jobs, asked, faults, accepts>>
    BY DEF StartNotify
  <1>6. TypeOK'
    BY <1>1, <1>3, <1>4, <1>5, StartTypes
  <1>7. Spare(proc[p])
    BY <1>1 DEF Spare
  <1>8. QED
    BY <1>2, <1>3, <1>5, <1>6, <1>7, QuietMove

\* The operations of clients.
LEMMA OperateStep ==
  ASSUME NotificationInv, NEW p \in Procs, NEW new \in Proc, Operate(p, new), Local(new)
  PROVE NotificationInv'
  <1>1. TypeOK /\ proc[p].pc = "idle" /\ jobs \in JobCounts /\ asked \in [Channels -> Nat] /\ faults \in 0..MaxFaults
    BY DEF NotificationInv, TypeOK, Operate, JobCounts
  <1>2. proc' = [proc EXCEPT ![p] = new]
    BY DEF Operate
  <1>3. notifies' \in 0..MaxNotifies /\ ops' \in 0..MaxOps /\ faults' \in 0..MaxFaults
    BY NotificationsAssumption DEF NotificationInv, TypeOK, Operate
  <1>4. UNCHANGED <<setup, up, notice, delivery, jobs, asked, faults, accepts>>
    BY DEF Operate
  <1>5. TypeOK'
    BY <1>1, <1>2, <1>3, <1>4, StartTypes
  <1>6. Spare(proc[p])
    BY <1>1 DEF Spare
  <1>7. QED
    BY <1>2, <1>4, <1>5, <1>6, QuietMove

\* A change of the notification that begins has not been overtaken.
LEMMA LocalLoading ==
  ASSUME NotificationInv, NEW k \in Proc, k.pc = "load", k.mode = "initial", k.tries = 0, k.goal # "none"
  PROVE Local(k)
  <1>1. Attempts(k) /\ Removes(k)
    BY DEF Attempts, Fresh, Attempting, Removes
  <1>2. Contended(k)
    BY DEF Contended, Stale, One
  <1>3. QED
    BY <1>1, <1>2 DEF Local, Changes, Changing

\* What is left to do for an attempt that found the notification expired.
LEMMA ExpireNext ==
  ASSUME NotificationInv, NEW expired
  PROVE \E k \in Proc :
          /\ k = (IF expired THEN [Idle EXCEPT !.pc = "load", !.goal = "expired"] ELSE Idle)
          /\ Local(k) /\ k.goal \in {"none", "expired"} /\ k.pc \in {"idle", "load"}
  <1>1. PICK k \in Proc : /\ k = [Idle EXCEPT !.pc = "load", !.goal = "expired"]
                          /\ k.pc = "load" /\ k.goal = "expired" /\ k.mode = "initial" /\ k.tries = 0
    BY LoadExpired, Zenon
  <1>2. Local(k)
    BY <1>1, LocalLoading
  <1>3. QED
    BY <1>1, <1>2, IdleFields, LocalIdle

LEMMA StartChangeStep == ASSUME NotificationInv, NEW p \in Procs, StartChange(p) PROVE NotificationInv'
  <1>1. PICK goal \in {"expired", "read", "acknowledged", "dismissed"} :
          Operate(p, [Idle EXCEPT !.pc = "load", !.goal = goal])
    BY DEF StartChange
  <1>2. PICK k \in Proc : /\ k = [Idle EXCEPT !.pc = "load", !.goal = goal]
                          /\ k.pc = "load" /\ k.goal = goal /\ k.mode = "initial" /\ k.tries = 0
    <2>1. goal \in Goals
      BY DEF Goals
    <2>2. QED
      BY <2>1, Loading
  <1>3. Local(k)
    BY <1>2, LocalLoading
  <1>4. QED
    BY <1>1, <1>2, <1>3, OperateStep

LEMMA StartRetryStep == ASSUME NotificationInv, NEW p \in Procs, StartRetry(p) PROVE NotificationInv'
  <1>1. PICK ch \in Channels : Operate(p, [Idle EXCEPT !.pc = "retry", !.ch = ch])
    BY DEF StartRetry
  <1>2. PICK k : k = [Idle EXCEPT !.pc = "retry", !.ch = ch]
    OBVIOUS
  <1>3. k \in Proc /\ k.pc = "retry" /\ k.ch = ch /\ k.tries = 0
    <2>1. k \in Proc
      BY <1>2, IdleFields DEF Proc
    <2>2. k.pc = "retry" /\ k.ch = ch /\ k.tries = 0
      BY <1>2 DEF Idle
    <2>3. QED
      BY <2>1, <2>2
  <1>4. Local(k)
    BY <1>3 DEF Local, Attempts, Fresh, Attempting, Changes, Changing, Removes
  <1>5. QED
    BY <1>1, <1>2, <1>3, <1>4, OperateStep

LEMMA StartOtherStep ==
  ASSUME NotificationInv, NEW p \in Procs, StartRecover(p) \/ StartDelete(p)
  PROVE NotificationInv'
  <1>1. PICK to \in {"recover", "clear"} : Operate(p, [Idle EXCEPT !.pc = to])
    BY DEF StartRecover, StartDelete
  <1>2. PICK k \in Proc : /\ k = [Idle EXCEPT !.pc = to]
                          /\ k.pc = to /\ k.mode = Idle.mode /\ k.tries = Idle.tries
    <2>1. to \in Places
      BY DEF Places
    <2>2. QED
      BY <2>1, IdleFields, Turned
  <1>3. Local(k)
    BY <1>2, IdleFields DEF Local, Attempts, Fresh, Attempting, Changes, Changing, Removes
  <1>4. QED
    BY <1>1, <1>2, <1>3, OperateStep
-----------------------------------------------------------------------------
(* notify *)

LEMMA Basics ==
  ASSUME NotificationInv, NEW p \in Procs
  PROVE /\ TypeOK /\ proc \in [Procs -> Proc] /\ proc[p] \in Proc /\ Local(proc[p])
        /\ jobs \in JobCounts /\ asked \in [Channels -> Nat] /\ Backoff \in Nat
        /\ notifies \in 0..MaxNotifies /\ ops \in 0..MaxOps /\ faults \in 0..MaxFaults
  BY NotificationsAssumption DEF NotificationInv, TypeOK, JobCounts

LEMMA StepTypes ==
  ASSUME NotificationInv, NEW p \in Procs, NEW q \in Proc, proc' = [proc EXCEPT ![p] = q],
         UNCHANGED <<setup, up, notice, delivery, accepts, notifies, ops, faults>>,
         jobs' \in JobCounts, asked' \in [Channels -> Nat]
  PROVE TypeOK'
  BY Basics, StartTypes

\* Every delivery of a new notification is carried by the call that made it.
LEMMA CreateStep ==
  ASSUME NotificationInv, NEW p \in Procs, Create(p), [QuietCreate]_vars
  PROVE NotificationInv'
  <1>1. proc[p] \in Proc /\ proc \in [Procs -> Proc] /\ Local(proc[p]) /\ proc[p].pc = "create"
    BY Basics DEF Create
  <1>2. CASE notice.exists
    <2>1. PICK k \in Proc : k = [proc[p] EXCEPT !.pc = "dispatch"] /\ Local(k)
      BY <1>1, TurnedLocal DEF Changing
    <2>2. Goto(p, "dispatch") /\ UNCHANGED <<setup, up, notice, delivery, jobs, asked, notifies, ops, faults, accepts>>
      BY <1>2 DEF Create
    <2>3. proc' = [proc EXCEPT ![p] = k]
      BY <2>1, <2>2, WentTo
    <2>4. TypeOK'
      BY <2>2, <2>3, Basics, StepTypes
    <2>5. Spare(proc[p])
      BY <1>1 DEF Spare
    <2>6. QED
      BY <2>1, <2>2, <2>3, <2>4, <2>5, QuietMove
  <1>3. CASE ~notice.exists
    <2>1. PICK k \in Proc : k = [proc[p] EXCEPT !.pc = "created"] /\ k.pc = "created" /\ k.ch = proc[p].ch /\ Local(k)
      BY <1>1, TurnedLocal DEF Changing
    <2>2. /\ Goto(p, "created") /\ delivery' = [ch \in Channels |-> [NoDelivery EXCEPT !.exists = TRUE, !.version = 1]]
          /\ UNCHANGED <<setup, up, jobs, asked, notifies, ops, faults, accepts>>
      BY <1>3 DEF Create
    <2>3. PICK e \in {Lifetime, Never} : notice' = [NoNotice EXCEPT !.exists = TRUE, !.version = 1, !.expires = e]
      BY <1>3 DEF Create
    <2>4. proc' = [proc EXCEPT ![p] = k]
      BY <2>1, <2>2, WentTo
    <2>5. proc' \in [Procs -> Proc] /\ proc'[p] = k /\ \A r \in Procs : r # p => proc'[r] = proc[r]
      BY <1>1, <2>4
    <2>6. /\ notice' \in Notice /\ notice'.exists /\ notice'.status = "pending"
          /\ ~notice'.read /\ ~notice'.acknowledged
      <3>1. e \in 0..Never
        BY NotificationsAssumption DEF Never
      <3>2. NoNotice \in Notice
        BY NotificationsAssumption DEF Notice, NoNotice, Never
      <3>3. QED
        BY <2>3, <3>1, <3>2 DEF Notice, NoNotice
    <2>7. ASSUME NEW ch \in Channels
          PROVE /\ delivery'[ch] \in Delivery /\ Paid(delivery'[ch])
                /\ delivery'[ch].status = "pending" /\ delivery'[ch].open = FALSE
      <3>1. delivery'[ch] = [NoDelivery EXCEPT !.exists = TRUE, !.version = 1]
        BY <2>2
      <3>2. delivery'[ch] \in Delivery
        BY <3>1, NewDelivery, NoDeliveryFields
      <3>3. delivery'[ch].status = "pending" /\ delivery'[ch].open = FALSE
        BY <3>1 DEF NoDelivery
      <3>4. Paid(delivery'[ch])
        BY <3>1, NotificationsAssumption DEF Paid, NoDelivery
      <3>5. QED
        BY <3>2, <3>3, <3>4
    <2>8. TypeOK'
      <3>1. delivery' \in [Channels -> Delivery]
        BY <2>2, <2>7
      <3>2. QED
        BY <2>2, <2>5, <2>6, <3>1, Basics DEF TypeOK
    <2>9. \A r \in Procs : proc[r].pc \notin Attempting \union Changing \union {"remove"}
      <3>1. vars' # vars
        BY <1>3, <2>6 DEF vars
      <3>2. QED
        BY <1>3, <2>6, <3>1 DEF QuietCreate
    <2>10. ASSUME NEW r \in Procs
           PROVE Local(proc[r])'
      <3>1. PICK q \in Proc : q = proc'[r]
        BY <2>5
      <3>2. Local(q) /\ q.pc \notin Attempting \union Changing \union {"remove"}
        BY <2>1, <2>5, <2>9, <3>1, Basics DEF Attempting, Changing
      <3>3. Local(q)'
        BY <3>2 DEF Local, Attempts, Fresh, Changes, Changing, Removes, Attempting
      <3>4. QED
        BY <3>1, <3>3 DEF Local, Attempts, Fresh, Changes, Changing, Removes, Attempting
    <2>11. ASSUME NEW ch \in Channels
           PROVE CarryInv(ch)'
      <3>1. Dispatching'
        BY <2>1, <2>5 DEF Dispatching
      <3>2. QED
        BY <2>7, <3>1 DEF CarryInv, Carrier
    <2>12. ToldInv'
      BY <2>7, NotificationsAssumption DEF ToldInv
    <2>13. RecipientWins' /\ DeletedInv'
      BY <2>6 DEF RecipientWins, DeletedInv
    <2>14. \A ch \in Channels : Paid(delivery[ch])'
      BY <2>7 DEF Paid
    <2>15. QED
      BY <2>8, <2>10, <2>11, <2>12, <2>13, <2>14 DEF NotificationInv
  <1>4. QED
    BY <1>2, <1>3

LEMMA AuditCreatedStep == ASSUME NotificationInv, NEW p \in Procs, AuditCreated(p) PROVE NotificationInv'
  <1>1. proc[p].pc = "created"
    BY DEF AuditCreated
  <1>2. PICK k \in Proc : k = [proc[p] EXCEPT !.pc = "dispatch"] /\ k.pc = "dispatch" /\ Local(k)
    BY <1>1, TurnedLocal DEF Changing
  <1>3. proc' = [proc EXCEPT ![p] = k]
    BY <1>2, WentTo DEF AuditCreated
  <1>4. UNCHANGED <<setup, up, notice, delivery, jobs, asked, notifies, ops, faults, accepts>>
    BY DEF AuditCreated
  <1>5. TypeOK'
    BY <1>3, <1>4, Basics, StepTypes
  <1>6. /\ ~Fresh(proc[p]) /\ proc[p].pc \notin {"read", "retried", "schedule"}
        /\ \A v \in {"delivered", "failed"} : ~Telling(proc[p], v)
    BY <1>1 DEF Fresh, Attempting, Telling, Changing
  <1>7. \A ch \in Channels : CarryInv(ch)'
    BY <1>2, <1>3, <1>4, <1>6, CarryMoved
  <1>8. ToldInv'
    BY <1>3, <1>4, <1>6, ToldMoved
  <1>9. QED
    BY <1>2, <1>3, <1>4, <1>5, <1>7, <1>8, ProcMoved
\* Every delivery that waits for this call is asked for.
LEMMA DispatchPendingStep == ASSUME NotificationInv, NEW p \in Procs, DispatchPending(p) PROVE NotificationInv'
  <1> DEFINE chs == {ch \in Channels : delivery[ch].exists /\ delivery[ch].status = "pending" /\ delivery[ch].attempts = 0}
  <1>1. proc \in [Procs -> Proc] /\ proc[p].pc = "dispatch" /\ Backoff \in Nat /\ TypeOK
    BY Basics DEF DispatchPending
  <1>2. PICK k \in Proc : /\ k = [Idle EXCEPT !.pc = "load", !.goal = "expired"]
                          /\ k.pc = "load" /\ k.goal = "expired" /\ k.mode = "initial" /\ k.tries = 0
    BY LoadExpired, Zenon
  <1>3. Local(k)
    BY <1>2, LocalLoading
  <1>4. proc' = [proc EXCEPT ![p] = k] /\ UNCHANGED <<setup, up, notice, delivery, notifies, ops, faults, accepts>>
    BY <1>2 DEF DispatchPending
  <1>5. Dispatch(chs)
    BY DEF DispatchPending
  <1>6. /\ jobs' \in JobCounts /\ asked' \in [Channels -> Nat]
        /\ \A c \in Channels : \A u \in 0..Backoff : jobs[c][u] > 0 => jobs'[c][u] > 0
        /\ \A c \in Channels : asked[c] > 0 => asked'[c] > 0
        /\ \A c \in Channels : c \in chs => asked'[c] > 0 \/ jobs'[c][0] > 0
    <2> HIDE DEF chs
    <2>1. QED
      BY <1>1, <1>5, Dispatched
  <1>7. TypeOK'
    BY <1>4, <1>6, StepTypes
  <1>8. /\ ~Fresh(proc[p]) /\ proc[p].pc \notin {"read", "retried", "schedule"}
        /\ \A v \in {"delivered", "failed"} : ~Telling(proc[p], v)
    BY <1>1 DEF Fresh, Attempting, Telling, Changing
  <1>9. ASSUME NEW ch \in Channels
        PROVE CarryInv(ch)'
    <2>1. delivery[ch] \in Delivery /\ Paid(delivery[ch]) /\ CarryInv(ch) /\ delivery' = delivery
      BY <1>4 DEF NotificationInv, TypeOK
    <2>2. Held(ch) => Held(ch)'
      BY <1>1, <1>4, <1>8, HeldKept
    <2>3. Waiting(ch) => Waiting(ch)'
      <3>1. AtWork(ch) => AtWork(ch)'
        BY <1>1, <1>4, <1>8, RolesKept
      <3>2. QED
        BY <1>6, <3>1 DEF Waiting
    <2>4. Scheduling(ch) => Scheduling(ch)'
      BY <1>1, <1>4, <1>8, RolesKept
    <2>5. Timed(ch) => Timed(ch)'
      <3>1. delivery[ch].next \in 0..Backoff
        BY <2>1 DEF Delivery
      <3>2. QED
        BY <1>1, <1>6, <2>1, <3>1 DEF Timed
    <2>6. delivery[ch].exists /\ delivery[ch].status = "pending" /\ ~delivery[ch].open => Waiting(ch)'
      BY <1>1, <1>6, <2>1 DEF Paid, Waiting
    <2>7. QED
      BY <1>4, <2>1, <2>2, <2>3, <2>4, <2>5, <2>6 DEF CarryInv, Carrier
  <1>10. ToldInv'
    BY <1>4, <1>8, ToldMoved
  <1>11. QED
    BY <1>3, <1>4, <1>7, <1>9, <1>10, ProcMoved

-----------------------------------------------------------------------------
(* Attempts *)

\* An attempt that begins takes the place of what asked for it.
LEMMA AttemptBegins ==
  ASSUME NotificationInv, NEW p \in Procs, NEW ch \in Channels, NEW mode \in {"initial", "scheduled", "manual"},
         Attempt(p, ch, mode), proc[p].pc \in {"idle", "retried"}, proc[p].pc = "retried" => proc[p].ch = ch,
         UNCHANGED <<setup, up, notice, delivery, notifies, ops, faults, accepts>>,
         jobs' \in JobCounts, asked' \in [Channels -> Nat],
         \A c \in Channels : \A u \in 0..Backoff : jobs[c][u] > 0 /\ ~(c = ch /\ u = 0) => jobs'[c][u] > 0,
         \A c \in Channels : c # ch => asked'[c] = asked[c]
  PROVE NotificationInv'
  <1>1. proc \in [Procs -> Proc] /\ Backoff \in Nat
    BY Basics
  <1>2. PICK k \in Proc : /\ k = [Idle EXCEPT !.pc = "read", !.ch = ch, !.mode = mode]
                          /\ k.pc = "read" /\ k.ch = ch /\ k.mode = mode /\ k.tries = 0
    <2>1. PICK k : k = [Idle EXCEPT !.pc = "read", !.ch = ch, !.mode = mode]
      OBVIOUS
    <2>2. k \in Proc
      BY <2>1, IdleFields DEF Proc
    <2>3. k.pc = "read" /\ k.ch = ch /\ k.mode = mode /\ k.tries = 0
      BY <2>1 DEF Idle
    <2>4. QED
      BY <2>1, <2>2, <2>3
  <1>3. Local(k)
    BY <1>2 DEF Local, Attempts, Fresh, Attempting, Changes, Changing, Removes
  <1>4. proc' = [proc EXCEPT ![p] = k]
    BY <1>2 DEF Attempt
  <1>5. TypeOK'
    BY <1>4, StepTypes
  <1>6. /\ ~Fresh(proc[p]) /\ proc[p].pc \notin {"read", "created", "dispatch", "schedule"}
        /\ \A v \in {"delivered", "failed"} : ~Telling(proc[p], v)
    BY DEF Fresh, Attempting, Telling, Changing
  <1>7. Waiting(ch)'
    <2>1. AtWork(ch)'
      BY <1>1, <1>2, <1>4, RolesKept
    <2>2. QED
      BY <2>1 DEF Waiting
  <1>8. ASSUME NEW c \in Channels
        PROVE CarryInv(c)'
    <2>1. delivery[c] \in Delivery /\ CarryInv(c) /\ delivery' = delivery
      BY DEF NotificationInv, TypeOK
    <2>2. Held(c) => Held(c)'
      BY <1>1, <1>4, <1>6, HeldKept
    <2>3. Waiting(c) => Waiting(c)'
      <3>1. c # ch => (AtWork(c) => AtWork(c)')
        BY <1>1, <1>4, <1>6, RolesKept
      <3>2. c # ch => (Waiting(c) => Waiting(c)')
        BY <3>1 DEF Waiting
      <3>3. QED
        BY <1>7, <3>2
    <2>4. (Scheduling(c) => Scheduling(c)') /\ (Dispatching => Dispatching')
      BY <1>1, <1>4, <1>6, RolesKept
    <2>5. Timed(c) => Timed(c)' \/ (delivery[c].next = 0 /\ Waiting(c)')
      <3>1. delivery[c].next \in 0..Backoff
        BY <2>1 DEF Delivery
      <3>2. ASSUME NEW t \in delivery[c].next..Backoff, jobs[c][t] > 0
            PROVE Timed(c)' \/ (delivery[c].next = 0 /\ Waiting(c)')
        <4>1. CASE c = ch /\ t = 0
          BY <1>7, <3>1, <4>1
        <4>2. CASE ~(c = ch /\ t = 0)
          <5>1. t \in 0..Backoff
            BY <1>1, <3>1
          <5>2. jobs'[c][t] > 0
            BY <3>2, <4>2, <5>1
          <5>3. QED
            BY <2>1, <5>2 DEF Timed
        <4>3. QED
          BY <4>1, <4>2
      <3>3. QED
        BY <3>2 DEF Timed
    <2>6. QED
      BY <2>1, <2>2, <2>3, <2>4, <2>5 DEF CarryInv, Carrier
  <1>9. ToldInv'
    BY <1>4, <1>6, ToldMoved
  <1>10. QED
    BY <1>3, <1>4, <1>5, <1>8, <1>9, ProcMoved

LEMMA StartInitialStep ==
  ASSUME NotificationInv, NEW p \in Procs, NEW ch \in Channels, StartInitial(p, ch)
  PROVE NotificationInv'
  <1>1. /\ Attempt(p, ch, "initial") /\ proc[p].pc = "idle" /\ asked[ch] > 0 /\ asked' = [asked EXCEPT ![ch] = @ - 1]
        /\ UNCHANGED <<setup, up, notice, delivery, jobs, notifies, ops, faults, accepts>>
    BY DEF StartInitial
  <1>2. jobs' \in JobCounts /\ asked \in [Channels -> Nat]
    BY <1>1, Basics
  <1>3. asked' \in [Channels -> Nat] /\ \A c \in Channels : c # ch => asked'[c] = asked[c]
    BY <1>1, <1>2
  <1>4. QED
    BY <1>1, <1>2, <1>3, AttemptBegins

LEMMA StartJobStep ==
  ASSUME NotificationInv, NEW p \in Procs, NEW ch \in Channels, StartJob(p, ch)
  PROVE NotificationInv'
  <1>1. /\ Attempt(p, ch, "scheduled") /\ proc[p].pc = "idle" /\ jobs[ch][0] > 0 /\ jobs' = [jobs EXCEPT ![ch][0] = @ - 1]
        /\ UNCHANGED <<setup, up, notice, delivery, asked, notifies, ops, faults, accepts>>
    BY DEF StartJob
  <1>2. jobs \in JobCounts /\ asked' \in [Channels -> Nat] /\ Backoff \in Nat
    BY <1>1, Basics
  <1>3. /\ jobs' \in JobCounts
        /\ \A c \in Channels : \A u \in 0..Backoff : jobs[c][u] > 0 /\ ~(c = ch /\ u = 0) => jobs'[c][u] > 0
    BY <1>1, <1>2, JobTaken
  <1>4. QED
    BY <1>1, <1>2, <1>3, AttemptBegins
\* An attempt that has read its delivery has seen it as it is; one that gives up leaves
\* nothing that only it carried.
LEMMA ReadDeliveryStep == ASSUME NotificationInv, NEW p \in Procs, ReadDelivery(p) PROVE NotificationInv'
  <1>1. /\ proc \in [Procs -> Proc] /\ proc[p] \in Proc /\ Local(proc[p]) /\ proc[p].pc = "read" /\ Backoff \in Nat
        /\ UNCHANGED <<setup, up, notice, delivery, jobs, asked, notifies, ops, faults, accepts>>
    BY Basics DEF ReadDelivery
  <1>2. PICK ch \in Channels : ch = proc[p].ch
    BY <1>1 DEF Local, Attempts
  <1>3. delivery[ch] \in Delivery /\ Paid(delivery[ch])
    BY DEF NotificationInv, TypeOK
  <1>4. /\ ~Fresh(proc[p]) /\ proc[p].pc \notin {"created", "dispatch", "schedule"}
        /\ \A v \in {"delivered", "failed"} : ~Telling(proc[p], v)
    BY <1>1 DEF Fresh, Attempting, Telling, Changing
  <1>5. ASSUME NEW k \in Proc, proc' = [proc EXCEPT ![p] = k], Local(k), CarryInv(ch)'
        PROVE NotificationInv'
    <2>1. TypeOK'
      BY <1>1, <1>5, Basics, StepTypes
    <2>2. \A c \in Channels : c # ch => CarryInv(c)'
      BY <1>1, <1>2, <1>4, <1>5, CarryMoved
    <2>3. ToldInv'
      BY <1>1, <1>4, <1>5, ToldMoved
    <2>4. QED
      BY <1>1, <1>5, <2>1, <2>2, <2>3, ProcMoved
  <1>6. CASE Attemptable(delivery[ch], proc[p].mode)
    <2>1. PICK seen \in [version : Nat, attempts : Nat, max : Nat] :
            /\ seen = [version |-> delivery[ch].version, attempts |-> delivery[ch].attempts, max |-> delivery[ch].max]
            /\ seen.version = delivery[ch].version /\ seen.attempts = delivery[ch].attempts
            /\ seen.max = delivery[ch].max
      <3> DEFINE s == [version |-> delivery[ch].version, attempts |-> delivery[ch].attempts, max |-> delivery[ch].max]
      <3>1. delivery[ch].version \in Nat /\ delivery[ch].attempts \in Nat /\ delivery[ch].max \in Nat
        BY <1>3 DEF Delivery
      <3>2. s \in [version : Nat, attempts : Nat, max : Nat]
        BY <3>1
      <3>3. s.version = delivery[ch].version /\ s.attempts = delivery[ch].attempts /\ s.max = delivery[ch].max
        OBVIOUS
      <3>4. QED
        BY <3>2, <3>3
    <2>2. PICK k : k = [proc[p] EXCEPT !.pc = "notice", !.seen = seen]
      OBVIOUS
    <2>3. k \in Proc
      BY <1>1, <2>1, <2>2 DEF Proc
    <2>4. k.pc = "notice" /\ k.seen = seen /\ k.ch = ch /\ k.tries = proc[p].tries
      BY <1>1, <1>2, <2>2 DEF Proc
    <2>5. proc' = [proc EXCEPT ![p] = k]
      BY <1>1, <1>2, <1>6, <2>1, <2>2 DEF ReadDelivery
    <2>6. /\ delivery[ch].exists /\ delivery[ch].status \in Unsettled
          /\ delivery[ch].status = "pending" => delivery[ch].lease = 0
      BY <1>3, <1>6 DEF Attemptable, Delivery, Unsettled
    <2>7. Fresh(k)
      BY <2>1, <2>4, <2>6 DEF Fresh, Attempting, VersionMatches
    <2>8. Local(k)
      <3>1. Attempts(k)
        BY <1>3, <2>1, <2>4, <2>6 DEF Attempts, Delivery, Attempting
      <3>2. QED
        BY <1>1, <2>4, <3>1 DEF Local, Changes, Changing, Removes
    <2>9. CarryInv(ch)'
      <3>1. Fresh(k)'
        BY <1>1, <2>7 DEF Fresh, VersionMatches
      <3>2. Held(ch)'
        BY <1>1, <2>3, <2>4, <2>5, <3>1, HeldKept
      <3>3. QED
        BY <3>2 DEF CarryInv, Carrier
    <2>10. QED
      BY <1>5, <2>3, <2>5, <2>8, <2>9
  <1>7. CASE ~Attemptable(delivery[ch], proc[p].mode)
    <2>1. proc' = [proc EXCEPT ![p] = Idle]
      BY <1>2, <1>7, WentTo DEF ReadDelivery
    <2>2. CarryInv(ch)'
      <3>1. CarryInv(ch) /\ delivery' = delivery
        BY <1>1 DEF NotificationInv
      <3>2. Held(ch) => Held(ch)'
        BY <1>1, <1>4, <2>1, IdleFields, HeldKept
      <3>3. (Scheduling(ch) => Scheduling(ch)') /\ (Timed(ch) => Timed(ch)')
        <4>1. Scheduling(ch) => Scheduling(ch)'
          BY <1>1, <1>4, <2>1, IdleFields, RolesKept
        <4>2. QED
          BY <1>1, <4>1 DEF Timed
      <3>4. /\ delivery[ch].exists /\ delivery[ch].status = "pending" => delivery[ch].open
            /\ delivery[ch].exists /\ delivery[ch].status = "retrying" => delivery[ch].next # 0
        BY <1>3, <1>7 DEF Attemptable, Paid, Delivery, Unsettled
      <3>5. QED
        BY <1>1, <3>1, <3>2, <3>3, <3>4 DEF CarryInv, Carrier
    <2>3. QED
      BY <1>5, <2>1, <2>2, IdleFields, LocalIdle
  <1>8. QED
    BY <1>6, <1>7

\* An attempt that goes on without a write keeps what it carries.
LEMMA AttemptMoves ==
  ASSUME NotificationInv, NEW p \in Procs, NEW k \in Proc, proc' = [proc EXCEPT ![p] = k], TypeOK',
         proc[p].pc \in Attempting, k.pc \in Attempting, k.ch = proc[p].ch, k.seen = proc[p].seen, Local(k),
         UNCHANGED <<notice, delivery, jobs, asked, faults>>
  PROVE NotificationInv'
  <1>1. Fresh(proc[p]) => Fresh(k)
    BY DEF Fresh
  <1>2. /\ proc[p].pc \notin {"read", "retried", "created", "dispatch", "schedule"}
        /\ \A v \in {"delivered", "failed"} : ~Telling(proc[p], v)
    BY DEF Attempting, Telling, Changing
  <1>3. \A ch \in Channels : CarryInv(ch)'
    BY <1>1, <1>2, CarryMoved
  <1>4. ToldInv'
    BY <1>2, ToldMoved
  <1>5. QED
    BY <1>3, <1>4, ProcMoved

LEMMA ReadNoticeStep == ASSUME NotificationInv, NEW p \in Procs, ReadNotice(p) PROVE NotificationInv'
  <1> DEFINE end == ~notice.exists \/ notice.expires = 0 \/ proc[p].ch \in Unavailable
             to == IF end THEN "finish" ELSE "claim"
             result == IF ~notice.exists THEN "deleted" ELSE IF end THEN "rejected" ELSE "none"
             expired == notice.exists /\ notice.expires = 0
  <1>1. /\ proc[p] \in Proc /\ Local(proc[p]) /\ proc[p].pc = "notice"
        /\ UNCHANGED <<setup, up, notice, delivery, jobs, asked, notifies, ops, faults, accepts>>
    BY Basics DEF ReadNotice
  <1>2. PICK k : k = [proc[p] EXCEPT !.pc = to, !.result = result, !.expired = expired]
    OBVIOUS
  <1>3. proc' = [proc EXCEPT ![p] = k]
    BY <1>2 DEF ReadNotice
  <1>4. to \in {"finish", "claim"} /\ result \in {"deleted", "rejected", "none"} /\ expired \in BOOLEAN
        /\ (result = "deleted" => ~notice.exists)
    OBVIOUS
  <1> HIDE DEF to, result, expired
  <1>5. k \in Proc
    BY <1>1, <1>2, <1>4 DEF Proc
  <1>6. /\ k.pc = to /\ k.result = result /\ k.ch = proc[p].ch /\ k.seen = proc[p].seen /\ k.mode = proc[p].mode
        /\ k.tries = proc[p].tries
    BY <1>1, <1>2 DEF Proc
  <1>7. Local(k)
    BY <1>1, <1>4, <1>6 DEF Local, Attempts, Fresh, Attempting, Changes, Changing, Removes
  <1>8. TypeOK'
    BY <1>1, <1>3, <1>5, Basics, StepTypes
  <1>9. proc[p].pc \in Attempting /\ k.pc \in Attempting
    BY <1>1, <1>4, <1>6 DEF Attempting
  <1>10. QED
    BY <1>1, <1>3, <1>5, <1>6, <1>7, <1>8, <1>9, AttemptMoves

LEMMA DeliverStep == ASSUME NotificationInv, NEW p \in Procs, Deliver(p) PROVE NotificationInv'
  <1>1. /\ proc[p] \in Proc /\ Local(proc[p]) /\ proc[p].pc = "deliver"
        /\ UNCHANGED <<setup, up, notice, delivery, jobs, asked, notifies, ops, faults>>
    BY Basics DEF Deliver
  <1>2. PICK result \in {"delivered", "failed", "rejected"} :
          /\ proc' = [proc EXCEPT ![p].pc = "finish", ![p].result = result]
          /\ accepts' = [accepts EXCEPT ![proc[p].ch] = IF result = "delivered" THEN @ + 1 ELSE @]
    BY DEF Deliver
  <1>3. PICK k : k = [proc[p] EXCEPT !.pc = "finish", !.result = result]
    OBVIOUS
  <1>4. proc' = [proc EXCEPT ![p] = k]
    BY <1>2, <1>3
  <1>5. k \in Proc
    BY <1>1, <1>3 DEF Proc
  <1>6. /\ k.pc = "finish" /\ k.result = result /\ k.ch = proc[p].ch /\ k.seen = proc[p].seen
        /\ k.mode = proc[p].mode /\ k.tries = proc[p].tries
    BY <1>1, <1>3 DEF Proc
  <1>7. Local(k)
    BY <1>1, <1>2, <1>6 DEF Local, Attempts, Fresh, Attempting, Changes, Changing, Removes
  <1>8. TypeOK'
    <2>1. accepts \in [Channels -> Nat]
      BY DEF NotificationInv, TypeOK
    <2>2. accepts' = [accepts EXCEPT ![proc[p].ch] = @ + 1] \/ accepts' = [accepts EXCEPT ![proc[p].ch] = @]
      BY <1>2
    <2>3. accepts' \in [Channels -> Nat]
      BY <2>1, <2>2
    <2>4. QED
      BY <1>1, <1>4, <1>5, <2>3 DEF NotificationInv, TypeOK
  <1>9. proc[p].pc \in Attempting /\ k.pc \in Attempting
    BY <1>1, <1>6 DEF Attempting
  <1>10. QED
    BY <1>1, <1>4, <1>5, <1>6, <1>7, <1>8, <1>9, AttemptMoves
-----------------------------------------------------------------------------
(* Writes of a delivery *)

\* What the others know survives a write: those who saw the old version are stale.
LEMMA OthersStale ==
  ASSUME NotificationInv, NEW r \in Procs, NEW c \in Channels, NEW d \in Delivery,
         delivery' = [delivery EXCEPT ![c] = d], UNCHANGED notice,
         delivery[c].exists, d.exists, d.version = delivery[c].version + 1, NEW q \in Proc, q = proc[r]
  PROVE Local(q)'
  <1>1. Local(q) /\ delivery \in [Channels -> Delivery] /\ delivery[c].version \in Nat
    BY DEF NotificationInv, TypeOK, Delivery
  <1>2. delivery'[c] = d /\ \A ch \in Channels : ch # c => delivery'[ch] = delivery[ch]
    BY <1>1
  <1>3. q.pc # "remove"
    BY <1>1 DEF Local, Removes, NoDeliveries
  <1>4. Attempts(q)'
    <2>1. CASE q.pc \in Attempting
      <3>1. q.ch \in Channels
        BY <1>1, <2>1 DEF Local, Attempts
      <3>2. CASE q.ch = c
        <4>1. q.seen.version <= delivery[c].version /\ q.seen.version \in Nat
          BY <1>1, <2>1, <3>2 DEF Local, Attempts, Proc
        <4>2. q.seen.version < d.version
          BY <1>1, <4>1
        <4>3. q.seen.version <= d.version /\ d.version # q.seen.version
          BY <4>1, <4>2 DEF Delivery
        <4>4. ~Fresh(q)'
          BY <1>2, <3>2, <4>3 DEF Fresh, VersionMatches
        <4>5. q.pc = "finish" /\ q.result = "deleted" => ~notice'.exists
          BY <1>1 DEF Local, Attempts
        <4>6. QED
          BY <1>2, <3>1, <3>2, <4>3, <4>4, <4>5 DEF Attempts
      <3>3. CASE q.ch # c
        <4>1. delivery'[q.ch] = delivery[q.ch]
          BY <1>2, <3>1, <3>3
        <4>2. QED
          BY <1>1, <4>1 DEF Local, Attempts, Fresh, VersionMatches
      <3>4. QED
        BY <3>2, <3>3
    <2>2. CASE q.pc \notin Attempting
      BY <1>1, <2>2 DEF Local, Attempts, Fresh, Attempting
    <2>3. QED
      BY <2>1, <2>2
  <1>5. Changes(q)'
    BY <1>1 DEF Local, Changes, Stale, Contended, One, Wanted
  <1>6. QED
    BY <1>3, <1>4, <1>5 DEF Local, Removes

LEMMA DeliveryWritten ==
  ASSUME NotificationInv, NEW p \in Procs, NEW k \in Proc, NEW c \in Channels, NEW d \in Delivery,
         proc' = [proc EXCEPT ![p] = k], delivery' = [delivery EXCEPT ![c] = d],
         UNCHANGED <<setup, up, notice, jobs, asked, notifies, ops, faults, accepts>>,
         proc[p].ch = c, proc[p].pc \in Attempting \union {"retry"},
         delivery[c].exists, d.exists, d.version = delivery[c].version + 1, Paid(d), Local(k)', CarryInv(c)',
         d.status \in {"delivered", "failed"} => k.pc = "audit"
  PROVE NotificationInv'
  <1>1. proc \in [Procs -> Proc] /\ delivery \in [Channels -> Delivery]
    BY DEF NotificationInv, TypeOK
  <1>2. proc' \in [Procs -> Proc] /\ proc'[p] = k /\ \A r \in Procs : r # p => proc'[r] = proc[r]
    BY <1>1
  <1>3. /\ delivery' \in [Channels -> Delivery] /\ delivery'[c] = d
        /\ \A ch \in Channels : ch # c => delivery'[ch] = delivery[ch]
    BY <1>1
  <1>4. TypeOK'
    BY <1>2, <1>3 DEF NotificationInv, TypeOK
  <1>5. RecipientWins' /\ DeletedInv'
    BY DEF NotificationInv, RecipientWins, DeletedInv, NoDeliveries
  <1>6. ASSUME NEW r \in Procs
        PROVE Local(proc[r])'
    <2>1. PICK q \in Proc : q = proc'[r]
      BY <1>2
    <2>2. Local(q)'
      <3>1. CASE r = p
        <4>1. q = k
          BY <1>2, <2>1, <3>1
        <4>2. QED
          BY <4>1
      <3>2. CASE r # p
        <4>1. q = proc[r]
          BY <1>2, <2>1, <3>2
        <4>2. QED
          BY <4>1, OthersStale
      <3>3. QED
        BY <3>1, <3>2
    <2>3. QED
      BY <2>1, <2>2 DEF Local, Attempts, Fresh, VersionMatches, Changes, Stale, Contended, One, Removes, NoDeliveries
  <1>7. /\ proc[p].pc \notin {"read", "retried", "created", "dispatch", "schedule"}
        /\ \A v \in {"delivered", "failed"} : ~Telling(proc[p], v)
    BY DEF Attempting, Telling, Changing
  <1>8. ASSUME NEW ch \in Channels, ch # c
        PROVE CarryInv(ch)'
    <2>1. CarryInv(ch) /\ delivery'[ch] = delivery[ch] /\ faults' = faults
      BY <1>3, <1>8 DEF NotificationInv
    <2>2. Held(ch) => Held(ch)'
      BY <1>1, <1>8, <2>1, HeldKept
    <2>3. Waiting(ch) => Waiting(ch)'
      <3>1. AtWork(ch) => AtWork(ch)'
        BY <1>1, <1>7, RolesKept
      <3>2. QED
        BY <3>1 DEF Waiting
    <2>4. (Scheduling(ch) => Scheduling(ch)') /\ (Dispatching => Dispatching')
      BY <1>1, <1>7, RolesKept
    <2>5. Timed(ch) => Timed(ch)'
      BY <2>1 DEF Timed
    <2>6. QED
      BY <2>1, <2>2, <2>3, <2>4, <2>5 DEF CarryInv, Carrier
  <1>9. \A ch \in Channels : Paid(delivery[ch])'
    <2>1. \A ch \in Channels : Paid(delivery'[ch])
      BY <1>3 DEF NotificationInv
    <2>2. QED
      BY <2>1 DEF Paid
  <1>10. ToldInv'
    <2>1. (Told("delivered") => Told("delivered")') /\ (Told("failed") => Told("failed")')
      BY <1>1, <1>7, RolesKept
    <2>2. k.pc = "audit" => Told("delivered")' /\ Told("failed")'
      BY <1>2 DEF Told, Telling
    <2>3. ToldInv /\ notice' = notice /\ faults' = faults
      BY DEF NotificationInv
    <2>4. (\E ch \in Channels : delivery'[ch].status = "delivered") =>
             k.pc = "audit" \/ \E ch \in Channels : delivery[ch].status = "delivered"
      BY <1>3
    <2>5. (\A ch \in Channels : delivery'[ch].status = "failed") => k.pc = "audit"
      BY <1>3
    <2>6. QED
      BY <2>1, <2>2, <2>3, <2>4, <2>5 DEF ToldInv
  <1>11. QED
    BY <1>4, <1>5, <1>6, <1>8, <1>9, <1>10 DEF NotificationInv
\* An attempt whose write does not take effect carries nothing.
LEMMA StaleMove ==
  ASSUME NotificationInv, NEW p \in Procs, NEW k \in Proc, proc' = [proc EXCEPT ![p] = k], Local(k),
         proc[p].pc \in Attempting \union {"retry"}, ~Fresh(proc[p]),
         UNCHANGED <<setup, up, notice, delivery, jobs, asked, notifies, ops, faults, accepts>>
  PROVE NotificationInv'
  <1>1. /\ proc[p].pc \notin {"read", "retried", "created", "dispatch", "schedule"}
        /\ \A v \in {"delivered", "failed"} : ~Telling(proc[p], v)
    BY DEF Attempting, Telling, Changing
  <1>2. TypeOK'
    BY Basics, StepTypes
  <1>3. \A ch \in Channels : CarryInv(ch)'
    BY <1>1, CarryMoved
  <1>4. ToldInv'
    BY <1>1, ToldMoved
  <1>5. QED
    BY <1>2, <1>3, <1>4, ProcMoved

\* A claim takes effect on the delivery as it was read: it is not settled and, if it is a
\* first attempt, its lease is over.
LEMMA ClaimStep == ASSUME NotificationInv, NEW p \in Procs, Claim(p) PROVE NotificationInv'
  <1>1. PICK q \in Proc : q = proc[p]
    BY Basics
  <1>2. /\ Local(q) /\ q.pc = "claim"
        /\ UNCHANGED <<setup, up, notice, jobs, asked, notifies, ops, faults, accepts>>
    BY <1>1, Basics DEF Claim
  <1>3. PICK c \in Channels : c = q.ch
    BY <1>2 DEF Local, Attempts, Attempting
  <1>4. PICK d0 \in Delivery : d0 = delivery[c] /\ Paid(d0)
    BY DEF NotificationInv, TypeOK
  <1>5. CASE VersionMatches(d0, q.seen.version)
    <2>1. Fresh(q)
      BY <1>2, <1>3, <1>4, <1>5 DEF Fresh, Attempting
    <2>2. /\ d0.exists /\ d0.status \in Unsettled
          /\ q.seen.attempts = d0.attempts /\ q.seen.max = d0.max /\ q.seen.version = d0.version
      BY <1>2, <1>3, <1>4, <1>5, <2>1 DEF Local, Attempts, VersionMatches
    <2>3. PICK ot \in Nat : ot = IF d0.open THEN d0.overtaken + 1 ELSE d0.overtaken
      BY <1>4 DEF Delivery
    <2>4. PICK a \in Nat : a = d0.attempts + 1
      BY <1>4 DEF Delivery
    <2>5. PICK v \in Nat : v = d0.version + 1
      BY <1>4 DEF Delivery
    <2>6. PICK d : d = [d0 EXCEPT !.attempts = a, !.lease = Lease, !.version = v, !.open = TRUE, !.overtaken = ot]
      OBVIOUS
    <2>7. d \in Delivery
      <3>1. Lease \in 0..Lease
        BY NotificationsAssumption
      <3>2. QED
        BY <1>4, <2>6, <3>1, ClaimedDelivery
    <2>8. /\ d.exists = d0.exists /\ d.status = d0.status /\ d.max = d0.max /\ d.attempts = a /\ d.version = v
          /\ d.open = TRUE /\ d.overtaken = ot
      BY <1>4, <2>6 DEF Delivery
    <2>9. delivery' = [delivery EXCEPT ![c] = d]
      <3>1. delivery' = [delivery EXCEPT ![q.ch] =
              [delivery[q.ch] EXCEPT !.attempts = q.seen.attempts + 1, !.lease = Lease,
                 !.version = delivery[q.ch].version + 1, !.open = TRUE,
                 !.overtaken = IF delivery[q.ch].open THEN delivery[q.ch].overtaken + 1 ELSE delivery[q.ch].overtaken]]
        BY <1>1, <1>3, <1>4, <1>5 DEF Claim
      <3>2. q.seen.attempts + 1 = a
        BY <2>2, <2>4
      <3>3. QED
        BY <1>3, <1>4, <2>3, <2>5, <2>6, <3>1, <3>2
    <2>10. Paid(d)
      <3>1. d0.attempts \in Nat /\ d0.max \in Nat /\ d0.overtaken \in Nat
        BY <1>4 DEF Delivery
      <3>2. a <= d0.max + ot
        BY <1>4, <2>2, <2>3, <2>4, <3>1 DEF Paid
      <3>3. QED
        BY <2>2, <2>8, <3>2 DEF Paid
    <2>11. PICK seen : seen = [q.seen EXCEPT !.version = v, !.attempts = a]
      OBVIOUS
    <2>12. /\ seen \in [version : Nat, attempts : Nat, max : Nat]
           /\ seen.version = v /\ seen.attempts = a /\ seen.max = q.seen.max
      BY <2>4, <2>5, <2>11 DEF Proc
    <2>13. PICK k : k = [q EXCEPT !.pc = "deliver", !.seen = seen]
      OBVIOUS
    <2>14. k \in Proc
      BY <2>12, <2>13 DEF Proc
    <2>15. k.pc = "deliver" /\ k.seen = seen /\ k.ch = c /\ k.mode = q.mode /\ k.tries = q.tries
      BY <1>3, <2>13 DEF Proc
    <2>16. proc' = [proc EXCEPT ![p] = k]
      <3>1. proc' = [proc EXCEPT ![p] = [q EXCEPT !.pc = "deliver",
               !.seen = [q.seen EXCEPT !.version = delivery[q.ch].version + 1, !.attempts = q.seen.attempts + 1]]]
        BY <1>1, <1>3, <1>4, <1>5 DEF Claim
      <3>2. q.seen.attempts + 1 = a /\ delivery[q.ch].version + 1 = v
        BY <1>3, <1>4, <2>2, <2>4, <2>5
      <3>3. QED
        BY <2>11, <2>13, <3>1, <3>2
    <2>17. delivery'[c] = d
      BY <2>9 DEF NotificationInv, TypeOK
    <2>18. Fresh(k)'
      BY <2>2, <2>8, <2>12, <2>15, <2>17 DEF Fresh, Attempting, VersionMatches
    <2>19. Local(k)'
      <3>1. Attempts(k)'
        BY <2>2, <2>8, <2>12, <2>15, <2>17 DEF Attempts, Attempting
      <3>2. QED
        BY <1>2, <2>15, <3>1 DEF Local, Changes, Changing, Removes
    <2>20. CarryInv(c)'
      <3>1. proc'[p] = k
        BY <2>16 DEF NotificationInv, TypeOK
      <3>2. proc'[p].ch = c /\ Fresh(proc[p])'
        BY <2>15, <2>18, <3>1 DEF Fresh
      <3>3. Held(c)'
        BY <3>2 DEF Held
      <3>4. QED
        BY <3>3 DEF CarryInv, Carrier
    <2>21. d.status \notin {"delivered", "failed"}
      BY <2>2, <2>8 DEF Unsettled
    <2>22. proc[p].ch = c /\ proc[p].pc \in Attempting \union {"retry"}
      BY <1>1, <1>2, <1>3 DEF Attempting
    <2>23. delivery[c].exists /\ d.exists /\ d.version = delivery[c].version + 1
      BY <1>4, <2>2, <2>5, <2>8
    <2>24. QED
      BY <1>2, <2>7, <2>9, <2>10, <2>14, <2>16, <2>19, <2>20, <2>21, <2>22, <2>23, DeliveryWritten
  <1>6. CASE ~VersionMatches(d0, q.seen.version)
    <2>1. ~Fresh(proc[p]) /\ proc[p].pc \in Attempting \union {"retry"}
      BY <1>1, <1>2, <1>3, <1>4, <1>6 DEF Fresh, Attempting
    <2>2. proc' = [proc EXCEPT ![p] = Idle] /\ delivery' = delivery
      BY <1>1, <1>3, <1>4, <1>6, WentTo DEF Claim
    <2>3. QED
      BY <1>2, <2>1, <2>2, IdleFields, LocalIdle, StaleMove
  <1>7. QED
    BY <1>5, <1>6
\* A result settles the delivery, or leaves it to the process that has still to schedule the
\* next attempt, and only if attempts are left.
LEMMA FinishStep == ASSUME NotificationInv, NEW p \in Procs, Finish(p) PROVE NotificationInv'
  <1>1. PICK q \in Proc : q = proc[p]
    BY Basics
  <1>2. /\ Local(q) /\ q.pc = "finish"
        /\ UNCHANGED <<setup, up, notice, jobs, asked, notifies, ops, faults, accepts>>
    BY <1>1, Basics DEF Finish
  <1>3. PICK c \in Channels : c = q.ch
    BY <1>2 DEF Local, Attempts, Attempting
  <1>4. PICK d0 \in Delivery : d0 = delivery[c] /\ Paid(d0)
    BY DEF NotificationInv, TypeOK
  <1>5. PICK status \in {"delivered", "retrying", "failed"} :
          /\ status = IF q.result = "delivered" THEN "delivered" ELSE IF CanRetry(q) THEN "retrying" ELSE "failed"
          /\ status = "retrying" => q.seen.attempts < q.seen.max
    BY DEF CanRetry
  <1>6. CASE VersionMatches(d0, q.seen.version)
    <2>1. Fresh(q)
      BY <1>2, <1>3, <1>4, <1>6 DEF Fresh, Attempting
    <2>2. /\ d0.exists /\ q.seen.attempts = d0.attempts /\ q.seen.max = d0.max
      BY <1>2, <1>3, <1>4, <1>6, <2>1 DEF Local, Attempts, VersionMatches
    <2>3. q.result # "deleted"
      BY <1>2, <1>4, <2>2 DEF Local, Attempts, NotificationInv, DeletedInv, NoDeliveries
    <2>4. PICK n \in 0..Backoff : n = IF status = "retrying" THEN Backoff ELSE 0
      BY NotificationsAssumption
    <2>5. PICK v \in Nat : v = d0.version + 1
      BY <1>4 DEF Delivery
    <2>6. PICK d : d = [d0 EXCEPT !.status = status, !.next = n, !.version = v, !.open = FALSE]
      OBVIOUS
    <2>7. d \in Delivery
      BY <1>4, <2>6, FinishedDelivery
    <2>8. /\ d.exists = d0.exists /\ d.status = status /\ d.max = d0.max /\ d.attempts = d0.attempts /\ d.version = v
          /\ d.open = FALSE /\ d.overtaken = d0.overtaken /\ d.next = n
      BY <1>4, <2>6 DEF Delivery
    <2>9. /\ delivery' = [delivery EXCEPT ![c] = d]
          /\ Goto(p, IF status = "retrying" THEN "schedule" ELSE "audit")
      <3>1. /\ delivery' = [delivery EXCEPT ![c] = [d0 EXCEPT !.status = status,
                              !.next = IF status = "retrying" THEN Backoff ELSE 0, !.version = d0.version + 1, !.open = FALSE]]
            /\ Goto(p, IF status = "retrying" THEN "schedule" ELSE "audit")
        BY <1>1, <1>3, <1>4, <1>5, <1>6, <2>3 DEF Finish
      <3>2. QED
        BY <2>4, <2>5, <2>6, <3>1
    <2>10. Paid(d)
      <3>1. d0.attempts \in Nat /\ d0.max \in Nat /\ d0.overtaken \in Nat
        BY <1>4 DEF Delivery
      <3>2. d.attempts <= d.max + d.overtaken
        BY <1>4, <2>8 DEF Paid
      <3>3. status = "retrying" => d.attempts < d.max + d.overtaken
        BY <1>5, <2>2, <2>8, <3>1
      <3>4. QED
        BY <2>2, <2>8, <3>2, <3>3 DEF Paid, Unsettled
    <2>11. PICK to \in {"schedule", "audit"} : to = IF status = "retrying" THEN "schedule" ELSE "audit"
      OBVIOUS
    <2>12. PICK k \in Proc : /\ k = [q EXCEPT !.pc = to]
                             /\ k.pc = to /\ k.ch = c /\ k.mode = q.mode /\ k.tries = q.tries
      <3>1. to \in Places
        BY DEF Places
      <3>2. QED
        BY <1>3, <3>1, Turned
    <2>13. proc' = [proc EXCEPT ![p] = k]
      BY <1>1, <2>9, <2>11, <2>12, WentTo
    <2>14. Local(k)'
      BY <1>2, <2>12 DEF Local, Attempts, Fresh, Attempting, Changes, Changing, Removes
    <2>15. CarryInv(c)'
      <3>1. delivery'[c] = d /\ proc \in [Procs -> Proc]
        BY <2>9 DEF NotificationInv, TypeOK
      <3>2. status = "retrying" => Scheduling(c)'
        BY <2>11, <2>12, <2>13, <3>1, RolesKept
      <3>3. QED
        BY <2>8, <3>1, <3>2 DEF CarryInv, Carrier, Unsettled
    <2>16. d.status \in {"delivered", "failed"} => k.pc = "audit"
      BY <2>8, <2>11, <2>12
    <2>17. proc[p].ch = c /\ proc[p].pc \in Attempting \union {"retry"}
      BY <1>1, <1>2, <1>3 DEF Attempting
    <2>18. delivery[c].exists /\ d.exists /\ d.version = delivery[c].version + 1
      BY <1>4, <2>2, <2>5, <2>8
    <2>19. QED
      BY <1>2, <2>7, <2>9, <2>10, <2>13, <2>14, <2>15, <2>16, <2>17, <2>18, DeliveryWritten
  <1>7. CASE ~VersionMatches(d0, q.seen.version)
    <2>1. ~Fresh(proc[p]) /\ proc[p].pc \in Attempting \union {"retry"}
      BY <1>1, <1>2, <1>3, <1>4, <1>7 DEF Fresh, Attempting
    <2>2. /\ proc' = [proc EXCEPT ![p] = IF q.expired THEN [Idle EXCEPT !.pc = "load", !.goal = "expired"] ELSE Idle]
          /\ delivery' = delivery
      BY <1>1, <1>3, <1>4, <1>7 DEF Finish
    <2>3. PICK k \in Proc : k = (IF q.expired THEN [Idle EXCEPT !.pc = "load", !.goal = "expired"] ELSE Idle) /\ Local(k)
      BY ExpireNext
    <2>4. QED
      BY <1>2, <2>1, <2>2, <2>3, StaleMove
  <1>8. QED
    BY <1>6, <1>7

\* A manual retry gives the delivery MaxAttempts more attempts, and the first of them waits.
LEMMA RetryFailedStep == ASSUME NotificationInv, NEW p \in Procs, RetryFailed(p) PROVE NotificationInv'
  <1>1. PICK q \in Proc : q = proc[p]
    BY Basics
  <1>2. /\ Local(q) /\ q.pc = "retry"
        /\ UNCHANGED <<setup, up, notice, jobs, asked, notifies, ops, faults, accepts>>
    BY <1>1, Basics DEF RetryFailed
  <1>3. PICK c \in Channels : c = q.ch
    BY <1>2 DEF Local, Attempts, Attempting
  <1>4. PICK d0 \in Delivery : d0 = delivery[c] /\ Paid(d0)
    BY DEF NotificationInv, TypeOK
  <1>5. CASE d0.exists /\ d0.status = "failed"
    <2>1. PICK m \in Nat : m = d0.attempts + MaxAttempts /\ d0.attempts < m
      <3>1. d0.attempts \in Nat
        BY <1>4 DEF Delivery
      <3>2. MaxAttempts \in Nat \ {0}
        BY NotificationsAssumption
      <3>3. QED
        BY <3>1, <3>2
    <2>2. PICK v \in Nat : v = d0.version + 1
      BY <1>4 DEF Delivery
    <2>3. PICK d : d = [d0 EXCEPT !.status = "retrying", !.max = m, !.next = 0, !.version = v]
      OBVIOUS
    <2>4. d \in Delivery
      BY <1>4, <2>3, RetriedDelivery
    <2>5. /\ d.exists = d0.exists /\ d.status = "retrying" /\ d.max = m /\ d.attempts = d0.attempts /\ d.version = v
          /\ d.overtaken = d0.overtaken /\ d.next = 0
      BY <1>4, <2>3 DEF Delivery
    <2>6. delivery' = [delivery EXCEPT ![c] = d] /\ Goto(p, "retried")
      BY <1>1, <1>3, <1>4, <1>5, <2>1, <2>2, <2>3 DEF RetryFailed
    <2>7. Paid(d)
      <3>1. d0.attempts \in Nat /\ d0.overtaken \in Nat
        BY <1>4 DEF Delivery
      <3>2. d.attempts <= d.max + d.overtaken /\ d.attempts < d.max + d.overtaken
        BY <2>1, <2>5, <3>1
      <3>3. QED
        BY <1>5, <2>5, <3>2 DEF Paid
    <2>8. PICK k \in Proc : /\ k = [q EXCEPT !.pc = "retried"]
                            /\ k.pc = "retried" /\ k.ch = c /\ k.mode = q.mode /\ k.tries = q.tries
      <3>1. "retried" \in Places
        BY DEF Places
      <3>2. QED
        BY <1>3, <3>1, Turned
    <2>9. proc' = [proc EXCEPT ![p] = k]
      BY <1>1, <2>6, <2>8, WentTo
    <2>10. Local(k)'
      BY <1>2, <2>8 DEF Local, Attempts, Fresh, Attempting, Changes, Changing, Removes
    <2>11. CarryInv(c)'
      <3>1. delivery'[c] = d /\ proc \in [Procs -> Proc]
        BY <2>6 DEF NotificationInv, TypeOK
      <3>2. AtWork(c)'
        BY <2>8, <2>9, <3>1, RolesKept
      <3>3. QED
        BY <2>5, <3>1, <3>2 DEF CarryInv, Carrier, Waiting
    <2>12. proc[p].ch = c /\ proc[p].pc \in Attempting \union {"retry"}
      BY <1>1, <1>2, <1>3
    <2>13. delivery[c].exists /\ d.exists /\ d.version = delivery[c].version + 1
      BY <1>4, <1>5, <2>2, <2>5
    <2>14. d.status \notin {"delivered", "failed"}
      BY <2>5
    <2>15. QED
      BY <1>2, <2>4, <2>6, <2>7, <2>9, <2>10, <2>11, <2>12, <2>13, <2>14, DeliveryWritten
  <1>6. CASE ~(d0.exists /\ d0.status = "failed")
    <2>1. ~Fresh(proc[p]) /\ proc[p].pc \in Attempting \union {"retry"}
      BY <1>1, <1>2 DEF Fresh, Attempting
    <2>2. proc' = [proc EXCEPT ![p] = Idle] /\ delivery' = delivery
      BY <1>1, <1>3, <1>4, <1>6, WentTo DEF RetryFailed
    <2>3. QED
      BY <1>2, <2>1, <2>2, IdleFields, LocalIdle, StaleMove
  <1>7. QED
    BY <1>5, <1>6
-----------------------------------------------------------------------------
(* The next attempt *)

LEMMA ScheduleStep == ASSUME NotificationInv, NEW p \in Procs, Schedule(p) PROVE NotificationInv'
  <1>1. /\ proc[p].pc = "schedule" /\ jobs' = [jobs EXCEPT ![proc[p].ch][Backoff] = @ + 1] /\ Goto(p, "audit")
        /\ UNCHANGED <<setup, up, notice, delivery, asked, notifies, ops, faults, accepts>>
    BY DEF Schedule
  <1>2. PICK c \in Channels : c = proc[p].ch
    BY <1>1, Basics DEF Local, Attempts
  <1>3. jobs \in JobCounts /\ Backoff \in Nat /\ Backoff \in 0..Backoff /\ asked' \in [Channels -> Nat]
    BY <1>1, Basics
  <1>4. /\ jobs' \in JobCounts /\ jobs'[c][Backoff] > 0
        /\ \A ch \in Channels : \A u \in 0..Backoff : jobs[ch][u] > 0 => jobs'[ch][u] > 0
    <2>1. jobs' = [jobs EXCEPT ![c][Backoff] = @ + 1]
      BY <1>1, <1>2
    <2>2. QED
      BY <1>3, <2>1, JobAdded
  <1>5. PICK k \in Proc : k = [proc[p] EXCEPT !.pc = "audit"] /\ k.pc = "audit" /\ k.ch = proc[p].ch /\ Local(k)
    BY <1>1, TurnedLocal DEF Changing
  <1>6. proc' = [proc EXCEPT ![p] = k]
    BY <1>1, <1>5, WentTo
  <1>7. TypeOK'
    BY <1>1, <1>3, <1>4, <1>6, StepTypes
  <1>8. /\ ~Fresh(proc[p]) /\ proc[p].pc \notin {"read", "retried", "created", "dispatch"}
        /\ \A v \in {"delivered", "failed"} : ~Telling(proc[p], v)
    BY <1>1 DEF Fresh, Attempting, Telling, Changing
  <1>9. ASSUME NEW ch \in Channels
        PROVE CarryInv(ch)'
    <2>1. proc[p].ch = ch => Timed(ch)'
      <3>1. delivery'[c].next \in 0..Backoff
        BY <1>1 DEF NotificationInv, TypeOK, Delivery
      <3>2. Backoff \in delivery'[c].next..Backoff
        BY <1>3, <3>1
      <3>3. Timed(c)'
        BY <1>4, <3>2 DEF Timed
      <3>4. QED
        BY <1>2, <3>3
    <2>2. QED
      BY <1>1, <1>4, <1>6, <1>8, <2>1, CarryMoved
  <1>10. ToldInv'
    BY <1>1, <1>6, <1>8, ToldMoved
  <1>11. QED
    BY <1>1, <1>5, <1>6, <1>7, <1>9, <1>10, ProcMoved

LEMMA RetryNowStep == ASSUME NotificationInv, NEW p \in Procs, RetryNow(p) PROVE NotificationInv'
  <1>1. /\ proc[p].pc = "retried"
        /\ UNCHANGED <<setup, up, notice, delivery, asked, notifies, ops, faults, accepts>>
    BY DEF RetryNow
  <1>2. PICK c \in Channels : c = proc[p].ch
    BY <1>1, Basics DEF Local, Attempts
  <1>3. jobs \in JobCounts /\ Backoff \in Nat /\ 0 \in 0..Backoff /\ asked' \in [Channels -> Nat]
    BY <1>1, Basics
  <1>4. CASE HasJobs
    <2>1. jobs' = [jobs EXCEPT ![c][0] = @ + 1]
      BY <1>2, <1>4 DEF RetryNow
    <2>2. /\ jobs' \in JobCounts /\ jobs'[c][0] > 0
          /\ \A ch \in Channels : \A u \in 0..Backoff : jobs[ch][u] > 0 => jobs'[ch][u] > 0
      BY <1>3, <2>1, JobAdded
    <2>3. proc' = [proc EXCEPT ![p] = Idle]
      BY <1>4, WentTo DEF RetryNow
    <2>4. TypeOK'
      BY <1>1, <1>3, <2>2, <2>3, IdleFields, StepTypes
    <2>5. /\ ~Fresh(proc[p]) /\ proc[p].pc \notin {"created", "dispatch", "schedule"}
          /\ \A v \in {"delivered", "failed"} : ~Telling(proc[p], v)
      BY <1>1 DEF Fresh, Attempting, Telling, Changing
    <2>6. ASSUME NEW ch \in Channels
          PROVE CarryInv(ch)'
      <3>1. proc[p].ch = ch => Waiting(ch)'
        BY <1>2, <1>3, <2>2 DEF Waiting
      <3>2. QED
        BY <1>1, <2>2, <2>3, <2>5, <3>1, IdleFields, CarryMoved
    <2>7. ToldInv'
      BY <1>1, <2>3, <2>5, IdleFields, ToldMoved
    <2>8. QED
      BY <1>1, <2>3, <2>4, <2>6, <2>7, IdleFields, LocalIdle, ProcMoved
  <1>5. CASE ~HasJobs
    <2>1. Attempt(p, c, "manual") /\ jobs' = jobs
      BY <1>2, <1>5 DEF RetryNow
    <2>2. QED
      BY <1>1, <1>2, <1>3, <2>1, AttemptBegins
  <1>6. QED
    BY <1>4, <1>5

LEMMA RecoverDeliveriesStep ==
  ASSUME NotificationInv, NEW p \in Procs, RecoverDeliveries(p)
  PROVE NotificationInv'
  <1>1. /\ proc[p].pc = "recover" /\ Dispatch(Recoverable)
        /\ UNCHANGED <<setup, up, notice, delivery, notifies, ops, faults, accepts>>
    BY DEF RecoverDeliveries
  <1>2. proc' = [proc EXCEPT ![p] = Idle]
    BY WentTo DEF RecoverDeliveries
  <1>3. /\ jobs' \in JobCounts /\ asked' \in [Channels -> Nat]
        /\ \A c \in Channels : \A u \in 0..Backoff : jobs[c][u] > 0 => jobs'[c][u] > 0
        /\ \A c \in Channels : asked[c] > 0 => asked'[c] > 0
    BY <1>1, Basics, Dispatched
  <1>4. TypeOK'
    BY <1>1, <1>2, <1>3, IdleFields, StepTypes
  <1>5. Spare(proc[p])
    BY <1>1 DEF Spare
  <1>6. QED
    BY <1>1, <1>2, <1>3, <1>4, <1>5, IdleFields, LocalIdle, QuietMove

-----------------------------------------------------------------------------
(* The status of the notification *)

LEMMA AuditStep == ASSUME NotificationInv, NEW p \in Procs, Audit(p) PROVE NotificationInv'
  <1>1. /\ proc[p].pc = "audit"
        /\ UNCHANGED <<setup, up, notice, delivery, jobs, asked, notifies, ops, faults, accepts>>
    BY DEF Audit
  <1>2. PICK k \in Proc : k = [proc[p] EXCEPT !.pc = "list"] /\ k.pc = "list" /\ Local(k)
    BY <1>1, TurnedLocal DEF Changing
  <1>3. proc' = [proc EXCEPT ![p] = k]
    BY <1>2, WentTo DEF Audit
  <1>4. TypeOK'
    BY <1>1, <1>3, Basics, StepTypes
  <1>5. /\ ~Fresh(proc[p]) /\ proc[p].pc \notin {"read", "retried", "created", "dispatch", "schedule"}
        /\ \A v \in {"delivered", "failed"} : Telling(k, v)
    BY <1>1, <1>2 DEF Fresh, Attempting, Telling
  <1>6. \A ch \in Channels : CarryInv(ch)'
    BY <1>1, <1>3, <1>5, CarryMoved
  <1>7. ToldInv'
    BY <1>1, <1>3, <1>5, ToldMoved
  <1>8. QED
    BY <1>1, <1>2, <1>3, <1>4, <1>6, <1>7, ProcMoved

\* What the deliveries say is the verdict of who lists them.
LEMMA VerdictTells ==
  ASSUME NotificationInv
  PROVE /\ Verdict \in {"delivered", "failed", "none"}
        /\ (\E ch \in Channels : delivery[ch].status = "delivered") => Verdict = "delivered"
        /\ (\A ch \in Channels : delivery[ch].status = "failed") => Verdict = "failed"
  <1>1. \A ch \in Channels : delivery[ch].status # "pending" => delivery[ch].exists
    BY NoDeliveryFields DEF NotificationInv, Paid
  <1>2. Channels # {}
    BY NotificationsAssumption
  <1>3. QED
    BY <1>1, <1>2 DEF Verdict

LEMMA ListDeliveriesStep == ASSUME NotificationInv, NEW p \in Procs, ListDeliveries(p) PROVE NotificationInv'
  <1>1. /\ proc \in [Procs -> Proc] /\ proc[p] \in Proc /\ Local(proc[p]) /\ proc[p].pc = "list"
        /\ UNCHANGED <<setup, up, notice, delivery, jobs, asked, notifies, ops, faults, accepts>>
    BY Basics DEF ListDeliveries
  <1>2. ~Fresh(proc[p]) /\ proc[p].pc \notin {"read", "retried", "created", "dispatch", "schedule"}
    BY <1>1 DEF Fresh, Attempting
  <1>3. ASSUME NEW k \in Proc, proc' = [proc EXCEPT ![p] = k], Local(k),
               Verdict # "none" => Telling(k, Verdict)
        PROVE NotificationInv'
    <2>1. TypeOK'
      BY <1>1, <1>3, Basics, StepTypes
    <2>2. \A ch \in Channels : CarryInv(ch)'
      BY <1>1, <1>2, <1>3, CarryMoved
    <2>3. ToldInv'
      <3>1. (Telling(k, "delivered") => Told("delivered")') /\ (Telling(k, "failed") => Told("failed")')
        BY <1>1, <1>3, RolesKept
      <3>2. QED
        BY <1>1, <1>3, <3>1, VerdictTells DEF ToldInv
    <2>4. QED
      BY <1>1, <1>3, <2>1, <2>2, <2>3, ProcMoved
  <1>4. CASE Verdict = "none" /\ ~proc[p].expired
    <2>1. proc' = [proc EXCEPT ![p] = Idle]
      BY <1>4, WentTo DEF ListDeliveries
    <2>2. QED
      BY <1>3, <1>4, <2>1, IdleFields, LocalIdle
  <1>5. CASE ~(Verdict = "none" /\ ~proc[p].expired)
    <2>1. PICK goal \in {"delivered", "failed", "expired"} :
            /\ goal = IF Verdict = "none" THEN "expired" ELSE Verdict
            /\ Verdict # "none" => goal = Verdict
      BY VerdictTells
    <2>2. PICK k : k = [proc[p] EXCEPT !.pc = "load", !.goal = goal]
      OBVIOUS
    <2>3. k \in Proc
      BY <1>1, <2>2 DEF Proc, Goals
    <2>4. k.pc = "load" /\ k.goal = goal /\ k.tries = proc[p].tries /\ k.ch = proc[p].ch /\ k.mode = proc[p].mode
      BY <1>1, <2>2 DEF Proc
    <2>5. proc' = [proc EXCEPT ![p] = k]
      BY <1>5, <2>1, <2>2 DEF ListDeliveries
    <2>6. Local(k)
      <3>1. proc[p].tries = 0
        BY <1>1 DEF Local, Changes, Changing
      <3>2. Contended(k)
        BY <2>4, <3>1 DEF Contended, Stale, One
      <3>3. Attempts(k)
        BY <1>1, <2>4 DEF Local, Attempts, Fresh, Attempting
      <3>4. QED
        BY <2>1, <2>4, <3>2, <3>3 DEF Local, Changes, Changing, Removes
    <2>7. Verdict # "none" => Telling(k, Verdict)
      BY <2>1, <2>4 DEF Telling, Changing
    <2>8. QED
      BY <1>3, <2>3, <2>5, <2>6, <2>7
  <1>6. QED
    BY <1>4, <1>5
\* A process with nothing left but the expiry.
AtRest(k) ==
  /\ k.pc \in {"idle", "load"} /\ k.goal \in {"none", "expired"} /\ k.mode = "initial" /\ k.tries = 0
  /\ k.pc = "load" => k.goal = "expired"

LEMMA LocalAtRest ==
  ASSUME NEW k \in Proc, AtRest(k)
  PROVE Local(k) /\ Local(k)' /\ \A v \in {"delivered", "failed"} : ~Telling(k, v)
  <1>1. Contended(k) /\ Contended(k)'
    BY DEF AtRest, Contended, Stale, One
  <1>2. Attempts(k) /\ Attempts(k)' /\ Removes(k) /\ Removes(k)'
    BY DEF AtRest, Attempts, Fresh, Attempting, Removes
  <1>3. Changes(k) /\ Changes(k)'
    BY <1>1 DEF AtRest, Changes, Changing
  <1>4. QED
    BY <1>2, <1>3 DEF AtRest, Local, Telling, Changing

LEMMA IsDone ==
  ASSUME NotificationInv, NEW p \in Procs, Done(p)
  PROVE \E k \in Proc : proc' = [proc EXCEPT ![p] = k] /\ AtRest(k)
  <1>1. PICK k \in Proc : /\ k = [Idle EXCEPT !.pc = "load", !.goal = "expired"]
                          /\ k.pc = "load" /\ k.goal = "expired" /\ k.mode = "initial" /\ k.tries = 0
    BY LoadExpired, Zenon
  <1>2. AtRest(k) /\ AtRest(Idle)
    BY <1>1, IdleFields DEF AtRest
  <1>3. proc' = [proc EXCEPT ![p] = k] \/ proc' = [proc EXCEPT ![p] = Idle]
    BY <1>1 DEF Done
  <1>4. QED
    BY <1>2, <1>3, IdleFields

LEMMA WantedIs ==
  ASSUME NEW n
  PROVE /\ Wanted("delivered", n) <=> n.status \in {"pending", "failed"}
        /\ Wanted("failed", n) <=> n.status = "pending"
        /\ Wanted("expired", n) <=> n.expires = 0 /\ n.status \in {"pending", "delivered", "failed"}
        /\ Wanted("read", n) <=> ~n.read
        /\ Wanted("acknowledged", n) <=> ~n.acknowledged
        /\ Wanted("dismissed", n) <=> ~n.dismissed
  BY DEF Wanted

\* A process that tells the notification no more leaves nothing to tell.
LEMMA ToldDone ==
  ASSUME NotificationInv, NEW p \in Procs, NEW k \in Proc, proc' = [proc EXCEPT ![p] = k],
         UNCHANGED <<notice, delivery, faults>>,
         notice.exists /\ Telling(proc[p], "delivered") =>
           Telling(k, "delivered") \/ notice.status \notin {"pending", "failed"},
         notice.exists /\ Telling(proc[p], "failed") => Telling(k, "failed") \/ notice.status # "pending"
  PROVE ToldInv'
  <1>1. proc \in [Procs -> Proc] /\ ToldInv
    BY DEF NotificationInv, TypeOK
  <1>2. Told("delivered") /\ notice.exists /\ notice.status \in {"pending", "failed"} => Told("delivered")'
    BY <1>1, RolesKept
  <1>3. Told("failed") /\ notice.exists /\ notice.status = "pending" => Told("failed")'
    BY <1>1, RolesKept
  <1>4. QED
    BY <1>1, <1>2, <1>3 DEF ToldInv

\* A change of the notification moves, and writes nothing.
LEMMA ChangeMoves ==
  ASSUME NotificationInv, NEW p \in Procs, NEW k \in Proc, proc' = [proc EXCEPT ![p] = k], Local(k),
         proc[p].pc \in Changing,
         UNCHANGED <<setup, up, notice, delivery, jobs, asked, notifies, ops, faults, accepts>>,
         notice.exists /\ proc[p].goal = "delivered" =>
           Telling(k, "delivered") \/ notice.status \notin {"pending", "failed"},
         notice.exists /\ proc[p].goal = "failed" => Telling(k, "failed") \/ notice.status # "pending"
  PROVE NotificationInv'
  <1>1. /\ ~Fresh(proc[p]) /\ proc[p].pc \notin {"read", "retried", "created", "dispatch", "schedule"}
        /\ \A v \in {"delivered", "failed"} : Telling(proc[p], v) => proc[p].goal = v
    BY DEF Fresh, Attempting, Changing, Telling
  <1>2. TypeOK'
    BY Basics, StepTypes
  <1>3. \A ch \in Channels : CarryInv(ch)'
    BY <1>1, CarryMoved
  <1>4. ToldInv'
    BY <1>1, ToldDone
  <1>5. QED
    BY <1>2, <1>3, <1>4, ProcMoved

LEMMA LoadStep == ASSUME NotificationInv, NEW p \in Procs, Load(p) PROVE NotificationInv'
  <1>1. PICK q \in Proc : q = proc[p]
    BY Basics
  <1>2. /\ Local(q) /\ q.pc = "load"
        /\ UNCHANGED <<setup, up, notice, delivery, jobs, asked, notifies, ops, faults, accepts>>
    BY <1>1, Basics DEF Load
  <1>3. proc[p].pc \in Changing
    BY <1>1, <1>2 DEF Changing
  <1>4. CASE notice.exists /\ Wanted(q.goal, notice)
    <2>1. PICK k : k = [q EXCEPT !.pc = "store", !.held = notice.version]
      OBVIOUS
    <2>2. notice.version \in Nat
      BY DEF NotificationInv, TypeOK, Notice
    <2>3. k \in Proc
      BY <2>1, <2>2 DEF Proc
    <2>4. /\ k.pc = "store" /\ k.held = notice.version /\ k.goal = q.goal /\ k.tries = q.tries /\ k.ch = q.ch
          /\ k.mode = q.mode
      BY <2>1 DEF Proc
    <2>5. proc' = [proc EXCEPT ![p] = k]
      BY <1>1, <1>4, <2>1 DEF Load
    <2>6. Local(k)
      <3>1. ~Stale(k) /\ ~Stale(q)
        BY <1>2, <2>4 DEF Stale
      <3>2. Contended(q)
        BY <1>2, <1>4 DEF Local, Changes, Changing
      <3>3. Contended(k)
        BY <2>4, <3>1, <3>2 DEF Contended, One
      <3>4. Attempts(k) /\ Removes(k)
        BY <1>2, <2>4 DEF Local, Attempts, Fresh, Attempting, Removes
      <3>5. k.goal # "none" /\ k.held <= notice.version /\ Wanted(k.goal, notice)
        BY <1>2, <1>4, <2>2, <2>4 DEF Local, Changes, Changing
      <3>6. QED
        BY <2>4, <3>3, <3>4, <3>5 DEF Local, Changes, Changing
    <2>7. (q.goal = "delivered" => Telling(k, "delivered")) /\ (q.goal = "failed" => Telling(k, "failed"))
      BY <2>4 DEF Telling, Changing
    <2>8. QED
      BY <1>1, <1>2, <1>3, <2>3, <2>5, <2>6, <2>7, ChangeMoves
  <1>5. CASE ~(notice.exists /\ Wanted(q.goal, notice))
    <2>1. Done(p)
      BY <1>1, <1>5 DEF Load
    <2>2. PICK k \in Proc : proc' = [proc EXCEPT ![p] = k] /\ AtRest(k)
      BY <2>1, IsDone
    <2>3. Local(k)
      BY <2>2, LocalAtRest
    <2>4. /\ notice.exists /\ q.goal = "delivered" => notice.status \notin {"pending", "failed"}
          /\ notice.exists /\ q.goal = "failed" => notice.status # "pending"
      BY <1>5, WantedIs
    <2>5. QED
      BY <1>1, <1>2, <1>3, <2>2, <2>3, <2>4, ChangeMoves
  <1>6. QED
    BY <1>4, <1>5
\* What a change that is wanted does to the notification.
LEMMA ChangedFields ==
  ASSUME NEW n \in Notice, NEW goal \in Goals \ {"none"}, Wanted(goal, n),
         n.read <=> n.status \in {"read", "acknowledged"}, n.acknowledged <=> n.status = "acknowledged"
  PROVE \E m \in Notice :
          /\ m = Changed(goal, n)
          /\ m.exists = n.exists /\ m.version = n.version + 1 /\ m.expires = n.expires
          /\ m.read <=> m.status \in {"read", "acknowledged"}
          /\ m.acknowledged <=> m.status = "acknowledged"
          /\ goal = "failed" => n.status = "pending" /\ m.status = "failed" /\ m.dismissed = n.dismissed
          /\ goal = "dismissed" => ~n.dismissed /\ m.dismissed /\ m.status = n.status
          /\ goal \notin {"failed", "dismissed"} => m.status \notin {"pending", "failed"}
  <1>1. PICK v \in Nat : v = n.version + 1
    BY DEF Notice
  <1>2. CASE goal \in {"delivered", "failed", "expired"}
    <2>1. PICK m : m = [n EXCEPT !.status = goal, !.version = v]
      OBVIOUS
    <2>2. m = Changed(goal, n)
      BY <1>1, <1>2, <2>1 DEF Changed
    <2>3. m \in Notice
      BY <1>2, <2>1 DEF Notice
    <2>4. /\ m.exists = n.exists /\ m.version = v /\ m.expires = n.expires /\ m.status = goal
          /\ m.read = n.read /\ m.acknowledged = n.acknowledged /\ m.dismissed = n.dismissed
      BY <2>1 DEF Notice
    <2>5. n.status \in {"pending", "delivered", "failed"} /\ (goal = "failed" => n.status = "pending")
      BY <1>2, WantedIs
    <2>6. QED
      BY <1>1, <1>2, <2>2, <2>3, <2>4, <2>5
  <1>3. CASE goal = "read"
    <2>1. PICK s \in {"read", "acknowledged"} : s = IF n.status = "acknowledged" THEN n.status ELSE "read"
      OBVIOUS
    <2>2. PICK m : m = [n EXCEPT !.read = TRUE, !.version = v, !.status = s]
      OBVIOUS
    <2>3. m = Changed(goal, n)
      BY <1>1, <1>3, <2>1, <2>2 DEF Changed
    <2>4. m \in Notice
      BY <2>2 DEF Notice
    <2>5. /\ m.exists = n.exists /\ m.version = v /\ m.expires = n.expires /\ m.status = s
          /\ m.read = TRUE /\ m.acknowledged = n.acknowledged
      BY <2>2 DEF Notice
    <2>6. QED
      BY <1>1, <1>3, <2>1, <2>3, <2>4, <2>5
  <1>4. CASE goal = "acknowledged"
    <2>1. PICK m : m = [n EXCEPT !.read = TRUE, !.acknowledged = TRUE, !.status = "acknowledged", !.version = v]
      OBVIOUS
    <2>2. m = Changed(goal, n)
      BY <1>1, <1>4, <2>1 DEF Changed
    <2>3. m \in Notice
      BY <2>1 DEF Notice
    <2>4. /\ m.exists = n.exists /\ m.version = v /\ m.expires = n.expires /\ m.status = "acknowledged"
          /\ m.read = TRUE /\ m.acknowledged = TRUE
      BY <2>1 DEF Notice
    <2>5. QED
      BY <1>1, <1>4, <2>2, <2>3, <2>4
  <1>5. CASE goal = "dismissed"
    <2>1. PICK m : m = [n EXCEPT !.dismissed = TRUE, !.version = v]
      OBVIOUS
    <2>2. m = Changed(goal, n)
      BY <1>1, <1>5, <2>1 DEF Changed
    <2>3. m \in Notice
      BY <2>1 DEF Notice
    <2>4. /\ m.exists = n.exists /\ m.version = v /\ m.expires = n.expires /\ m.status = n.status
          /\ m.read = n.read /\ m.acknowledged = n.acknowledged /\ m.dismissed = TRUE
      BY <2>1 DEF Notice
    <2>5. ~n.dismissed
      BY <1>5, WantedIs
    <2>6. QED
      BY <1>1, <1>5, <2>2, <2>3, <2>4, <2>5
  <1>6. QED
    BY <1>2, <1>3, <1>4, <1>5 DEF Goals

\* A change overtakes the others that were about to write, and what it does leaves them one
\* attempt less and one reason less to be overtaken again.
LEMMA OvertakenHolds ==
  ASSUME NotificationInv, NEW q \in Proc, Local(q), notice.exists, notice'.exists,
         NEW goal \in Goals \ {"none"}, notice' \in Notice, notice'.version = notice.version + 1, UNCHANGED delivery,
         goal = "failed" => /\ notice.status = "pending" /\ notice'.status = "failed"
                            /\ notice'.dismissed = notice.dismissed,
         goal = "dismissed" => ~notice.dismissed /\ notice'.dismissed /\ notice'.status = notice.status,
         goal \notin {"failed", "dismissed"} => notice'.status \notin {"pending", "failed"}
  PROVE Local(q)'
  <1>1. notice \in Notice /\ notice.version \in Nat /\ q.held \in Nat /\ q.tries \in Nat
    BY NotificationsAssumption DEF NotificationInv, TypeOK, Notice, Proc
  <1>2. Attempts(q)' /\ Removes(q)'
    BY DEF Local, Attempts, Fresh, VersionMatches, Removes, NoDeliveries
  <1>3. q.pc = "store" => q.held <= notice'.version /\ q.held # notice'.version
    BY <1>1 DEF Local, Changes
  <1>4. CASE q.pc \in Changing
    <2>1. Contended(q)
      BY <1>4 DEF Local, Changes
    <2>2. PICK s \in {0, 1} : s = One(Stale(q))
      BY DEF One
    <2>3. PICK s1 \in {0, 1} : s1 = One(Stale(q))'
      BY DEF One
    <2>4. Contended(q)'
      <3>1. CASE goal = "failed"
        <4>1. q.goal = "delivered" => q.tries + s <= One(notice.dismissed)
          BY <2>1, <2>2, <3>1 DEF Contended, One
        <4>2. q.goal = "delivered" => q.tries + s1 <= 1 + One(notice.dismissed)
          BY <1>1, <4>1 DEF One
        <4>3. QED
          BY <2>3, <3>1, <4>2 DEF Contended, One
      <3>2. CASE goal = "dismissed"
        <4>1. /\ q.goal = "delivered" /\ notice.status \in {"pending", "failed"} =>
                   q.tries + s <= One(notice.status = "failed")
              /\ q.goal = "failed" /\ notice.status = "pending" => q.tries + s <= 0
          BY <2>1, <2>2, <3>2 DEF Contended, One
        <4>2. /\ q.goal = "delivered" /\ notice.status \in {"pending", "failed"} =>
                   q.tries + s1 <= One(notice.status = "failed") + 1
              /\ q.goal = "failed" /\ notice.status = "pending" => q.tries + s1 <= 1
          BY <1>1, <4>1 DEF One
        <4>3. QED
          BY <2>3, <3>2, <4>2 DEF Contended, One
      <3>3. CASE goal \notin {"failed", "dismissed"}
        BY <3>3 DEF Contended
      <3>4. QED
        BY <3>1, <3>2, <3>3
    <2>5. QED
      BY <1>2, <1>3, <1>4, <2>4 DEF Local, Changes, Stale
  <1>5. CASE q.pc \notin Changing
    BY <1>2, <1>3, <1>5 DEF Local, Changes, Changing
  <1>6. QED
    BY <1>4, <1>5
LEMMA StoreMatches ==
  ASSUME NotificationInv, NEW p \in Procs, Store(p), VersionMatches(notice, proc[p].held)
  PROVE NotificationInv'
  <1>1. PICK q \in Proc : q = proc[p]
    BY Basics
  <1>2. /\ proc \in [Procs -> Proc] /\ Local(q) /\ q.pc = "store" /\ Done(p) /\ notice' = Changed(q.goal, notice)
        /\ UNCHANGED <<setup, up, delivery, jobs, asked, notifies, ops, faults, accepts>>
    BY <1>1, Basics DEF Store
  <1>3. notice \in Notice /\ notice.exists /\ q.held = notice.version
    BY <1>1 DEF VersionMatches, NotificationInv, TypeOK
  <1>4. Wanted(q.goal, notice) /\ q.goal \in Goals \ {"none"}
    BY <1>2, <1>3 DEF Local, Changes, Changing, Stale, Proc
  <1>5. PICK k \in Proc : proc' = [proc EXCEPT ![p] = k] /\ AtRest(k)
    BY <1>2, IsDone
  <1>6. PICK m \in Notice :
          /\ m = Changed(q.goal, notice)
          /\ m.exists = notice.exists /\ m.version = notice.version + 1 /\ m.expires = notice.expires
          /\ m.read <=> m.status \in {"read", "acknowledged"}
          /\ m.acknowledged <=> m.status = "acknowledged"
          /\ q.goal = "failed" => notice.status = "pending" /\ m.status = "failed" /\ m.dismissed = notice.dismissed
          /\ q.goal = "dismissed" => ~notice.dismissed /\ m.dismissed /\ m.status = notice.status
          /\ q.goal \notin {"failed", "dismissed"} => m.status \notin {"pending", "failed"}
    <2>1. /\ notice.read <=> notice.status \in {"read", "acknowledged"}
          /\ notice.acknowledged <=> notice.status = "acknowledged"
      BY DEF NotificationInv, RecipientWins
    <2>2. QED
      BY <1>3, <1>4, <2>1, ChangedFields
  <1>7. notice' = m
    BY <1>2, <1>6
  <1>8. proc' \in [Procs -> Proc] /\ proc'[p] = k /\ \A r \in Procs : r # p => proc'[r] = proc[r]
    BY <1>2, <1>5
  <1>9. TypeOK'
    BY <1>2, <1>7, <1>8 DEF NotificationInv, TypeOK
  <1>10. RecipientWins' /\ DeletedInv'
    BY <1>3, <1>6, <1>7 DEF RecipientWins, DeletedInv
  <1>11. ASSUME NEW r \in Procs
         PROVE Local(proc[r])'
    <2>1. PICK j \in Proc : j = proc'[r]
      BY <1>8
    <2>2. Local(j)'
      <3>1. CASE r = p
        <4>1. j = k
          BY <1>8, <2>1, <3>1
        <4>2. QED
          BY <1>5, <4>1, LocalAtRest
      <3>2. CASE r # p
        <4>1. Local(j)
          BY <1>8, <2>1, <3>2, Basics
        <4>2. QED
          BY <1>2, <1>3, <1>4, <1>6, <1>7, <4>1, OvertakenHolds
      <3>3. QED
        BY <3>1, <3>2
    <2>3. QED
      BY <2>1, <2>2 DEF Local, Attempts, Fresh, VersionMatches, Changes, Stale, Contended, One, Removes, NoDeliveries
  <1>12. /\ ~Fresh(proc[p]) /\ proc[p].pc \notin {"read", "retried", "created", "dispatch", "schedule"}
         /\ \A v \in {"delivered", "failed"} : Telling(proc[p], v) => q.goal = v
    BY <1>1, <1>2 DEF Fresh, Attempting, Telling, Changing
  <1>13. \A ch \in Channels : CarryInv(ch)'
    BY <1>2, <1>5, <1>12, CarryMoved
  <1>14. ToldInv'
    <2>1. (Told("delivered") => Told("delivered")' \/ q.goal = "delivered") /\
          (Told("failed") => Told("failed")' \/ q.goal = "failed")
      BY <1>2, <1>5, <1>12, RolesKept
    <2>2. ToldInv
      BY DEF NotificationInv
    <2>3. m.status \in {"pending", "failed"} => notice.status \in {"pending", "failed"} /\ q.goal \in {"failed", "dismissed"}
      BY <1>6
    <2>4. m.status = "pending" => notice.status = "pending" /\ q.goal = "dismissed"
      BY <1>6
    <2>5. QED
      BY <1>2, <1>3, <1>7, <2>1, <2>2, <2>3, <2>4 DEF ToldInv
  <1>15. \A ch \in Channels : Paid(delivery[ch])'
    BY <1>2 DEF NotificationInv, Paid
  <1>16. QED
    BY <1>9, <1>10, <1>11, <1>13, <1>14, <1>15 DEF NotificationInv

\* A change that is overtaken is tried again, and gives up only when nothing is left to do.
LEMMA StoreMisses ==
  ASSUME NotificationInv, NEW p \in Procs, Store(p), ~VersionMatches(notice, proc[p].held)
  PROVE NotificationInv'
  <1>1. PICK q \in Proc : q = proc[p]
    BY Basics
  <1>2. /\ Local(q) /\ q.pc = "store"
        /\ UNCHANGED <<setup, up, notice, delivery, jobs, asked, notifies, ops, faults, accepts>>
    BY <1>1, Basics DEF Store
  <1>3. proc[p].pc \in Changing
    BY <1>1, <1>2 DEF Changing
  <1>4. q.tries \in 0..MaxTries /\ MaxTries \in Nat /\ MaxTries >= 3
    BY NotificationsAssumption DEF Proc
  <1>5. notice.exists => Stale(q) /\ Contended(q)
    BY <1>1, <1>2 DEF VersionMatches, Stale, Local, Changes, Changing
  <1>6. CASE q.tries + 1 < MaxTries
    <2>1. PICK k : k = [q EXCEPT !.pc = "load", !.tries = q.tries + 1]
      OBVIOUS
    <2>2. q.tries + 1 \in 0..MaxTries
      BY <1>4, <1>6
    <2>3. k \in Proc
      BY <2>1, <2>2 DEF Proc
    <2>4. k.pc = "load" /\ k.tries = q.tries + 1 /\ k.goal = q.goal /\ k.ch = q.ch /\ k.mode = q.mode
      BY <2>1 DEF Proc
    <2>5. proc' = [proc EXCEPT ![p] = k]
      BY <1>1, <1>6, <2>1 DEF Store
    <2>6. Local(k)
      <3>1. Attempts(k) /\ Removes(k)
        BY <1>2, <2>4 DEF Local, Attempts, Fresh, Attempting, Removes
      <3>2. notice.exists => Contended(k)
        <4>1. ~Stale(k)
          BY <2>4 DEF Stale
        <4>2. QED
          BY <1>4, <1>5, <2>4, <4>1 DEF Contended, One
      <3>3. k.goal # "none"
        BY <1>2, <2>4 DEF Local, Changes, Changing
      <3>4. QED
        BY <2>4, <3>1, <3>2, <3>3 DEF Local, Changes, Changing
    <2>7. (q.goal = "delivered" => Telling(k, "delivered")) /\ (q.goal = "failed" => Telling(k, "failed"))
      BY <2>4 DEF Telling, Changing
    <2>8. QED
      BY <1>1, <1>2, <1>3, <2>3, <2>5, <2>6, <2>7, ChangeMoves
  <1>7. CASE ~(q.tries + 1 < MaxTries)
    <2>1. Done(p)
      BY <1>1, <1>7 DEF Store
    <2>2. PICK k \in Proc : proc' = [proc EXCEPT ![p] = k] /\ AtRest(k)
      BY <2>1, IsDone
    <2>3. Local(k)
      BY <2>2, LocalAtRest
    <2>4. notice.exists /\ q.goal = "delivered" => notice.status \notin {"pending", "failed"}
      BY <1>4, <1>5, <1>7 DEF Contended, One
    <2>5. notice.exists /\ q.goal = "failed" => notice.status # "pending"
      BY <1>4, <1>5, <1>7 DEF Contended, One
    <2>6. QED
      BY <1>1, <1>2, <1>3, <2>2, <2>3, <2>4, <2>5, ChangeMoves
  <1>8. QED
    BY <1>6, <1>7
LEMMA StoreStep == ASSUME NotificationInv, NEW p \in Procs, Store(p) PROVE NotificationInv'
  BY StoreMatches, StoreMisses

-----------------------------------------------------------------------------
(* Deletion *)

LEMMA DeleteDeliveriesStep == ASSUME NotificationInv, NEW p \in Procs, DeleteDeliveries(p) PROVE NotificationInv'
  <1>1. /\ proc \in [Procs -> Proc] /\ proc[p] \in Proc /\ Local(proc[p]) /\ proc[p].pc = "clear"
        /\ delivery' = [ch \in Channels |-> NoDelivery] /\ Goto(p, "remove")
        /\ UNCHANGED <<setup, up, notice, jobs, asked, notifies, ops, faults, accepts>>
    BY Basics DEF DeleteDeliveries
  <1>2. PICK k \in Proc : /\ k = [proc[p] EXCEPT !.pc = "remove"]
                          /\ k.pc = "remove" /\ k.ch = proc[p].ch /\ k.mode = proc[p].mode /\ k.tries = proc[p].tries
    <2>1. "remove" \in Places
      BY DEF Places
    <2>2. QED
      BY <1>1, <2>1, Turned
  <1>3. proc' = [proc EXCEPT ![p] = k]
    BY <1>1, <1>2, WentTo
  <1>4. proc' \in [Procs -> Proc] /\ proc'[p] = k /\ \A r \in Procs : r # p => proc'[r] = proc[r]
    BY <1>1, <1>3
  <1>5. \A ch \in Channels : delivery'[ch] = NoDelivery /\ ~delivery'[ch].exists /\ delivery'[ch].status = "pending"
    BY <1>1, NoDeliveryFields
  <1>6. TypeOK'
    BY <1>1, <1>4, NoDeliveryFields DEF NotificationInv, TypeOK
  <1>7. ASSUME NEW r \in Procs
        PROVE Local(proc[r])'
    <2>1. PICK q \in Proc : q = proc'[r]
      BY <1>4
    <2>2. /\ q.pc \in Attempting \union {"read", "schedule", "retry", "retried"} => q.ch \in Channels
          /\ q.mode = "scheduled" => q.ch \in Channels
          /\ q.pc = "finish" /\ q.result = "deleted" => ~notice'.exists
      <3>1. CASE r = p
        BY <1>1, <1>2, <1>4, <2>1, <3>1 DEF Local, Attempts, Attempting
      <3>2. CASE r # p
        <4>1. Attempts(q)
          BY <1>4, <2>1, <3>2, Basics DEF Local
        <4>2. QED
          BY <1>1, <4>1 DEF Attempts
      <3>3. QED
        BY <3>1, <3>2
    <2>3. Attempts(q)'
      BY <1>5, <2>2 DEF Attempts, Fresh, VersionMatches, Attempting
    <2>4. Changes(q)
      BY <1>1, <1>2, <1>4, <2>1, Basics DEF Local, Changes, Changing
    <2>5. Changes(q)'
      BY <1>1, <2>4 DEF Changes, Stale, Contended, One, Wanted
    <2>6. Removes(q)'
      BY <1>5 DEF Removes, NoDeliveries
    <2>7. QED
      BY <2>1, <2>3, <2>5, <2>6
      DEF Local, Attempts, Fresh, VersionMatches, Changes, Stale, Contended, One, Removes, NoDeliveries
  <1>8. RecipientWins' /\ DeletedInv'
    BY <1>1, <1>5 DEF NotificationInv, RecipientWins, DeletedInv, NoDeliveries
  <1>9. \A ch \in Channels : Paid(delivery[ch])' /\ CarryInv(ch)'
    BY <1>5, NoDeliveryFields DEF Paid, CarryInv
  <1>10. ToldInv'
    BY <1>5, NotificationsAssumption DEF ToldInv
  <1>11. QED
    BY <1>6, <1>7, <1>8, <1>9, <1>10 DEF NotificationInv

LEMMA NoNoticeFields ==
  NoNotice \in Notice /\ ~NoNotice.exists /\ NoNotice.expires = Never
  /\ NoNotice.read = FALSE /\ NoNotice.acknowledged = FALSE /\ NoNotice.status = "pending"
  <1>1. NoNotice \in Notice
    BY NotificationsAssumption DEF Notice, NoNotice, Never
  <1>2. QED
    BY <1>1 DEF NoNotice

LEMMA DeleteNoticeStep == ASSUME NotificationInv, NEW p \in Procs, DeleteNotice(p) PROVE NotificationInv'
  <1>1. /\ proc \in [Procs -> Proc] /\ Local(proc[p]) /\ proc[p].pc = "remove" /\ notice' = NoNotice
        /\ UNCHANGED <<setup, up, delivery, jobs, asked, notifies, ops, faults, accepts>>
    BY Basics DEF DeleteNotice
  <1>2. proc' = [proc EXCEPT ![p] = Idle]
    BY WentTo DEF DeleteNotice
  <1>3. proc' \in [Procs -> Proc] /\ proc'[p] = Idle /\ \A r \in Procs : r # p => proc'[r] = proc[r]
    BY <1>1, <1>2, IdleFields
  <1>4. NoDeliveries /\ NoDeliveries'
    BY <1>1 DEF Local, Removes, NoDeliveries
  <1>5. TypeOK'
    BY <1>1, <1>3, NoNoticeFields DEF NotificationInv, TypeOK
  <1>6. ~notice'.exists
    BY <1>1, NoNoticeFields
  <1>7. ASSUME NEW r \in Procs
        PROVE Local(proc[r])'
    <2>1. PICK q \in Proc : q = proc'[r]
      BY <1>3
    <2>2. Local(q)
      BY <1>3, <2>1, Basics, LocalIdle
    <2>3. Local(q)'
      BY <1>1, <1>4, <1>6, <2>2 DEF Local, Attempts, Fresh, VersionMatches, Changes, Changing, Removes
    <2>4. QED
      BY <2>1, <2>3
      DEF Local, Attempts, Fresh, VersionMatches, Changes, Stale, Contended, One, Removes, NoDeliveries
  <1>8. RecipientWins' /\ DeletedInv' /\ ToldInv'
    BY <1>1, <1>4, <1>6, NoNoticeFields DEF RecipientWins, DeletedInv, ToldInv
  <1>9. \A ch \in Channels : Paid(delivery[ch])' /\ CarryInv(ch)'
    BY <1>1, <1>4 DEF NotificationInv, Paid, CarryInv, NoDeliveries
  <1>10. QED
    BY <1>5, <1>7, <1>8, <1>9 DEF NotificationInv

-----------------------------------------------------------------------------
(* Faults, restarts and time *)

LEMMA ThrowStep == ASSUME NotificationInv, NEW p \in Procs, Throw(p) PROVE NotificationInv'
  <1>1. /\ faults < MaxFaults /\ faults' = faults + 1 /\ jobs' = Rerun(jobs, p)
        /\ UNCHANGED <<setup, up, notice, delivery, asked, notifies, ops, accepts>>
    BY DEF Throw
  <1>2. proc' = [proc EXCEPT ![p] = Idle]
    BY WentTo DEF Throw
  <1>3. jobs' \in JobCounts
    <2>1. jobs \in JobCounts /\ Backoff \in Nat /\ 0 \in 0..Backoff /\ Local(proc[p])
      BY Basics
    <2>2. CASE proc[p].mode = "scheduled"
      <3>1. PICK c \in Channels : c = proc[p].ch
        BY <2>1, <2>2 DEF Local, Attempts
      <3>2. jobs' = [jobs EXCEPT ![c][0] = @ + 1]
        BY <1>1, <2>2, <3>1 DEF Rerun
      <3>3. QED
        BY <2>1, <3>2, JobAdded
    <2>3. CASE proc[p].mode # "scheduled"
      BY <1>1, <2>1, <2>3 DEF Rerun
    <2>4. QED
      BY <2>2, <2>3
  <1>4. faults' > 0 /\ faults' \in 0..MaxFaults
    BY <1>1, Basics, NotificationsAssumption
  <1>5. TypeOK'
    BY <1>1, <1>2, <1>3, <1>4, IdleFields, Basics, StartTypes
  <1>6. QED
    BY <1>1, <1>2, <1>4, <1>5, IdleFields, LocalIdle, FaultyMove

LEMMA CrashStep == ASSUME NotificationInv, Crash PROVE NotificationInv'
  <1> DEFINE lost(ch) == {p \in Procs : proc[p].pc # "idle" /\ proc[p].mode = "scheduled" /\ proc[p].ch = ch}
  <1>1. /\ faults < MaxFaults /\ faults' = faults + 1 /\ up' = FALSE
        /\ jobs' = [ch \in Channels |-> [jobs[ch] EXCEPT ![0] = jobs[ch][0] + Cardinality(lost(ch))]]
        /\ proc' = [p \in Procs |-> Idle] /\ asked' = [ch \in Channels |-> 0]
        /\ UNCHANGED <<setup, notice, delivery, notifies, ops, accepts>>
    BY DEF Crash
  <1>2. \A ch \in Channels : Cardinality(lost(ch)) \in Nat
    <2>1. \A ch \in Channels : IsFiniteSet(lost(ch))
      BY FS_Subset, NotificationsAssumption
    <2>2. QED
      BY <2>1, FS_CardinalityType
  <1> HIDE DEF lost
  <1>3. jobs' \in JobCounts
    <2>1. ASSUME NEW ch \in Channels
          PROVE jobs'[ch] \in [0..Backoff -> Nat]
      <3>1. PICK n \in Nat : n = Cardinality(lost(ch))
        BY <1>2
      <3>2. jobs[ch] \in [0..Backoff -> Nat] /\ 0 \in 0..Backoff
        BY NotificationsAssumption DEF NotificationInv, TypeOK
      <3>3. jobs[ch][0] + n \in Nat
        <4>1. jobs[ch][0] \in Nat
          BY <3>2
        <4>2. QED
          BY <4>1
      <3>4. jobs'[ch] = [jobs[ch] EXCEPT ![0] = jobs[ch][0] + n]
        BY <1>1, <3>1
      <3>5. QED
        BY <3>2, <3>3, <3>4
    <2>2. QED
      BY <1>1, <2>1 DEF JobCounts
  <1>4. proc' \in [Procs -> Proc] /\ asked' \in [Channels -> Nat] /\ up' \in BOOLEAN
    BY <1>1, IdleFields
  <1>5. faults' \in 0..MaxFaults /\ faults' # 0
    BY <1>1, NotificationsAssumption DEF NotificationInv, TypeOK
  <1>6. TypeOK'
    BY <1>1, <1>3, <1>4, <1>5 DEF NotificationInv, TypeOK, JobCounts
  <1>7. ASSUME NEW r \in Procs
        PROVE Local(proc[r])'
    <2>1. proc'[r] = Idle
      BY <1>1
    <2>2. QED
      BY <2>1, IdleFields
      DEF Local, Attempts, Fresh, Attempting, Changes, Changing, Removes
  <1>8. RecipientWins' /\ DeletedInv' /\ ToldInv' /\ \A ch \in Channels : Paid(delivery[ch])' /\ CarryInv(ch)'
    BY <1>1, <1>5 DEF NotificationInv, RecipientWins, DeletedInv, NoDeliveries, ToldInv, Paid, CarryInv
  <1>9. QED
    BY <1>6, <1>7, <1>8 DEF NotificationInv
LEMMA RestartStep == ASSUME NotificationInv, Restart PROVE NotificationInv'
  <1>1. /\ Dispatch(Recoverable) /\ up' = TRUE
        /\ UNCHANGED <<setup, notice, delivery, proc, notifies, ops, faults, accepts>>
    BY DEF Restart
  <1>2. /\ jobs' \in JobCounts /\ asked' \in [Channels -> Nat]
        /\ \A c \in Channels : \A u \in 0..Backoff : jobs[c][u] > 0 => jobs'[c][u] > 0
        /\ \A c \in Channels : asked[c] > 0 => asked'[c] > 0
    BY <1>1, Dispatched DEF NotificationInv
  <1>3. TypeOK'
    BY <1>1, <1>2 DEF NotificationInv, TypeOK, JobCounts
  <1>4. ASSUME NEW ch \in Channels
        PROVE CarryInv(ch)'
    <2>1. CarryInv(ch) /\ delivery[ch].next \in 0..Backoff
      BY DEF NotificationInv, TypeOK, Delivery
    <2>2. /\ Held(ch) => Held(ch)'
          /\ Dispatching => Dispatching'
          /\ Scheduling(ch) => Scheduling(ch)'
          /\ AtWork(ch) => AtWork(ch)'
      BY <1>1 DEF Held, Fresh, VersionMatches, Dispatching, Scheduling, AtWork
    <2>3. Waiting(ch) => Waiting(ch)'
      BY <1>2, <2>2 DEF Waiting
    <2>4. Timed(ch) => Timed(ch)'
      BY <1>1, <1>2, <2>1, NotificationsAssumption DEF Timed
    <2>5. QED
      BY <1>1, <2>1, <2>2, <2>3, <2>4 DEF CarryInv, Carrier
  <1>5. ASSUME NEW r \in Procs
        PROVE Local(proc[r])'
    <2>1. PICK k : k = proc[r]
      OBVIOUS
    <2>2. Local(k)
      BY <2>1 DEF NotificationInv
    <2>3. Local(k)'
      BY <1>1, <2>2, LocalUnchanged
    <2>4. k = proc'[r]
      BY <1>1, <2>1
    <2>5. QED
      BY <2>3, <2>4
      DEF Local, Attempts, Fresh, VersionMatches, Changes, Stale, Contended, One, Removes, NoDeliveries
  <1>6. RecipientWins' /\ DeletedInv' /\ ToldInv' /\ \A ch \in Channels : Paid(delivery[ch])'
    BY <1>1 DEF NotificationInv, RecipientWins, DeletedInv, NoDeliveries, ToldInv, Told, Telling, Paid
  <1>7. QED
    BY <1>3, <1>4, <1>5, <1>6 DEF NotificationInv

LEMMA LessIs == ASSUME NEW t \in Nat PROVE Less(t) \in Nat /\ Less(t) <= t /\ (t = 0 => Less(t) = 0)
  BY DEF Less

\* Time runs for a delivery.
LEMMA TickDelivery ==
  ASSUME NEW d \in Delivery
  PROVE \E e \in Delivery :
          /\ e = [d EXCEPT !.lease = Less(d.lease), !.next = Less(d.next)]
          /\ e.exists = d.exists /\ e.status = d.status /\ e.attempts = d.attempts /\ e.max = d.max
          /\ e.version = d.version /\ e.open = d.open /\ e.overtaken = d.overtaken
          /\ e.lease = Less(d.lease) /\ e.next = Less(d.next)
          /\ d.lease = 0 => e.lease = 0
          /\ d = NoDelivery => e = NoDelivery
  <1>1. PICK l \in 0..Lease : l = Less(d.lease) /\ (d.lease = 0 => l = 0)
    BY NotificationsAssumption DEF Less, Delivery
  <1>2. PICK n \in 0..Backoff : n = Less(d.next) /\ (d.next = 0 => n = 0)
    BY NotificationsAssumption DEF Less, Delivery
  <1>3. PICK e : e = [d EXCEPT !.lease = l, !.next = n]
    OBVIOUS
  <1>4. e \in Delivery
    BY <1>3 DEF Delivery
  <1>5. /\ e.exists = d.exists /\ e.status = d.status /\ e.attempts = d.attempts /\ e.max = d.max
        /\ e.version = d.version /\ e.open = d.open /\ e.overtaken = d.overtaken
        /\ e.lease = l /\ e.next = n
    BY <1>3 DEF Delivery
  <1>6. d = NoDelivery => e = NoDelivery
    <2>1. d = NoDelivery => l = 0 /\ n = 0
      BY <1>1, <1>2, NoDeliveryFields
    <2>2. l = d.lease /\ n = d.next => e = d
      BY <1>3 DEF Delivery
    <2>3. QED
      BY <2>1, <2>2, NoDeliveryFields
  <1>7. QED
    BY <1>1, <1>2, <1>3, <1>4, <1>5, <1>6

\* Time runs for the jobs: none is lost.
LEMMA TickJobs ==
  ASSUME jobs \in JobCounts, Backoff \in Nat,
         jobs' = [ch \in Channels |-> [t \in 0..Backoff |->
           (IF t = 0 THEN jobs[ch][0] ELSE 0) + (IF t < Backoff THEN jobs[ch][t + 1] ELSE 0)]]
  PROVE /\ jobs' \in JobCounts
        /\ \A ch \in Channels : \A t \in 0..Backoff : jobs[ch][t] > 0 => Less(t) \in 0..Backoff /\ jobs'[ch][Less(t)] > 0
  <1>1. ASSUME NEW ch \in Channels, NEW t \in 0..Backoff
        PROVE /\ jobs'[ch][t] \in Nat /\ jobs[ch][t] \in Nat
              /\ jobs'[ch][t] = (IF t = 0 THEN jobs[ch][0] ELSE 0) + (IF t < Backoff THEN jobs[ch][t + 1] ELSE 0)
    <2>1. jobs[ch] \in [0..Backoff -> Nat] /\ 0 \in 0..Backoff
      BY DEF JobCounts
    <2>2. jobs[ch][t] \in Nat /\ jobs[ch][0] \in Nat /\ (t < Backoff => jobs[ch][t + 1] \in Nat)
      BY <2>1
    <2>3. jobs'[ch][t] = (IF t = 0 THEN jobs[ch][0] ELSE 0) + (IF t < Backoff THEN jobs[ch][t + 1] ELSE 0)
      OBVIOUS
    <2>4. QED
      BY <2>2, <2>3
  <1>2. jobs' \in JobCounts
    BY <1>1 DEF JobCounts
  <1>3. ASSUME NEW ch \in Channels, NEW t \in 0..Backoff, jobs[ch][t] > 0
        PROVE Less(t) \in 0..Backoff /\ jobs'[ch][Less(t)] > 0
    <2>1. CASE t = 0
      <3>1. Less(t) = 0 /\ 0 \in 0..Backoff
        BY <2>1 DEF Less
      <3>2. 0 < Backoff => jobs[ch][0 + 1] \in Nat
        BY DEF JobCounts
      <3>3. jobs'[ch][0] = jobs[ch][0] + (IF 0 < Backoff THEN jobs[ch][0 + 1] ELSE 0)
        BY <1>1, <3>1
      <3>4. jobs[ch][0] \in Nat /\ jobs[ch][0] > 0
        BY <1>1, <1>3, <2>1, <3>1
      <3>5. QED
        BY <3>1, <3>2, <3>3, <3>4
    <2>2. CASE t # 0
      <3>1. Less(t) = t - 1 /\ t - 1 \in 0..Backoff /\ t - 1 < Backoff /\ (t - 1) + 1 = t
        BY <2>2 DEF Less
      <3>2. jobs'[ch][t - 1] = (IF t - 1 = 0 THEN jobs[ch][0] ELSE 0) + jobs[ch][t]
        BY <1>1, <3>1
      <3>3. jobs[ch][0] \in Nat /\ jobs[ch][t] \in Nat
        BY DEF JobCounts
      <3>4. QED
        BY <1>3, <3>1, <3>2, <3>3
    <2>3. QED
      BY <2>1, <2>2
  <1>4. QED
    BY <1>2, <1>3
LEMMA TickStep == ASSUME NotificationInv, Tick PROVE NotificationInv'
  <1>1. /\ notice' = [notice EXCEPT !.expires = IF notice.expires = Never THEN Never ELSE Less(notice.expires)]
        /\ delivery' = [ch \in Channels |-> [delivery[ch] EXCEPT !.lease = Less(delivery[ch].lease),
                                                                 !.next = Less(delivery[ch].next)]]
        /\ UNCHANGED <<setup, up, asked, proc, notifies, ops, faults, accepts>>
    BY DEF Tick
  <1>2. /\ notice \in Notice /\ delivery \in [Channels -> Delivery] /\ jobs \in JobCounts /\ Backoff \in Nat
        /\ proc \in [Procs -> Proc]
    BY NotificationsAssumption DEF NotificationInv, TypeOK, JobCounts
  <1>3. /\ jobs' \in JobCounts
        /\ \A ch \in Channels : \A t \in 0..Backoff :
             jobs[ch][t] > 0 => Less(t) \in 0..Backoff /\ jobs'[ch][Less(t)] > 0
    <2>1. jobs' = [ch \in Channels |-> [t \in 0..Backoff |->
            (IF t = 0 THEN jobs[ch][0] ELSE 0) + (IF t < Backoff THEN jobs[ch][t + 1] ELSE 0)]]
      BY DEF Tick
    <2>2. QED
      BY <1>2, <2>1, TickJobs
  <1>4. PICK x \in 0..Never : /\ x = IF notice.expires = Never THEN Never ELSE Less(notice.expires)
                              /\ notice.expires = 0 => x = 0
                              /\ notice.expires = Never => x = Never
    BY <1>2, NotificationsAssumption DEF Notice, Never, Less
  <1>5. notice' = [notice EXCEPT !.expires = x]
    BY <1>1, <1>4
  <1>6. notice' \in Notice
    BY <1>2, <1>5 DEF Notice
  <1>7. /\ notice'.exists = notice.exists /\ notice'.status = notice.status /\ notice'.read = notice.read
        /\ notice'.acknowledged = notice.acknowledged /\ notice'.dismissed = notice.dismissed
        /\ notice'.version = notice.version /\ notice'.expires = x
    BY <1>2, <1>5 DEF Notice
  <1>8. notice = NoNotice => notice' = NoNotice
    <2>1. notice = NoNotice => x = notice.expires
      BY <1>4, NoNoticeFields
    <2>2. x = notice.expires => notice' = notice
      BY <1>2, <1>5 DEF Notice
    <2>3. QED
      BY <2>1, <2>2
  <1>9. ASSUME NEW ch \in Channels
        PROVE /\ delivery'[ch] \in Delivery
              /\ delivery'[ch].exists = delivery[ch].exists /\ delivery'[ch].status = delivery[ch].status
              /\ delivery'[ch].attempts = delivery[ch].attempts /\ delivery'[ch].max = delivery[ch].max
              /\ delivery'[ch].version = delivery[ch].version /\ delivery'[ch].open = delivery[ch].open
              /\ delivery'[ch].overtaken = delivery[ch].overtaken /\ delivery'[ch].next = Less(delivery[ch].next)
              /\ delivery[ch].lease = 0 => delivery'[ch].lease = 0
              /\ delivery[ch] = NoDelivery => delivery'[ch] = NoDelivery
    <2>1. delivery'[ch] = [delivery[ch] EXCEPT !.lease = Less(delivery[ch].lease), !.next = Less(delivery[ch].next)]
      BY <1>1
    <2>2. delivery[ch] \in Delivery
      BY <1>2
    <2>3. PICK d \in Delivery : d = delivery[ch]
      BY <2>2
    <2>4. PICK e \in Delivery :
            /\ e = [d EXCEPT !.lease = Less(d.lease), !.next = Less(d.next)]
            /\ e.exists = d.exists /\ e.status = d.status /\ e.attempts = d.attempts /\ e.max = d.max
            /\ e.version = d.version /\ e.open = d.open /\ e.overtaken = d.overtaken
            /\ e.lease = Less(d.lease) /\ e.next = Less(d.next)
            /\ d.lease = 0 => e.lease = 0
            /\ d = NoDelivery => e = NoDelivery
      BY TickDelivery
    <2>5. delivery'[ch] = e
      BY <2>1, <2>3, <2>4
    <2>6. QED
      BY <2>3, <2>4, <2>5
  <1>10. TypeOK'
    <2>1. delivery' \in [Channels -> Delivery]
      BY <1>1, <1>9
    <2>2. QED
      BY <1>1, <1>3, <1>6, <2>1 DEF NotificationInv, TypeOK, JobCounts
  <1>11. RecipientWins'
    BY <1>7 DEF NotificationInv, RecipientWins
  <1>12. DeletedInv'
    BY <1>7, <1>8, <1>9 DEF NotificationInv, DeletedInv, NoDeliveries
  <1>13. ToldInv'
    <2>1. (Told("delivered") => Told("delivered")') /\ (Told("failed") => Told("failed")')
      BY <1>1 DEF Told, Telling
    <2>2. ToldInv
      BY DEF NotificationInv
    <2>3. \A ch \in Channels : delivery'[ch].status = delivery[ch].status
      BY <1>9
    <2>4. notice'.exists = notice.exists /\ notice'.status = notice.status /\ faults' = faults
      BY <1>1, <1>7
    <2>5. QED
      BY <2>1, <2>2, <2>3, <2>4 DEF ToldInv
  <1>14. ASSUME NEW ch \in Channels
         PROVE Paid(delivery[ch])'
    <2>1. Paid(delivery[ch])
      BY DEF NotificationInv
    <2>2. Paid(delivery'[ch])
      BY <1>9, <2>1 DEF Paid
    <2>3. QED
      BY <2>2 DEF Paid
  <1>15. ASSUME NEW ch \in Channels
         PROVE CarryInv(ch)'
    <2>1. CarryInv(ch) /\ delivery[ch].next \in 0..Backoff
      BY <1>2 DEF NotificationInv, Delivery
    <2>2. Held(ch) => Held(ch)'
      <3>1. \A q \in Proc : q.ch = ch /\ Fresh(q) => Fresh(q)'
        BY <1>9 DEF Fresh, VersionMatches
      <3>2. ASSUME NEW r \in Procs, proc[r].ch = ch, Fresh(proc[r])
            PROVE proc'[r].ch = ch /\ Fresh(proc[r])'
        <4>1. PICK q \in Proc : q = proc[r] /\ q = proc'[r]
          BY <1>1, <1>2
        <4>2. Fresh(q)'
          BY <3>1, <3>2, <4>1
        <4>3. QED
          BY <3>2, <4>1, <4>2 DEF Fresh
      <3>3. QED
        BY <3>2 DEF Held
    <2>3. /\ Dispatching => Dispatching'
          /\ Scheduling(ch) => Scheduling(ch)'
          /\ AtWork(ch) => AtWork(ch)'
      BY <1>1 DEF Dispatching, Scheduling, AtWork
    <2>4. Waiting(ch) => Waiting(ch)'
      BY <1>1, <1>3, <2>3 DEF Waiting
    <2>5. Timed(ch) => Timed(ch)'
      <3>1. ASSUME NEW t \in delivery[ch].next..Backoff, jobs[ch][t] > 0
            PROVE Timed(ch)'
        <4>1. t \in 0..Backoff
          BY <1>2, <2>1
        <4>2. Less(t) \in 0..Backoff /\ jobs'[ch][Less(t)] > 0
          BY <1>3, <3>1, <4>1
        <4>3. Less(t) \in delivery'[ch].next..Backoff
          <5>1. delivery'[ch].next = Less(delivery[ch].next)
            BY <1>9
          <5>2. Less(delivery[ch].next) <= Less(t) /\ Less(delivery[ch].next) \in Nat
            BY <1>2, <2>1, <4>1 DEF Less
          <5>3. QED
            BY <1>2, <4>2, <5>1, <5>2
        <4>4. QED
          BY <4>2, <4>3 DEF Timed
      <3>2. QED
        BY <3>1 DEF Timed
    <2>6. delivery[ch].next = 0 => delivery'[ch].next = 0
      BY <1>9 DEF Less
    <2>7. QED
      BY <1>1, <1>9, <2>1, <2>2, <2>3, <2>4, <2>5, <2>6 DEF CarryInv, Carrier
  <1>16. ASSUME NEW r \in Procs
         PROVE Local(proc[r])'
    <2>1. PICK q \in Proc : q = proc[r] /\ q = proc'[r]
      BY <1>1, <1>2
    <2>2. Local(q)
      BY <2>1 DEF NotificationInv
    <2>3. Attempts(q)'
      <3>1. CASE q.ch \in Channels
        <4>1. Fresh(q)' => Fresh(q)
          BY <1>9, <3>1 DEF Fresh, VersionMatches
        <4>2. QED
          BY <1>7, <1>9, <2>2, <3>1, <4>1 DEF Local, Attempts
      <3>2. CASE q.ch \notin Channels
        BY <2>2, <3>2 DEF Local, Attempts, Fresh, Attempting
      <3>3. QED
        BY <3>1, <3>2
    <2>4. Changes(q)'
      <3>1. (Stale(q) <=> Stale(q)') /\ (Contended(q) => Contended(q)')
        BY <1>7 DEF Stale, Contended, One
      <3>2. Wanted(q.goal, notice) /\ q.goal # "none" => Wanted(q.goal, notice')
        <4>1. q.goal \in Goals
          BY DEF Proc
        <4>2. QED
          BY <1>4, <1>7, <4>1, WantedIs DEF Goals
      <3>3. Wanted(q.goal, notice) /\ q.goal # "none" => Wanted(q.goal, notice)'
        BY <3>2 DEF Wanted
      <3>4. QED
        BY <1>7, <2>2, <3>1, <3>3 DEF Local, Changes, Changing
    <2>5. Removes(q)'
      BY <1>9, <2>2 DEF Local, Removes, NoDeliveries
    <2>6. QED
      BY <2>1, <2>3, <2>4, <2>5
      DEF Local, Attempts, Fresh, VersionMatches, Changes, Stale, Contended, One, Removes, NoDeliveries
  <1>17. QED
    BY <1>10, <1>11, <1>12, <1>13, <1>14, <1>15, <1>16 DEF NotificationInv
-----------------------------------------------------------------------------
(* Theorems *)

LEMMA NotificationInit == ASSUME Init PROVE NotificationInv
  <1>1. /\ setup \in Setups /\ up = TRUE /\ notice = NoNotice /\ delivery = [ch \in Channels |-> NoDelivery]
        /\ jobs = [ch \in Channels |-> [t \in 0..Backoff |-> 0]] /\ asked = [ch \in Channels |-> 0]
        /\ proc = [p \in Procs |-> Idle] /\ notifies = 0 /\ ops = 0 /\ faults = 0 /\ accepts = [ch \in Channels |-> 0]
    BY DEF Init
  <1>2. TypeOK
    BY <1>1, IdleFields, NoDeliveryFields, NoNoticeFields, NotificationsAssumption DEF TypeOK
  <1>3. RecipientWins /\ DeletedInv /\ ToldInv
    BY <1>1, NoDeliveryFields, NoNoticeFields DEF RecipientWins, DeletedInv, NoDeliveries, ToldInv
  <1>4. \A ch \in Channels : Paid(delivery[ch]) /\ CarryInv(ch)
    BY <1>1, NoDeliveryFields DEF CarryInv
  <1>5. \A p \in Procs : Local(proc[p])
    <2>1. Local(Idle)
      BY IdleFields DEF Local, Attempts, Fresh, Attempting, Changes, Changing, Removes
    <2>2. QED
      BY <1>1, <2>1
  <1>6. QED
    BY <1>2, <1>3, <1>4, <1>5 DEF NotificationInv

LEMMA NotificationNext == ASSUME NotificationInv, [Next]_vars, [QuietCreate]_vars PROVE NotificationInv'
  <1>1. CASE UNCHANGED vars
    <2>1. UNCHANGED <<setup, up, notice, delivery, jobs, asked, proc, notifies, ops, faults, accepts>>
      BY <1>1 DEF vars
    <2>2. TypeOK' /\ RecipientWins' /\ DeletedInv' /\ \A ch \in Channels : Paid(delivery[ch])'
      BY <2>1 DEF NotificationInv, TypeOK, RecipientWins, DeletedInv, NoDeliveries, Paid
    <2>3. ToldInv'
      BY <2>1 DEF NotificationInv, ToldInv, Told, Telling
    <2>4. \A ch \in Channels : CarryInv(ch)'
      BY <2>1 DEF NotificationInv, CarryInv, Carrier, Held, Fresh, VersionMatches, Waiting, AtWork, Dispatching,
                  Scheduling, Timed
    <2>5. ASSUME NEW r \in Procs
          PROVE Local(proc[r])'
      <3>1. PICK k : k = proc[r] /\ k = proc'[r]
        BY <2>1
      <3>2. Local(k)
        BY <3>1 DEF NotificationInv
      <3>3. Local(k)'
        BY <2>1, <3>2, LocalUnchanged
      <3>4. QED
        BY <3>1, <3>3
        DEF Local, Attempts, Fresh, VersionMatches, Changes, Stale, Contended, One, Removes, NoDeliveries
    <2>6. QED
      BY <2>2, <2>3, <2>4, <2>5 DEF NotificationInv
  <1>2. ASSUME NEW p \in Procs, Step(p)
        PROVE NotificationInv'
    BY <1>2, CreateStep, AuditCreatedStep, DispatchPendingStep, ReadDeliveryStep, ReadNoticeStep, ClaimStep, DeliverStep,
       FinishStep, ScheduleStep, AuditStep, ListDeliveriesStep, LoadStep, StoreStep, RetryFailedStep, RetryNowStep,
       RecoverDeliveriesStep, DeleteDeliveriesStep, DeleteNoticeStep, Zenon DEF Step
  <1>3. ASSUME NEW p \in Procs, Work(p)
        PROVE NotificationInv'
    BY <1>3, StartInitialStep, StartJobStep, Zenon DEF Work
  <1>4. ASSUME NEW p \in Procs,
               StartNotify(p) \/ StartChange(p) \/ StartRetry(p) \/ StartRecover(p) \/ StartDelete(p) \/ Throw(p)
        PROVE NotificationInv'
    BY <1>4, StartNotifyStep, StartChangeStep, StartRetryStep, StartOtherStep, ThrowStep, Zenon
  <1>5. QED
    BY <1>1, <1>2, <1>3, <1>4, CrashStep, RestartStep, TickStep, Zenon DEF Next

\* The inductive invariant of the notifications: attempts know the delivery they are about to
\* write or are stale, whatever is not settled has a carrier, and every verdict that the
\* notification does not show yet has somebody left to write it.
THEOREM NotificationInvariance == Spec /\ [][QuietCreate]_vars => []NotificationInv
  <1>1. Init => NotificationInv
    BY NotificationInit
  <1>2. NotificationInv /\ [Next]_vars /\ [QuietCreate]_vars => NotificationInv'
    BY NotificationNext
  <1>3. QED
    BY <1>1, <1>2, PTL DEF Spec

\* A notification and its deliveries make sense together (attemptDelivery, finishDelivery,
\* refreshStatus, transitionNotification, mutate): what the recipient did wins, attempts
\* beyond the limit are takeovers, the status follows the deliveries and nothing that is not
\* settled is forgotten, for every number of channels and processes.
THEOREM NotificationSoundAlways == Spec /\ [][QuietCreate]_vars => []NotificationSound
  <1>1. NotificationInv => NotificationSound
    <2> SUFFICES ASSUME NotificationInv PROVE NotificationSound
      OBVIOUS
    <2>1. TypeOK /\ RecipientWins /\ AttemptsAccounted
      BY DEF NotificationInv, AttemptsAccounted, Paid
    <2>2. StatusFollows
      BY DEF NotificationInv, StatusFollows, ToldInv, Told, Telling, Changing
    <2>3. Carried
      <3>1. ASSUME NEW ch \in Channels, Carrier(ch)
            PROVE \/ asked[ch] > 0
                  \/ \E t \in 0..Backoff : jobs[ch][t] > 0
                  \/ \E p \in Procs : proc[p].ch = ch \/ proc[p].pc \in {"created", "dispatch"}
        <4>1. Timed(ch) => \E t \in 0..Backoff : jobs[ch][t] > 0
          <5>1. delivery[ch].next \in 0..Backoff
            BY DEF NotificationInv, TypeOK, Delivery
          <5>2. QED
            BY <5>1, NotificationsAssumption DEF Timed
        <4>2. QED
          BY <3>1, <4>1 DEF Carrier, Held, Waiting, AtWork, Dispatching, Scheduling
      <3>2. \A ch \in Channels : CarryInv(ch)
        BY DEF NotificationInv
      <3>3. QED
        BY <3>1, <3>2 DEF Carried, CarryInv, Unsettled
    <2>4. QED
      BY <2>1, <2>2, <2>3 DEF NotificationSound
  <1>2. QED
    BY <1>1, NotificationInvariance, PTL

\* Every step keeps what is delivered, and the lease.
LEMMA HoldsNext == ASSUME NotificationInv, [Next]_vars PROVE [DeliveredForGood /\ LeaseHolds]_vars
  <1> DEFINE Keeps == DeliveredForGood /\ LeaseHolds
  <1>1. delivery' = delivery => Keeps
    BY DEF DeliveredForGood, LeaseHolds
  <1>2. (\A ch \in Channels : delivery'[ch].status = delivery[ch].status /\ delivery'[ch].overtaken = delivery[ch].overtaken)
          => Keeps
    BY DEF DeliveredForGood, LeaseHolds
  <1>3. NoDeliveries => Keeps
    BY DEF NoDeliveries, DeliveredForGood, LeaseHolds
  <1>4. (\A ch \in Channels : ~delivery'[ch].exists) => Keeps
    BY DEF DeliveredForGood, LeaseHolds
  <1>5. ASSUME NEW c \in Channels, NEW d, delivery' = [delivery EXCEPT ![c] = d],
               delivery[c].status # "delivered",
               delivery[c].status = "pending" /\ delivery[c].lease > 0 => d.overtaken = delivery[c].overtaken
        PROVE Keeps
    <2>1. delivery'[c] = d /\ \A ch \in Channels : ch # c => delivery'[ch] = delivery[ch]
      BY <1>5 DEF NotificationInv, TypeOK
    <2>2. QED
      BY <1>5, <2>1 DEF DeliveredForGood, LeaseHolds
  <1>6. ASSUME NEW p \in Procs, Claim(p)
        PROVE Keeps
    <2>1. PICK q \in Proc : q = proc[p] /\ Local(q) /\ q.pc = "claim"
      BY <1>6, Basics DEF Claim
    <2>2. PICK c \in Channels : c = q.ch
      BY <2>1 DEF Local, Attempts, Attempting
    <2>3. CASE VersionMatches(delivery[c], q.seen.version)
      <3>1. Fresh(q)
        BY <2>1, <2>2, <2>3 DEF Fresh, Attempting
      <3>2. /\ delivery[c].status # "delivered"
            /\ delivery[c].status = "pending" => delivery[c].lease = 0
        BY <2>1, <2>2, <3>1 DEF Local, Attempts, Unsettled
      <3>3. PICK d : delivery' = [delivery EXCEPT ![c] = d]
        BY <1>6, <2>1, <2>2, <2>3 DEF Claim
      <3>4. delivery[c].status = "pending" /\ delivery[c].lease > 0 => d.overtaken = delivery[c].overtaken
        BY <3>2
      <3>5. QED
        BY <1>5, <3>2, <3>3, <3>4, Zenon
    <2>4. CASE ~VersionMatches(delivery[c], q.seen.version)
      BY <1>1, <1>6, <2>1, <2>2, <2>4 DEF Claim
    <2>5. QED
      BY <2>3, <2>4
  <1>7. ASSUME NEW p \in Procs, Finish(p)
        PROVE Keeps
    <2>1. PICK q \in Proc : q = proc[p] /\ Local(q) /\ q.pc = "finish"
      BY <1>7, Basics DEF Finish
    <2>2. PICK c \in Channels : c = q.ch
      BY <2>1 DEF Local, Attempts, Attempting
    <2>3. CASE VersionMatches(delivery[c], q.seen.version)
      <3>1. Fresh(q)
        BY <2>1, <2>2, <2>3 DEF Fresh, Attempting
      <3>2. delivery[c].status # "delivered" /\ delivery[c] \in Delivery
        BY <2>1, <2>2, <3>1 DEF Local, Attempts, Unsettled, NotificationInv, TypeOK
      <3> DEFINE status == IF q.result = "delivered" THEN "delivered" ELSE IF CanRetry(q) THEN "retrying" ELSE "failed"
                 next == IF status = "retrying" THEN Backoff ELSE 0
                 version == delivery[c].version + 1
      <3>3. delivery' = [delivery EXCEPT ![c] = [delivery[c] EXCEPT !.status = status, !.next = next,
                                                                   !.version = version, !.open = FALSE]]
        BY <1>7, <2>1, <2>2, <2>3 DEF Finish
      <3> HIDE DEF status, next, version
      <3>4. PICK d : d = [delivery[c] EXCEPT !.status = status, !.next = next, !.version = version, !.open = FALSE]
        OBVIOUS
      <3>5. d.overtaken = delivery[c].overtaken
        BY <3>2, <3>4 DEF Delivery
      <3>6. QED
        BY <1>5, <3>2, <3>3, <3>4, <3>5
    <2>4. CASE ~VersionMatches(delivery[c], q.seen.version)
      BY <1>1, <1>7, <2>1, <2>2, <2>4 DEF Finish
    <2>5. QED
      BY <2>3, <2>4
  <1>8. ASSUME NEW p \in Procs, RetryFailed(p)
        PROVE Keeps
    <2>1. PICK c \in Channels : c = proc[p].ch
      BY <1>8, Basics DEF RetryFailed, Local, Attempts
    <2>2. CASE delivery[c].exists /\ delivery[c].status = "failed"
      <3>1. PICK d : delivery' = [delivery EXCEPT ![c] = d]
        BY <1>8, <2>1, <2>2 DEF RetryFailed
      <3>2. QED
        BY <1>5, <2>2, <3>1
    <2>3. CASE ~(delivery[c].exists /\ delivery[c].status = "failed")
      BY <1>1, <1>8, <2>1, <2>3 DEF RetryFailed
    <2>4. QED
      BY <2>2, <2>3
  <1>9. ASSUME NEW p \in Procs, Create(p)
        PROVE Keeps
    <2>1. notice.exists => delivery' = delivery
      BY <1>9 DEF Create
    <2>2. ~notice.exists => NoDeliveries
      BY DEF NotificationInv, DeletedInv
    <2>3. QED
      BY <1>1, <1>3, <2>1, <2>2
  <1>10. ASSUME NEW p \in Procs, DeleteDeliveries(p)
         PROVE Keeps
    BY <1>4, <1>10, NoDeliveryFields DEF DeleteDeliveries
  <1>11. ASSUME Tick
         PROVE Keeps
    <2>1. ASSUME NEW ch \in Channels
          PROVE delivery'[ch].status = delivery[ch].status /\ delivery'[ch].overtaken = delivery[ch].overtaken
      <3>1. delivery[ch] \in Delivery
        BY DEF NotificationInv, TypeOK
      <3>2. PICK l, n : delivery'[ch] = [delivery[ch] EXCEPT !.lease = l, !.next = n]
        BY <1>11 DEF Tick
      <3>3. QED
        BY <3>1, <3>2 DEF Delivery
    <2>2. QED
      BY <1>2, <2>1
  <1>12. ASSUME NEW p \in Procs, Step(p)
         PROVE Keeps
    <2>1. CASE Claim(p) \/ Finish(p) \/ RetryFailed(p) \/ Create(p) \/ DeleteDeliveries(p)
      BY <1>6, <1>7, <1>8, <1>9, <1>10, <2>1
    <2>2. CASE ~(Claim(p) \/ Finish(p) \/ RetryFailed(p) \/ Create(p) \/ DeleteDeliveries(p))
      <3>1. delivery' = delivery
        BY <1>12, <2>2 DEF Step, AuditCreated, DispatchPending, ReadDelivery, ReadNotice, Deliver, Schedule, Audit,
                           ListDeliveries, Load, Store, RetryNow, RecoverDeliveries, DeleteNotice
      <3>2. QED
        BY <1>1, <3>1
    <2>3. QED
      BY <2>1, <2>2
  <1>13. ASSUME Next, ~Tick, \A p \in Procs : ~Step(p)
         PROVE delivery' = delivery
    BY <1>13 DEF Next, Work, StartNotify, StartChange, StartRetry, StartRecover, StartDelete, Operate, StartInitial,
                 StartJob, Throw, Crash, Restart
  <1>14. QED
    BY <1>1, <1>11, <1>12, <1>13

\* No late result takes a delivered delivery back, and no attempt takes over from a first one
\* inside its lease (attemptDelivery's lease test and claim, finishDelivery).
THEOREM DeliveriesHoldAlways == Spec /\ [][QuietCreate]_vars => DeliveriesHold
  <1>1. NotificationInv /\ [Next]_vars => [DeliveredForGood /\ LeaseHolds]_vars
    BY HoldsNext
  <1>2. QED
    BY <1>1, NotificationInvariance, PTL DEF Spec, DeliveriesHold
-----------------------------------------------------------------------------
(* Notifications whose identifier is not used again *)

\* A call of notify may still come to create the notification.
Reusable == notifies < MaxNotifies \/ \E p \in Procs : proc[p].pc = "create"

\* The notification is deleted only when no call of notify will create it again.
NotReused == notice.exists /\ ~notice'.exists => ~Reusable'

\* Nothing has happened yet, except that calls of notify have begun.
Early ==
  /\ ~notice.exists
  /\ \A ch \in Channels : asked[ch] = 0 /\ \A t \in 0..Backoff : jobs[ch][t] = 0
  /\ \A p \in Procs : proc[p].pc \in {"idle", "create"} /\ proc[p].mode # "scheduled"

EarlyInv == ~notice.exists /\ Reusable => Early

\* The one call of notify creates the notification once.
OnceInv ==
  /\ notice.exists => ~Reusable
  /\ notifies < MaxNotifies => \A p \in Procs : proc[p].pc # "create"
  /\ \A p, r \in Procs : proc[p].pc = "create" /\ proc[r].pc = "create" => p = r

\* No process comes to its creation.
NoneComes ==
  notifies' = notifies /\ \A r \in Procs : proc'[r].pc = "create" => proc[r].pc = "create"

LEMMA NoneComesMove ==
  ASSUME TypeOK, NEW p \in Procs, NEW k, proc' = [proc EXCEPT ![p] = k], k.pc # "create", notifies' = notifies
  PROVE NoneComes
  BY DEF NoneComes, TypeOK

LEMMA NoneComesAt ==
  ASSUME TypeOK, NEW p \in Procs, NEW to, to # "create", notifies' = notifies,
         proc'[p].pc = to, \A r \in Procs : r # p => proc'[r] = proc[r]
  PROVE NoneComes
  BY DEF NoneComes

LEMMA NoneComesGoto ==
  ASSUME TypeOK, NEW p \in Procs, NEW to, Goto(p, to), to # "create", notifies' = notifies
  PROVE NoneComes
  <1>1. PICK k : k = (IF to = "idle" THEN Idle ELSE [proc[p] EXCEPT !.pc = to])
    OBVIOUS
  <1>2. k.pc # "create"
    BY <1>1, IdleFields DEF TypeOK, Proc
  <1>3. proc' = [proc EXCEPT ![p] = k]
    BY <1>1, WentTo
  <1>4. QED
    BY <1>2, <1>3, NoneComesMove

LEMMA NoneComesStep ==
  ASSUME NotificationInv, NEW p \in Procs, Step(p)
  PROVE NoneComes
  <1> USE DEF NotificationInv
  <1>1. TypeOK /\ proc[p] \in Proc
    BY DEF TypeOK
  <1>2. CASE Create(p)
    BY <1>1, <1>2, NoneComesGoto, Zenon DEF Create
  <1>3. CASE AuditCreated(p) \/ Schedule(p) \/ Audit(p) \/ RecoverDeliveries(p) \/ DeleteDeliveries(p) \/ DeleteNotice(p)
    BY <1>1, <1>3, NoneComesGoto, Zenon
    DEF AuditCreated, Schedule, Audit, RecoverDeliveries, DeleteDeliveries, DeleteNotice
  <1>4. CASE DispatchPending(p)
    <2>1. PICK k \in Proc : k = [Idle EXCEPT !.pc = "load", !.goal = "expired"] /\ k.pc = "load"
      BY LoadExpired, Zenon
    <2>2. QED
      BY <1>1, <1>4, <2>1, NoneComesMove DEF DispatchPending
  <1>5. CASE ReadDelivery(p)
    <2>1. ASSUME ~Attemptable(delivery[proc[p].ch], proc[p].mode)
          PROVE NoneComes
      BY <1>1, <1>5, <2>1, NoneComesGoto, Zenon DEF ReadDelivery
    <2>2. ASSUME Attemptable(delivery[proc[p].ch], proc[p].mode)
          PROVE NoneComes
      <3>1. /\ proc' = [proc EXCEPT ![p].pc = "notice",
                               ![p].seen = [version |-> delivery[proc[p].ch].version, attempts |-> delivery[proc[p].ch].attempts,
                                            max |-> delivery[proc[p].ch].max]]
            /\ notifies' = notifies
        BY <1>5, <2>2 DEF ReadDelivery
      <3>2. proc'[p].pc = "notice" /\ \A r \in Procs : r # p => proc'[r] = proc[r]
        BY <1>1, <3>1 DEF TypeOK, Proc
      <3>3. QED
        BY <1>1, <3>1, <3>2, NoneComesAt
    <2>3. QED
      BY <2>1, <2>2
  <1>6. CASE ReadNotice(p)
    BY <1>1, <1>6 DEF ReadNotice, NoneComes, TypeOK, Proc
  <1>7. CASE Claim(p)
    <2>1. Goto(p, "idle") \/ \E k : proc' = [proc EXCEPT ![p] = k] /\ k.pc = "deliver"
      <3> DEFINE d == delivery[proc[p].ch]
                   k == [proc[p] EXCEPT !.pc = "deliver",
                          !.seen = [proc[p].seen EXCEPT !.version = d.version + 1, !.attempts = proc[p].seen.attempts + 1]]
      <3>2. k.pc = "deliver"
        BY <1>1 DEF Proc
      <3>3. Goto(p, "idle") \/ proc' = [proc EXCEPT ![p] = k]
        BY <1>7, Zenon DEF Claim
      <3>4. QED
        BY <3>2, <3>3, Zenon
    <2>2. notifies' = notifies
      BY <1>7 DEF Claim
    <2>3. QED
      BY <1>1, <2>1, <2>2, NoneComesGoto, NoneComesMove
  <1>8. CASE Deliver(p)
    BY <1>1, <1>8 DEF Deliver, NoneComes, TypeOK, Proc
  <1>9. CASE Finish(p)
    <2>1. PICK k \in Proc : k = [Idle EXCEPT !.pc = "load", !.goal = "expired"] /\ k.pc = "load"
      BY LoadExpired, Zenon
    <2>2. \/ Goto(p, "schedule") \/ Goto(p, "audit")
          \/ proc' = [proc EXCEPT ![p] = k] \/ proc' = [proc EXCEPT ![p] = Idle]
      BY <1>9, <2>1 DEF Finish
    <2>3. notifies' = notifies
      BY <1>9 DEF Finish
    <2>4. QED
      BY <1>1, <2>1, <2>2, <2>3, IdleFields, NoneComesGoto, NoneComesMove
  <1>10. CASE ListDeliveries(p)
    <2>1. ASSUME Goto(p, "idle")
          PROVE NoneComes
      BY <1>1, <1>10, <2>1, NoneComesGoto, Zenon DEF ListDeliveries
    <2>2. ASSUME ~Goto(p, "idle")
          PROVE NoneComes
      <3>1. /\ \E g : proc' = [proc EXCEPT ![p].pc = "load", ![p].goal = g]
            /\ notifies' = notifies
        BY <1>10, <2>2, Zenon DEF ListDeliveries
      <3>2. proc'[p].pc = "load" /\ \A r \in Procs : r # p => proc'[r] = proc[r]
        BY <1>1, <3>1 DEF TypeOK, Proc
      <3>3. QED
        BY <1>1, <3>1, <3>2, NoneComesAt
    <2>3. QED
      BY <2>1, <2>2
  <1>11. ASSUME Done(p), notifies' = notifies
         PROVE NoneComes
    <2>1. PICK k \in Proc : proc' = [proc EXCEPT ![p] = k] /\ AtRest(k)
      BY <1>11, IsDone
    <2>2. QED
      BY <1>1, <1>11, <2>1, NoneComesMove DEF AtRest
  <1>12. CASE Load(p)
    <2>1. Done(p) \/ proc' = [proc EXCEPT ![p].pc = "store", ![p].held = notice.version]
      BY <1>12 DEF Load
    <2>2. notifies' = notifies
      BY <1>12 DEF Load
    <2>3. ASSUME proc' = [proc EXCEPT ![p].pc = "store", ![p].held = notice.version]
          PROVE proc'[p].pc = "store" /\ \A r \in Procs : r # p => proc'[r] = proc[r]
      BY <1>1, <2>3 DEF TypeOK, Proc
    <2>4. QED
      BY <1>1, <1>11, <2>1, <2>2, <2>3, NoneComesAt
  <1>13. CASE Store(p)
    <2>1. Done(p) \/ proc' = [proc EXCEPT ![p].pc = "load", ![p].tries = @ + 1]
      BY <1>13 DEF Store
    <2>2. notifies' = notifies
      BY <1>13 DEF Store
    <2>3. ASSUME proc' = [proc EXCEPT ![p].pc = "load", ![p].tries = @ + 1]
          PROVE proc'[p].pc = "load" /\ \A r \in Procs : r # p => proc'[r] = proc[r]
      BY <1>1, <2>3 DEF TypeOK, Proc
    <2>4. QED
      BY <1>1, <1>11, <2>1, <2>2, <2>3, NoneComesAt
  <1>14. CASE RetryFailed(p)
    BY <1>1, <1>14, NoneComesGoto, Zenon DEF RetryFailed
  <1>15. CASE RetryNow(p)
    <2>1. Goto(p, "idle") \/ \E k : proc' = [proc EXCEPT ![p] = k] /\ k.pc = "read"
      <3> DEFINE k == [Idle EXCEPT !.pc = "read", !.ch = proc[p].ch, !.mode = "manual"]
      <3>2. k.pc = "read"
        BY DEF Idle
      <3>3. Goto(p, "idle") \/ proc' = [proc EXCEPT ![p] = k]
        BY <1>15, Zenon DEF RetryNow, Attempt
      <3>4. QED
        BY <3>2, <3>3, Zenon
    <2>2. notifies' = notifies
      BY <1>15 DEF RetryNow
    <2>3. QED
      BY <1>1, <2>1, <2>2, NoneComesGoto, NoneComesMove
  <1>16. QED
    BY <1>2, <1>3, <1>4, <1>5, <1>6, <1>7, <1>8, <1>9, <1>10, <1>12, <1>13, <1>14, <1>15 DEF Step

\* Only the start of a call of notify brings a process to its creation.
LEMMA NoneComesNext ==
  ASSUME NotificationInv, [Next]_vars
  PROVE NoneComes \/ \E p \in Procs : StartNotify(p)
  <1> USE DEF NotificationInv
  <1>1. ASSUME NEW p \in Procs, StartChange(p) \/ StartRetry(p) \/ StartRecover(p) \/ StartDelete(p) \/ Work(p)
        PROVE NoneComes
    <2>1. ASSUME NEW k, Operate(p, k), k.pc # "create"
          PROVE NoneComes
      BY <2>1, NoneComesMove DEF Operate
    <2>2. CASE StartChange(p)
      <3>1. PICK goal \in {"expired", "read", "acknowledged", "dismissed"} :
              Operate(p, [Idle EXCEPT !.pc = "load", !.goal = goal])
        BY <2>2, Zenon DEF StartChange
      <3>2. [Idle EXCEPT !.pc = "load", !.goal = goal].pc # "create"
        BY DEF Idle
      <3>3. QED
        BY <2>1, <3>1, <3>2, Zenon
    <2>3. CASE StartRetry(p)
      <3>1. PICK ch \in Channels : Operate(p, [Idle EXCEPT !.pc = "retry", !.ch = ch])
        BY <2>3, Zenon DEF StartRetry
      <3>2. [Idle EXCEPT !.pc = "retry", !.ch = ch].pc # "create"
        BY DEF Idle
      <3>3. QED
        BY <2>1, <3>1, <3>2, Zenon
    <2>4. CASE StartRecover(p) \/ StartDelete(p)
      <3>1. [Idle EXCEPT !.pc = "recover"].pc # "create" /\ [Idle EXCEPT !.pc = "clear"].pc # "create"
        BY DEF Idle
      <3>2. QED
        BY <2>1, <2>4, <3>1, Zenon DEF StartRecover, StartDelete
    <2>5. CASE Work(p)
      <3>1. PICK ch \in Channels, mode \in {"initial", "scheduled"} : Attempt(p, ch, mode)
        BY <2>5, Zenon DEF Work, StartInitial, StartJob
      <3>2. [Idle EXCEPT !.pc = "read", !.ch = ch, !.mode = mode].pc # "create"
        BY DEF Idle
      <3>3. notifies' = notifies
        BY <2>5, Zenon DEF Work, StartInitial, StartJob
      <3>4. QED
        BY <3>1, <3>2, <3>3, NoneComesMove, Zenon DEF Attempt
    <2>6. QED
      BY <1>1, <2>2, <2>3, <2>4, <2>5
  <1>2. ASSUME NEW p \in Procs, Throw(p)
        PROVE NoneComes
    BY <1>2, NoneComesGoto, Zenon DEF Throw
  <1>3. CASE Crash
    BY <1>3, IdleFields DEF Crash, NoneComes
  <1>4. CASE Restart \/ Tick \/ UNCHANGED vars
    BY <1>4 DEF Restart, Tick, vars, NoneComes
  <1>5. QED
    BY <1>1, <1>2, <1>3, <1>4, NoneComesStep, Zenon DEF Next

\* The notification begins to exist by its creation alone.
LEMMA CreatedByCreate ==
  ASSUME NotificationInv, [Next]_vars, ~notice.exists, notice'.exists
  PROVE \E p \in Procs : Create(p)
  <1> USE DEF NotificationInv
  <1>1. notice' # notice
    OBVIOUS
  <1>2. ~Tick
    BY DEF Tick, TypeOK, Notice
  <1>3. ASSUME NEW p \in Procs, Store(p) \/ DeleteNotice(p)
        PROVE FALSE
    BY <1>1, <1>3, NoNoticeFields DEF Store, VersionMatches, DeleteNotice
  <1>4. ~Crash /\ ~Restart /\ ~UNCHANGED vars
    BY <1>1 DEF Crash, Restart, vars
  <1>5. ASSUME NEW p \in Procs, StartNotify(p) \/ StartChange(p) \/ StartRetry(p) \/ StartRecover(p) \/ StartDelete(p)
                                \/ Work(p) \/ Throw(p)
        PROVE FALSE
    BY <1>1, <1>5, Zenon DEF StartNotify, StartChange, StartRetry, StartRecover, StartDelete, Operate, Work, StartInitial,
                             StartJob, Throw
  <1>6. ASSUME NEW p \in Procs, Step(p)
        PROVE Create(p)
    BY <1>1, <1>3, <1>6, Zenon
    DEF Step, AuditCreated, DispatchPending, ReadDelivery, ReadNotice, Claim, Deliver, Finish, Schedule, Audit,
        ListDeliveries, Load, RetryFailed, RetryNow, RecoverDeliveries, DeleteDeliveries
  <1>7. QED
    BY <1>2, <1>4, <1>5, <1>6, Zenon DEF Next

\* A creation before anything has happened is quiet.
LEMMA EarlyIsQuiet ==
  ASSUME NotificationInv, EarlyInv, [Next]_vars
  PROVE [QuietCreate]_vars
  <1>1. ASSUME ~notice.exists, notice'.exists
        PROVE \A p \in Procs : proc[p].pc \notin Attempting \union Changing \union {"remove"}
    <2>1. PICK p \in Procs : Create(p)
      BY <1>1, CreatedByCreate
    <2>2. Early
      BY <1>1, <2>1 DEF Create, EarlyInv, Reusable
    <2>3. QED
      BY <2>2 DEF Early, Attempting, Changing
  <1>2. QED
    BY <1>1 DEF QuietCreate

LEMMA ReusableKept ==
  ASSUME NotificationInv, [Next]_vars, ~Reusable PROVE ~Reusable'
  <1>1. ASSUME NEW p \in Procs, StartNotify(p)
        PROVE FALSE
    BY <1>1 DEF StartNotify, Reusable
  <1>2. NoneComes
    BY <1>1, NoneComesNext
  <1>3. QED
    BY <1>2 DEF NoneComes, Reusable

\* A queue with no job and nothing asked for stays so as long as nothing is dispatched.
LEMMA EarlyNext ==
  ASSUME NotificationInv, EarlyInv, [Next]_vars, [NotReused]_vars
  PROVE EarlyInv'
  <1> USE DEF NotificationInv
  <1> SUFFICES ASSUME ~notice'.exists, Reusable'
               PROVE Early'
    BY DEF EarlyInv
  <1>1. Reusable /\ ~notice.exists
    BY ReusableKept DEF NotReused, vars
  <1>2. Early
    BY <1>1 DEF EarlyInv
  <1>3. TypeOK /\ notice = NoNotice /\ NoDeliveries /\ 0 \in 0..Backoff
    BY <1>1, NotificationsAssumption DEF DeletedInv
  <1>4. CASE UNCHANGED vars
    BY <1>2, <1>4 DEF Early, vars
  <1>5. ASSUME NEW p \in Procs, StartNotify(p)
        PROVE Early'
    <2>1. proc' = [proc EXCEPT ![p] = [proc[p] EXCEPT !.pc = "create"]] /\ UNCHANGED <<notice, jobs, asked>>
      BY <1>5, WentTo DEF StartNotify
    <2>2. PICK k \in Proc : k = [proc[p] EXCEPT !.pc = "create"] /\ k.pc = "create" /\ k.mode = proc[p].mode
      <3>1. proc[p] \in Proc /\ "create" \in Places
        BY <1>3 DEF TypeOK, Places
      <3>2. QED
        BY <3>1, Turned
    <2>3. proc'[p] = k /\ \A r \in Procs : r # p => proc'[r] = proc[r]
      BY <1>3, <2>1, <2>2 DEF TypeOK
    <2>4. QED
      BY <1>2, <2>1, <2>2, <2>3 DEF Early
  <1>6. ASSUME NEW p \in Procs, Throw(p)
        PROVE Early'
    <2>1. proc' = [proc EXCEPT ![p] = Idle] /\ UNCHANGED <<notice, jobs, asked>>
      BY <1>2, <1>6, WentTo DEF Throw, Early, Rerun
    <2>2. proc'[p] = Idle /\ \A r \in Procs : r # p => proc'[r] = proc[r]
      BY <1>3, <2>1 DEF TypeOK
    <2>3. QED
      BY <1>2, <2>1, <2>2, IdleFields DEF Early
  <1>7. ASSUME NEW p \in Procs, StartChange(p) \/ StartRetry(p) \/ StartRecover(p) \/ StartDelete(p)
        PROVE FALSE
    BY <1>1, <1>7, Zenon DEF StartChange, StartRetry, StartRecover, StartDelete, Operate
  <1>8. ASSUME NEW p \in Procs, Work(p)
        PROVE FALSE
    BY <1>2, <1>3, <1>8 DEF Work, StartInitial, StartJob, Early
  <1>9. ASSUME NEW p \in Procs, Step(p)
        PROVE FALSE
    <2>1. proc[p].pc \in {"idle", "create"}
      BY <1>2 DEF Early
    <2>2. ~Create(p)
      BY <1>1 DEF Create, NoNotice
    <2>3. QED
      BY <1>9, <2>1, <2>2
      DEF Step, AuditCreated, DispatchPending, ReadDelivery, ReadNotice, Claim, Deliver, Finish, Schedule, Audit,
          ListDeliveries, Load, Store, RetryFailed, RetryNow, RecoverDeliveries, DeleteDeliveries, DeleteNotice
  <1>10. CASE Crash
    <2>1. ASSUME NEW ch \in Channels
          PROVE jobs'[ch] = jobs[ch]
      <3>1. {p \in Procs : proc[p].pc # "idle" /\ proc[p].mode = "scheduled" /\ proc[p].ch = ch} = {}
        BY <1>2 DEF Early
      <3>2. jobs'[ch] = [jobs[ch] EXCEPT ![0] = jobs[ch][0] + Cardinality({})]
        BY <1>10, <3>1 DEF Crash
      <3>3. Cardinality({}) = 0 /\ jobs[ch] \in [0..Backoff -> Nat]
        BY <1>3, FS_EmptySet DEF TypeOK
      <3>4. QED
        BY <1>3, <3>2, <3>3
    <2>2. QED
      <3>1. /\ ~notice'.exists
            /\ \A ch \in Channels : asked'[ch] = 0
            /\ \A p \in Procs : proc'[p].pc = "idle" /\ proc'[p].mode = "initial"
        BY <1>1, <1>10, IdleFields DEF Crash
      <3>2. QED
        BY <1>2, <2>1, <3>1 DEF Early
  <1>11. CASE Restart
    <2>1. Recoverable = {}
      BY <1>3 DEF Recoverable, NoDeliveries
    <2>2. Dispatch({}) /\ UNCHANGED <<notice, proc>>
      BY <1>11, <2>1 DEF Restart
    <2>3. jobs' = jobs /\ asked' = asked
      BY <1>3, <2>2 DEF Dispatch, TypeOK
    <2>4. QED
      BY <1>2, <2>2, <2>3 DEF Early
  <1>12. CASE Tick
    <2>1. ASSUME NEW ch \in Channels, NEW t \in 0..Backoff
          PROVE jobs'[ch][t] = 0
      <3>1. Backoff \in Nat /\ \A u \in 0..Backoff : jobs[ch][u] = 0
        BY <1>2, NotificationsAssumption DEF Early
      <3>2. jobs'[ch][t] = (IF t = 0 THEN jobs[ch][0] ELSE 0) + (IF t < Backoff THEN jobs[ch][t + 1] ELSE 0)
        BY <1>12 DEF Tick
      <3>3. QED
        BY <3>1, <3>2
    <2>2. QED
      BY <1>2, <1>12, <2>1 DEF Early, Tick
  <1>13. QED
    BY <1>4, <1>5, <1>6, <1>7, <1>8, <1>9, <1>10, <1>11, <1>12, Zenon DEF Next

LEMMA OnceNext ==
  ASSUME NotificationInv, OnceInv, [Next]_vars, MaxNotifies <= 1
  PROVE OnceInv' /\ [NotReused]_vars
  <1> USE DEF NotificationInv
  <1>1. notifies \in Nat /\ MaxNotifies \in Nat /\ notifies <= MaxNotifies
    BY NotificationsAssumption DEF TypeOK
  <1>2. [NotReused]_vars
    BY ReusableKept DEF OnceInv, NotReused
  <1>3. ASSUME NEW p \in Procs, StartNotify(p)
        PROVE OnceInv'
    <2>1. notifies = 0 /\ MaxNotifies = 1 /\ notifies' = 1 /\ notice' = notice
      BY <1>1, <1>3 DEF StartNotify
    <2>2. ~notice.exists /\ \A r \in Procs : proc[r].pc # "create"
      BY <2>1 DEF OnceInv, Reusable
    <2>3. \A r \in Procs : r # p => proc'[r] = proc[r]
      BY <1>3 DEF StartNotify, Goto, TypeOK
    <2>4. QED
      BY <2>1, <2>2, <2>3 DEF OnceInv, Reusable
  <1>4. CASE NoneComes
    <2>1. /\ notifies' < MaxNotifies => \A p \in Procs : proc'[p].pc # "create"
          /\ \A p, r \in Procs : proc'[p].pc = "create" /\ proc'[r].pc = "create" => p = r
      BY <1>4 DEF OnceInv, NoneComes
    <2>2. ASSUME notice'.exists
          PROVE ~Reusable'
      <3>1. CASE notice.exists
        BY <3>1, ReusableKept DEF OnceInv
      <3>2. CASE ~notice.exists
        <4>1. PICK p \in Procs : Create(p)
          BY <2>2, <3>2, CreatedByCreate
        <4>2. Goto(p, "created") /\ proc[p].pc = "create" /\ notifies' = notifies
          BY <3>2, <4>1 DEF Create
        <4>3. proc'[p].pc = "created" /\ \A r \in Procs : r # p => proc'[r] = proc[r]
          BY <4>2 DEF Goto, TypeOK, Proc
        <4>4. \A r \in Procs : proc'[r].pc # "create"
          BY <4>2, <4>3 DEF OnceInv
        <4>5. ~(notifies' < MaxNotifies)
          BY <4>2 DEF OnceInv
        <4>6. QED
          BY <4>4, <4>5 DEF Reusable
      <3>3. QED
        BY <3>1, <3>2
    <2>3. QED
      BY <1>2, <2>1, <2>2 DEF OnceInv, Reusable
  <1>5. QED
    BY <1>2, <1>3, <1>4, NoneComesNext

LEMMA OnceInit == ASSUME Init PROVE EarlyInv /\ OnceInv
  BY IdleFields, NoNoticeFields DEF Init, EarlyInv, Early, OnceInv, Reusable

\* Identifiers are derived from the idempotency key only if there is one (notify).  As long as
\* no call of notify uses the identifier of a deleted notification again, creations are quiet, and what
\* NotificationSound and DeliveriesHold say holds: the hypothesis of the theorems above follows.
THEOREM QuietUnlessReused == Spec /\ [][NotReused]_vars => []NotificationInv /\ [][QuietCreate]_vars
  <1>1. Init => NotificationInv /\ EarlyInv
    BY NotificationInit, OnceInit
  <1>2. NotificationInv /\ EarlyInv /\ [Next]_vars /\ [NotReused]_vars =>
          NotificationInv' /\ EarlyInv' /\ [QuietCreate]_vars
    BY NotificationNext, EarlyNext, EarlyIsQuiet
  <1>3. QED
    BY <1>1, <1>2, PTL DEF Spec

\* A notification that one call of notify makes: whatever its channels, attempts, clients, stops
\* and deletion do, its deliveries are carried on, it says what they say, and nothing is undone.
THEOREM OneNotifyIsSound ==
  ASSUME MaxNotifies <= 1
  PROVE Spec => []NotificationSound /\ DeliveriesHold
  <1>1. Init => NotificationInv /\ EarlyInv /\ OnceInv
    BY NotificationInit, OnceInit
  <1>2. NotificationInv /\ EarlyInv /\ OnceInv /\ [Next]_vars =>
          NotificationInv' /\ EarlyInv' /\ OnceInv' /\ [QuietCreate]_vars
    BY NotificationNext, EarlyNext, OnceNext, EarlyIsQuiet
  <1>3. Spec => [][QuietCreate]_vars
    BY <1>1, <1>2, PTL DEF Spec
  <1>4. QED
    BY <1>3, NotificationSoundAlways, DeliveriesHoldAlways, PTL
=============================================================================
