--------------------------- MODULE SchedulesProofs ---------------------------
(***************************************************************************)
(* Proofs about Schedules, for any number of schedules, processors and     *)
(* callers, any interval and any values of the bounds.                     *)
(***************************************************************************)
EXTENDS Schedules, FiniteSetTheorems, TLAPS

-----------------------------------------------------------------------------
(* The inductive invariant *)

\* A schedule has a version once it exists.
VersionsBegin == \A s \in ScheduleIds : schedules[s].version = 0 <=> schedules[s].status = "absent"

\* What a processor has listed was read earlier: no version on a list is ahead
\* of its schedule.
ListedBehind ==
  \A p \in Processors, s \in ScheduleIds :
    listed[p][s] <= schedules[s].version /\ listed[p][s] < MaxVersion

\* Nor is the version of the schedule a processor works on, which is off its list.
TargetBehind ==
  \A p \in Processors : pc[p] # "idle" =>
    /\ target[p].schedule \in ScheduleIds
    /\ target[p].version \in 1..MaxVersion /\ target[p].version < MaxVersion
    /\ target[p].version <= schedules[target[p].schedule].version
    /\ listed[p][target[p].schedule] = 0

\* A caller that waits for schedules.cancel has read a schedule.
AskedThere ==
  \A c \in Callers : asked[c] # Nothing => asked[c].schedule \in ScheduleIds /\ asked[c].version > 0

\* A processor about to move a schedule on has created the job of the due time.
CreatedFirst ==
  \A p \in Processors : pc[p] = "advance" => created[target[p].schedule][target[p].version] > 0

Base == TypeOK /\ VersionsBegin /\ ListedBehind /\ TargetBehind /\ AskedThere /\ CreatedFirst

At(p, where, s, v) == pc[p] = where /\ target[p].schedule = s /\ target[p].version = v

\* The processors that may yet create a job for version v of s: they have it on
\* their list or in hand, or, as long as the schedule has not gone past it, may
\* still list it.  One that has created its job and waits to move the schedule
\* on is not among them, nor will be: its write ends the version or finds it ended.
MayCreate(s, v) ==
  {p \in Processors :
     \/ listed[p][s] = v
     \/ At(p, "create", s, v)
     \/ schedules[s].version <= v /\ ~At(p, "advance", s, v)}

\* Jobs created and jobs that may yet be: a crash alone can add to them.
CreationsBudgeted ==
  \A s \in ScheduleIds, v \in 1..MaxVersion :
    created[s][v] + Cardinality(MayCreate(s, v)) <= Cardinality(Processors) + crashes

SchedulesInv == Base /\ NoRunSkipped /\ CreationsBudgeted

-----------------------------------------------------------------------------
(* What is held, and by whom *)

\* Nobody holds anything of schedules that do not exist yet.
LEMMA InitBase == Init => Base
  BY SchedulesAssumption
  DEF Init, Base, TypeOK, VersionsBegin, ListedBehind, TargetBehind, AskedThere, CreatedFirst, Schedule, Held, Nothing

\* A schedule that is moved on, or disabled, is a schedule one version up.
LEMMA MovedOnFields ==
  ASSUME NEW r \in Schedule, NEW n \in Nat
  PROVE  /\ [r EXCEPT !.nextRunAt = n, !.version = @ + 1] \in Schedule
         /\ [r EXCEPT !.nextRunAt = n, !.version = @ + 1].status = r.status
         /\ [r EXCEPT !.nextRunAt = n, !.version = @ + 1].version = r.version + 1
  <1>1. PICK v \in Nat : v = r.version + 1
    BY DEF Schedule
  <1>2. [r EXCEPT !.nextRunAt = n, !.version = @ + 1] = [r EXCEPT !.nextRunAt = n, !.version = v]
    BY <1>1
  <1>3. QED
    BY <1>1, <1>2 DEF Schedule

\* The same for disableSchedule.
LEMMA DisabledFields ==
  ASSUME NEW r \in Schedule
  PROVE  /\ [r EXCEPT !.status = "disabled", !.version = @ + 1] \in Schedule
         /\ [r EXCEPT !.status = "disabled", !.version = @ + 1].status = "disabled"
         /\ [r EXCEPT !.status = "disabled", !.version = @ + 1].version = r.version + 1
  <1>1. PICK v \in Nat : v = r.version + 1
    BY DEF Schedule
  <1>2. [r EXCEPT !.status = "disabled", !.version = @ + 1] = [r EXCEPT !.status = "disabled", !.version = v]
    BY <1>1
  <1>3. QED
    BY <1>1, <1>2 DEF Schedule

\* One record is replaced by one of a later version, and the schedule exists.
LEMMA ReplaceGrows ==
  ASSUME Base, NEW s \in ScheduleIds, NEW new \in Schedule,
         schedules' = [schedules EXCEPT ![s] = new],
         new.status # "absent", new.version > schedules[s].version
  PROVE  /\ schedules' \in [ScheduleIds -> Schedule]
         /\ \A u \in ScheduleIds : schedules[u].version <= schedules'[u].version
         /\ VersionsBegin'
  BY DEF Base, TypeOK, VersionsBegin, Schedule

\* The versions of schedules only grow.
LEMMA VersionsGrow ==
  ASSUME Base, [Next]_vars
  PROVE  /\ schedules' \in [ScheduleIds -> Schedule]
         /\ \A u \in ScheduleIds : schedules[u].version <= schedules'[u].version
         /\ VersionsBegin'
  <1>1. ASSUME NEW s \in ScheduleIds, CreateSchedule(s)
        PROVE  /\ schedules' \in [ScheduleIds -> Schedule]
               /\ \A u \in ScheduleIds : schedules[u].version <= schedules'[u].version
               /\ VersionsBegin'
    <2> DEFINE new == [status |-> "enabled", nextRunAt |-> Interval, version |-> 1]
    <2>1. new \in Schedule /\ new.status # "absent" /\ new.version = 1
      BY SchedulesAssumption DEF Schedule
    <2>2. schedules[s].version = 0 /\ schedules' = [schedules EXCEPT ![s] = new]
      BY <1>1 DEF CreateSchedule, Base, VersionsBegin
    <2> HIDE DEF new
    <2>3. new.version > schedules[s].version
      BY <2>1, <2>2
    <2>4. QED
      BY <2>1, <2>2, <2>3, ReplaceGrows
  <1>2. ASSUME NEW p \in Processors, Advance(p)
        PROVE  /\ schedules' \in [ScheduleIds -> Schedule]
               /\ \A u \in ScheduleIds : schedules[u].version <= schedules'[u].version
               /\ VersionsBegin'
    <2> DEFINE s == target[p].schedule
               new == [schedules[s] EXCEPT !.nextRunAt = left[p], !.version = @ + 1]
    <2>1. s \in ScheduleIds /\ left[p] \in Nat /\ schedules[s] \in Schedule
      BY <1>2 DEF Advance, Base, TypeOK
    <2>2. schedules[s].version \in Nat /\ schedules[s].version > 0
      <3>1. target[p].version \in 1..MaxVersion /\ target[p].version <= schedules[s].version
        BY <1>2 DEF Advance, Base, TargetBehind
      <3>2. schedules[s].version \in Nat
        BY <2>1 DEF Schedule
      <3>3. QED
        BY <3>1, <3>2, SchedulesAssumption
    <2>3. schedules[s].status # "absent"
      BY <2>1, <2>2 DEF Base, VersionsBegin
    <2>4. schedules' = schedules \/ schedules' = [schedules EXCEPT ![s] = new]
      BY <1>2, <2>1 DEF Advance, Base, TypeOK
    <2>5. new \in Schedule /\ new.status = schedules[s].status /\ new.version = schedules[s].version + 1
      BY <2>1, MovedOnFields
    <2> HIDE DEF new, s
    <2>6. new.version > schedules[s].version /\ new.status # "absent"
      BY <2>2, <2>3, <2>5
    <2>7. CASE schedules' = schedules
      BY <2>7 DEF Base, TypeOK, VersionsBegin, Schedule
    <2>8. CASE schedules' = [schedules EXCEPT ![s] = new]
      BY <2>1, <2>8, <2>5, <2>6, ReplaceGrows
    <2>9. QED
      BY <2>4, <2>7, <2>8
  <1>3. ASSUME NEW c \in Callers, DisableSchedule(c)
        PROVE  /\ schedules' \in [ScheduleIds -> Schedule]
               /\ \A u \in ScheduleIds : schedules[u].version <= schedules'[u].version
               /\ VersionsBegin'
    <2> DEFINE s == asked[c].schedule
               new == [schedules[s] EXCEPT !.status = "disabled", !.version = @ + 1]
    <2>1. s \in ScheduleIds /\ schedules[s] \in Schedule
      BY <1>3 DEF DisableSchedule, Base, TypeOK, AskedThere
    <2>2. new \in Schedule /\ new.status = "disabled" /\ new.version = schedules[s].version + 1
      BY <2>1, DisabledFields
    <2>3. schedules' = schedules \/ schedules' = [schedules EXCEPT ![s] = new]
      BY <1>3, <2>1 DEF DisableSchedule, Base, TypeOK
    <2>4. schedules[s].version \in Nat
      BY <2>1 DEF Schedule
    <2> HIDE DEF new, s
    <2>5. new.version > schedules[s].version
      BY <2>2, <2>4
    <2>6. CASE schedules' = schedules
      BY <2>6 DEF Base, TypeOK, VersionsBegin, Schedule
    <2>7. CASE schedules' = [schedules EXCEPT ![s] = new]
      BY <2>1, <2>2, <2>7, <2>5, ReplaceGrows
    <2>8. QED
      BY <2>3, <2>6, <2>7
  <1>4. CASE Tick
    <2>1. schedules' = [s \in ScheduleIds |-> [schedules[s] EXCEPT !.nextRunAt = Less(schedules[s].nextRunAt)]]
      BY <1>4 DEF Tick
    <2>2. ASSUME NEW s \in ScheduleIds
          PROVE  /\ schedules'[s] \in Schedule
                 /\ schedules'[s].status = schedules[s].status
                 /\ schedules'[s].version = schedules[s].version
      <3>1. PICK n \in Nat : n = Less(schedules[s].nextRunAt)
        BY DEF Base, TypeOK, Schedule, Less
      <3>2. schedules'[s] = [schedules[s] EXCEPT !.nextRunAt = n] /\ schedules[s] \in Schedule
        BY <2>1, <3>1 DEF Base, TypeOK
      <3>3. QED
        BY <3>1, <3>2 DEF Schedule
    <2>3. schedules' \in [ScheduleIds -> Schedule]
      BY <2>1, <2>2
    <2>4. \A u \in ScheduleIds : schedules[u].version \in Nat
      BY DEF Base, TypeOK, Schedule
    <2>5. QED
      BY <2>2, <2>3, <2>4 DEF Base, VersionsBegin
  <1>5. CASE UNCHANGED schedules
    BY <1>5 DEF Base, TypeOK, VersionsBegin, Schedule
  <1>6. QED
    BY <1>1, <1>2, <1>3, <1>4, <1>5
    DEF Next, Process, ListDue, Take, CreateJob, Crash, RequestDisable, RefuseDisable, vars

\* The schedules may have gone on; whoever does not move holds what it held.
LEMMA OthersHold ==
  ASSUME Base, [Next]_vars
  PROVE  /\ \A p \in Processors, s \in ScheduleIds : listed[p][s] <= schedules'[s].version
         /\ \A p \in Processors : pc[p] # "idle" => target[p].version <= schedules'[target[p].schedule].version
  <1>1. \A u \in ScheduleIds : schedules[u].version \in Nat /\ schedules'[u].version \in Nat
    BY VersionsGrow DEF Base, TypeOK, Schedule
  <1>2. \A p \in Processors, s \in ScheduleIds : listed[p][s] \in Nat
    BY DEF Base, TypeOK
  <1>3. \A p \in Processors : pc[p] # "idle" => target[p].version \in Nat
    BY DEF Base, TypeOK, Held
  <1>4. QED
    BY <1>1, <1>2, <1>3, VersionsGrow DEF Base, ListedBehind, TargetBehind

\* When no processor moves, all of them hold what they held.
LEMMA ProcessorsHold ==
  ASSUME Base, [Next]_vars, UNCHANGED <<pc, listed, target, created>>
  PROVE  (ListedBehind /\ TargetBehind /\ CreatedFirst)'
  <1>1. ListedBehind'
    BY OthersHold DEF Base, ListedBehind
  <1>2. TargetBehind'
    BY OthersHold DEF Base, TargetBehind
  <1>3. CreatedFirst'
    BY DEF Base, CreatedFirst
  <1>4. QED
    BY <1>1, <1>2, <1>3

\* Creation, time and the callers.
LEMMA ClientsKeepBase ==
  ASSUME Base, [Next]_vars,
         \/ \E s \in ScheduleIds : CreateSchedule(s)
         \/ \E c \in Callers, s \in ScheduleIds : RequestDisable(c, s)
         \/ \E c \in Callers : DisableSchedule(c) \/ RefuseDisable(c)
         \/ Tick
  PROVE  Base'
  <1>1. UNCHANGED <<pc, listed, target, crashes, created, advanced>>
    BY DEF CreateSchedule, RequestDisable, DisableSchedule, RefuseDisable, Tick
  <1>2. left' \in [Processors -> Nat]
    <2>1. CASE Tick
      <3>1. \A p \in Processors : Less(left[p]) \in Nat
        BY DEF Base, TypeOK, Less
      <3>2. QED
        BY <2>1, <3>1 DEF Tick
    <2>2. CASE UNCHANGED left
      BY <2>2 DEF Base, TypeOK
    <2>3. QED
      BY <2>1, <2>2 DEF CreateSchedule, RequestDisable, DisableSchedule, RefuseDisable
  <1>3. asked' \in [Callers -> Held] /\ disables' \in 0..MaxDisables /\ AskedThere'
    <2>1. ASSUME NEW c \in Callers, NEW s \in ScheduleIds, RequestDisable(c, s)
          PROVE  asked' \in [Callers -> Held] /\ disables' \in 0..MaxDisables /\ AskedThere'
      <3>1. PICK v \in Nat : v = schedules[s].version /\ v > 0
        BY <2>1 DEF RequestDisable, Base, TypeOK, Schedule, VersionsBegin
      <3>2. asked' = [asked EXCEPT ![c] = [schedule |-> s, version |-> v]]
        BY <2>1, <3>1 DEF RequestDisable
      <3>3. asked' \in [Callers -> Held]
        BY <3>2 DEF Base, TypeOK, Held
      <3>4. AskedThere'
        BY <3>1, <3>2 DEF Base, TypeOK, AskedThere, Nothing
      <3>5. disables' \in 0..MaxDisables
        BY <2>1, SchedulesAssumption DEF RequestDisable, Base, TypeOK
      <3>6. QED
        BY <3>3, <3>4, <3>5
    <2>2. ASSUME NEW c \in Callers, asked' = [asked EXCEPT ![c] = Nothing], disables' = disables
          PROVE  asked' \in [Callers -> Held] /\ disables' \in 0..MaxDisables /\ AskedThere'
      BY <2>2 DEF Base, TypeOK, Held, AskedThere, Nothing
    <2>3. CASE UNCHANGED <<asked, disables>>
      BY <2>3 DEF Base, TypeOK, AskedThere
    <2>4. QED
      BY <2>1, <2>2, <2>3 DEF CreateSchedule, DisableSchedule, RefuseDisable, Tick
  <1>4. TypeOK'
    BY <1>1, <1>2, <1>3, VersionsGrow DEF Base, TypeOK
  <1>5. QED
    BY <1>1, <1>3, <1>4, VersionsGrow, ProcessorsHold DEF Base

\* CreateJob adds one job to the version it works on.
LEMMA CreateJobCounts ==
  ASSUME Base, NEW p \in Processors, CreateJob(p)
  PROVE  /\ target[p].schedule \in ScheduleIds /\ target[p].version \in 1..MaxVersion
         /\ created' \in [ScheduleIds -> [1..MaxVersion -> Nat]]
         /\ \A u \in ScheduleIds, w \in 1..MaxVersion :
              created'[u][w] = IF u = target[p].schedule /\ w = target[p].version
                                 THEN created[u][w] + 1 ELSE created[u][w]
  <1> DEFINE s == target[p].schedule
             v == target[p].version
  <1>1. pc[p] = "create" /\ created' = [created EXCEPT ![s][v] = @ + 1]
    BY DEF CreateJob
  <1>2. s \in ScheduleIds /\ v \in 1..MaxVersion
    BY <1>1 DEF Base, TargetBehind
  <1> HIDE DEF s, v
  <1>3. created \in [ScheduleIds -> [1..MaxVersion -> Nat]]
    BY DEF Base, TypeOK
  <1>4. \A u \in ScheduleIds, w \in 1..MaxVersion : created[u][w] \in Nat
    BY <1>3
  <1>5. PICK n \in Nat : n = created[s][v] + 1
    BY <1>2, <1>4
  <1>6. created' = [created EXCEPT ![s][v] = n]
    BY <1>1, <1>2, <1>3, <1>5
  <1>7. created' \in [ScheduleIds -> [1..MaxVersion -> Nat]]
    BY <1>3, <1>6
  <1>8. \A u \in ScheduleIds, w \in 1..MaxVersion :
          created'[u][w] = IF u = s /\ w = v THEN n ELSE created[u][w]
    BY <1>2, <1>3, <1>6
  <1>9. QED
    BY <1>2, <1>5, <1>7, <1>8 DEF s, v

\* A processor lists, takes, creates, moves on or stops.
LEMMA ProcessorsKeepBase ==
  ASSUME Base, [Next]_vars, NEW p \in Processors, Process(p) \/ Crash(p)
  PROVE  Base'
  <1>1. UNCHANGED <<asked, disables>>
    BY DEF Process, ListDue, Take, CreateJob, Advance, Crash
  <1>2. AskedThere'
    BY <1>1 DEF Base, AskedThere
  <1>3. schedules' \in [ScheduleIds -> Schedule] /\ VersionsBegin'
    BY VersionsGrow
  <1>4. CASE ListDue(p)
    <2>1. /\ pc[p] = "idle"
          /\ listed' = [listed EXCEPT ![p] =
                          [s \in ScheduleIds |-> IF s \in DueSchedules THEN schedules[s].version ELSE 0]]
          /\ left' = [left EXCEPT ![p] = Interval]
          /\ UNCHANGED <<schedules, pc, target, crashes, created, advanced>>
      BY <1>4 DEF ListDue
    <2>2. \A s \in ScheduleIds : schedules[s].version \in Nat
      BY DEF Base, TypeOK, Schedule
    <2>3. ListedBehind'
      BY <2>1, <2>2, SchedulesAssumption DEF Base, TypeOK, ListedBehind, DueSchedules
    <2>4. TypeOK'
      BY <1>1, <2>1, <2>2, SchedulesAssumption DEF Base, TypeOK
    <2>5. TargetBehind' /\ CreatedFirst'
      BY <2>1 DEF Base, TypeOK, TargetBehind, CreatedFirst
    <2>6. QED
      BY <1>2, <1>3, <2>3, <2>4, <2>5 DEF Base
  <1>5. ASSUME NEW s \in ScheduleIds, Take(p, s)
        PROVE  Base'
    <2>1. PICK v \in Nat : v = listed[p][s] /\ v > 0 /\ v < MaxVersion /\ v <= schedules[s].version
      BY <1>5 DEF Take, Base, TypeOK, ListedBehind
    <2>2. /\ pc' = [pc EXCEPT ![p] = "create"]
          /\ target' = [target EXCEPT ![p] = [schedule |-> s, version |-> v]]
          /\ listed' = [listed EXCEPT ![p][s] = 0]
          /\ UNCHANGED <<schedules, left, crashes, created, advanced>>
      BY <1>5, <2>1 DEF Take
    <2>3. listed' \in [Processors -> [ScheduleIds -> Nat]]
      BY <2>2 DEF Base, TypeOK
    <2>4. \A q \in Processors, u \in ScheduleIds :
            listed'[q][u] = IF q = p /\ u = s THEN 0 ELSE listed[q][u]
      BY <2>2 DEF Base, TypeOK
    <2>5. \A q \in Processors :
            target'[q] = IF q = p THEN [schedule |-> s, version |-> v] ELSE target[q]
      BY <2>2 DEF Base, TypeOK
    <2>6. TypeOK'
      <3>1. target' \in [Processors -> Held]
        BY <2>2 DEF Base, TypeOK, Held
      <3>2. \A q \in Processors : pc'[q] # "idle" => target'[q].schedule \in ScheduleIds
        BY <2>2, <2>5 DEF Base, TypeOK
      <3>3. QED
        BY <1>1, <1>3, <2>2, <2>3, <3>1, <3>2 DEF Base, TypeOK
    <2>7. ListedBehind'
      <3>1. \A u \in ScheduleIds : schedules[u].version \in Nat
        BY DEF Base, TypeOK, Schedule
      <3>2. QED
        BY <2>2, <2>4, <3>1, SchedulesAssumption DEF Base, ListedBehind
    <2>8. TargetBehind'
      <3> SUFFICES ASSUME NEW q \in Processors, pc'[q] # "idle"
                   PROVE  /\ target'[q].schedule \in ScheduleIds
                          /\ target'[q].version \in 1..MaxVersion /\ target'[q].version < MaxVersion
                          /\ target'[q].version <= schedules'[target'[q].schedule].version
                          /\ listed'[q][target'[q].schedule] = 0
        BY DEF TargetBehind
      <3>1. CASE q = p
        <4>1. target'[q].schedule = s /\ target'[q].version = v
          BY <2>5, <3>1
        <4>2. v \in 1..MaxVersion
          BY <2>1, SchedulesAssumption
        <4>3. QED
          BY <2>1, <2>2, <2>4, <3>1, <4>1, <4>2
      <3>2. CASE q # p
        <4>1. pc[q] # "idle" /\ target'[q] = target[q]
          BY <2>2, <2>5, <3>2 DEF Base, TypeOK
        <4>2. target[q].schedule \in ScheduleIds
          BY <4>1 DEF Base, TargetBehind
        <4>3. listed'[q][target[q].schedule] = listed[q][target[q].schedule]
          BY <2>4, <3>2, <4>2
        <4>4. QED
          BY <2>2, <4>1, <4>3 DEF Base, TargetBehind
      <3>3. QED
        BY <3>1, <3>2
    <2>9. CreatedFirst'
      BY <2>2, <2>5 DEF Base, TypeOK, CreatedFirst
    <2>10. QED
      BY <1>2, <1>3, <2>6, <2>7, <2>8, <2>9 DEF Base
  <1>6. CASE CreateJob(p)
    <2>1. /\ pc' = [pc EXCEPT ![p] = "advance"] /\ pc[p] = "create"
          /\ UNCHANGED <<schedules, listed, target, left, crashes, advanced>>
      BY <1>6 DEF CreateJob
    <2>2. \A u \in ScheduleIds, w \in 1..MaxVersion : created[u][w] \in Nat
      BY DEF Base, TypeOK
    <2>3. /\ created' \in [ScheduleIds -> [1..MaxVersion -> Nat]]
          /\ created'[target[p].schedule][target[p].version] > 0
          /\ \A u \in ScheduleIds, w \in 1..MaxVersion : created'[u][w] >= created[u][w]
      <3>1. \A u \in ScheduleIds, w \in 1..MaxVersion :
              created'[u][w] = IF u = target[p].schedule /\ w = target[p].version
                                 THEN created[u][w] + 1 ELSE created[u][w]
        BY <1>6, CreateJobCounts
      <3>2. target[p].schedule \in ScheduleIds /\ target[p].version \in 1..MaxVersion
        BY <1>6, CreateJobCounts
      <3>3. created'[target[p].schedule][target[p].version] > 0
        BY <2>2, <3>1, <3>2
      <3>4. \A u \in ScheduleIds, w \in 1..MaxVersion : created'[u][w] >= created[u][w]
        BY <2>2, <3>1
      <3>5. QED
        BY <1>6, <3>3, <3>4, CreateJobCounts
    <2>4. TypeOK'
      BY <1>1, <2>1, <2>3 DEF Base, TypeOK
    <2>5. ListedBehind' /\ TargetBehind'
      BY <2>1 DEF Base, TypeOK, ListedBehind, TargetBehind
    <2>6. ASSUME NEW q \in Processors, pc'[q] = "advance"
          PROVE  created'[target'[q].schedule][target'[q].version] > 0
      <3>1. CASE q = p
        BY <2>1, <2>3, <3>1
      <3>2. CASE q # p
        <4>1. pc[q] = "advance"
          BY <2>1, <2>6, <3>2 DEF Base, TypeOK
        <4>2. /\ target[q].schedule \in ScheduleIds /\ target[q].version \in 1..MaxVersion
              /\ created[target[q].schedule][target[q].version] > 0
          BY <4>1 DEF Base, TargetBehind, CreatedFirst
        <4>3. /\ created[target[q].schedule][target[q].version] \in Nat
              /\ created'[target[q].schedule][target[q].version] \in Nat
          BY <2>3, <4>2 DEF Base, TypeOK
        <4>4. QED
          BY <2>1, <2>3, <4>2, <4>3
      <3>3. QED
        BY <3>1, <3>2
    <2>7. QED
      BY <1>2, <1>3, <2>4, <2>5, <2>6 DEF Base, CreatedFirst
  <1>7. CASE Advance(p)
    <2>1. /\ pc' = [pc EXCEPT ![p] = "idle"] /\ pc[p] = "advance"
          /\ target' = [target EXCEPT ![p] = Nothing]
          /\ UNCHANGED <<listed, left, crashes, created>>
      BY <1>7 DEF Advance
    <2>2. advanced' \in [ScheduleIds -> Nat]
      <3>1. advanced \in [ScheduleIds -> Nat]
        BY DEF Base, TypeOK
      <3>2. advanced' = advanced \/ \E s : advanced' = [advanced EXCEPT ![s] = @ + 1]
        BY <1>7 DEF Advance
      <3>3. QED
        BY <3>1, <3>2
    <2>3. TypeOK'
      BY <1>1, <1>3, <2>1, <2>2 DEF Base, TypeOK, Held, Nothing
    <2>4. ListedBehind'
      BY <2>1, OthersHold DEF Base, ListedBehind
    <2>5. TargetBehind'
      BY <2>1, OthersHold DEF Base, TypeOK, TargetBehind
    <2>6. CreatedFirst'
      BY <2>1 DEF Base, TypeOK, CreatedFirst
    <2>7. QED
      BY <1>2, <1>3, <2>3, <2>4, <2>5, <2>6 DEF Base
  <1>8. CASE Crash(p)
    <2>1. /\ pc' = [pc EXCEPT ![p] = "idle"]
          /\ target' = [target EXCEPT ![p] = Nothing]
          /\ listed' = [listed EXCEPT ![p] = [s \in ScheduleIds |-> 0]]
          /\ crashes' \in 0..MaxCrashes
          /\ UNCHANGED <<schedules, left, created, advanced>>
      BY <1>8, SchedulesAssumption DEF Crash, Base, TypeOK
    <2>2. \A q \in Processors, u \in ScheduleIds :
            listed'[q][u] = IF q = p THEN 0 ELSE listed[q][u]
      BY <2>1 DEF Base, TypeOK
    <2>3. TypeOK'
      <3>1. listed' \in [Processors -> [ScheduleIds -> Nat]]
        BY <2>1 DEF Base, TypeOK
      <3>2. target' \in [Processors -> Held]
        BY <2>1 DEF Base, TypeOK, Held, Nothing
      <3>3. \A q \in Processors : pc'[q] # "idle" => target'[q].schedule \in ScheduleIds
        BY <2>1 DEF Base, TypeOK
      <3>4. QED
        BY <1>1, <1>3, <2>1, <3>1, <3>2, <3>3 DEF Base, TypeOK
    <2>4. ListedBehind'
      <3>1. \A u \in ScheduleIds : schedules[u].version \in Nat
        BY DEF Base, TypeOK, Schedule
      <3>2. QED
        BY <2>1, <2>2, <3>1, SchedulesAssumption DEF Base, ListedBehind
    <2>5. TargetBehind'
      BY <2>1, <2>2 DEF Base, TypeOK, TargetBehind
    <2>6. CreatedFirst'
      BY <2>1 DEF Base, TypeOK, CreatedFirst
    <2>7. QED
      BY <1>2, <1>3, <2>3, <2>4, <2>5, <2>6 DEF Base
  <1>9. QED
    BY <1>4, <1>5, <1>6, <1>7, <1>8 DEF Process

\* What is held stays behind the schedules.
LEMMA NextBase ==
  ASSUME Base, [Next]_vars
  PROVE  Base'
  <1>1. CASE UNCHANGED vars
    BY <1>1 DEF vars, Base, TypeOK, VersionsBegin, ListedBehind, TargetBehind, AskedThere, CreatedFirst
  <1>2. QED
    BY <1>1, ClientsKeepBase, ProcessorsKeepBase DEF Next

-----------------------------------------------------------------------------
(* No run is skipped *)

\* No job is taken back.
LEMMA CreatedGrows ==
  ASSUME Base, [Next]_vars
  PROVE  \A u \in ScheduleIds, w \in 1..MaxVersion : created'[u][w] >= created[u][w]
  <1>1. \A u \in ScheduleIds, w \in 1..MaxVersion : created[u][w] \in Nat
    BY DEF Base, TypeOK
  <1>2. ASSUME NEW p \in Processors, CreateJob(p)
        PROVE  \A u \in ScheduleIds, w \in 1..MaxVersion : created'[u][w] >= created[u][w]
    BY <1>1, <1>2, CreateJobCounts
  <1>3. CASE UNCHANGED created
    BY <1>1, <1>3
  <1>4. QED
    BY <1>2, <1>3
    DEF Next, Process, CreateSchedule, ListDue, Take, Advance, Crash, RequestDisable, DisableSchedule,
        RefuseDisable, Tick, vars

\* A step that moves a schedule on leaves a version behind for which a job was
\* created; no step forgets another one.
LEMMA NextNoRunSkipped ==
  ASSUME Base, Base', NoRunSkipped, [Next]_vars
  PROVE  NoRunSkipped'
  <1> SUFFICES ASSUME NEW s \in ScheduleIds
               PROVE  advanced'[s] <= Cardinality(CreatedBefore(s, schedules[s].version)')
    BY DEF NoRunSkipped
  <1> DEFINE A == CreatedBefore(s, schedules[s].version)
             B == CreatedBefore(s, schedules[s].version)'
  <1>1. schedules[s].version \in Nat /\ schedules'[s].version \in Nat /\ schedules[s].version <= schedules'[s].version
    BY VersionsGrow DEF Base, TypeOK, Schedule
  <1>2. \A w \in 1..MaxVersion : created[s][w] \in Nat /\ created'[s][w] \in Nat
    BY DEF Base, TypeOK
  <1>3. A \subseteq B
    BY <1>1, <1>2, CreatedGrows, SchedulesAssumption DEF CreatedBefore
  <1>4. IsFiniteSet(1..MaxVersion)
    BY FS_Interval, SchedulesAssumption
  <1>5. B \subseteq 1..MaxVersion
    BY DEF CreatedBefore
  <1>6. IsFiniteSet(B) /\ IsFiniteSet(A)
    BY <1>3, <1>4, <1>5, FS_Subset
  <1>7. advanced[s] <= Cardinality(A) /\ advanced[s] \in Nat
    BY DEF NoRunSkipped, Base, TypeOK
  <1>8. Cardinality(A) \in Nat /\ Cardinality(B) \in Nat
    BY <1>6, FS_CardinalityType
  <1>9. CASE advanced'[s] = advanced[s]
    <2>1. Cardinality(A) <= Cardinality(B)
      BY <1>3, <1>6, FS_Subset
    <2> HIDE DEF A, B
    <2>2. QED
      BY <1>7, <1>8, <1>9, <2>1 DEF B
  <1>10. ASSUME NEW p \in Processors, Advance(p), advanced'[s] # advanced[s]
         PROVE  advanced'[s] <= Cardinality(B)
    <2> DEFINE v == target[p].version
    <2>1. /\ pc[p] = "advance" /\ target[p].schedule = s
          /\ VersionMatches(target[p])
          /\ schedules' = [schedules EXCEPT ![s].nextRunAt = left[p], ![s].version = @ + 1]
          /\ advanced'[s] = advanced[s] + 1 /\ created' = created
      <3>1. VersionMatches(target[p])
        BY <1>10 DEF Advance
      <3>2. advanced' = [advanced EXCEPT ![target[p].schedule] = @ + 1]
        BY <1>10, <3>1 DEF Advance
      <3>3. target[p].schedule = s /\ advanced'[s] = advanced[s] + 1
        BY <1>10, <3>2 DEF Base, TypeOK
      <3>4. QED
        BY <1>10, <3>1, <3>3 DEF Advance
    <2>2. schedules[s].version = v
      BY <2>1 DEF VersionMatches
    <2>3. schedules'[s].version = v + 1
      BY <2>1, <2>2 DEF Base, TypeOK, Schedule
    <2>4. v \in 1..MaxVersion /\ created[s][v] > 0
      BY <2>1 DEF Base, TargetBehind, CreatedFirst
    <2> HIDE DEF v
    <2>5. v \notin A
      BY <1>1, <2>2 DEF CreatedBefore
    <2>6. v \in B
      BY <1>1, <2>1, <2>2, <2>3, <2>4 DEF CreatedBefore
    <2>7. A \cup {v} \subseteq B
      BY <1>3, <2>6
    <2> HIDE DEF A, B
    <2>8. Cardinality(A \cup {v}) = Cardinality(A) + 1
      BY <1>6, <2>5, FS_AddElement
    <2>9. Cardinality(A \cup {v}) <= Cardinality(B)
      BY <1>6, <2>7, FS_Subset
    <2>10. QED
      BY <1>7, <1>8, <2>1, <2>8, <2>9
  <1>11. advanced' = advanced \/ \E p \in Processors : Advance(p)
    BY DEF Next, Process, CreateSchedule, ListDue, Take, CreateJob, Crash, RequestDisable, DisableSchedule,
           RefuseDisable, Tick, vars
  <1>12. QED
    BY <1>9, <1>10, <1>11

-----------------------------------------------------------------------------
(* Duplicates are bounded *)

\* MayCreate, prime by prime.
LEMMA MayCreatePrime ==
  ASSUME NEW s \in ScheduleIds, NEW v \in 1..MaxVersion
  PROVE  MayCreate(s, v)' =
           {q \in Processors :
              \/ listed'[q][s] = v
              \/ pc'[q] = "create" /\ target'[q].schedule = s /\ target'[q].version = v
              \/ /\ schedules'[s].version <= v
                 /\ ~(pc'[q] = "advance" /\ target'[q].schedule = s /\ target'[q].version = v)}
  BY DEF MayCreate, At

\* The processors are finitely many, and so are those that may create.
LEMMA MayCreateFinite ==
  ASSUME NEW s \in ScheduleIds, NEW v \in 1..MaxVersion
  PROVE  /\ IsFiniteSet(MayCreate(s, v)) /\ IsFiniteSet(MayCreate(s, v)')
         /\ Cardinality(MayCreate(s, v)) \in Nat /\ Cardinality(MayCreate(s, v)') \in Nat
         /\ Cardinality(Processors) \in Nat
  <1>1. MayCreate(s, v) \subseteq Processors /\ MayCreate(s, v)' \subseteq Processors
    BY MayCreatePrime DEF MayCreate
  <1>2. IsFiniteSet(Processors)
    BY SchedulesAssumption
  <1>3. IsFiniteSet(MayCreate(s, v)) /\ IsFiniteSet(MayCreate(s, v)')
    BY <1>1, <1>2, FS_Subset
  <1>4. QED
    BY <1>2, <1>3, FS_CardinalityType

\* A processor that did not move may create what it might have created before.
LEMMA UnmovedMayCreate ==
  ASSUME Base, [Next]_vars, NEW s \in ScheduleIds, NEW v \in 1..MaxVersion,
         NEW q \in Processors, q \in MayCreate(s, v)',
         listed'[q] = listed[q], pc'[q] = pc[q], target'[q] = target[q]
  PROVE  q \in MayCreate(s, v)
  <1>1. schedules[s].version \in Nat /\ schedules'[s].version \in Nat /\ schedules[s].version <= schedules'[s].version
    BY VersionsGrow DEF Base, TypeOK, Schedule
  <1>2. schedules'[s].version <= v => schedules[s].version <= v
    BY <1>1, SchedulesAssumption
  <1>3. QED
    BY <1>2, MayCreatePrime DEF MayCreate, At

\* Except by a crash nobody comes to be able to create, and whoever creates a
\* job gives up its turn.
LEMMA MayCreateShrinks ==
  ASSUME Base, [Next]_vars, NEW p \in Processors, Process(p),
         NEW s \in ScheduleIds, NEW v \in 1..MaxVersion
  PROVE  /\ MayCreate(s, v)' \subseteq MayCreate(s, v)
         /\ CreateJob(p) /\ target[p].schedule = s /\ target[p].version = v
              => p \in MayCreate(s, v) /\ p \notin MayCreate(s, v)'
  <1>1. v # 0
    BY SchedulesAssumption
  <1>2. ASSUME NEW q \in Processors, q # p
        PROVE  listed'[q] = listed[q] /\ pc'[q] = pc[q] /\ target'[q] = target[q]
    BY <1>2 DEF Process, ListDue, Take, CreateJob, Advance, Base, TypeOK
  <1>3. CASE ListDue(p)
    <2>1. /\ pc[p] = "idle" /\ pc'[p] = "idle" /\ schedules' = schedules
          /\ listed'[p][s] = IF s \in DueSchedules THEN schedules[s].version ELSE 0
      BY <1>3 DEF ListDue, Base, TypeOK
    <2>2. schedules[s].version <= schedules[s].version
      BY DEF Base, TypeOK, Schedule
    <2>3. p \in MayCreate(s, v)' => p \in MayCreate(s, v)
      BY <1>1, <2>1, <2>2, MayCreatePrime DEF MayCreate, At
    <2>4. ~CreateJob(p)
      BY <2>1 DEF CreateJob
    <2>5. MayCreate(s, v)' \subseteq Processors
      BY MayCreatePrime
    <2>6. QED
      BY <1>2, <2>3, <2>4, <2>5, UnmovedMayCreate
  <1>4. ASSUME NEW u \in ScheduleIds, Take(p, u)
        PROVE  /\ MayCreate(s, v)' \subseteq MayCreate(s, v)
               /\ ~CreateJob(p)
    <2>1. /\ pc[p] = "idle" /\ pc'[p] = "create" /\ schedules' = schedules
          /\ target'[p].schedule = u /\ target'[p].version = listed[p][u]
          /\ listed'[p][s] = IF s = u THEN 0 ELSE listed[p][s]
      BY <1>4 DEF Take, Base, TypeOK
    <2>2. p \in MayCreate(s, v)' => p \in MayCreate(s, v)
      BY <1>1, <2>1, MayCreatePrime DEF MayCreate, At
    <2>3. ~CreateJob(p)
      BY <2>1 DEF CreateJob
    <2>4. MayCreate(s, v)' \subseteq Processors
      BY MayCreatePrime
    <2>5. QED
      BY <1>2, <2>2, <2>3, <2>4, UnmovedMayCreate
  <1>5. CASE CreateJob(p)
    <2>1. /\ pc[p] = "create" /\ pc'[p] = "advance"
          /\ schedules' = schedules /\ target' = target /\ listed' = listed
      BY <1>5 DEF CreateJob, Base, TypeOK
    <2>2. CASE target[p].schedule = s /\ target[p].version = v
      <3>1. listed[p][s] = 0
        BY <2>1, <2>2 DEF Base, TargetBehind
      <3>2. p \in MayCreate(s, v) /\ p \notin MayCreate(s, v)'
        BY <1>1, <2>1, <2>2, <3>1, MayCreatePrime DEF MayCreate, At
      <3>3. MayCreate(s, v)' \subseteq Processors
        BY MayCreatePrime
      <3>4. QED
        BY <1>2, <3>2, <3>3, UnmovedMayCreate
    <2>3. CASE ~(target[p].schedule = s /\ target[p].version = v)
      <3>1. p \in MayCreate(s, v)' => p \in MayCreate(s, v)
        BY <2>1, <2>3, MayCreatePrime DEF MayCreate, At
      <3>2. MayCreate(s, v)' \subseteq Processors
        BY MayCreatePrime
      <3>3. QED
        BY <1>2, <2>3, <3>1, <3>2, UnmovedMayCreate
    <2>4. QED
      BY <2>2, <2>3
  <1>6. CASE Advance(p)
    <2>1. pc[p] = "advance" /\ pc'[p] = "idle" /\ listed' = listed
      BY <1>6 DEF Advance, Base, TypeOK
    <2>2. schedules[s].version \in Nat /\ schedules'[s].version \in Nat /\ schedules[s].version <= schedules'[s].version
      BY VersionsGrow DEF Base, TypeOK, Schedule
    <2>3. At(p, "advance", s, v) => schedules'[s].version > v
      <3> SUFFICES ASSUME target[p].schedule = s, target[p].version = v
                   PROVE  schedules'[s].version > v
        BY DEF At
      <3>1. v <= schedules[s].version
        BY <2>1 DEF Base, TargetBehind
      <3>2. CASE VersionMatches(target[p])
        <4>1. schedules' = [schedules EXCEPT ![s].nextRunAt = left[p], ![s].version = @ + 1]
          BY <1>6, <3>2 DEF Advance
        <4>2. schedules'[s].version = schedules[s].version + 1
          BY <4>1 DEF Base, TypeOK, Schedule
        <4>3. QED
          BY <2>2, <3>1, <4>2
      <3>3. CASE ~VersionMatches(target[p])
        <4>1. schedules[s].version # v
          BY <3>3 DEF VersionMatches
        <4>2. QED
          BY <2>2, <3>1, <4>1
      <3>4. QED
        BY <3>2, <3>3
    <2>4. ~(schedules'[s].version > v /\ schedules'[s].version <= v)
      BY <2>2
    <2>5. schedules'[s].version <= v => schedules[s].version <= v
      BY <2>2
    <2>6. p \in MayCreate(s, v)' => p \in MayCreate(s, v)
      BY <2>1, <2>3, <2>4, <2>5, MayCreatePrime DEF MayCreate, At
    <2>7. ~CreateJob(p)
      BY <2>1 DEF CreateJob
    <2>8. MayCreate(s, v)' \subseteq Processors
      BY MayCreatePrime
    <2>9. QED
      BY <1>2, <2>6, <2>7, <2>8, UnmovedMayCreate
  <1>7. QED
    BY <1>3, <1>4, <1>5, <1>6 DEF Process

\* Every step keeps the budget: a job takes one from those who may create, and
\* a crash, which may give one back, is counted.
LEMMA NextCreationsBudgeted ==
  ASSUME Base, Base', CreationsBudgeted, [Next]_vars
  PROVE  CreationsBudgeted'
  <1> SUFFICES ASSUME NEW s \in ScheduleIds, NEW v \in 1..MaxVersion
               PROVE  created'[s][v] + Cardinality(MayCreate(s, v)') <= Cardinality(Processors) + crashes'
    BY DEF CreationsBudgeted
  <1> DEFINE M == MayCreate(s, v)
             N == MayCreate(s, v)'
             goal == created'[s][v] + Cardinality(N) <= Cardinality(Processors) + crashes'
  <1>1. created[s][v] + Cardinality(M) <= Cardinality(Processors) + crashes
    BY DEF CreationsBudgeted
  <1>2. created[s][v] \in Nat /\ created'[s][v] \in Nat /\ crashes \in Nat /\ crashes' \in Nat
    BY SchedulesAssumption DEF Base, TypeOK
  <1>3. /\ IsFiniteSet(M) /\ IsFiniteSet(N)
        /\ Cardinality(M) \in Nat /\ Cardinality(N) \in Nat /\ Cardinality(Processors) \in Nat
    BY MayCreateFinite
  <1> HIDE DEF M, N
  <1>4. ASSUME N \subseteq M, created'[s][v] = created[s][v], crashes' = crashes
        PROVE  goal
    <2>1. Cardinality(N) <= Cardinality(M)
      BY <1>3, <1>4, FS_Subset
    <2>2. QED
      BY <1>1, <1>2, <1>3, <1>4, <2>1
  <1>5. ASSUME NEW p \in Processors, Process(p)
        PROVE  goal
    <2>1. crashes' = crashes
      BY <1>5 DEF Process, ListDue, Take, CreateJob, Advance
    <2>2. N \subseteq M
      BY <1>5, MayCreateShrinks DEF M, N
    <2>3. CASE CreateJob(p) /\ target[p].schedule = s /\ target[p].version = v
      <3>1. created'[s][v] = created[s][v] + 1
        BY <2>3, CreateJobCounts
      <3>2. p \in M /\ p \notin N
        BY <1>5, <2>3, MayCreateShrinks DEF M, N
      <3>3. N \subseteq M \ {p}
        BY <2>2, <3>2
      <3>4. IsFiniteSet(M \ {p}) /\ Cardinality(M \ {p}) = Cardinality(M) - 1
        BY <1>3, <3>2, FS_RemoveElement
      <3>5. Cardinality(N) <= Cardinality(M) - 1
        BY <3>3, <3>4, FS_Subset
      <3>6. QED
        BY <1>1, <1>2, <1>3, <2>1, <3>1, <3>5
    <2>4. CASE CreateJob(p) /\ ~(target[p].schedule = s /\ target[p].version = v)
      <3>1. created'[s][v] = created[s][v]
        BY <2>4, CreateJobCounts
      <3>2. QED
        BY <1>4, <2>1, <2>2, <3>1
    <2>5. CASE ~CreateJob(p)
      <3>1. created' = created
        BY <1>5, <2>5 DEF Process, ListDue, Take, Advance
      <3>2. QED
        BY <1>4, <2>1, <2>2, <3>1
    <2>6. QED
      BY <2>3, <2>4, <2>5
  <1>6. ASSUME NEW p \in Processors, Crash(p)
        PROVE  goal
    <2>1. created' = created /\ crashes' = crashes + 1
      BY <1>6 DEF Crash
    <2>2. ASSUME NEW q \in Processors, q # p
          PROVE  listed'[q] = listed[q] /\ pc'[q] = pc[q] /\ target'[q] = target[q]
      BY <1>6, <2>2 DEF Crash, Base, TypeOK
    <2>3. N \subseteq Processors
      BY MayCreatePrime DEF N
    <2>4. N \subseteq M \cup {p}
      BY <2>2, <2>3, UnmovedMayCreate DEF M, N
    <2>5. /\ IsFiniteSet(M \cup {p})
          /\ Cardinality(M \cup {p}) = Cardinality(M) \/ Cardinality(M \cup {p}) = Cardinality(M) + 1
      BY <1>3, FS_AddElement
    <2>6. Cardinality(N) <= Cardinality(M \cup {p})
      BY <2>4, <2>5, FS_Subset
    <2>7. QED
      BY <1>1, <1>2, <1>3, <2>1, <2>5, <2>6
  <1>7. CASE UNCHANGED <<pc, listed, target, created, crashes>>
    <2>1. N \subseteq Processors
      BY MayCreatePrime DEF N
    <2>2. N \subseteq M
      BY <1>7, <2>1, UnmovedMayCreate DEF M, N
    <2>3. created'[s][v] = created[s][v] /\ crashes' = crashes
      BY <1>7
    <2>4. goal
      BY <1>4, <2>2, <2>3
    <2>5. QED
      BY <2>4 DEF N
  <1>8. QED
    BY <1>5, <1>6, <1>7
    DEF N, Next, CreateSchedule, RequestDisable, DisableSchedule, RefuseDisable, Tick, vars

-----------------------------------------------------------------------------
(* Theorems *)

\* In every reachable state the jobs that were created and those that may yet be
\* stay within one per processor and crash, and every version left behind has one.
THEOREM SchedulesInvariance == Spec => []SchedulesInv
  <1>1. Init => SchedulesInv
    <2> SUFFICES ASSUME Init
                 PROVE  SchedulesInv
      OBVIOUS
    <2>1. Base
      BY InitBase
    <2>2. NoRunSkipped
      <3> SUFFICES ASSUME NEW s \in ScheduleIds
                   PROVE  advanced[s] <= Cardinality(CreatedBefore(s, schedules[s].version))
        BY DEF NoRunSkipped
      <3>1. CreatedBefore(s, schedules[s].version) = {} /\ advanced[s] = 0
        BY DEF Init, CreatedBefore
      <3>2. QED
        BY <3>1, FS_EmptySet
    <2>3. CreationsBudgeted
      <3> SUFFICES ASSUME NEW s \in ScheduleIds, NEW v \in 1..MaxVersion
                   PROVE  created[s][v] + Cardinality(MayCreate(s, v)) <= Cardinality(Processors) + crashes
        BY DEF CreationsBudgeted
      <3>1. created[s][v] = 0 /\ crashes = 0
        BY DEF Init
      <3>2. MayCreate(s, v) \subseteq Processors
        BY DEF MayCreate
      <3>3. Cardinality(MayCreate(s, v)) <= Cardinality(Processors)
        BY <3>2, FS_Subset, SchedulesAssumption
      <3>4. QED
        BY <3>1, <3>3, MayCreateFinite
    <2>4. QED
      BY <2>1, <2>2, <2>3 DEF SchedulesInv
  <1>2. SchedulesInv /\ [Next]_vars => SchedulesInv'
    BY NextBase, NextNoRunSkipped, NextCreationsBudgeted DEF SchedulesInv
  <1>3. QED
    BY <1>1, <1>2, PTL DEF Spec

\* Every due time gives its job: at least one, although processors stop between
\* creating it and moving the schedule on, and at most one per processor and
\* crash (processRecurringSchedules): for any number of schedules and processes.
THEOREM RunsSoundAlways == Spec => []RunsSound
  <1>1. SchedulesInv => RunsSound
    <2> SUFFICES ASSUME SchedulesInv
                 PROVE  DuplicatesBounded
      BY DEF SchedulesInv, Base, RunsSound
    <2> SUFFICES ASSUME NEW s \in ScheduleIds, NEW v \in 1..MaxVersion
                 PROVE  created[s][v] <= Cardinality(Processors) + crashes
      BY DEF DuplicatesBounded
    <2>1. created[s][v] + Cardinality(MayCreate(s, v)) <= Cardinality(Processors) + crashes
      BY DEF SchedulesInv, CreationsBudgeted
    <2>2. created[s][v] \in Nat /\ crashes \in Nat
      BY SchedulesAssumption DEF SchedulesInv, Base, TypeOK
    <2>3. QED
      BY <2>1, <2>2, MayCreateFinite
  <1>2. QED
    BY <1>1, SchedulesInvariance, PTL

=============================================================================
