----------------------------- MODULE Schedules ------------------------------
(***************************************************************************)
(* Recurring schedules: scheduleRecurring, disableSchedule and             *)
(* processRecurringSchedules of JobService (src/jobs/service.ts) over      *)
(* FeltDbJobScheduleStore (src/jobs/store.ts).  Every managed process runs *)
(* processRecurringSchedules before it lists its due jobs.                 *)
(*                                                                         *)
(* The due schedules are listed once, with their versions; then, for each, *)
(* a job is created and the schedule is moved on by a compare-and-set on   *)
(* the version listed.  nextRunAt is kept as the time left until it.       *)
(***************************************************************************)
EXTENDS Naturals, FiniteSets

CONSTANTS
  ScheduleIds, \* ids of the schedules that may be created
  Processors,  \* processes that run processRecurringSchedules
  Callers,     \* clients that disable schedules
  NoSchedule,  \* not a schedule
  Interval,    \* the interval of the schedules, in ticks ("0s" is accepted too)
  MaxCrashes,  \* bound: processors that stop in mid-flight
  MaxDisables, \* bound: disablings asked for
  MaxVersion   \* bound: a schedule at this version is not listed again

ASSUME SchedulesAssumption ==
  /\ NoSchedule \notin ScheduleIds
  /\ IsFiniteSet(Processors)
  /\ Interval \in Nat /\ MaxCrashes \in Nat /\ MaxDisables \in Nat
  /\ MaxVersion \in Nat \ {0}

VARIABLES
  schedules, \* the job_schedules collection
  pc,        \* processor -> between which awaits of the loop body it is
  listed,    \* processor -> versions of the schedules it has yet to process; 0 is none
  target,    \* processor -> the schedule and version it processes
  left,      \* processor -> what is left of an interval that began when it listed
  asked,     \* caller -> the schedule and version it read
  crashes, disables, \* used-up bounds
  \* history, read by no action
  created,   \* schedule -> version -> jobs created by processors that listed that version
  advanced   \* schedule -> times nextRunAt was moved on

vars == <<schedules, pc, listed, target, left, asked, crashes, disables, created, advanced>>

Schedule == [status: {"absent", "enabled", "disabled"}, nextRunAt: Nat, version: Nat]

Nothing == [schedule |-> NoSchedule, version |-> 0]

Held == [schedule: ScheduleIds \union {NoSchedule}, version: Nat]

TypeOK ==
  /\ schedules \in [ScheduleIds -> Schedule]
  /\ pc \in [Processors -> {"idle", "create", "advance"}]
  /\ listed \in [Processors -> [ScheduleIds -> Nat]]
  /\ target \in [Processors -> Held]
  /\ left \in [Processors -> Nat]
  /\ asked \in [Callers -> Held]
  /\ crashes \in 0..MaxCrashes /\ disables \in 0..MaxDisables
  /\ created \in [ScheduleIds -> [1..MaxVersion -> Nat]]
  /\ advanced \in [ScheduleIds -> Nat]
  /\ \A p \in Processors : pc[p] # "idle" => target[p].schedule \in ScheduleIds

Init ==
  /\ schedules = [s \in ScheduleIds |-> [status |-> "absent", nextRunAt |-> 0, version |-> 0]]
  /\ pc = [p \in Processors |-> "idle"]
  /\ listed = [p \in Processors |-> [s \in ScheduleIds |-> 0]]
  /\ target = [p \in Processors |-> Nothing]
  /\ left = [p \in Processors |-> 0]
  /\ asked = [c \in Callers |-> Nothing]
  /\ crashes = 0 /\ disables = 0
  /\ created = [s \in ScheduleIds |-> [v \in 1..MaxVersion |-> 0]]
  /\ advanced = [s \in ScheduleIds |-> 0]

-----------------------------------------------------------------------------

\* A write guarded by the version the writer read: FeltDB's updateIfVersion.
VersionMatches(held) == schedules[held.schedule].version = held.version

\* scheduleRecurring, through createScheduleRecord.
CreateSchedule(s) ==
  /\ schedules[s].status = "absent"
  /\ schedules' = [schedules EXCEPT ![s] =
                     [status |-> "enabled", nextRunAt |-> Interval, version |-> 1]]
  /\ UNCHANGED <<pc, listed, target, left, asked, crashes, disables, created, advanced>>

\* What FeltDbJobScheduleStore.listDue returns.
IsDue(schedule) == schedule.status = "enabled" /\ schedule.nextRunAt = 0

DueSchedules == {s \in ScheduleIds : IsDue(schedules[s]) /\ schedules[s].version < MaxVersion}

NothingListed(p) == \A s \in ScheduleIds : listed[p][s] = 0

ListDue(p) ==
  /\ pc[p] = "idle" /\ NothingListed(p)
  /\ DueSchedules # {}
  /\ listed' = [listed EXCEPT ![p] =
                  [s \in ScheduleIds |-> IF s \in DueSchedules THEN schedules[s].version ELSE 0]]
  /\ left' = [left EXCEPT ![p] = Interval]
  /\ UNCHANGED <<schedules, pc, target, asked, crashes, disables, created, advanced>>

\* The body of the loop starts on the next schedule of the list.
Take(p, s) ==
  /\ pc[p] = "idle" /\ listed[p][s] > 0
  /\ pc' = [pc EXCEPT ![p] = "create"]
  /\ target' = [target EXCEPT ![p] = [schedule |-> s, version |-> listed[p][s]]]
  /\ listed' = [listed EXCEPT ![p][s] = 0]
  /\ UNCHANGED <<schedules, left, asked, crashes, disables, created, advanced>>

\* Mutant: the schedule is moved on and no job is created.
CreateNoJob(p) ==
  /\ pc[p] = "create"
  /\ pc' = [pc EXCEPT ![p] = "advance"]
  /\ UNCHANGED <<schedules, listed, target, left, asked, crashes, disables, created, advanced>>

\* Mutant: a due time has one job id, so that creating it again throws out of the round.
CreateJobOnce(p) ==
  LET s == target[p].schedule
      v == target[p].version
  IN
  /\ pc[p] = "create"
  /\ \/ /\ created[s][v] = 0
        /\ created' = [created EXCEPT ![s][v] = 1]
        /\ pc' = [pc EXCEPT ![p] = "advance"]
        /\ UNCHANGED <<target, listed>>
     \/ /\ created[s][v] > 0
        /\ pc' = [pc EXCEPT ![p] = "idle"]
        /\ target' = [target EXCEPT ![p] = Nothing]
        /\ listed' = [listed EXCEPT ![p] = [u \in ScheduleIds |-> 0]]
        /\ UNCHANGED created
  /\ UNCHANGED <<schedules, left, asked, crashes, disables, advanced>>

\* jobStore.create, whatever has become of the schedule since it was listed.
CreateJob(p) ==
  /\ pc[p] = "create"
  /\ created' = [created EXCEPT ![target[p].schedule][target[p].version] = @ + 1]
  /\ pc' = [pc EXCEPT ![p] = "advance"]
  /\ UNCHANGED <<schedules, listed, target, left, asked, crashes, disables, advanced>>

\* scheduleStore.updateSchedule: nextRunAt is one interval after the list was taken.
Advance(p) ==
  LET s == target[p].schedule IN
  /\ pc[p] = "advance"
  /\ IF VersionMatches(target[p])
       THEN /\ schedules' = [schedules EXCEPT ![s].nextRunAt = left[p], ![s].version = @ + 1]
            /\ advanced' = [advanced EXCEPT ![s] = @ + 1]
       ELSE UNCHANGED <<schedules, advanced>>
  /\ pc' = [pc EXCEPT ![p] = "idle"]
  /\ target' = [target EXCEPT ![p] = Nothing]
  /\ UNCHANGED <<listed, left, asked, crashes, disables, created>>

\* The process stops, or a store call throws out of processRecurringSchedules.
Crash(p) ==
  /\ crashes < MaxCrashes
  /\ pc[p] # "idle" \/ ~NothingListed(p)
  /\ crashes' = crashes + 1
  /\ pc' = [pc EXCEPT ![p] = "idle"]
  /\ target' = [target EXCEPT ![p] = Nothing]
  /\ listed' = [listed EXCEPT ![p] = [s \in ScheduleIds |-> 0]]
  /\ UNCHANGED <<schedules, left, asked, disables, created, advanced>>

-----------------------------------------------------------------------------
(* disableSchedule: the version is read before schedules.cancel is authorized *)

RequestDisable(c, s) ==
  /\ asked[c] = Nothing
  /\ disables < MaxDisables
  /\ schedules[s].status # "absent"
  /\ asked' = [asked EXCEPT ![c] = [schedule |-> s, version |-> schedules[s].version]]
  /\ disables' = disables + 1
  /\ UNCHANGED <<schedules, pc, listed, target, left, crashes, created, advanced>>

DisableSchedule(c) ==
  LET s == asked[c].schedule IN
  /\ asked[c] # Nothing
  /\ schedules' = IF VersionMatches(asked[c])
                    THEN [schedules EXCEPT ![s].status = "disabled", ![s].version = @ + 1]
                    ELSE schedules
  /\ asked' = [asked EXCEPT ![c] = Nothing]
  /\ UNCHANGED <<pc, listed, target, left, crashes, disables, created, advanced>>

\* schedules.cancel is refused.
RefuseDisable(c) ==
  /\ asked[c] # Nothing
  /\ asked' = [asked EXCEPT ![c] = Nothing]
  /\ UNCHANGED <<schedules, pc, listed, target, left, crashes, disables, created, advanced>>

-----------------------------------------------------------------------------

Less(t) == IF t > 0 THEN t - 1 ELSE 0

Tick ==
  LET elapsed == [s \in ScheduleIds |-> [schedules[s] EXCEPT !.nextRunAt = Less(@)]]
      shorter == [p \in Processors |-> Less(left[p])]
  IN
  /\ <<elapsed, shorter>> # <<schedules, left>>
  /\ schedules' = elapsed
  /\ left' = shorter
  /\ UNCHANGED <<pc, listed, target, asked, crashes, disables, created, advanced>>

Process(p) ==
  \/ ListDue(p)
  \/ \E s \in ScheduleIds : Take(p, s)
  \/ CreateJob(p) \/ Advance(p)

Next ==
  \/ \E s \in ScheduleIds : CreateSchedule(s)
  \/ \E p \in Processors : Process(p) \/ Crash(p)
  \/ \E c \in Callers, s \in ScheduleIds : RequestDisable(c, s)
  \/ \E c \in Callers : DisableSchedule(c) \/ RefuseDisable(c)
  \/ Tick

Spec == Init /\ [][Next]_vars

\* Time passes and the managed loops of the processes go on.
FairSpec == Spec /\ WF_vars(Tick) /\ \A p \in Processors : WF_vars(Process(p))

-----------------------------------------------------------------------------
(* Properties *)

\* The jobs that processors created for versions before v.
CreatedBefore(s, v) == {u \in 1..MaxVersion : u < v /\ created[s][u] > 0}

\* No run is skipped: every time nextRunAt is moved on, a job was created for the due
\* time it moves away from, however processors stop between the two writes
\* (processRecurringSchedules creates the job first).
NoRunSkipped ==
  \A s \in ScheduleIds : advanced[s] <= Cardinality(CreatedBefore(s, schedules[s].version))

\* A due time gives at most one job per processor, and one more per crash: a processor
\* that lost the race, or found the schedule disabled, never comes back to the version
\* it listed.  One process that does not stop runs every due time exactly once
\* (processRecurringSchedules, updateSchedule's expected version).
DuplicatesBounded ==
  \A s \in ScheduleIds, v \in 1..MaxVersion : created[s][v] <= Cardinality(Processors) + crashes

\* Every due time gives its job: at least one, and no more than the races allow.
RunsSound == TypeOK /\ NoRunSkipped /\ DuplicatesBounded

\* A due schedule is moved on or disabled, whatever processors stop on the way
\* (the managed loop around processRecurringSchedules).
KeepsRunning ==
  \A s \in ScheduleIds, v \in 1..(MaxVersion - 1) :
    IsDue(schedules[s]) /\ schedules[s].version = v ~> schedules[s].version # v

=============================================================================
