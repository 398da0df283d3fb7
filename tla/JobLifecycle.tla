---------------------------- MODULE JobLifecycle ----------------------------
(***************************************************************************)
(* What the job queue promises about one tenant's jobs, without executors, *)
(* versions, leases or time: the life of a job record as its readers see   *)
(* it (README.md "Retry policy", src/jobs/models.ts).  Every outcome of an *)
(* attempt is written on a running job and on no other; an attempt that    *)
(* fails or is abandoned adds one to attempts, every other outcome leaves  *)
(* attempts alone, and only a manual retry takes attempts back to zero.    *)
(***************************************************************************)
EXTENDS Naturals

CONSTANTS JobIds, MaxAttempts

VARIABLES status, attempts

lifecycleVars == <<status, attempts>>

Init ==
  /\ status = [j \in JobIds |-> "absent"]
  /\ attempts = [j \in JobIds |-> 0]

Become(j, s, n) ==
  /\ status' = [status EXCEPT ![j] = s]
  /\ attempts' = [attempts EXCEPT ![j] = n]

\* enqueue or schedule
Create(j) == status[j] = "absent" /\ \E s \in {"pending", "scheduled"} : Become(j, s, 0)

\* Nothing but creation is possible before creation; a claim may find any record,
\* since a due list may be out of date when it is worked through.
Start(j) == status[j] # "absent" /\ Become(j, "running", attempts[j])

Succeed(j) == status[j] = "running" /\ Become(j, "completed", attempts[j])

\* Denied, or without a handler.
Refuse(j) == status[j] = "running" /\ Become(j, "failed", attempts[j])

\* The authority cannot be asked.
Defer(j) == status[j] = "running" /\ Become(j, "retrying", attempts[j])

\* The attempt failed: it is retried unless it was the last.
Miss(j) ==
  /\ status[j] = "running"
  /\ Become(j, IF attempts[j] + 1 >= MaxAttempts THEN "failed" ELSE "retrying",
            attempts[j] + 1)

\* The lease ran out: the attempt counts, and the job is taken over unless that was
\* the last one.
Abandon(j) ==
  /\ status[j] = "running"
  /\ Become(j, IF attempts[j] + 1 >= MaxAttempts THEN "failed" ELSE "running",
            attempts[j] + 1)

\* The manual retry.
Reset(j) == status[j] # "absent" /\ Become(j, "pending", 0)

Next ==
  \E j \in JobIds :
    \/ Create(j) \/ Start(j) \/ Reset(j)
    \/ Succeed(j) \/ Refuse(j) \/ Defer(j) \/ Miss(j) \/ Abandon(j)

Spec == Init /\ [][Next]_lifecycleVars

=============================================================================
