------------------------- MODULE DeliveryLifecycle --------------------------
(***************************************************************************)
(* What the outbound webhooks promise about the deliveries of one tenant,  *)
(* without executors, versions, lists or time: the life of a delivery as   *)
(* if one worker at a time took it up (src/webhooks/models.ts, the status  *)
(* of a delivery).  Each claim sends one request at most; what the record  *)
(* says afterwards is the answer to the request of that very claim; and a  *)
(* worker that stops, or waits for ever, leaves a delivery that only a     *)
(* replay takes up again.                                                  *)
(***************************************************************************)
EXTENDS Naturals

CONSTANTS Deliveries, MaxRetryAttempts

VARIABLES
  state,    \* delivery -> its status; while it is delivering, how far its worker is
  attempts  \* delivery -> the attempts counted since it was queued or replayed

lifecycleVars == <<state, attempts>>

\* No attempt is being made.
Waiting == {"pending", "retrying", "failed"}

\* A worker holds the claim: its request is not sent yet, accepted or not accepted.
Held == {"claimed", "accepted", "unaccepted"}

Init ==
  /\ state = [d \in Deliveries |-> "absent"]
  /\ attempts = [d \in Deliveries |-> 0]

Become(d, s, n) ==
  /\ state' = [state EXCEPT ![d] = s]
  /\ attempts' = [attempts EXCEPT ![d] = n]

\* An event is emitted: its deliveries are queued at once.
Queue(new) ==
  /\ \A d \in new : state[d] = "absent"
  /\ state' = [d \in Deliveries |-> IF d \in new THEN "pending" ELSE state[d]]
  /\ attempts' = [d \in Deliveries |-> IF d \in new THEN 0 ELSE attempts[d]]

\* A failed delivery may be taken up as well: the list it was on may be out of date.
Claim(d) == state[d] \in Waiting /\ Become(d, "claimed", attempts[d])

\* The endpoint is disabled, or the delivery has no principal or credential.
Refuse(d) == state[d] \in Waiting /\ Become(d, "failed", attempts[d])

\* The one request of this claim.
Post(d) == state[d] = "claimed" /\ \E s \in {"accepted", "unaccepted"} : Become(d, s, attempts[d])

\* Denied, or not to be sent there.
Deny(d) == state[d] = "claimed" /\ Become(d, "failed", attempts[d])

\* The authority cannot be asked.
Postpone(d) == state[d] = "claimed" /\ Become(d, "retrying", attempts[d])

Succeed(d) == state[d] = "accepted" /\ Become(d, "delivered", attempts[d] + 1)

Reject(d) == state[d] = "unaccepted" /\ Become(d, "failed", attempts[d] + 1)

\* No usable answer: it is tried again unless that was the last attempt.
Miss(d) ==
  /\ state[d] \in Held
  /\ Become(d, IF attempts[d] + 1 >= MaxRetryAttempts THEN "failed" ELSE "retrying", attempts[d] + 1)

\* The worker stops, or waits for the end of an answer that has none.
Stop(d) == state[d] \in Held /\ Become(d, "lost", attempts[d])

Replay(d) == state[d] # "absent" /\ Become(d, "pending", 0)

Next ==
  \/ \E new \in SUBSET Deliveries : Queue(new)
  \/ \E d \in Deliveries :
       \/ Claim(d) \/ Refuse(d) \/ Post(d) \/ Deny(d) \/ Postpone(d)
       \/ Succeed(d) \/ Reject(d) \/ Miss(d) \/ Stop(d) \/ Replay(d)

Spec == Init /\ [][Next]_lifecycleVars

=============================================================================
