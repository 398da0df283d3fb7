------------------------------ MODULE Webhooks ------------------------------
(***************************************************************************)
(* Outbound webhooks: WebhookService (src/webhooks/service.ts), its FeltDB *)
(* stores (src/storage/webhooks.ts), the managed delivery loop and publish *)
(* (src/runtime/appport.ts).                                               *)
(*                                                                         *)
(* publish delivers what it emitted at once, while the managed loop of the *)
(* same process works through a list it took earlier: both are executors   *)
(* of deliverWebhook, which is cut into one action per await.  A delivery  *)
(* is claimed by a compare-and-set on its version and has no lease.        *)
(*                                                                         *)
(* nextAttemptAt is kept as the time left until it; 0 is reached or unset. *)
(***************************************************************************)
EXTENDS Naturals, FiniteSets

CONSTANTS
  Endpoints,        \* endpoints that may be registered, all subscribed to the event
  Deliveries,       \* ids of the deliveries that may be queued
  Loops,            \* managed delivery loops, one per process
  Publishers,       \* callers of publish: they emit, then deliver
  Emitters,         \* callers of emitWebhookEvent
  Clients,          \* callers of replayWebhookDelivery
  None,             \* no delivery and no endpoint
  MaxRetryAttempts, \* maxRetryAttempts
  RetryDelay,       \* INITIAL_RETRY_DELAY_MS, in ticks
  MaxCrashes,       \* bound: executors that stop in mid-flight
  MaxOutages,       \* bound: AUTHORITY_UNAVAILABLE / AUTHORIZATION_TIMEOUT answers
  MaxReplays,       \* bound: replays asked for
  MaxStalls,        \* bound: requests that never end, at any one time
  MaxVersion        \* bound: a delivery at this version is not claimed again

Executors == Loops \union Publishers
Sources == Emitters \union Publishers

ASSUME WebhooksAssumption ==
  /\ None \notin Deliveries \union Endpoints
  /\ Loops \intersect Publishers = {} /\ Emitters \intersect Executors = {}
  /\ MaxRetryAttempts \in Nat
  /\ RetryDelay \in Nat \ {0}
  /\ MaxCrashes \in Nat /\ MaxOutages \in Nat /\ MaxReplays \in Nat
  /\ MaxStalls \in Nat /\ MaxVersion \in Nat

VARIABLES
  endpoints,  \* endpoint -> absent, enabled or disabled
  deliveries, \* the webhook_deliveries collection
  matched,    \* source -> the endpoints its emit found, until it queues for them
  pc,         \* executor -> where in deliverWebhook it waits
  due,        \* executor -> the deliveries it has yet to deliver
  target,     \* executor -> the delivery it works on
  seen,       \* executor -> version and attempts of the record it read or claimed
  asked,      \* client -> the delivery and version its replay read
  crashes, outages, replays,  \* used-up bounds
  \* history, read by no action
  replayedAt, \* delivery -> version written by the latest replay
  posts,      \* delivery -> POSTs sent by attempts claimed since then
  accepted    \* delivery -> those that the endpoint accepted

execVars == <<pc, due, target, seen>>
boundVars == <<crashes, outages, replays>>
historyVars == <<replayedAt, posts, accepted>>
vars == <<endpoints, deliveries, matched, pc, due, target, seen, asked,
          crashes, outages, replays, replayedAt, posts, accepted>>

-----------------------------------------------------------------------------
(* Records *)

Delivery == [status: {"absent", "pending", "delivering", "retrying", "delivered", "failed"},
             endpoint: Endpoints \union {None}, attemptCount: Nat,
             nextAttemptAt: Nat, version: Nat]

AbsentDelivery == [status |-> "absent", endpoint |-> None, attemptCount |-> 0,
                   nextAttemptAt |-> 0, version |-> 0]

Snapshot(delivery) == [version |-> delivery.version, attemptCount |-> delivery.attemptCount]

NoRequest == [delivery |-> None, version |-> 0]

TypeOK ==
  /\ endpoints \in [Endpoints -> {"absent", "enabled", "disabled"}]
  /\ deliveries \in [Deliveries -> Delivery]
  /\ matched \in [Sources -> SUBSET Endpoints]
  /\ pc \in [Executors -> {"idle", "endpoint", "refuse", "claim", "authorize",
                           "accepted", "unaccepted", "stalled"}]
  /\ due \in [Executors -> SUBSET Deliveries]
  /\ target \in [Executors -> Deliveries \union {None}]
  /\ seen \in [Executors -> [version: Nat, attemptCount: Nat]]
  /\ asked \in [Clients -> [delivery: Deliveries \union {None}, version: Nat]]
  /\ crashes \in 0..MaxCrashes /\ outages \in 0..MaxOutages /\ replays \in 0..MaxReplays
  /\ replayedAt \in [Deliveries -> Nat]
  /\ posts \in [Deliveries -> Nat]
  /\ accepted \in [Deliveries -> Nat]
  /\ \A w \in Executors : pc[w] # "idle" => target[w] \in Deliveries
  /\ \A d \in Deliveries :
       deliveries[d].status # "absent" => endpoints[deliveries[d].endpoint] # "absent"

Init ==
  /\ endpoints = [e \in Endpoints |-> "absent"]
  /\ deliveries = [d \in Deliveries |-> AbsentDelivery]
  /\ matched = [s \in Sources |-> {}]
  /\ pc = [w \in Executors |-> "idle"]
  /\ due = [w \in Executors |-> {}]
  /\ target = [w \in Executors |-> None]
  /\ seen = [w \in Executors |-> Snapshot(AbsentDelivery)]
  /\ asked = [c \in Clients |-> NoRequest]
  /\ crashes = 0 /\ outages = 0 /\ replays = 0
  /\ replayedAt = [d \in Deliveries |-> 0]
  /\ posts = [d \in Deliveries |-> 0]
  /\ accepted = [d \in Deliveries |-> 0]

\* Mutant: the expected version is ignored.
UnconditionalWrite(d, version) == TRUE

\* A write guarded by the version the writer read: FeltDB's updateIfVersion.
VersionMatches(d, version) == deliveries[d].version = version

Written(d, new) == [new EXCEPT !.version = deliveries[d].version + 1]

-----------------------------------------------------------------------------
(* Endpoints *)

RegisterEndpoint(e) ==
  /\ endpoints[e] = "absent"
  /\ endpoints' = [endpoints EXCEPT ![e] = "enabled"]
  /\ UNCHANGED <<deliveries, matched, execVars, asked, boundVars, historyVars>>

\* disableWebhookEndpoint.  Disabling is the only write an endpoint ever gets, so
\* its compare-and-set succeeds exactly when the endpoint is still enabled.
DisableEndpoint(e) ==
  /\ endpoints[e] = "enabled"
  /\ endpoints' = [endpoints EXCEPT ![e] = "disabled"]
  /\ UNCHANGED <<deliveries, matched, execVars, asked, boundVars, historyVars>>

-----------------------------------------------------------------------------
(* Emitting: the endpoints are listed, then the deliveries are queued in one
   transaction *)

Unused == {d \in Deliveries : deliveries[d].status = "absent"}

MatchEndpoints(s) ==
  LET matching == {e \in Endpoints : endpoints[e] = "enabled"} IN
  /\ matched[s] = {}
  /\ s \in Executors => pc[s] = "idle" /\ due[s] = {}
  /\ matching # {} /\ Cardinality(matching) <= Cardinality(Unused)
  /\ matched' = [matched EXCEPT ![s] = matching]
  /\ UNCHANGED <<endpoints, deliveries, execVars, asked, boundVars, historyVars>>

\* ids gives every matched endpoint a delivery.  publish goes on to deliver them.
QueueDeliveries(s) ==
  /\ matched[s] # {}
  /\ \E ids \in [matched[s] -> Unused] :
       LET new == {ids[e] : e \in matched[s]} IN
       /\ Cardinality(new) = Cardinality(matched[s])
       /\ deliveries' = [d \in Deliveries |->
            IF d \in new
              THEN [AbsentDelivery EXCEPT !.status = "pending", !.version = 1,
                      !.endpoint = CHOOSE e \in matched[s] : ids[e] = d]
              ELSE deliveries[d]]
       /\ due' = IF s \in Publishers THEN [due EXCEPT ![s] = new] ELSE due
  /\ matched' = [matched EXCEPT ![s] = {}]
  /\ UNCHANGED <<endpoints, pc, target, seen, asked, boundVars, historyVars>>

-----------------------------------------------------------------------------
(* deliverWebhook *)

\* Mutant: retries do not wait.
IsDueAtOnce(delivery) == delivery.status \in {"pending", "retrying"}

\* Mutant: retries are never picked up.
IsDuePending(delivery) == delivery.status = "pending"

\* What the managed loop picks from the list it takes.
IsDue(delivery) ==
  \/ delivery.status = "pending"
  \/ delivery.status = "retrying" /\ delivery.nextAttemptAt = 0

ListDue(w) ==
  /\ w \in Loops
  /\ pc[w] = "idle" /\ due[w] = {}
  /\ due' = [due EXCEPT ![w] = {d \in Deliveries : IsDue(deliveries[d])}]
  /\ due' # due
  /\ UNCHANGED <<endpoints, deliveries, matched, pc, target, seen, asked, boundVars, historyVars>>

Return(w) ==
  /\ pc' = [pc EXCEPT ![w] = "idle"]
  /\ target' = [target EXCEPT ![w] = None]
  /\ seen' = [seen EXCEPT ![w] = Snapshot(AbsentDelivery)]

\* Mutant: a delivery that is being delivered is taken as well.
NotDelivered(delivery) == delivery.status # "delivered"

\* Neither delivered nor being delivered: a failed delivery is attempted again, and
\* so is one whose backoff is not over.
Deliverable(delivery) == delivery.status \notin {"delivered", "delivering"}

ReadDelivery(w, d) ==
  /\ pc[w] = "idle" /\ d \in due[w]
  /\ due' = [due EXCEPT ![w] = @ \ {d}]
  /\ IF Deliverable(deliveries[d])
       THEN /\ pc' = [pc EXCEPT ![w] = "endpoint"]
            /\ target' = [target EXCEPT ![w] = d]
            /\ seen' = [seen EXCEPT ![w] = Snapshot(deliveries[d])]
       ELSE UNCHANGED <<pc, target, seen>>
  /\ UNCHANGED <<endpoints, deliveries, matched, asked, boundVars, historyVars>>

\* The endpoint is read and the durable principal attested.  A disabled endpoint, no
\* signing credential and an unattested principal fail the delivery.
ReadEndpoint(w) ==
  /\ pc[w] = "endpoint"
  /\ \/ /\ endpoints[deliveries[target[w]].endpoint] = "enabled"
        /\ pc' = [pc EXCEPT ![w] = "claim"]
     \/ pc' = [pc EXCEPT ![w] = "refuse"]
  /\ UNCHANGED <<endpoints, deliveries, matched, due, target, seen, asked, boundVars, historyVars>>

\* deliveryStore.claim.
Claim(w) ==
  LET d == target[w] IN
  /\ pc[w] = "claim"
  /\ \/ /\ ~VersionMatches(d, seen[w].version)
        /\ Return(w)
        /\ UNCHANGED deliveries
     \/ /\ VersionMatches(d, seen[w].version)
        /\ deliveries[d].version < MaxVersion
        /\ deliveries' = [deliveries EXCEPT ![d] = Written(d, [@ EXCEPT !.status = "delivering"])]
        /\ seen' = [seen EXCEPT ![w] = Snapshot(deliveries'[d])]
        /\ pc' = [pc EXCEPT ![w] = "authorize"]
        /\ UNCHANGED target
  /\ UNCHANGED <<endpoints, matched, due, asked, boundVars, historyVars>>

\* The claim was made since the latest replay of its delivery.
SinceReplay(w) == seen[w].version > replayedAt[target[w]]

Count(f, w) == IF SinceReplay(w) THEN [f EXCEPT ![target[w]] = @ + 1] ELSE f

\* webhooks.deliver is allowed, the destination valid and the payload signed: the
\* request goes out.  The endpoint accepts it or it does not.
Post(w) ==
  /\ pc[w] = "authorize"
  /\ posts' = Count(posts, w)
  /\ \/ /\ pc' = [pc EXCEPT ![w] = "accepted"]
        /\ accepted' = Count(accepted, w)
     \/ /\ pc' = [pc EXCEPT ![w] = "unaccepted"]
        /\ UNCHANGED accepted
  /\ UNCHANGED <<endpoints, deliveries, matched, due, target, seen, asked, boundVars, replayedAt>>

\* The write that ends deliverWebhook.  It is lost when the record has moved on.
Settle(w, new) ==
  LET d == target[w] IN
  /\ deliveries' = IF VersionMatches(d, seen[w].version)
                     THEN [deliveries EXCEPT ![d] = Written(d, new)]
                     ELSE deliveries
  /\ Return(w)
  /\ UNCHANGED <<endpoints, matched, due, asked, crashes, replays, historyVars>>

Current(w) == deliveries[target[w]]

Attempted(w) == [Current(w) EXCEPT !.attemptCount = seen[w].attemptCount + 1]

\* Failed before the claim.
Refuse(w) ==
  /\ pc[w] = "refuse"
  /\ Settle(w, [Current(w) EXCEPT !.status = "failed"])
  /\ UNCHANGED outages

\* recordAttempt: denied, or a destination that is not permitted.
Deny(w) ==
  /\ pc[w] = "authorize"
  /\ Settle(w, [Current(w) EXCEPT !.status = "failed"])
  /\ UNCHANGED outages

\* recordAttempt: the authority cannot be asked.
Postpone(w) ==
  /\ pc[w] = "authorize"
  /\ outages < MaxOutages
  /\ outages' = outages + 1
  /\ Settle(w, [Current(w) EXCEPT !.status = "retrying", !.nextAttemptAt = RetryDelay])

\* recordAttempt: a 2xx answer.
Succeed(w) ==
  /\ pc[w] = "accepted"
  /\ Settle(w, [Attempted(w) EXCEPT !.status = "delivered"])
  /\ UNCHANGED outages

\* recordAttempt: a 3xx answer, or a 4xx one other than 408 and 429.
Reject(w) ==
  /\ pc[w] = "unaccepted"
  /\ Settle(w, [Attempted(w) EXCEPT !.status = "failed"])
  /\ UNCHANGED outages

\* Mutant: the retry limit is never reached.
NeverLast(w) == FALSE

LastAttempt(w) == seen[w].attemptCount + 1 >= MaxRetryAttempts

Backoff(attemptCount) == RetryDelay * 2^attemptCount

\* The provers have no theory of exponentiation.
ASSUME BackoffAssumption == \A n \in 0..MaxRetryAttempts : Backoff(n) \in Nat

\* recordAttempt: 408, 429, 5xx, a network error, a timeout (the endpoint may have
\* accepted the request all the same), or evidence that could not be written.
Miss(w) ==
  /\ pc[w] \in {"authorize", "accepted", "unaccepted"}
  /\ Settle(w, IF LastAttempt(w)
                 THEN [Attempted(w) EXCEPT !.status = "failed"]
                 ELSE [Attempted(w) EXCEPT !.status = "retrying",
                                           !.nextAttemptAt = Backoff(seen[w].attemptCount)])
  /\ UNCHANGED outages

\* performHttpDelivery settles on the end of the response, on an error of the request
\* and on an idle socket.  A response cut off after its headers is none of these, and
\* one that trickles is never idle: the call does not return.
Stall(w) ==
  /\ pc[w] \in {"accepted", "unaccepted"}
  /\ Cardinality({x \in Executors : pc[x] = "stalled"}) < MaxStalls
  /\ pc' = [pc EXCEPT ![w] = "stalled"]
  /\ UNCHANGED <<endpoints, deliveries, matched, due, target, seen, asked, boundVars, historyVars>>

\* The process stops, or a store call throws out of deliverWebhook.
Crash(w) ==
  /\ crashes < MaxCrashes
  /\ pc[w] # "idle" \/ due[w] # {}
  /\ crashes' = crashes + 1
  /\ due' = [due EXCEPT ![w] = {}]
  /\ Return(w)
  /\ UNCHANGED <<endpoints, deliveries, matched, asked, outages, replays, historyVars>>

-----------------------------------------------------------------------------
(* replayWebhookDelivery: the version is read before webhooks.replay is authorized *)

RequestReplay(c, d) ==
  /\ asked[c] = NoRequest
  /\ replays < MaxReplays
  /\ deliveries[d].status # "absent"
  /\ endpoints[deliveries[d].endpoint] = "enabled"
  /\ asked' = [asked EXCEPT ![c] = [delivery |-> d, version |-> deliveries[d].version]]
  /\ replays' = replays + 1
  /\ UNCHANGED <<endpoints, deliveries, matched, execVars, crashes, outages, historyVars>>

ReplayDelivery(c) ==
  LET d == asked[c].delivery IN
  /\ asked[c] # NoRequest
  /\ IF VersionMatches(d, asked[c].version)
       THEN /\ deliveries' = [deliveries EXCEPT ![d] =
                 Written(d, [@ EXCEPT !.status = "pending", !.attemptCount = 0,
                                      !.nextAttemptAt = 0])]
            /\ replayedAt' = [replayedAt EXCEPT ![d] = deliveries'[d].version]
            /\ posts' = [posts EXCEPT ![d] = 0]
            /\ accepted' = [accepted EXCEPT ![d] = 0]
       ELSE UNCHANGED <<deliveries, historyVars>>
  /\ asked' = [asked EXCEPT ![c] = NoRequest]
  /\ UNCHANGED <<endpoints, matched, execVars, boundVars>>

\* webhooks.replay is refused.
RefuseReplay(c) ==
  /\ asked[c] # NoRequest
  /\ asked' = [asked EXCEPT ![c] = NoRequest]
  /\ UNCHANGED <<endpoints, deliveries, matched, execVars, boundVars, historyVars>>

-----------------------------------------------------------------------------

Elapsed(delivery) ==
  [delivery EXCEPT !.nextAttemptAt = IF @ > 0 THEN @ - 1 ELSE 0]

Tick ==
  /\ deliveries # [d \in Deliveries |-> Elapsed(deliveries[d])]
  /\ deliveries' = [d \in Deliveries |-> Elapsed(deliveries[d])]
  /\ UNCHANGED <<endpoints, matched, execVars, asked, boundVars, historyVars>>

Deliver(w) ==
  \/ ListDue(w)
  \/ \E d \in Deliveries : ReadDelivery(w, d)
  \/ ReadEndpoint(w) \/ Refuse(w) \/ Claim(w)
  \/ Deny(w) \/ Postpone(w) \/ Post(w)
  \/ Succeed(w) \/ Reject(w) \/ Miss(w) \/ Stall(w)

Next ==
  \/ \E e \in Endpoints : RegisterEndpoint(e) \/ DisableEndpoint(e)
  \/ \E s \in Sources : MatchEndpoints(s) \/ QueueDeliveries(s)
  \/ \E w \in Executors : Deliver(w) \/ Crash(w)
  \/ \E c \in Clients, d \in Deliveries : RequestReplay(c, d)
  \/ \E c \in Clients : ReplayDelivery(c) \/ RefuseReplay(c)
  \/ Tick

Spec == Init /\ [][Next]_vars

\* Time passes, the loops are restarted and go on.  A request is answered, fails, times out
\* on an idle socket, or never ends: Stall is a way to go on, and the last.
FairSpec == Spec /\ WF_vars(Tick) /\ \A w \in Executors : WF_vars(Deliver(w))

-----------------------------------------------------------------------------
(* Properties *)

\* The executor may have a request on its way to the endpoint.
Attempting(w) == pc[w] \in {"authorize", "accepted", "unaccepted", "stalled"}

\* Two executors never attempt the same delivery at once, unless a replay came between
\* their claims: the claim's compare-and-set is all that keeps the managed loop and
\* publish apart, for there is no lease (deliverWebhook, claim).
NoOverlap ==
  \A w1, w2 \in Executors :
    w1 # w2 /\ Attempting(w1) /\ Attempting(w2) /\ target[w1] = target[w2]
      => \E w \in {w1, w2} : ~SinceReplay(w)

\* A delivery marked delivered was accepted by its endpoint since its latest replay:
\* the late result of an attempt that a replay overtook marks nothing (recordAttempt).
DeliveredWasAccepted ==
  \A d \in Deliveries : deliveries[d].status = "delivered" => accepted[d] > 0

\* No request escapes the retry limit's count: the POSTs sent since the latest replay
\* are at most the attempts counted, and one more while an attempt runs or was
\* abandoned (deliverWebhook, recordAttempt).
PostsAccounted ==
  \A d \in Deliveries :
    posts[d] <= deliveries[d].attemptCount
                + (IF deliveries[d].status = "delivering" THEN 1 ELSE 0)

\* Deliveries are well formed, say nothing that did not happen and count what did.
DeliveriesSound == TypeOK /\ DeliveredWasAccepted /\ PostsAccounted

\* Someone is at this place of an attempt of d, and what he would record is not out of date.
HeldAt(place, d) ==
  \E w \in Executors : pc[w] = place /\ target[w] = d /\ seen[w].version = deliveries[d].version

\* The state of a delivery: while it is delivering, how far its worker is.
StateOf(d) ==
  IF deliveries[d].status # "delivering" THEN deliveries[d].status
  ELSE IF HeldAt("authorize", d) THEN "claimed"
  ELSE IF HeldAt("accepted", d) THEN "accepted"
  ELSE IF HeldAt("unaccepted", d) THEN "unaccepted"
  ELSE "lost"

Lifecycle == INSTANCE DeliveryLifecycle WITH
  state <- [d \in Deliveries |-> StateOf(d)],
  attempts <- [d \in Deliveries |-> deliveries[d].attemptCount]

\* However many loops, publishers and replays work on stale lists at once, each delivery lives
\* as if one worker at a time had taken it up: late results leave no trace, and every result
\* recorded is that of the request sent under the same claim (deliverWebhook, recordAttempt).
ImplementsDelivery == Lifecycle!Spec

\* A retry waits for its backoff (the managed loop's list, recordAttempt).
BackoffRespected ==
  [][\A d \in Deliveries :
       deliveries[d].status = "retrying" /\ deliveries'[d].status = "delivering"
         => deliveries[d].nextAttemptAt = 0]_vars

\* No delivery is attempted more often than maxRetryAttempts says (recordAttempt).
AttemptsBounded == \A d \in Deliveries : deliveries[d].attemptCount <= MaxRetryAttempts

\* Whatever was queued is delivered or reported as failed in the end (the managed loop
\* and its retries).
AtLeastOnce ==
  \A d \in Deliveries :
    deliveries[d].status # "absent" ~> deliveries[d].status \in {"delivered", "failed"}

\* The loop settles whatever was queued, through outages and retries, as long as none of
\* its requests is left without an end: that, and no order of answers, is all that keeps a
\* delivery of a loop that does not stop from being settled (performHttpDelivery).
SettledUnlessStalled ==
  \A d \in Deliveries :
    deliveries[d].status # "absent"
      ~> \/ deliveries[d].status \in {"delivered", "failed"}
         \/ \E w \in Executors : pc[w] = "stalled"

=============================================================================
