--------------------------- MODULE WebhooksProofs ---------------------------
(***************************************************************************)
(* Proofs about Webhooks, for any number of endpoints, deliveries, loops,  *)
(* publishers and clients, and any bounds.                                 *)
(***************************************************************************)
EXTENDS Webhooks, TLAPS

-----------------------------------------------------------------------------
(* The inductive invariant *)

\* The record is still the one the executor has seen.
Fresh(w) == seen[w].version = deliveries[target[w]].version

\* What an executor knows of the record it works on.
Knows(w, d) ==
  /\ deliveries[d].status # "absent"
  /\ seen[w].version <= deliveries[d].version
  /\ Fresh(w) =>
       /\ seen[w].attemptCount = deliveries[d].attemptCount
       /\ ~Attempting(w) => Deliverable(deliveries[d])
       /\ Attempting(w) => deliveries[d].status = "delivering" /\ SinceReplay(w)
       /\ pc[w] = "authorize" => posts[d] <= deliveries[d].attemptCount
       /\ pc[w] = "accepted" => accepted[d] > 0
  /\ Attempting(w) /\ SinceReplay(w) => Fresh(w)

ExecutorInv(w) ==
  /\ pc[w] # "idle" => Knows(w, target[w])
  /\ \A d \in due[w] : deliveries[d].status # "absent"

\* What holds of a record, whoever works on it.
DeliveryInv(d) ==
  /\ deliveries[d].status = "absent" => posts[d] = 0 /\ deliveries[d].version = 0
  /\ deliveries[d].status # "absent" => deliveries[d].endpoint \in Endpoints
  /\ replayedAt[d] <= deliveries[d].version
  /\ deliveries[d].status = "delivered" => accepted[d] > 0
  /\ posts[d] <= deliveries[d].attemptCount + (IF deliveries[d].status = "delivering" THEN 1 ELSE 0)

\* One executor at most attempts the record as it stands.
OneAttempt ==
  \A w1, w2 \in Executors :
    /\ Attempting(w1) /\ Fresh(w1) /\ Attempting(w2) /\ Fresh(w2)
    /\ target[w1] = target[w2]
    => w1 = w2

\* A replay that waits for its answer has a record.
ClientInv(c) ==
  asked[c] # NoRequest =>
    asked[c].delivery \in Deliveries /\ deliveries[asked[c].delivery].status # "absent"

\* An emit found endpoints that are there.
SourceInv(s) == \A e \in matched[s] : endpoints[e] # "absent"

WebhooksInv ==
  /\ TypeOK
  /\ \A w \in Executors : ExecutorInv(w)
  /\ \A d \in Deliveries : DeliveryInv(d)
  /\ OneAttempt
  /\ \A c \in Clients : ClientInv(c)
  /\ \A s \in Sources : SourceInv(s)

-----------------------------------------------------------------------------
(* Records *)

Status == {"absent", "pending", "delivering", "retrying", "delivered", "failed"}

LEMMA DeliveryFields ==
  Delivery = [status: Status, endpoint: Endpoints \union {None}, attemptCount: Nat,
              nextAttemptAt: Nat, version: Nat]
  BY DEF Delivery, Status

\* What a replay makes of a record.
LEMMA ReplayedFields ==
  ASSUME NEW r \in Delivery
  PROVE  /\ [r EXCEPT !.status = "pending", !.attemptCount = 0, !.nextAttemptAt = 0] \in Delivery
         /\ [r EXCEPT !.status = "pending", !.attemptCount = 0, !.nextAttemptAt = 0].status = "pending"
         /\ [r EXCEPT !.status = "pending", !.attemptCount = 0, !.nextAttemptAt = 0].attemptCount = 0
         /\ [r EXCEPT !.status = "pending", !.attemptCount = 0, !.nextAttemptAt = 0].endpoint = r.endpoint
  BY DeliveryFields DEF Status

\* Changing the status changes nothing else.
LEMMA StatusFields ==
  ASSUME NEW r \in Delivery, NEW s \in Status
  PROVE  /\ [r EXCEPT !.status = s] \in Delivery
         /\ [r EXCEPT !.status = s].status = s
         /\ [r EXCEPT !.status = s].attemptCount = r.attemptCount
         /\ [r EXCEPT !.status = s].endpoint = r.endpoint
  BY DeliveryFields

LEMMA SnapshotFields ==
  ASSUME NEW r \in Delivery
  PROVE  /\ Snapshot(r) \in [version: Nat, attemptCount: Nat]
         /\ Snapshot(r).version = r.version /\ Snapshot(r).attemptCount = r.attemptCount
  BY DeliveryFields DEF Snapshot

\* What a write makes of the collection.
LEMMA WriteEffect ==
  ASSUME TypeOK, NEW d \in Deliveries, NEW new \in Delivery,
         deliveries' = [deliveries EXCEPT ![d] = Written(d, new)]
  PROVE  /\ deliveries' \in [Deliveries -> Delivery]
         /\ deliveries'[d].version = deliveries[d].version + 1
         /\ deliveries'[d].status = new.status
         /\ deliveries'[d].attemptCount = new.attemptCount
         /\ deliveries'[d].endpoint = new.endpoint
         /\ \A k \in Deliveries : k # d => deliveries'[k] = deliveries[k]
  <1>1. PICK n \in Nat : n = deliveries[d].version + 1
    BY DeliveryFields DEF TypeOK
  <1>2. Written(d, new) = [new EXCEPT !.version = n]
    BY <1>1 DEF Written
  <1>3. /\ Written(d, new) \in Delivery
        /\ Written(d, new).version = n /\ Written(d, new).status = new.status
        /\ Written(d, new).attemptCount = new.attemptCount /\ Written(d, new).endpoint = new.endpoint
    BY <1>2, DeliveryFields
  <1>4. QED
    BY <1>1, <1>3 DEF TypeOK

-----------------------------------------------------------------------------
(* Who is concerned by a step *)

\* x waits where it waited, with what it held.
Unmoved(x) == pc'[x] = pc[x] /\ target'[x] = target[x] /\ seen'[x] = seen[x] /\ due'[x] = due[x]

\* The step writes delivery d and no other.
WritesOnly(d) ==
  /\ deliveries'[d].version = deliveries[d].version + 1
  /\ deliveries'[d].status # "absent"
  /\ \A k \in Deliveries : k # d =>
       /\ deliveries'[k] = deliveries[k] /\ replayedAt'[k] = replayedAt[k]
       /\ posts'[k] = posts[k] /\ accepted'[k] = accepted[k]

\* A write of d keeps what another executor knows, unless it overtakes an attempt
\* of the record as it stood; a replay may.
LEMMA Bystander ==
  ASSUME TypeOK, TypeOK', NEW d \in Deliveries, NEW x \in Executors,
         ExecutorInv(x), WritesOnly(d), Unmoved(x),
         \/ replayedAt'[d] = deliveries'[d].version
         \/ /\ replayedAt'[d] = replayedAt[d]
            /\ ~(Attempting(x) /\ target[x] = d /\ Fresh(x))
  PROVE  ExecutorInv(x)' /\ (Attempting(x)' /\ Fresh(x)' => target[x] # d /\ Attempting(x) /\ Fresh(x))
  <1>1. \A k \in due'[x] : deliveries'[k].status # "absent"
    BY DEF ExecutorInv, Unmoved, WritesOnly, TypeOK
  <1>2. CASE pc[x] = "idle"
    BY <1>1, <1>2 DEF ExecutorInv, Unmoved, Attempting
  <1>3. CASE pc[x] # "idle" /\ target[x] # d
    <2>1. PICK k \in Deliveries : k = target[x] /\ k = target'[x] /\ k # d
      BY <1>3 DEF TypeOK, Unmoved
    <2>2. /\ deliveries'[k] = deliveries[k] /\ replayedAt'[k] = replayedAt[k]
          /\ posts'[k] = posts[k] /\ accepted'[k] = accepted[k]
      BY <2>1 DEF WritesOnly
    <2>3. (Fresh(x)' <=> Fresh(x)) /\ (Attempting(x)' <=> Attempting(x)) /\ (SinceReplay(x)' <=> SinceReplay(x))
      BY <2>1, <2>2 DEF Fresh, Attempting, SinceReplay, Unmoved
    <2>4. Knows(x, k)
      BY <1>3, <2>1 DEF ExecutorInv
    <2>5. Knows(x, k)'
      BY <2>2, <2>3, <2>4 DEF Knows, Deliverable, Unmoved
    <2>6. QED
      BY <1>1, <1>3, <2>1, <2>3, <2>5 DEF ExecutorInv
  <1>4. CASE pc[x] # "idle" /\ target[x] = d
    <2>1. Knows(x, d)
      BY <1>4 DEF ExecutorInv
    <2>2. /\ seen[x].version \in Nat /\ deliveries[d].version \in Nat /\ deliveries'[d].version \in Nat
          /\ replayedAt[d] \in Nat /\ replayedAt'[d] \in Nat
      BY DeliveryFields DEF TypeOK
    <2>3. seen[x].version < deliveries'[d].version
      BY <2>1, <2>2 DEF Knows, WritesOnly
    <2>4. ~Fresh(x)'
      BY <1>4, <2>2, <2>3 DEF Fresh, Unmoved
    <2>5. Attempting(x)' => ~SinceReplay(x)'
      <3>1. CASE replayedAt'[d] = deliveries'[d].version
        BY <1>4, <2>2, <2>3, <3>1 DEF SinceReplay, Unmoved
      <3>2. CASE replayedAt'[d] = replayedAt[d] /\ ~(Attempting(x) /\ target[x] = d /\ Fresh(x))
        BY <1>4, <2>1, <3>2 DEF Knows, SinceReplay, Attempting, Unmoved
      <3>3. QED
        BY <3>1, <3>2
    <2>6. Knows(x, d)'
      BY <1>4, <2>2, <2>3, <2>4, <2>5 DEF Knows, WritesOnly, Unmoved
    <2>7. QED
      BY <1>1, <1>4, <2>4, <2>6 DEF ExecutorInv, Unmoved
  <1>5. QED
    BY <1>2, <1>3, <1>4

\* A write of d keeps the invariant when its writer, if it has one, and d keep theirs.
LEMMA WriteKeepsInv ==
  ASSUME WebhooksInv, TypeOK', NEW d \in Deliveries, NEW W \in SUBSET Executors, WritesOnly(d),
         \A a, b \in W : a = b,
         \A w \in W : ExecutorInv(w)' /\ target'[w] \in {d, None},
         \A x \in Executors \ W : Unmoved(x),
         DeliveryInv(d)',
         \/ replayedAt'[d] = deliveries'[d].version
         \/ /\ replayedAt'[d] = replayedAt[d]
            /\ \A x \in Executors \ W : ~(Attempting(x) /\ target[x] = d /\ Fresh(x)),
         UNCHANGED <<endpoints, matched>>,
         \A c \in Clients : asked'[c] = asked[c] \/ asked'[c] = NoRequest
  PROVE  WebhooksInv'
  <1>1. ASSUME NEW x \in Executors \ W
        PROVE  /\ ExecutorInv(x)'
               /\ Attempting(x)' /\ Fresh(x)' => target[x] # d /\ Attempting(x) /\ Fresh(x)
    <2>1. TypeOK /\ ExecutorInv(x) /\ Unmoved(x)
      BY DEF WebhooksInv
    <2>2. \/ replayedAt'[d] = deliveries'[d].version
          \/ replayedAt'[d] = replayedAt[d] /\ ~(Attempting(x) /\ target[x] = d /\ Fresh(x))
      OBVIOUS
    <2>3. QED
      BY <2>1, <2>2, Bystander
  <1>2. \A k \in Deliveries : DeliveryInv(k)'
    BY DEF WebhooksInv, DeliveryInv, WritesOnly
  <1>3. \A w \in Executors : ExecutorInv(w)'
    BY <1>1
  <1>4. OneAttempt'
    <2> SUFFICES ASSUME NEW a \in Executors, NEW b \in Executors,
                        Attempting(a)', Fresh(a)', Attempting(b)', Fresh(b)', target'[a] = target'[b]
                 PROVE  a = b
      BY DEF OneAttempt
    <2>1. None \notin Deliveries /\ target'[a] \in Deliveries
      BY WebhooksAssumption DEF TypeOK, Attempting
    <2>2. CASE a \in W /\ b \in W
      BY <2>2
    <2>3. CASE a \notin W /\ b \notin W
      BY <1>1, <2>3 DEF OneAttempt, WebhooksInv, Unmoved
    <2>4. CASE a \in W /\ b \notin W
      BY <1>1, <2>1, <2>4 DEF Unmoved
    <2>5. CASE a \notin W /\ b \in W
      BY <1>1, <2>1, <2>5 DEF Unmoved
    <2>6. QED
      BY <2>2, <2>3, <2>4, <2>5
  <1>5. \A c \in Clients : ClientInv(c)'
    BY DEF WebhooksInv, ClientInv, WritesOnly
  <1>6. \A s \in Sources : SourceInv(s)'
    BY DEF WebhooksInv, SourceInv
  <1>7. QED
    BY <1>2, <1>3, <1>4, <1>5, <1>6 DEF WebhooksInv

\* The same with one writer that keeps to d or lets go of it.
LEMMA WriteBy ==
  ASSUME WebhooksInv, TypeOK', NEW d \in Deliveries, NEW w \in Executors, WritesOnly(d),
         ExecutorInv(w)', target'[w] \in {d, None},
         \A x \in Executors \ {w} : Unmoved(x),
         DeliveryInv(d)', replayedAt'[d] = replayedAt[d],
         \A x \in Executors \ {w} : ~(Attempting(x) /\ target[x] = d /\ Fresh(x)),
         UNCHANGED <<endpoints, matched, asked>>
  PROVE  WebhooksInv'
  <1>1. {w} \in SUBSET Executors /\ \A a, b \in {w} : a = b
    OBVIOUS
  <1>2. \A v \in {w} : ExecutorInv(v)' /\ target'[v] \in {d, None}
    <2> SUFFICES ASSUME NEW v \in {w} PROVE ExecutorInv(v)' /\ target'[v] \in {d, None}
      OBVIOUS
    <2>1. v = w
      OBVIOUS
    <2> QED BY <2>1 DEF ExecutorInv, Attempting, Knows, Fresh, SinceReplay
  <1>3. \A c \in Clients : asked'[c] = asked[c] \/ asked'[c] = NoRequest
    OBVIOUS
  <1>4. UNCHANGED <<endpoints, matched>>
    OBVIOUS
  <1>5. \/ replayedAt'[d] = deliveries'[d].version
        \/ /\ replayedAt'[d] = replayedAt[d]
           /\ \A x \in Executors \ {w} : ~(Attempting(x) /\ target[x] = d /\ Fresh(x))
    OBVIOUS
  <1>6. QED
    BY <1>1, <1>2, <1>3, <1>4, <1>5, WriteKeepsInv, ZenonT(60)

\* A step that writes no delivery and counts nothing, and that moves W to where
\* nothing is attempted.
LEMMA QuietKeepsInv ==
  ASSUME WebhooksInv, TypeOK', NEW W \in SUBSET Executors,
         UNCHANGED <<deliveries, replayedAt, posts, accepted>>,
         \A x \in Executors \ W : Unmoved(x),
         \A w \in W : ExecutorInv(w)' /\ ~Attempting(w)',
         \A c \in Clients : ClientInv(c)',
         \A s \in Sources : SourceInv(s)'
  PROVE  WebhooksInv'
  <1>1. \A x \in Executors \ W : ExecutorInv(x)' /\ (Attempting(x)' => Attempting(x)) /\ (Fresh(x)' => Fresh(x))
    BY DEF WebhooksInv, ExecutorInv, Knows, Unmoved, Attempting, Fresh, SinceReplay, Deliverable
  <1>2. \A d \in Deliveries : DeliveryInv(d)'
    BY DEF WebhooksInv, DeliveryInv
  <1>3. OneAttempt'
    BY <1>1 DEF WebhooksInv, OneAttempt, Unmoved
  <1>4. QED
    BY <1>1, <1>2, <1>3 DEF WebhooksInv

\* The same when nobody moves, and when one executor does.
LEMMA QuietNobody ==
  ASSUME WebhooksInv, TypeOK', UNCHANGED <<deliveries, replayedAt, posts, accepted>>,
         \A x \in Executors : Unmoved(x),
         \A c \in Clients : ClientInv(c)',
         \A s \in Sources : SourceInv(s)'
  PROVE  WebhooksInv'
  <1>1. {} \in SUBSET Executors /\ Executors \ {} = Executors
    OBVIOUS
  <1>2. \A x \in Executors \ {} : Unmoved(x)
    OBVIOUS
  <1>3. \A w \in {} : ExecutorInv(w)' /\ ~Attempting(w)'
    OBVIOUS
  <1>4. QED
    BY <1>1, <1>2, <1>3, QuietKeepsInv, ZenonT(60)

LEMMA QuietMove ==
  ASSUME WebhooksInv, TypeOK', UNCHANGED <<deliveries, replayedAt, posts, accepted>>,
         NEW w \in Executors,
         \A x \in Executors \ {w} : Unmoved(x),
         ExecutorInv(w)', ~Attempting(w)',
         \A c \in Clients : ClientInv(c)',
         \A s \in Sources : SourceInv(s)'
  PROVE  WebhooksInv'
  <1>1. {w} \in SUBSET Executors
    OBVIOUS
  <1>2. \A v \in {w} : ExecutorInv(v)' /\ ~Attempting(v)'
    <2> SUFFICES ASSUME NEW v \in {w} PROVE ExecutorInv(v)' /\ ~Attempting(v)'
      OBVIOUS
    <2>1. v = w
      OBVIOUS
    <2> QED BY <2>1 DEF ExecutorInv, Attempting, Knows, Fresh, SinceReplay
  <1>3. QED
    BY <1>1, <1>2, QuietKeepsInv, ZenonT(60)

-----------------------------------------------------------------------------
(* Steps *)

LEMMA InitInv == Init => WebhooksInv
  <1> SUFFICES ASSUME Init PROVE WebhooksInv
    OBVIOUS
  <1>1. AbsentDelivery \in Delivery /\ AbsentDelivery.status = "absent" /\ AbsentDelivery.attemptCount = 0
        /\ AbsentDelivery.version = 0
    BY DEF Delivery, AbsentDelivery
  <1>2. Snapshot(AbsentDelivery) \in [version: Nat, attemptCount: Nat]
    BY <1>1 DEF Snapshot
  <1>3. TypeOK
    BY <1>1, <1>2, WebhooksAssumption DEF Init, TypeOK, NoRequest
  <1>4. \A w \in Executors : ExecutorInv(w) /\ ~Attempting(w)
    BY DEF Init, ExecutorInv, Attempting
  <1>5. \A d \in Deliveries : DeliveryInv(d)
    BY <1>1 DEF Init, DeliveryInv
  <1>6. (\A c \in Clients : ClientInv(c)) /\ (\A s \in Sources : SourceInv(s))
    BY DEF Init, ClientInv, SourceInv
  <1>7. QED
    BY <1>3, <1>4, <1>5, <1>6 DEF WebhooksInv, OneAttempt

\* Endpoints come and are disabled; an emit lists them.
LEMMA EndpointStep ==
  ASSUME WebhooksInv, NEW e \in Endpoints, RegisterEndpoint(e) \/ DisableEndpoint(e)
  PROVE  WebhooksInv'
  <1>1. /\ UNCHANGED <<deliveries, matched, pc, due, target, seen, asked, crashes, outages, replays,
                        replayedAt, posts, accepted>>
        /\ endpoints' \in [Endpoints -> {"absent", "enabled", "disabled"}]
        /\ \A f \in Endpoints : endpoints[f] # "absent" => endpoints'[f] # "absent"
    BY DEF RegisterEndpoint, DisableEndpoint, execVars, boundVars, historyVars, WebhooksInv, TypeOK
  <1>2. \A d \in Deliveries : deliveries[d].status # "absent" => deliveries[d].endpoint \in Endpoints
    BY DEF WebhooksInv, DeliveryInv
  <1>3. TypeOK'
    BY <1>1, <1>2 DEF WebhooksInv, TypeOK
  <1>4. \A s \in Sources : SourceInv(s)'
    BY <1>1 DEF WebhooksInv, SourceInv, TypeOK
  <1>5. \A c \in Clients : ClientInv(c)'
    BY <1>1 DEF WebhooksInv, ClientInv
  <1>6. \A x \in Executors : Unmoved(x)
    BY <1>1 DEF Unmoved
  <1>7. QED
    BY <1>1, <1>3, <1>4, <1>5, <1>6, QuietNobody

LEMMA MatchStep ==
  ASSUME WebhooksInv, NEW s \in Sources, MatchEndpoints(s)
  PROVE  WebhooksInv'
  <1>1. /\ UNCHANGED <<endpoints, deliveries, pc, due, target, seen, asked, crashes, outages, replays,
                        replayedAt, posts, accepted>>
        /\ matched' = [matched EXCEPT ![s] = {e \in Endpoints : endpoints[e] = "enabled"}]
    BY DEF MatchEndpoints, execVars, boundVars, historyVars
  <1>2. TypeOK'
    BY <1>1 DEF WebhooksInv, TypeOK
  <1>3. \A r \in Sources : SourceInv(r)'
    BY <1>1 DEF WebhooksInv, SourceInv, TypeOK
  <1>4. (\A c \in Clients : ClientInv(c)') /\ \A x \in Executors : Unmoved(x)
    BY <1>1 DEF WebhooksInv, ClientInv, Unmoved
  <1>5. QED
    BY <1>1, <1>2, <1>3, <1>4, QuietNobody

\* The executor goes back to its list, or loses it.
LEMMA ReturnQuietly ==
  ASSUME WebhooksInv, NEW w \in Executors, Return(w), due'[w] \subseteq due[w],
         due' = [due EXCEPT ![w] = due'[w]],
         UNCHANGED <<endpoints, deliveries, matched, asked, replays, replayedAt, posts, accepted>>,
         crashes' \in 0..MaxCrashes, outages' \in 0..MaxOutages
  PROVE  WebhooksInv'
  <1>1. Snapshot(AbsentDelivery) \in [version: Nat, attemptCount: Nat]
    BY DEF Snapshot, AbsentDelivery
  <1>2. TypeOK'
    BY <1>1 DEF WebhooksInv, TypeOK, Return
  <1>3. \A x \in Executors \ {w} : Unmoved(x)
    BY DEF Unmoved, Return, WebhooksInv, TypeOK
  <1>4. ExecutorInv(w)' /\ ~Attempting(w)'
    BY DEF ExecutorInv, Attempting, Return, WebhooksInv, TypeOK
  <1>5. (\A c \in Clients : ClientInv(c)') /\ \A s \in Sources : SourceInv(s)'
    BY DEF WebhooksInv, ClientInv, SourceInv
  <1>6. QED
    BY <1>2, <1>3, <1>4, <1>5, QuietMove

LEMMA CrashStep == ASSUME WebhooksInv, NEW w \in Executors, Crash(w) PROVE WebhooksInv'
  <1>1. crashes \in Nat /\ MaxCrashes \in Nat /\ crashes' = crashes + 1 /\ crashes < MaxCrashes
    BY WebhooksAssumption DEF Crash, WebhooksInv, TypeOK
  <1>2. due' = [due EXCEPT ![w] = {}] /\ due'[w] = {}
    BY DEF Crash, WebhooksInv, TypeOK
  <1>3. QED
    <2>1. crashes' \in 0..MaxCrashes /\ outages' \in 0..MaxOutages
      BY <1>1 DEF Crash, WebhooksInv, TypeOK
    <2>2. due'[w] \subseteq due[w] /\ due' = [due EXCEPT ![w] = due'[w]]
      BY <1>2
    <2>3. Return(w) /\ UNCHANGED <<endpoints, deliveries, matched, asked, replays, replayedAt, posts, accepted>>
      BY DEF Crash, historyVars
    <2>4. QED
      BY <2>1, <2>2, <2>3, ReturnQuietly, ZenonT(60)

\* The list, the record and the endpoint are read.
LEMMA ReadStep ==
  ASSUME WebhooksInv, NEW w \in Executors,
         ListDue(w) \/ (\E d \in Deliveries : ReadDelivery(w, d)) \/ ReadEndpoint(w)
  PROVE  WebhooksInv'
  <1>1. /\ UNCHANGED <<endpoints, deliveries, matched, asked, crashes, outages, replays,
                        replayedAt, posts, accepted>>
        /\ \A x \in Executors \ {w} : Unmoved(x)
    BY DEF ListDue, ReadDelivery, ReadEndpoint, boundVars, historyVars, Unmoved, WebhooksInv, TypeOK
  <1>2. (\A c \in Clients : ClientInv(c)') /\ \A s \in Sources : SourceInv(s)'
    BY <1>1 DEF WebhooksInv, ClientInv, SourceInv
  <1>3. TypeOK' /\ ExecutorInv(w)' /\ ~Attempting(w)'
    <2>1. CASE ListDue(w)
      <3>1. \A d \in Deliveries : IsDue(deliveries[d]) => deliveries[d].status # "absent"
        BY DEF IsDue
      <3>2. /\ due' = [due EXCEPT ![w] = {d \in Deliveries : IsDue(deliveries[d])}]
            /\ UNCHANGED <<pc, target, seen>> /\ pc[w] = "idle"
        BY <2>1 DEF ListDue
      <3>3. QED
        BY <1>1, <3>1, <3>2 DEF WebhooksInv, TypeOK, ExecutorInv, Attempting
    <2>2. ASSUME NEW d \in Deliveries, ReadDelivery(w, d) PROVE TypeOK' /\ ExecutorInv(w)' /\ ~Attempting(w)'
      <3>1. d \in due[w] /\ deliveries[d].status # "absent" /\ due' = [due EXCEPT ![w] = @ \ {d}] /\ pc[w] = "idle"
        BY <2>2 DEF ReadDelivery, WebhooksInv, ExecutorInv
      <3>2. CASE Deliverable(deliveries[d])
        <4>1. PICK n \in [version: Nat, attemptCount: Nat] :
                n = Snapshot(deliveries[d]) /\ n.version = deliveries[d].version
                /\ n.attemptCount = deliveries[d].attemptCount
          BY SnapshotFields DEF WebhooksInv, TypeOK
        <4>2. /\ pc' = [pc EXCEPT ![w] = "endpoint"]
              /\ target' = [target EXCEPT ![w] = d]
              /\ seen' = [seen EXCEPT ![w] = n]
          BY <2>2, <3>2, <4>1 DEF ReadDelivery
        <4>3. TypeOK'
          BY <1>1, <3>1, <4>2 DEF WebhooksInv, TypeOK
        <4>4. ~Attempting(w)' /\ pc'[w] = "endpoint" /\ target'[w] = d /\ seen'[w] = n
          BY <4>2 DEF Attempting, WebhooksInv, TypeOK
        <4>5. Knows(w, d)'
          <5>1. deliveries[d].version \in Nat
            BY DeliveryFields DEF WebhooksInv, TypeOK
          <5>2. QED
            BY <1>1, <3>1, <3>2, <4>1, <4>4, <5>1 DEF Knows, Deliverable
        <4>6. QED
          BY <1>1, <3>1, <4>3, <4>4, <4>5 DEF ExecutorInv, WebhooksInv, TypeOK
      <3>3. CASE ~Deliverable(deliveries[d])
        BY <1>1, <2>2, <3>1, <3>3 DEF ReadDelivery, WebhooksInv, TypeOK, ExecutorInv, Attempting
      <3>4. QED
        BY <3>2, <3>3
    <2>3. CASE ReadEndpoint(w)
      <3>1. PICK to \in {"claim", "refuse"} :
              pc' = [pc EXCEPT ![w] = to] /\ pc[w] = "endpoint" /\ UNCHANGED <<due, target, seen>>
        BY <2>3 DEF ReadEndpoint
      <3>2. TypeOK'
        BY <1>1, <3>1 DEF WebhooksInv, TypeOK
      <3>3. pc'[w] = to /\ ~Attempting(w) /\ ~Attempting(w)'
        BY <3>1 DEF Attempting, WebhooksInv, TypeOK
      <3>4. PICK d \in Deliveries : d = target[w]
        BY <3>1 DEF WebhooksInv, TypeOK
      <3>5. Knows(w, d)
        BY <3>1, <3>4 DEF WebhooksInv, ExecutorInv
      <3>6. Knows(w, d)'
        BY <1>1, <3>1, <3>3, <3>5 DEF Knows, Fresh, Deliverable
      <3>7. QED
        BY <1>1, <3>1, <3>2, <3>3, <3>4, <3>6 DEF ExecutorInv, WebhooksInv
    <2>4. QED
      BY <2>1, <2>2, <2>3
  <1>4. QED
    BY <1>1, <1>2, <1>3, QuietMove

\* While w works on the record it has seen, nobody else attempts it.
LEMMA Alone ==
  ASSUME WebhooksInv, NEW w \in Executors, pc[w] # "idle", Fresh(w), NEW x \in Executors, x # w
  PROVE  ~(Attempting(x) /\ target[x] = target[w] /\ Fresh(x))
  <1> SUFFICES ASSUME Attempting(x), target[x] = target[w], Fresh(x) PROVE FALSE
    OBVIOUS
  <1>1. Knows(w, target[w]) /\ Knows(x, target[w])
    BY DEF WebhooksInv, ExecutorInv, Attempting
  <1>2. CASE Attempting(w)
    BY <1>2 DEF WebhooksInv, OneAttempt
  <1>3. CASE ~Attempting(w)
    BY <1>1, <1>3 DEF Knows, Deliverable
  <1>4. QED
    BY <1>2, <1>3

\* The write that ends deliverWebhook, whatever it says, keeps the invariant when it
\* owns up to the requests sent and claims no answer that was not given.
LEMMA SettleStep ==
  ASSUME WebhooksInv, NEW w \in Executors, pc[w] # "idle", NEW new, Settle(w, new),
         outages' \in 0..MaxOutages,
         Fresh(w) => /\ new \in Delivery /\ new.status # "absent"
                     /\ new.endpoint = deliveries[target[w]].endpoint
                     /\ posts[target[w]] <= new.attemptCount
                     /\ new.status = "delivered" => accepted[target[w]] > 0
  PROVE  WebhooksInv'
  <1>1. /\ Return(w)
        /\ UNCHANGED <<endpoints, matched, due, asked, crashes, replays, replayedAt, posts, accepted>>
    BY DEF Settle, historyVars
  <1>2. PICK d \in Deliveries : d = target[w]
    BY DEF WebhooksInv, TypeOK
  <1>3. VersionMatches(d, seen[w].version) <=> Fresh(w)
    BY <1>2 DEF VersionMatches, Fresh
  <1>4. CASE ~Fresh(w)
    <2>1. UNCHANGED deliveries
      BY <1>2, <1>3, <1>4 DEF Settle
    <2>2. /\ due'[w] \subseteq due[w] /\ due' = [due EXCEPT ![w] = due'[w]]
          /\ crashes' \in 0..MaxCrashes
      BY <1>1 DEF WebhooksInv, TypeOK
    <2>3. UNCHANGED <<endpoints, deliveries, matched, asked, replays, replayedAt, posts, accepted>>
      BY <1>1, <2>1
    <2>4. QED
      BY <1>1, <2>2, <2>3, ReturnQuietly, ZenonT(60)
  <1>5. CASE Fresh(w)
    <2>1. deliveries' = [deliveries EXCEPT ![d] = Written(d, new)]
      BY <1>2, <1>3, <1>5 DEF Settle
    <2>2. /\ new \in Delivery /\ new.status # "absent" /\ new.endpoint = deliveries[d].endpoint
          /\ posts[d] <= new.attemptCount
          /\ new.status = "delivered" => accepted[d] > 0
      BY <1>2, <1>5
    <2>3. TypeOK /\ Knows(w, d)
      BY <1>2 DEF WebhooksInv, ExecutorInv
    <2>4. /\ deliveries' \in [Deliveries -> Delivery]
          /\ deliveries'[d].version = deliveries[d].version + 1
          /\ deliveries'[d].status = new.status
          /\ deliveries'[d].attemptCount = new.attemptCount
          /\ deliveries'[d].endpoint = new.endpoint
          /\ \A k \in Deliveries : k # d => deliveries'[k] = deliveries[k]
      BY <2>1, <2>2, <2>3, WriteEffect
    <2>5. Snapshot(AbsentDelivery) \in [version: Nat, attemptCount: Nat]
      BY DEF Snapshot, AbsentDelivery
    <2>6. TypeOK'
      <3>1. /\ pc' = [pc EXCEPT ![w] = "idle"] /\ target' = [target EXCEPT ![w] = None]
            /\ seen' = [seen EXCEPT ![w] = Snapshot(AbsentDelivery)]
        BY <1>1 DEF Return
      <3>2. \A x \in Executors : pc'[x] # "idle" => target'[x] \in Deliveries
        BY <2>3, <3>1 DEF TypeOK
      <3>3. \A k \in Deliveries :
              deliveries'[k].status # "absent" => endpoints'[deliveries'[k].endpoint] # "absent"
        BY <1>1, <2>2, <2>3, <2>4 DEF TypeOK, Knows
      <3>4. QED
        BY <1>1, <2>3, <2>4, <2>5, <3>1, <3>2, <3>3 DEF TypeOK
    <2>7. WritesOnly(d) /\ replayedAt'[d] = replayedAt[d]
      BY <1>1, <2>2, <2>4 DEF WritesOnly
    <2>8. ExecutorInv(w)' /\ target'[w] \in {d, None}
      BY <1>1, <2>2, <2>3, <2>4 DEF Return, ExecutorInv, WebhooksInv, TypeOK
    <2>9. \A x \in Executors \ {w} : Unmoved(x)
      BY <1>1, <2>3 DEF Return, Unmoved, TypeOK
    <2>10. DeliveryInv(d)'
      <3>1. /\ deliveries[d].version \in Nat /\ replayedAt[d] \in Nat /\ posts[d] \in Nat
            /\ new.attemptCount \in Nat
        BY <2>2, <2>3, DeliveryFields DEF TypeOK
      <3>2. DeliveryInv(d)
        BY DEF WebhooksInv
      <3>3. QED
        BY <1>1, <2>2, <2>3, <2>4, <3>1, <3>2 DEF DeliveryInv, Knows
    <2>11. \A x \in Executors \ {w} : ~(Attempting(x) /\ target[x] = d /\ Fresh(x))
      BY <1>2, <1>5, Alone
    <2>12. UNCHANGED <<endpoints, matched, asked>>
      BY <1>1
    <2>13. QED
      BY <2>6, <2>7, <2>8, <2>9, <2>10, <2>11, <2>12, WriteBy, ZenonT(60)
  <1>6. QED
    BY <1>4, <1>5

\* The records that recordAttempt writes.
LEMMA RetryingFields ==
  ASSUME NEW r \in Delivery, NEW t \in Nat
  PROVE  /\ [r EXCEPT !.status = "retrying", !.nextAttemptAt = t] \in Delivery
         /\ [r EXCEPT !.status = "retrying", !.nextAttemptAt = t].status = "retrying"
         /\ [r EXCEPT !.status = "retrying", !.nextAttemptAt = t].attemptCount = r.attemptCount
         /\ [r EXCEPT !.status = "retrying", !.nextAttemptAt = t].endpoint = r.endpoint
  BY DeliveryFields DEF Status

LEMMA AttemptedFields ==
  ASSUME NEW r \in Delivery, NEW n \in Nat
  PROVE  /\ [r EXCEPT !.attemptCount = n] \in Delivery
         /\ [r EXCEPT !.attemptCount = n].attemptCount = n
         /\ [r EXCEPT !.attemptCount = n].endpoint = r.endpoint
  BY DeliveryFields

\* The attempts that a settled record may own up to.
LEMMA Accounted ==
  ASSUME WebhooksInv, NEW w \in Executors, pc[w] # "idle", Fresh(w)
  PROVE  /\ target[w] \in Deliveries /\ Current(w) \in Delivery
         /\ Current(w).attemptCount \in Nat /\ seen[w].attemptCount \in Nat
         /\ posts[target[w]] \in Nat
         /\ posts[target[w]] <= seen[w].attemptCount + 1
         /\ pc[w] = "authorize" \/ ~Attempting(w) => posts[target[w]] <= Current(w).attemptCount
         /\ pc[w] = "accepted" => accepted[target[w]] > 0
         /\ Current(w).endpoint = deliveries[target[w]].endpoint
  <1>1. PICK d \in Deliveries : d = target[w]
    BY DEF WebhooksInv, TypeOK
  <1>2. deliveries[d].attemptCount \in Nat /\ posts[d] \in Nat /\ seen[w].attemptCount \in Nat
    BY DeliveryFields DEF WebhooksInv, TypeOK
  <1>3. Knows(w, d) /\ DeliveryInv(d)
    BY <1>1 DEF WebhooksInv, ExecutorInv
  <1>4. Current(w) = deliveries[d] /\ deliveries[d] \in Delivery
    BY <1>1 DEF Current, WebhooksInv, TypeOK
  <1>5. QED
    BY <1>1, <1>2, <1>3, <1>4 DEF Knows, DeliveryInv, Deliverable

LEMMA RefuseStep ==
  ASSUME WebhooksInv, NEW w \in Executors, Refuse(w) \/ Deny(w) PROVE WebhooksInv'
  <1> DEFINE new == [Current(w) EXCEPT !.status = "failed"]
  <1>1. /\ pc[w] # "idle" /\ (pc[w] = "authorize" \/ ~Attempting(w))
        /\ Settle(w, new) /\ outages' \in 0..MaxOutages
    BY DEF Refuse, Deny, Attempting, WebhooksInv, TypeOK
  <1>2. ASSUME Fresh(w)
        PROVE  /\ new \in Delivery /\ new.status # "absent"
               /\ new.endpoint = deliveries[target[w]].endpoint
               /\ posts[target[w]] <= new.attemptCount
               /\ new.status = "delivered" => accepted[target[w]] > 0
    <2>1. PICK r \in Delivery : r = Current(w) /\ posts[target[w]] <= r.attemptCount
                                 /\ r.endpoint = deliveries[target[w]].endpoint
      BY <1>1, <1>2, Accounted
    <2>2. "failed" \in Status
      BY DEF Status
    <2>3. /\ new \in Delivery /\ new.status = "failed" /\ new.attemptCount = r.attemptCount
          /\ new.endpoint = r.endpoint
      BY <2>1, <2>2, StatusFields
    <2>4. QED
      BY <2>1, <2>3
  <1>3. QED
    BY <1>1, <1>2, SettleStep

LEMMA PostponeStep == ASSUME WebhooksInv, NEW w \in Executors, Postpone(w) PROVE WebhooksInv'
  <1> DEFINE new == [Current(w) EXCEPT !.status = "retrying", !.nextAttemptAt = RetryDelay]
  <1>1. pc[w] # "idle" /\ pc[w] = "authorize" /\ Settle(w, new)
    BY DEF Postpone
  <1>2. outages' \in 0..MaxOutages
    BY WebhooksAssumption DEF Postpone, WebhooksInv, TypeOK
  <1>3. ASSUME Fresh(w)
        PROVE  /\ new \in Delivery /\ new.status # "absent"
               /\ new.endpoint = deliveries[target[w]].endpoint
               /\ posts[target[w]] <= new.attemptCount
               /\ new.status = "delivered" => accepted[target[w]] > 0
    <2>1. PICK r \in Delivery : r = Current(w) /\ posts[target[w]] <= r.attemptCount
                                 /\ r.endpoint = deliveries[target[w]].endpoint
      BY <1>1, <1>3, Accounted
    <2>2. "retrying" \in Status /\ RetryDelay \in Nat
      BY WebhooksAssumption DEF Status
    <2>3. /\ new \in Delivery /\ new.status = "retrying" /\ new.attemptCount = r.attemptCount
          /\ new.endpoint = r.endpoint
      <3>1. /\ [r EXCEPT !.status = "retrying", !.nextAttemptAt = RetryDelay] \in Delivery
            /\ [r EXCEPT !.status = "retrying", !.nextAttemptAt = RetryDelay].status = "retrying"
            /\ [r EXCEPT !.status = "retrying", !.nextAttemptAt = RetryDelay].attemptCount = r.attemptCount
            /\ [r EXCEPT !.status = "retrying", !.nextAttemptAt = RetryDelay].endpoint = r.endpoint
        BY <2>2, RetryingFields, Zenon
      <3>2. new = [r EXCEPT !.status = "retrying", !.nextAttemptAt = RetryDelay]
        BY <2>1
      <3>3. QED
        BY <3>1, <3>2, Zenon
    <2>4. QED
      BY <2>1, <2>3
  <1>4. QED
    BY <1>1, <1>2, <1>3, SettleStep

\* recordAttempt counts the attempt before it writes what came of it.
LEMMA RecordStep ==
  ASSUME WebhooksInv, NEW w \in Executors, Succeed(w) \/ Reject(w) \/ Miss(w) PROVE WebhooksInv'
  <1>1. Attempting(w) /\ pc[w] # "idle" /\ outages' \in 0..MaxOutages
    BY DEF Succeed, Reject, Miss, Attempting, WebhooksInv, TypeOK
  <1>2. PICK d \in Deliveries : d = target[w]
    BY <1>1 DEF WebhooksInv, TypeOK
  <1>3. PICK n \in Nat : n = seen[w].attemptCount
    BY DEF WebhooksInv, TypeOK
  <1>4. PICK r \in Delivery : r = Current(w)
    BY <1>2 DEF Current, WebhooksInv, TypeOK
  <1>5. PICK m \in Nat : m = n + 1 /\ Attempted(w) = [r EXCEPT !.attemptCount = m]
    BY <1>3, <1>4 DEF Attempted
  <1>6. PICK c \in Delivery : c = Attempted(w) /\ c.attemptCount = m /\ c.endpoint = r.endpoint
    <2>1. Attempted(w) \in Delivery /\ Attempted(w).attemptCount = m /\ Attempted(w).endpoint = r.endpoint
      BY <1>5, AttemptedFields
    <2>2. QED
      BY <2>1
  <1>7. r.endpoint = deliveries[target[w]].endpoint /\ (Fresh(w) => posts[target[w]] <= m)
    BY <1>1, <1>3, <1>4, <1>5, Accounted DEF Current
  <1>8. CASE Succeed(w)
    <2> DEFINE new == [c EXCEPT !.status = "delivered"]
    <2>1. Settle(w, new) /\ pc[w] = "accepted"
      BY <1>6, <1>8 DEF Succeed
    <2>2. /\ new \in Delivery /\ new.status = "delivered" /\ new.attemptCount = m
          /\ new.endpoint = r.endpoint
      <3>1. "delivered" \in Status
        BY DEF Status
      <3>2. /\ new \in Delivery /\ new.status = "delivered"
            /\ new.attemptCount = c.attemptCount /\ new.endpoint = c.endpoint
        BY <1>6, <3>1, StatusFields, Zenon
      <3>3. QED
        BY <1>6, <3>2, Zenon
    <2>3. Fresh(w) => accepted[target[w]] > 0
      BY <1>1, <2>1, Accounted
    <2>4. QED
      BY <1>1, <1>7, <2>1, <2>2, <2>3, SettleStep
  <1>9. CASE Reject(w) \/ (Miss(w) /\ LastAttempt(w))
    <2> DEFINE new == [c EXCEPT !.status = "failed"]
    <2>1. Settle(w, new)
      BY <1>6, <1>9 DEF Reject, Miss
    <2>2. /\ new \in Delivery /\ new.status = "failed" /\ new.attemptCount = m
          /\ new.endpoint = r.endpoint
      <3>1. "failed" \in Status
        BY DEF Status
      <3>2. /\ new \in Delivery /\ new.status = "failed"
            /\ new.attemptCount = c.attemptCount /\ new.endpoint = c.endpoint
        BY <1>6, <3>1, StatusFields, Zenon
      <3>3. QED
        BY <1>6, <3>2, Zenon
    <2>3. QED
      BY <1>1, <1>7, <2>1, <2>2, SettleStep
  <1>10. CASE Miss(w) /\ ~LastAttempt(w)
    <2>1. PICK wait \in Nat : wait = Backoff(n)
      BY <1>3, <1>10, WebhooksAssumption, BackoffAssumption DEF LastAttempt
    <2> DEFINE new == [c EXCEPT !.status = "retrying", !.nextAttemptAt = wait]
    <2>2. Settle(w, new)
      BY <1>3, <1>6, <1>10, <2>1 DEF Miss
    <2>3. /\ new \in Delivery /\ new.status = "retrying" /\ new.attemptCount = m
          /\ new.endpoint = r.endpoint
      <3>1. "retrying" \in Status /\ wait \in Nat
        BY <2>1 DEF Status
      <3>2. /\ [c EXCEPT !.status = "retrying", !.nextAttemptAt = wait] \in Delivery
            /\ [c EXCEPT !.status = "retrying", !.nextAttemptAt = wait].status = "retrying"
            /\ [c EXCEPT !.status = "retrying", !.nextAttemptAt = wait].attemptCount = c.attemptCount
            /\ [c EXCEPT !.status = "retrying", !.nextAttemptAt = wait].endpoint = c.endpoint
        BY <3>1, RetryingFields, Zenon
      <3>3. QED
        BY <1>6, <3>2, Zenon
    <2>4. QED
      BY <1>1, <1>7, <2>2, <2>3, SettleStep
  <1>11. QED
    BY <1>8, <1>9, <1>10

LEMMA ClaimStep == ASSUME WebhooksInv, NEW w \in Executors, Claim(w) PROVE WebhooksInv'
  <1>1. /\ pc[w] = "claim" /\ ~Attempting(w)
        /\ UNCHANGED <<endpoints, matched, due, asked, crashes, outages, replays, replayedAt, posts, accepted>>
    BY DEF Claim, boundVars, historyVars, Attempting
  <1>2. PICK d \in Deliveries : d = target[w]
    BY <1>1 DEF WebhooksInv, TypeOK
  <1>3. VersionMatches(d, seen[w].version) <=> Fresh(w)
    BY <1>2 DEF VersionMatches, Fresh
  <1>4. CASE ~Fresh(w)
    <2>1. Return(w) /\ UNCHANGED deliveries
      BY <1>2, <1>3, <1>4 DEF Claim
    <2>2. /\ due'[w] \subseteq due[w] /\ due' = [due EXCEPT ![w] = due'[w]]
          /\ crashes' \in 0..MaxCrashes /\ outages' \in 0..MaxOutages
      BY <1>1 DEF WebhooksInv, TypeOK
    <2>3. UNCHANGED <<endpoints, deliveries, matched, asked, replays, replayedAt, posts, accepted>>
      BY <1>1, <2>1
    <2>4. QED
      BY <2>1, <2>2, <2>3, ReturnQuietly, ZenonT(60)
  <1>5. CASE Fresh(w)
    <2>1. TypeOK /\ Knows(w, d) /\ DeliveryInv(d) /\ deliveries[d] \in Delivery
      BY <1>1, <1>2 DEF WebhooksInv, ExecutorInv, TypeOK
    <2>2. PICK new \in Delivery :
            /\ new = [deliveries[d] EXCEPT !.status = "delivering"]
            /\ new.status = "delivering" /\ new.attemptCount = deliveries[d].attemptCount
            /\ new.endpoint = deliveries[d].endpoint
      <3>1. "delivering" \in Status
        BY DEF Status
      <3>2. QED
        BY <2>1, <3>1, StatusFields, Zenon
    <2>3. /\ deliveries' = [deliveries EXCEPT ![d] = Written(d, new)]
          /\ seen' = [seen EXCEPT ![w] = Snapshot(deliveries'[d])]
          /\ pc' = [pc EXCEPT ![w] = "authorize"]
          /\ UNCHANGED target
      BY <1>2, <1>3, <1>5, <2>2 DEF Claim
    <2>4. /\ deliveries' \in [Deliveries -> Delivery]
          /\ deliveries'[d].version = deliveries[d].version + 1
          /\ deliveries'[d].status = "delivering"
          /\ deliveries'[d].attemptCount = deliveries[d].attemptCount
          /\ deliveries'[d].endpoint = deliveries[d].endpoint
          /\ \A k \in Deliveries : k # d => deliveries'[k] = deliveries[k]
      BY <2>1, <2>2, <2>3, WriteEffect
    <2>5. PICK n \in [version: Nat, attemptCount: Nat] :
            /\ n = Snapshot(deliveries'[d]) /\ n.version = deliveries'[d].version
            /\ n.attemptCount = deliveries'[d].attemptCount
      BY <2>4, SnapshotFields
    <2>6. TypeOK'
      <3>1. \A k \in Deliveries :
              deliveries'[k].status # "absent" => endpoints'[deliveries'[k].endpoint] # "absent"
        BY <1>1, <2>1, <2>4 DEF TypeOK, Knows
      <3>2. \A x \in Executors : pc'[x] # "idle" => target'[x] \in Deliveries
        BY <1>1, <2>1, <2>3 DEF TypeOK
      <3>3. QED
        BY <1>1, <2>1, <2>3, <2>4, <2>5, <3>1, <3>2 DEF TypeOK
    <2>7. WritesOnly(d) /\ replayedAt'[d] = replayedAt[d]
      BY <1>1, <2>4 DEF WritesOnly
    <2>8. /\ pc'[w] = "authorize" /\ target'[w] = d /\ seen'[w] = n
      BY <1>2, <2>1, <2>3, <2>5 DEF TypeOK
    <2>9. /\ deliveries[d].version \in Nat /\ replayedAt[d] \in Nat /\ posts[d] \in Nat
          /\ deliveries[d].attemptCount \in Nat
      BY <2>1, DeliveryFields DEF TypeOK
    <2>10. replayedAt[d] <= deliveries[d].version /\ posts[d] <= deliveries[d].attemptCount
      BY <1>1, <1>5, <2>1, <2>9 DEF Knows, Deliverable, DeliveryInv
    <2>11. Knows(w, d)'
      BY <1>1, <2>4, <2>5, <2>8, <2>9, <2>10 DEF Knows, SinceReplay, Attempting, Fresh
    <2>12. ExecutorInv(w)' /\ target'[w] \in {d, None}
      <3>1. \A k \in due'[w] : deliveries'[k].status # "absent"
        BY <1>1, <2>1, <2>4 DEF WebhooksInv, ExecutorInv, TypeOK
      <3>2. QED
        BY <2>8, <2>11, <3>1 DEF ExecutorInv
    <2>13. \A x \in Executors \ {w} : Unmoved(x)
      BY <1>1, <2>1, <2>3 DEF Unmoved, TypeOK
    <2>14. DeliveryInv(d)'
      BY <1>1, <2>1, <2>4, <2>9, <2>10 DEF DeliveryInv, Knows
    <2>15. \A x \in Executors \ {w} : ~(Attempting(x) /\ target[x] = d /\ Fresh(x))
      BY <1>1, <1>2, <1>5, Alone
    <2>16. UNCHANGED <<endpoints, matched, asked>>
      BY <1>1
    <2>17. QED
      BY <2>6, <2>7, <2>12, <2>13, <2>14, <2>15, <2>16, WriteBy, ZenonT(60)
  <1>6. QED
    BY <1>4, <1>5

\* A request that counts was claimed since the latest replay, so its record is still
\* the one that was claimed.
LEMMA PostStep == ASSUME WebhooksInv, NEW w \in Executors, Post(w) PROVE WebhooksInv'
  <1>1. /\ pc[w] = "authorize" /\ Attempting(w)
        /\ UNCHANGED <<endpoints, deliveries, matched, due, target, seen, asked, crashes, outages, replays, replayedAt>>
    BY DEF Post, boundVars, Attempting
  <1>2. PICK d \in Deliveries : d = target[w]
    BY <1>1 DEF WebhooksInv, TypeOK
  <1>3. PICK to \in {"accepted", "unaccepted"} : pc' = [pc EXCEPT ![w] = to]
    BY DEF Post
  <1>4. pc'[w] = to /\ \A x \in Executors : x # w => pc'[x] = pc[x]
    BY <1>3 DEF WebhooksInv, TypeOK
  <1>5. TypeOK /\ Knows(w, d) /\ DeliveryInv(d)
    BY <1>1, <1>2 DEF WebhooksInv, ExecutorInv
  <1>6. /\ posts[d] \in Nat /\ accepted[d] \in Nat /\ deliveries[d].attemptCount \in Nat
    BY <1>5, DeliveryFields DEF TypeOK
  <1>7. \A x \in Executors : (Attempting(x)' <=> Attempting(x)) /\ (Fresh(x)' <=> Fresh(x))
                              /\ (SinceReplay(x)' <=> SinceReplay(x))
    BY <1>1, <1>3, <1>4 DEF Attempting, Fresh, SinceReplay
  <1>8. SinceReplay(w) <=> Fresh(w)
    BY <1>1, <1>5 DEF Knows
  <1>9. /\ \A k \in Deliveries : k # d => posts'[k] = posts[k] /\ accepted'[k] = accepted[k]
        /\ posts'[d] = IF Fresh(w) THEN posts[d] + 1 ELSE posts[d]
        /\ accepted'[d] = IF Fresh(w) /\ to = "accepted" THEN accepted[d] + 1 ELSE accepted[d]
        /\ posts' \in [Deliveries -> Nat] /\ accepted' \in [Deliveries -> Nat]
    <2>1. posts' = IF Fresh(w) THEN [posts EXCEPT ![d] = posts[d] + 1] ELSE posts
      BY <1>2, <1>8 DEF Post, Count
    <2>2. accepted' = IF Fresh(w) /\ to = "accepted" THEN [accepted EXCEPT ![d] = accepted[d] + 1] ELSE accepted
      <3>1. \/ pc' = [pc EXCEPT ![w] = "accepted"] /\ accepted' = Count(accepted, w)
            \/ pc' = [pc EXCEPT ![w] = "unaccepted"] /\ UNCHANGED accepted
        BY DEF Post
      <3>2. \/ to = "accepted" /\ accepted' = Count(accepted, w)
            \/ to = "unaccepted" /\ UNCHANGED accepted
        BY <1>4, <1>5, <3>1 DEF TypeOK
      <3>3. QED
        BY <1>2, <1>8, <3>2 DEF Count
    <2>3. QED
      BY <1>5, <1>6, <2>1, <2>2 DEF TypeOK
  <1>10. TypeOK'
    BY <1>1, <1>3, <1>5, <1>9 DEF TypeOK
  <1>11. DeliveryInv(d)'
    BY <1>1, <1>5, <1>6, <1>9 DEF DeliveryInv, Knows
  <1>12. \A k \in Deliveries : DeliveryInv(k)'
    BY <1>1, <1>9, <1>11 DEF WebhooksInv, DeliveryInv
  <1>13. Knows(w, d)'
    BY <1>1, <1>2, <1>4, <1>5, <1>6, <1>7, <1>9 DEF Knows
  <1>14. ASSUME NEW x \in Executors, x # w, pc[x] # "idle" PROVE Knows(x, target[x])'
    <2>1. PICK k \in Deliveries : k = target[x]
      BY <1>5, <1>14 DEF TypeOK
    <2>2. Knows(x, k)
      BY <1>14, <2>1 DEF WebhooksInv, ExecutorInv
    <2>3. CASE k # d \/ ~Fresh(w)
      <3>1. posts'[k] = posts[k] /\ accepted'[k] = accepted[k]
        BY <1>9, <2>3
      <3>2. QED
        BY <1>1, <1>4, <1>7, <1>14, <2>1, <2>2, <3>1 DEF Knows, Deliverable
    <2>4. CASE k = d /\ Fresh(w)
      <3>1. ~(Attempting(x) /\ Fresh(x))
        BY <1>1, <1>2, <1>14, <2>1, <2>4, Alone
      <3>2. deliveries[d].status = "delivering"
        BY <1>1, <1>5, <2>4 DEF Knows
      <3>3. ~Fresh(x)
        BY <2>2, <2>4, <3>1, <3>2 DEF Knows, Deliverable
      <3>4. QED
        BY <1>1, <1>7, <2>1, <2>2, <3>3 DEF Knows
    <2>5. QED
      BY <2>3, <2>4
  <1>15. \A x \in Executors : ExecutorInv(x)'
    BY <1>1, <1>2, <1>4, <1>13, <1>14 DEF ExecutorInv, WebhooksInv
  <1>16. OneAttempt'
    BY <1>1, <1>7 DEF WebhooksInv, OneAttempt
  <1>17. (\A c \in Clients : ClientInv(c)') /\ \A s \in Sources : SourceInv(s)'
    BY <1>1 DEF WebhooksInv, ClientInv, SourceInv
  <1>18. QED
    BY <1>10, <1>12, <1>15, <1>16, <1>17 DEF WebhooksInv

\* A request that never ends: the executor still attempts what it attempted.
LEMMA StallStep == ASSUME WebhooksInv, NEW w \in Executors, Stall(w) PROVE WebhooksInv'
  <1>1. /\ UNCHANGED <<endpoints, deliveries, matched, due, target, seen, asked, crashes, outages, replays,
                        replayedAt, posts, accepted>>
        /\ pc' = [pc EXCEPT ![w] = "stalled"] /\ Attempting(w)
    BY DEF Stall, boundVars, historyVars, Attempting
  <1>2. /\ TypeOK /\ pc'[w] = "stalled" /\ Attempting(w)'
        /\ \A x \in Executors : x # w => pc'[x] = pc[x]
    BY <1>1 DEF WebhooksInv, TypeOK, Attempting
  <1>3. \A x \in Executors : (Attempting(x)' <=> Attempting(x)) /\ (Fresh(x)' <=> Fresh(x))
                              /\ (SinceReplay(x)' <=> SinceReplay(x))
    BY <1>1, <1>2 DEF Attempting, Fresh, SinceReplay
  <1>4. TypeOK'
    BY <1>1, <1>2 DEF TypeOK, Attempting
  <1>5. ASSUME NEW x \in Executors PROVE ExecutorInv(x)'
    <2>1. CASE x # w
      BY <1>1, <1>2, <1>3, <2>1 DEF WebhooksInv, ExecutorInv, Knows, Deliverable
    <2>2. CASE x = w
      <3>1. pc[w] # "idle" /\ Knows(w, target[w])
        BY <1>1 DEF WebhooksInv, ExecutorInv, Attempting
      <3>2. Knows(w, target[w])'
        BY <1>1, <1>2, <1>3, <3>1 DEF Knows
      <3>3. QED
        BY <1>1, <2>2, <3>2 DEF WebhooksInv, ExecutorInv
    <2>3. QED
      BY <2>1, <2>2
  <1>6. \A d \in Deliveries : DeliveryInv(d)'
    BY <1>1 DEF WebhooksInv, DeliveryInv
  <1>7. OneAttempt'
    BY <1>1, <1>3 DEF WebhooksInv, OneAttempt
  <1>8. (\A c \in Clients : ClientInv(c)') /\ \A s \in Sources : SourceInv(s)'
    BY <1>1 DEF WebhooksInv, ClientInv, SourceInv
  <1>9. QED
    BY <1>4, <1>5, <1>6, <1>7, <1>8 DEF WebhooksInv

\* A replay is asked for, or refused.
LEMMA AskStep ==
  ASSUME WebhooksInv, NEW c \in Clients,
         RefuseReplay(c) \/ \E d \in Deliveries : RequestReplay(c, d)
  PROVE  WebhooksInv'
  <1>1. /\ UNCHANGED <<endpoints, deliveries, matched, pc, due, target, seen, crashes, outages,
                        replayedAt, posts, accepted>>
        /\ replays' \in 0..MaxReplays
    BY WebhooksAssumption DEF RefuseReplay, RequestReplay, execVars, boundVars, historyVars, WebhooksInv, TypeOK
  <1>2. PICK r \in [delivery: Deliveries \union {None}, version: Nat] :
          /\ asked' = [asked EXCEPT ![c] = r]
          /\ r # NoRequest => r.delivery \in Deliveries /\ deliveries[r.delivery].status # "absent"
    <2>1. CASE RefuseReplay(c)
      BY <2>1 DEF RefuseReplay, NoRequest
    <2>2. ASSUME NEW d \in Deliveries, RequestReplay(c, d)
          PROVE  \E r \in [delivery: Deliveries \union {None}, version: Nat] :
                   /\ asked' = [asked EXCEPT ![c] = r]
                   /\ r # NoRequest => r.delivery \in Deliveries /\ deliveries[r.delivery].status # "absent"
      <3>1. PICK n \in Nat : n = deliveries[d].version
        BY DeliveryFields DEF WebhooksInv, TypeOK
      <3>2. /\ [delivery |-> d, version |-> n] \in [delivery: Deliveries \union {None}, version: Nat]
            /\ [delivery |-> d, version |-> n].delivery = d
        OBVIOUS
      <3>3. deliveries[d].status # "absent" /\ asked' = [asked EXCEPT ![c] = [delivery |-> d, version |-> n]]
        BY <2>2, <3>1 DEF RequestReplay
      <3>4. QED
        BY <3>2, <3>3
    <2>3. QED
      BY <2>1, <2>2
  <1>3. TypeOK'
    BY <1>1, <1>2 DEF WebhooksInv, TypeOK
  <1>4. \A b \in Clients : ClientInv(b)'
    BY <1>1, <1>2 DEF WebhooksInv, ClientInv, TypeOK
  <1>5. (\A s \in Sources : SourceInv(s)') /\ \A x \in Executors : Unmoved(x)
    BY <1>1 DEF WebhooksInv, SourceInv, Unmoved
  <1>6. UNCHANGED <<deliveries, replayedAt, posts, accepted>>
    BY <1>1
  <1>7. QED
    BY <1>3, <1>4, <1>5, <1>6, QuietNobody

\* A replay that is granted overtakes whoever works on the record: nothing of theirs
\* counts any more, and no later write of theirs matches.
LEMMA ReplayStep == ASSUME WebhooksInv, NEW c \in Clients, ReplayDelivery(c) PROVE WebhooksInv'
  <1>1. PICK d \in Deliveries : d = asked[c].delivery /\ deliveries[d].status # "absent"
    BY DEF ReplayDelivery, WebhooksInv, ClientInv
  <1>2. /\ asked' = [asked EXCEPT ![c] = NoRequest]
        /\ UNCHANGED <<endpoints, matched, pc, due, target, seen, crashes, outages, replays>>
    BY DEF ReplayDelivery, execVars, boundVars
  <1>3. \A x \in Executors : Unmoved(x)
    BY <1>2 DEF Unmoved
  <1>4. /\ asked' \in [Clients -> [delivery: Deliveries \union {None}, version: Nat]]
        /\ \A b \in Clients : asked'[b] = asked[b] \/ asked'[b] = NoRequest
    BY <1>2 DEF WebhooksInv, TypeOK, NoRequest
  <1>5. CASE ~VersionMatches(d, asked[c].version)
    <2>1. UNCHANGED <<deliveries, replayedAt, posts, accepted>>
      BY <1>1, <1>5 DEF ReplayDelivery, historyVars
    <2>2. TypeOK'
      BY <1>2, <1>4, <2>1 DEF WebhooksInv, TypeOK
    <2>3. (\A b \in Clients : ClientInv(b)') /\ \A s \in Sources : SourceInv(s)'
      BY <1>2, <1>4, <2>1 DEF WebhooksInv, ClientInv, SourceInv
    <2>4. QED
      BY <1>3, <2>1, <2>2, <2>3, QuietNobody
  <1>6. CASE VersionMatches(d, asked[c].version)
    <2>1. TypeOK /\ DeliveryInv(d) /\ deliveries[d] \in Delivery
      BY DEF WebhooksInv, TypeOK
    <2>2. PICK new \in Delivery :
            /\ new = [deliveries[d] EXCEPT !.status = "pending", !.attemptCount = 0, !.nextAttemptAt = 0]
            /\ new.status = "pending" /\ new.attemptCount = 0
            /\ new.endpoint = deliveries[d].endpoint
      BY <2>1, ReplayedFields
    <2>3. /\ deliveries' = [deliveries EXCEPT ![d] = Written(d, new)]
          /\ replayedAt' = [replayedAt EXCEPT ![d] = deliveries'[d].version]
          /\ posts' = [posts EXCEPT ![d] = 0]
          /\ accepted' = [accepted EXCEPT ![d] = 0]
      BY <1>1, <1>6, <2>2 DEF ReplayDelivery
    <2>4. /\ deliveries' \in [Deliveries -> Delivery]
          /\ deliveries'[d].version = deliveries[d].version + 1
          /\ deliveries'[d].status = "pending"
          /\ deliveries'[d].attemptCount = 0
          /\ deliveries'[d].endpoint = deliveries[d].endpoint
          /\ \A k \in Deliveries : k # d => deliveries'[k] = deliveries[k]
      BY <2>1, <2>2, <2>3, WriteEffect
    <2>5. deliveries[d].version \in Nat /\ deliveries'[d].version \in Nat
      BY <2>1, <2>4, DeliveryFields
    <2>6. /\ replayedAt'[d] = deliveries'[d].version /\ posts'[d] = 0 /\ accepted'[d] = 0
          /\ \A k \in Deliveries : k # d =>
               replayedAt'[k] = replayedAt[k] /\ posts'[k] = posts[k] /\ accepted'[k] = accepted[k]
      BY <2>1, <2>3 DEF TypeOK
    <2>7. TypeOK'
      <3>1. \A k \in Deliveries :
              deliveries'[k].status # "absent" => endpoints'[deliveries'[k].endpoint] # "absent"
        BY <1>1, <1>2, <2>1, <2>4 DEF TypeOK
      <3>2. QED
        BY <1>2, <1>4, <2>1, <2>3, <2>4, <2>5, <3>1 DEF TypeOK
    <2>8. WritesOnly(d)
      BY <2>4, <2>6 DEF WritesOnly
    <2>9. DeliveryInv(d)'
      BY <1>1, <2>1, <2>4, <2>5, <2>6 DEF DeliveryInv
    <2>10. {} \in SUBSET Executors /\ (\A a, b \in {} : a = b)
           /\ (\A w \in {} : ExecutorInv(w)' /\ target'[w] \in {d, None})
      OBVIOUS
    <2>11. \A x \in Executors \ {} : Unmoved(x)
      BY <1>3
    <2>12. \/ replayedAt'[d] = deliveries'[d].version
           \/ /\ replayedAt'[d] = replayedAt[d]
              /\ \A x \in Executors \ {} : ~(Attempting(x) /\ target[x] = d /\ Fresh(x))
      BY <2>6
    <2>13. UNCHANGED <<endpoints, matched>> /\ \A b \in Clients : asked'[b] = asked[b] \/ asked'[b] = NoRequest
      BY <1>2, <1>4
    <2>14. QED
      BY <2>7, <2>8, <2>9, <2>10, <2>11, <2>12, <2>13, WriteKeepsInv, ZenonT(60)
  <1>7. QED
    BY <1>5, <1>6

\* A step that leaves what the invariant says of the records as it is.
LEMMA TickStep == ASSUME WebhooksInv, Tick PROVE WebhooksInv'
  <1>1. UNCHANGED <<endpoints, matched, pc, due, target, seen, asked, crashes, outages, replays,
                    replayedAt, posts, accepted>>
    BY DEF Tick, execVars, boundVars, historyVars
  <1>2. deliveries' = [d \in Deliveries |-> Elapsed(deliveries[d])]
    BY DEF Tick
  <1>3. ASSUME NEW r \in Delivery
        PROVE  /\ Elapsed(r) \in Delivery /\ Elapsed(r).status = r.status
               /\ Elapsed(r).version = r.version /\ Elapsed(r).attemptCount = r.attemptCount
               /\ Elapsed(r).endpoint = r.endpoint
    <2>1. PICK t \in Nat : t = IF r.nextAttemptAt > 0 THEN r.nextAttemptAt - 1 ELSE 0
      BY DeliveryFields
    <2>2. Elapsed(r) = [r EXCEPT !.nextAttemptAt = t]
      BY <2>1 DEF Elapsed
    <2>3. QED
      BY <2>2, DeliveryFields
  <1>4. /\ deliveries' \in [Deliveries -> Delivery]
        /\ \A d \in Deliveries :
             /\ deliveries'[d].status = deliveries[d].status
             /\ deliveries'[d].version = deliveries[d].version
             /\ deliveries'[d].attemptCount = deliveries[d].attemptCount
             /\ deliveries'[d].endpoint = deliveries[d].endpoint
    BY <1>2, <1>3 DEF WebhooksInv, TypeOK
  <1>5. TypeOK'
    BY <1>1, <1>4 DEF WebhooksInv, TypeOK
  <1>6. \A d \in Deliveries : DeliveryInv(d)'
    BY <1>1, <1>4 DEF WebhooksInv, DeliveryInv
  <1>7. \A x \in Executors : pc[x] # "idle" => (Fresh(x)' <=> Fresh(x))
    BY <1>1, <1>4 DEF Fresh, WebhooksInv, TypeOK
  <1>8. \A x \in Executors : (Attempting(x)' <=> Attempting(x)) /\ (SinceReplay(x)' <=> SinceReplay(x))
    BY <1>1 DEF Attempting, SinceReplay
  <1>9. \A x \in Executors : ExecutorInv(x)'
    <2> SUFFICES ASSUME NEW x \in Executors PROVE ExecutorInv(x)'
      OBVIOUS
    <2>1. \A k \in due'[x] : deliveries'[k].status # "absent"
      BY <1>1, <1>4 DEF WebhooksInv, ExecutorInv, TypeOK
    <2>2. CASE pc[x] = "idle"
      BY <1>1, <2>1, <2>2 DEF ExecutorInv
    <2>3. CASE pc[x] # "idle"
      <3>1. PICK k \in Deliveries : k = target[x]
        BY <2>3 DEF WebhooksInv, TypeOK
      <3>2. Knows(x, k)
        BY <2>3, <3>1 DEF WebhooksInv, ExecutorInv
      <3>3. Knows(x, k)'
        BY <1>1, <1>4, <1>7, <1>8, <2>3, <3>2 DEF Knows, Deliverable
      <3>4. QED
        BY <1>1, <2>1, <3>1, <3>3 DEF ExecutorInv
    <2>4. QED
      BY <2>2, <2>3
  <1>10. OneAttempt'
    BY <1>1, <1>7, <1>8 DEF WebhooksInv, OneAttempt, Attempting
  <1>11. (\A c \in Clients : ClientInv(c)') /\ \A s \in Sources : SourceInv(s)'
    BY <1>1, <1>4 DEF WebhooksInv, ClientInv, SourceInv
  <1>12. QED
    BY <1>5, <1>6, <1>9, <1>10, <1>11 DEF WebhooksInv

LEMMA QueuedFields ==
  ASSUME NEW e \in Endpoints, NEW r, r = [AbsentDelivery EXCEPT !.status = "pending", !.version = 1, !.endpoint = e]
  PROVE  /\ r \in Delivery /\ r.status = "pending" /\ r.version = 1
         /\ r.attemptCount = 0 /\ r.endpoint = e
  BY DeliveryFields DEF AbsentDelivery, Status

\* Deliveries are queued under ids that nobody has, for endpoints that are there.
LEMMA QueueStep == ASSUME WebhooksInv, NEW s \in Sources, QueueDeliveries(s) PROVE WebhooksInv'
  <1>1. /\ matched' = [matched EXCEPT ![s] = {}]
        /\ UNCHANGED <<endpoints, pc, target, seen, asked, crashes, outages, replays, replayedAt, posts, accepted>>
    BY DEF QueueDeliveries, boundVars, historyVars
  <1>2. TypeOK /\ matched[s] \subseteq Endpoints /\ \A e \in matched[s] : endpoints[e] # "absent"
    BY DEF WebhooksInv, TypeOK, SourceInv
  <1>3. PICK ids \in [matched[s] -> Unused] :
          LET new == {ids[e] : e \in matched[s]} IN
          /\ deliveries' = [d \in Deliveries |->
               IF d \in new
                 THEN [AbsentDelivery EXCEPT !.status = "pending", !.version = 1,
                         !.endpoint = CHOOSE e \in matched[s] : ids[e] = d]
                 ELSE deliveries[d]]
          /\ due' = IF s \in Publishers THEN [due EXCEPT ![s] = new] ELSE due
    BY DEF QueueDeliveries
  <1>4. PICK N \in SUBSET Deliveries :
          /\ N = {ids[e] : e \in matched[s]}
          /\ \A d \in N : deliveries[d].status = "absent"
    <2> DEFINE M == {ids[e] : e \in matched[s]}
    <2>1. \A d \in M : d \in Deliveries /\ deliveries[d].status = "absent"
      BY DEF Unused
    <2>2. M \in SUBSET Deliveries
      BY <2>1
    <2>3. QED
      BY <2>1, <2>2, Zenon
  <1>5. /\ \A d \in Deliveries \ N : deliveries'[d] = deliveries[d]
        /\ \A d \in N : /\ deliveries'[d] \in Delivery /\ deliveries'[d].status = "pending"
                         /\ deliveries'[d].version = 1 /\ deliveries'[d].attemptCount = 0
                         /\ deliveries'[d].endpoint \in matched[s]
    <2>1. \A d \in Deliveries \ N : deliveries'[d] = deliveries[d]
      BY <1>3, <1>4
    <2>2. ASSUME NEW d \in N
          PROVE  /\ deliveries'[d] \in Delivery /\ deliveries'[d].status = "pending"
                 /\ deliveries'[d].version = 1 /\ deliveries'[d].attemptCount = 0
                 /\ deliveries'[d].endpoint \in matched[s]
      <3>1. PICK e \in matched[s] : e = CHOOSE f \in matched[s] : ids[f] = d
        <4>1. \E f \in matched[s] : ids[f] = d
          BY <1>4
        <4>2. (CHOOSE f \in matched[s] : ids[f] = d) \in matched[s]
          BY <4>1
        <4>3. QED
          BY <4>2
      <3>2. deliveries'[d] = [AbsentDelivery EXCEPT !.status = "pending", !.version = 1, !.endpoint = e]
        BY <1>3, <1>4, <3>1
      <3>3. e \in Endpoints
        BY <1>2
      <3>4. /\ deliveries'[d] \in Delivery /\ deliveries'[d].status = "pending" /\ deliveries'[d].version = 1
            /\ deliveries'[d].attemptCount = 0 /\ deliveries'[d].endpoint = e
        BY <3>2, <3>3, QueuedFields, Zenon
      <3>5. QED
        BY <3>4
    <2>3. QED
      BY <2>1, <2>2
  <1>6. /\ deliveries' \in [Deliveries -> Delivery]
        /\ \A d \in Deliveries : deliveries[d].status # "absent" => deliveries'[d] = deliveries[d]
    <2>1. deliveries' = [d \in Deliveries |-> deliveries'[d]]
      BY <1>3
    <2>2. \A d \in Deliveries : deliveries'[d] \in Delivery
      BY <1>2, <1>5 DEF TypeOK
    <2>3. QED
      BY <1>4, <1>5, <2>1, <2>2
  <1>7. /\ due' \in [Executors -> SUBSET Deliveries]
        /\ \A x \in Executors : due'[x] = due[x] \/ due'[x] = N
    BY <1>2, <1>3, <1>4 DEF TypeOK
  <1>8. TypeOK'
    <2>1. \A d \in Deliveries : deliveries'[d].status # "absent" => endpoints'[deliveries'[d].endpoint] # "absent"
      BY <1>1, <1>2, <1>5 DEF TypeOK
    <2>2. matched' \in [Sources -> SUBSET Endpoints]
      BY <1>1, <1>2 DEF TypeOK
    <2>3. QED
      BY <1>1, <1>2, <1>6, <1>7, <2>1, <2>2 DEF TypeOK
  <1>9. \A d \in Deliveries : DeliveryInv(d)'
    <2> SUFFICES ASSUME NEW d \in Deliveries PROVE DeliveryInv(d)'
      OBVIOUS
    <2>1. DeliveryInv(d)
      BY DEF WebhooksInv
    <2>2. CASE d \in N
      <3>1. replayedAt[d] \in Nat /\ posts[d] = 0 /\ deliveries[d].version = 0 /\ replayedAt[d] <= 0
        BY <1>2, <1>4, <2>1, <2>2 DEF DeliveryInv, TypeOK
      <3>2. deliveries'[d].endpoint \in Endpoints
        BY <1>2, <1>5, <2>2
      <3>3. QED
        BY <1>1, <1>5, <2>2, <3>1, <3>2 DEF DeliveryInv
    <2>3. CASE d \notin N
      BY <1>1, <1>5, <2>1, <2>3 DEF DeliveryInv
    <2>4. QED
      BY <2>2, <2>3
  <1>10. \A x \in Executors : Attempting(x)' <=> Attempting(x)
    BY <1>1 DEF Attempting
  <1>11. \A x \in Executors : pc[x] # "idle" => Knows(x, target[x])' /\ (Fresh(x)' <=> Fresh(x))
    <2> SUFFICES ASSUME NEW x \in Executors, pc[x] # "idle" PROVE Knows(x, target[x])' /\ (Fresh(x)' <=> Fresh(x))
      OBVIOUS
    <2>1. PICK k \in Deliveries : k = target[x]
      BY <1>2 DEF TypeOK
    <2>2. Knows(x, k)
      BY <2>1 DEF WebhooksInv, ExecutorInv
    <2>3. deliveries'[k] = deliveries[k]
      BY <1>6, <2>2 DEF Knows
    <2>4. QED
      BY <1>1, <1>10, <2>1, <2>2, <2>3 DEF Knows, Fresh, SinceReplay, Deliverable
  <1>12. \A x \in Executors : ExecutorInv(x)'
    <2>1. \A x \in Executors : \A d \in due'[x] : deliveries'[d].status # "absent"
      BY <1>2, <1>5, <1>6, <1>7 DEF WebhooksInv, ExecutorInv, TypeOK
    <2>2. QED
      BY <1>1, <1>11, <2>1 DEF ExecutorInv
  <1>13. OneAttempt'
    BY <1>1, <1>10, <1>11 DEF WebhooksInv, OneAttempt, Attempting
  <1>14. (\A c \in Clients : ClientInv(c)') /\ \A r \in Sources : SourceInv(r)'
    BY <1>1, <1>2, <1>6 DEF WebhooksInv, ClientInv, SourceInv, TypeOK
  <1>15. QED
    BY <1>8, <1>9, <1>12, <1>13, <1>14 DEF WebhooksInv

-----------------------------------------------------------------------------
(* Results *)

LEMMA NextInv == WebhooksInv /\ [Next]_vars => WebhooksInv'
  <1> SUFFICES ASSUME WebhooksInv, [Next]_vars PROVE WebhooksInv'
    OBVIOUS
  <1>1. ASSUME NEW w \in Executors, Deliver(w) \/ Crash(w) PROVE WebhooksInv'
    <2>1. CASE ListDue(w) \/ (\E d \in Deliveries : ReadDelivery(w, d)) \/ ReadEndpoint(w)
      BY <2>1, ReadStep
    <2>2. CASE Refuse(w) \/ Deny(w)
      BY <2>2, RefuseStep
    <2>3. CASE Succeed(w) \/ Reject(w) \/ Miss(w)
      BY <2>3, RecordStep
    <2>4. QED
      BY <1>1, <2>1, <2>2, <2>3, ClaimStep, PostponeStep, PostStep, StallStep, CrashStep DEF Deliver
  <1>2. CASE UNCHANGED vars
    <2>1. UNCHANGED <<endpoints, deliveries, matched, pc, due, target, seen, asked, crashes, outages, replays,
                      replayedAt, posts, accepted>>
      BY <1>2 DEF vars
    <2>2. TypeOK' /\ \A x \in Executors : Unmoved(x)
      BY <2>1 DEF WebhooksInv, TypeOK, Unmoved
    <2>3. (\A c \in Clients : ClientInv(c)') /\ \A s \in Sources : SourceInv(s)'
      BY <2>1 DEF WebhooksInv, ClientInv, SourceInv
    <2>4. QED
      BY <2>1, <2>2, <2>3, QuietNobody
  <1>3. QED
    BY <1>1, <1>2, EndpointStep, MatchStep, QueueStep, AskStep, ReplayStep, TickStep DEF Next

\* Every reachable state of the outbound webhooks satisfies the invariant
\* (WebhookService, the managed delivery loop and publish).
THEOREM WebhooksInvariance == Spec => []WebhooksInv
  BY InitInv, NextInv, PTL DEF Spec

\* A delivery marked delivered was accepted since its latest replay, and no request escapes the
\* count of attempts by more than the one under way or abandoned, however the loop, publish and
\* replays interleave (deliverWebhook, recordAttempt).
THEOREM DeliveriesSoundAlways == Spec => []DeliveriesSound
  <1>1. WebhooksInv => DeliveriesSound
    BY DEF WebhooksInv, DeliveryInv, DeliveriesSound, DeliveredWasAccepted, PostsAccounted
  <1>2. QED
    BY <1>1, WebhooksInvariance, PTL

\* Of two executors that attempt one delivery, one was overtaken by a replay: the
\* claim's compare-and-set keeps any number of loops and publishers apart.
THEOREM NoOverlapAlways == Spec => []NoOverlap
  <1>1. WebhooksInv => NoOverlap
    <2> SUFFICES ASSUME WebhooksInv, NEW w1 \in Executors, NEW w2 \in Executors, w1 # w2,
                        Attempting(w1), Attempting(w2), target[w1] = target[w2],
                        SinceReplay(w1), SinceReplay(w2)
                 PROVE  FALSE
      BY DEF NoOverlap
    <2>1. Fresh(w1) /\ Fresh(w2)
      BY DEF WebhooksInv, ExecutorInv, Knows, Attempting
    <2>2. QED
      BY <2>1 DEF WebhooksInv, OneAttempt
  <1>2. QED
    BY <1>1, WebhooksInvariance, PTL

-----------------------------------------------------------------------------
(* One managed loop and nobody else to deliver *)

OneLoop == Publishers = {} /\ (\A a, b \in Loops : a = b) /\ MaxRetryAttempts > 0

\* The loop works through what is due, and reads the same record until it claims it.
PickedDue(w) ==
  /\ \A d \in due[w] : IsDue(deliveries[d])
  /\ pc[w] # "idle" => target[w] \notin due[w]
  /\ pc[w] \in {"endpoint", "refuse", "claim"} /\ Fresh(w) => IsDue(deliveries[target[w]])

\* A record that may still be attempted has an attempt left.
AttemptLeft(d) ==
  /\ deliveries[d].attemptCount <= MaxRetryAttempts
  /\ deliveries[d].status \in {"pending", "retrying", "delivering"}
       => deliveries[d].attemptCount < MaxRetryAttempts

LoopInv == (\A w \in Executors : PickedDue(w)) /\ (\A d \in Deliveries : AttemptLeft(d))

\* The executors wait, and the records they know are as they were or due.
LEMMA WaitingKeepsLoop ==
  ASSUME WebhooksInv, LoopInv, UNCHANGED <<due, target, seen>>,
         \A w \in Executors : pc'[w] = pc[w] \/ (Attempting(w) /\ Attempting(w)'),
         \A d \in Deliveries :
           \/ IsDue(deliveries'[d])
           \/ deliveries'[d].version = deliveries[d].version /\ ~IsDue(deliveries[d]),
         \A d \in Deliveries : AttemptLeft(d)'
  PROVE  LoopInv'
  <1> SUFFICES ASSUME NEW w \in Executors PROVE PickedDue(w)'
    BY DEF LoopInv
  <1>1. PickedDue(w) /\ TypeOK /\ due[w] \subseteq Deliveries
    BY DEF LoopInv, WebhooksInv, TypeOK
  <1>2. \A d \in due'[w] : IsDue(deliveries'[d])
    BY <1>1 DEF PickedDue
  <1>3. pc'[w] # "idle" => pc[w] # "idle" /\ target'[w] \notin due'[w]
    BY <1>1 DEF PickedDue, Attempting
  <1>4. ASSUME pc'[w] \in {"endpoint", "refuse", "claim"}, Fresh(w)'
        PROVE  IsDue(deliveries'[target'[w]])
    <2>1. pc'[w] = pc[w]
      BY <1>4 DEF Attempting
    <2>2. PICK d \in Deliveries : d = target[w] /\ d = target'[w]
      BY <1>1, <1>4, <2>1 DEF TypeOK
    <2>3. CASE deliveries'[d].version = deliveries[d].version /\ ~IsDue(deliveries[d])
      BY <1>1, <1>4, <2>1, <2>2, <2>3 DEF PickedDue, Fresh
    <2>4. QED
      BY <2>2, <2>3
  <1>5. QED
    BY <1>2, <1>3, <1>4 DEF PickedDue

\* The only executor there is moves.
LEMMA MoveKeepsLoop ==
  ASSUME OneLoop, LoopInv, NEW w \in Executors, PickedDue(w)',
         \A d \in Deliveries : AttemptLeft(d)'
  PROVE  LoopInv'
  <1>1. \A x \in Executors : x = w
    BY DEF OneLoop, Executors
  <1>2. \A x \in Executors : PickedDue(x)'
    <2> SUFFICES ASSUME NEW x \in Executors PROVE PickedDue(x)'
      OBVIOUS
    <2>1. x = w
      BY <1>1
    <2>2. QED
      BY <2>1 DEF PickedDue, Fresh
  <1>3. QED
    BY <1>2 DEF LoopInv

\* Back to the list, which never holds the record the executor just left.
LEMMA ReturnKeepsLoop ==
  ASSUME OneLoop, WebhooksInv, LoopInv, NEW w \in Executors, pc[w] # "idle", Return(w), due' = due,
         \A d \in Deliveries : d # target[w] => deliveries'[d] = deliveries[d],
         \A d \in Deliveries : AttemptLeft(d)'
  PROVE  LoopInv'
  <1>1. PickedDue(w) /\ TypeOK
    BY DEF LoopInv, WebhooksInv
  <1>2. pc'[w] = "idle"
    BY <1>1 DEF Return, TypeOK
  <1>3. \A d \in due'[w] : IsDue(deliveries'[d])
    BY <1>1 DEF PickedDue, TypeOK
  <1>4. QED
    BY <1>2, <1>3, MoveKeepsLoop DEF PickedDue

\* A settled record keeps to the limit: recordAttempt retries only while an attempt is
\* left.
LEMMA SettleKeepsLoop ==
  ASSUME OneLoop, WebhooksInv, LoopInv, NEW w \in Executors, pc[w] # "idle", NEW new, Settle(w, new),
         Fresh(w) => /\ new \in Delivery
                     /\ new.attemptCount <= MaxRetryAttempts
                     /\ new.status \in {"pending", "retrying", "delivering"}
                          => new.attemptCount < MaxRetryAttempts
  PROVE  LoopInv'
  <1>1. Return(w) /\ due' = due
    BY DEF Settle
  <1>2. PICK d \in Deliveries : d = target[w]
    BY DEF WebhooksInv, TypeOK
  <1>3. VersionMatches(d, seen[w].version) <=> Fresh(w)
    BY <1>2 DEF VersionMatches, Fresh
  <1>4. CASE ~Fresh(w)
    <2>1. deliveries' = deliveries
      BY <1>2, <1>3, <1>4 DEF Settle
    <2>2. \A k \in Deliveries : AttemptLeft(k)'
      BY <2>1 DEF LoopInv, AttemptLeft
    <2>3. QED
      BY <1>1, <2>1, <2>2, ReturnKeepsLoop
  <1>5. CASE Fresh(w)
    <2>1. deliveries' = [deliveries EXCEPT ![d] = Written(d, new)] /\ TypeOK /\ new \in Delivery
      BY <1>2, <1>3, <1>5 DEF Settle, WebhooksInv
    <2>2. /\ deliveries'[d].status = new.status
          /\ deliveries'[d].attemptCount = new.attemptCount
          /\ \A k \in Deliveries : k # d => deliveries'[k] = deliveries[k]
      BY <2>1, WriteEffect
    <2>3. AttemptLeft(d)'
      BY <1>5, <2>2 DEF AttemptLeft
    <2>4. \A k \in Deliveries : AttemptLeft(k)'
      BY <2>2, <2>3 DEF LoopInv, AttemptLeft
    <2>5. QED
      BY <1>1, <1>2, <2>2, <2>4, ReturnKeepsLoop
  <1>6. QED
    BY <1>4, <1>5

LEMMA RefuseKeepsLoop ==
  ASSUME OneLoop, WebhooksInv, LoopInv, NEW w \in Executors, Refuse(w) \/ Deny(w) PROVE LoopInv'
  <1> DEFINE new == [Current(w) EXCEPT !.status = "failed"]
  <1>1. pc[w] # "idle" /\ Settle(w, new)
    BY DEF Refuse, Deny
  <1>2. PICK d \in Deliveries : d = target[w]
    BY <1>1 DEF WebhooksInv, TypeOK
  <1>3. Current(w) \in Delivery /\ Current(w).attemptCount <= MaxRetryAttempts
    BY <1>2 DEF Current, WebhooksInv, TypeOK, LoopInv, AttemptLeft
  <1>4. "failed" \in Status
    BY DEF Status
  <1>5. new \in Delivery /\ new.status = "failed" /\ new.attemptCount = Current(w).attemptCount
    BY <1>3, <1>4, StatusFields
  <1>6. QED
    BY <1>1, <1>3, <1>5, SettleKeepsLoop

\* While the record is the one it claimed, an attempt is left.
LEMMA ClaimedHasAttemptLeft ==
  ASSUME WebhooksInv, LoopInv, NEW w \in Executors, Attempting(w), Fresh(w)
  PROVE  /\ Current(w) \in Delivery /\ Current(w).attemptCount \in Nat
         /\ seen[w].attemptCount = Current(w).attemptCount
         /\ Current(w).attemptCount < MaxRetryAttempts
  <1>1. PICK d \in Deliveries : d = target[w]
    BY DEF WebhooksInv, TypeOK, Attempting
  <1>2. Knows(w, d) /\ AttemptLeft(d) /\ deliveries[d] \in Delivery
    BY <1>1 DEF WebhooksInv, ExecutorInv, TypeOK, LoopInv, Attempting
  <1>3. deliveries[d].attemptCount \in Nat
    BY <1>2, DeliveryFields
  <1>4. QED
    BY <1>1, <1>2, <1>3 DEF Knows, AttemptLeft, Current

LEMMA PostponeKeepsLoop ==
  ASSUME OneLoop, WebhooksInv, LoopInv, NEW w \in Executors, Postpone(w) PROVE LoopInv'
  <1> DEFINE new == [Current(w) EXCEPT !.status = "retrying", !.nextAttemptAt = RetryDelay]
  <1>1. pc[w] # "idle" /\ Attempting(w) /\ Settle(w, new)
    BY DEF Postpone, Attempting
  <1>2. ASSUME Fresh(w)
        PROVE  /\ new \in Delivery
               /\ new.attemptCount <= MaxRetryAttempts
               /\ new.status \in {"pending", "retrying", "delivering"}
                    => new.attemptCount < MaxRetryAttempts
    <2>1. /\ Current(w) \in Delivery /\ Current(w).attemptCount \in Nat
          /\ Current(w).attemptCount < MaxRetryAttempts
      BY <1>1, <1>2, ClaimedHasAttemptLeft
    <2>2. RetryDelay \in Nat /\ MaxRetryAttempts \in Nat
      BY WebhooksAssumption
    <2>3. new \in Delivery /\ new.attemptCount = Current(w).attemptCount
      BY <2>1, <2>2, RetryingFields
    <2>4. QED
      BY <2>1, <2>2, <2>3
  <1>3. QED
    BY <1>1, <1>2, SettleKeepsLoop

LEMMA RecordKeepsLoop ==
  ASSUME OneLoop, WebhooksInv, LoopInv, NEW w \in Executors, Succeed(w) \/ Reject(w) \/ Miss(w)
  PROVE  LoopInv'
  <1>1. pc[w] # "idle" /\ Attempting(w)
    BY DEF Succeed, Reject, Miss, Attempting
  <1>2. PICK n \in Nat : n = seen[w].attemptCount
    BY DEF WebhooksInv, TypeOK
  <1>3. PICK r \in Delivery : r = Current(w)
    BY <1>1 DEF Current, WebhooksInv, TypeOK
  <1>4. PICK m \in Nat : m = n + 1 /\ Attempted(w) = [r EXCEPT !.attemptCount = m]
    BY <1>2, <1>3 DEF Attempted
  <1>5. PICK c \in Delivery : c = Attempted(w) /\ c.attemptCount = m
    <2>1. Attempted(w) \in Delivery /\ Attempted(w).attemptCount = m
      BY <1>4, AttemptedFields
    <2>2. QED
      BY <2>1
  <1>6. MaxRetryAttempts \in Nat /\ (Fresh(w) => m <= MaxRetryAttempts)
    BY <1>1, <1>2, <1>4, ClaimedHasAttemptLeft, WebhooksAssumption
  <1>7. ASSUME NEW st \in {"delivered", "failed"}, Settle(w, [c EXCEPT !.status = st]) PROVE LoopInv'
    <2> DEFINE new == [c EXCEPT !.status = st]
    <2>1. st \in Status
      BY DEF Status
    <2>2. new \in Delivery /\ new.status = st /\ new.attemptCount = c.attemptCount
      BY <2>1, StatusFields, Zenon
    <2>3. new.attemptCount = m /\ ~(new.status \in {"pending", "retrying", "delivering"})
      BY <1>5, <2>2
    <2>4. QED
      BY <1>1, <1>6, <1>7, <2>2, <2>3, SettleKeepsLoop
  <1>8. CASE Succeed(w)
    BY <1>5, <1>7, <1>8 DEF Succeed
  <1>9. CASE Reject(w) \/ (Miss(w) /\ LastAttempt(w))
    BY <1>5, <1>7, <1>9 DEF Reject, Miss
  <1>10. CASE Miss(w) /\ ~LastAttempt(w)
    <2>1. PICK wait \in Nat : wait = Backoff(n)
      BY <1>2, <1>6, <1>10, BackoffAssumption DEF LastAttempt
    <2> DEFINE new == [c EXCEPT !.status = "retrying", !.nextAttemptAt = wait]
    <2>2. Settle(w, new)
      BY <1>2, <1>5, <1>10, <2>1 DEF Miss
    <2>3. new \in Delivery /\ new.attemptCount = c.attemptCount
      BY <2>1, RetryingFields, Zenon
    <2>4. m < MaxRetryAttempts
      BY <1>2, <1>4, <1>6, <1>10 DEF LastAttempt
    <2>5. new.attemptCount < MaxRetryAttempts /\ new.attemptCount <= MaxRetryAttempts
      BY <1>5, <1>6, <2>3, <2>4
    <2>6. QED
      BY <1>1, <2>2, <2>3, <2>5, SettleKeepsLoop
  <1>11. QED
    BY <1>8, <1>9, <1>10

LEMMA ReadKeepsLoop ==
  ASSUME OneLoop, WebhooksInv, LoopInv, NEW w \in Executors,
         \/ ListDue(w) \/ ReadEndpoint(w) \/ Crash(w)
         \/ \E d \in Deliveries : ReadDelivery(w, d)
  PROVE  LoopInv'
  <1>1. TypeOK /\ PickedDue(w) /\ deliveries' = deliveries
    BY DEF WebhooksInv, LoopInv, ListDue, ReadDelivery, ReadEndpoint, Crash
  <1>2. \A d \in Deliveries : AttemptLeft(d)'
    BY <1>1 DEF LoopInv, AttemptLeft
  <1>3. CASE ListDue(w)
    <2>1. /\ due'[w] = {d \in Deliveries : IsDue(deliveries[d])} /\ pc'[w] = "idle"
      BY <1>1, <1>3 DEF ListDue, TypeOK
    <2>2. PickedDue(w)'
      BY <1>1, <2>1 DEF PickedDue
    <2>3. QED
      BY <1>2, <2>2, MoveKeepsLoop
  <1>4. CASE Crash(w)
    <2>1. due'[w] = {} /\ pc'[w] = "idle"
      BY <1>1, <1>4 DEF Crash, Return, TypeOK
    <2>2. PickedDue(w)'
      BY <2>1 DEF PickedDue
    <2>3. QED
      BY <1>2, <2>2, MoveKeepsLoop
  <1>5. ASSUME NEW d \in Deliveries, ReadDelivery(w, d) PROVE LoopInv'
    <2>1. pc[w] = "idle" /\ d \in due[w] /\ due'[w] = due[w] \ {d}
      BY <1>1, <1>5 DEF ReadDelivery, TypeOK
    <2>2. IsDue(deliveries[d])
      BY <1>1, <2>1 DEF PickedDue
    <2>3. pc'[w] # "idle" => target'[w] = d
      BY <1>1, <1>5, <2>1 DEF ReadDelivery, TypeOK
    <2>4. PickedDue(w)'
      BY <1>1, <2>1, <2>2, <2>3 DEF PickedDue
    <2>5. QED
      BY <1>2, <2>4, MoveKeepsLoop
  <1>6. CASE ReadEndpoint(w)
    <2>1. pc[w] = "endpoint" /\ due' = due /\ target' = target /\ seen' = seen
      BY <1>6 DEF ReadEndpoint
    <2>2. PickedDue(w)'
      BY <1>1, <2>1 DEF PickedDue, Fresh
    <2>3. QED
      BY <1>2, <2>2, MoveKeepsLoop
  <1>7. QED
    BY <1>3, <1>4, <1>5, <1>6

\* The claim takes a record that is due.
LEMMA ClaimTakesDue ==
  ASSUME WebhooksInv, LoopInv, NEW w \in Executors, Claim(w), deliveries' # deliveries
  PROVE  /\ target[w] \in Deliveries /\ IsDue(deliveries[target[w]])
         /\ deliveries'[target[w]].status = "delivering"
         /\ deliveries'[target[w]].attemptCount = deliveries[target[w]].attemptCount
         /\ \A k \in Deliveries : k # target[w] => deliveries'[k] = deliveries[k]
         /\ pc'[w] = "authorize" /\ UNCHANGED <<target, due>>
  <1>1. PICK d \in Deliveries : d = target[w] /\ pc[w] = "claim"
    BY DEF WebhooksInv, TypeOK, Claim
  <1>2. TypeOK /\ PickedDue(w) /\ deliveries[d] \in Delivery /\ "delivering" \in Status
    BY DEF WebhooksInv, TypeOK, LoopInv, Status
  <1>3. /\ Fresh(w)
        /\ deliveries' = [deliveries EXCEPT ![d] = Written(d, [deliveries[d] EXCEPT !.status = "delivering"])]
        /\ pc' = [pc EXCEPT ![w] = "authorize"] /\ UNCHANGED <<target, due>>
    BY <1>1 DEF Claim, VersionMatches, Fresh
  <1>4. PICK new \in Delivery :
          /\ new = [deliveries[d] EXCEPT !.status = "delivering"]
          /\ new.status = "delivering" /\ new.attemptCount = deliveries[d].attemptCount
    BY <1>2, StatusFields, Zenon
  <1>5. deliveries' = [deliveries EXCEPT ![d] = Written(d, new)]
    BY <1>3, <1>4
  <1>6. /\ deliveries'[d].status = "delivering"
        /\ deliveries'[d].attemptCount = deliveries[d].attemptCount
        /\ \A k \in Deliveries : k # d => deliveries'[k] = deliveries[k]
    BY <1>2, <1>4, <1>5, WriteEffect
  <1>7. QED
    BY <1>1, <1>2, <1>3, <1>6 DEF PickedDue, TypeOK

LEMMA ClaimKeepsLoop ==
  ASSUME OneLoop, WebhooksInv, LoopInv, NEW w \in Executors, Claim(w) PROVE LoopInv'
  <1>1. pc[w] = "claim" /\ due' = due
    BY DEF Claim
  <1>2. CASE deliveries' = deliveries
    <2>1. \A d \in Deliveries : AttemptLeft(d)'
      BY <1>2 DEF LoopInv, AttemptLeft
    <2>2. CASE Return(w)
      BY <1>1, <1>2, <2>1, <2>2, ReturnKeepsLoop
    <2>3. CASE ~Return(w)
      <3>1. pc' = [pc EXCEPT ![w] = "authorize"] /\ UNCHANGED target
        BY <2>3 DEF Claim
      <3>2. PickedDue(w)'
        BY <1>1, <1>2, <3>1 DEF PickedDue, LoopInv, WebhooksInv, TypeOK
      <3>3. QED
        BY <2>1, <3>2, MoveKeepsLoop
    <2>4. QED
      BY <2>2, <2>3
  <1>3. CASE deliveries' # deliveries
    <2>1. PICK d \in Deliveries :
            /\ d = target[w] /\ IsDue(deliveries[d])
            /\ deliveries'[d].status = "delivering"
            /\ deliveries'[d].attemptCount = deliveries[d].attemptCount
            /\ \A k \in Deliveries : k # d => deliveries'[k] = deliveries[k]
            /\ pc'[w] = "authorize" /\ UNCHANGED <<target, due>>
      BY <1>3, ClaimTakesDue
    <2>2. \A k \in Deliveries : AttemptLeft(k)'
      BY <2>1 DEF LoopInv, AttemptLeft, IsDue
    <2>3. PickedDue(w)'
      BY <1>1, <2>1 DEF LoopInv, PickedDue, WebhooksInv, TypeOK
    <2>4. QED
      BY <2>2, <2>3, MoveKeepsLoop
  <1>4. QED
    BY <1>2, <1>3

\* The steps of the others, and the request, leave the list and the record alone, or
\* make the record due.
LEMMA OthersKeepLoop ==
  ASSUME OneLoop, WebhooksInv, LoopInv,
         \/ \E e \in Endpoints : RegisterEndpoint(e) \/ DisableEndpoint(e)
         \/ \E s \in Sources : MatchEndpoints(s)
         \/ \E c \in Clients : RefuseReplay(c) \/ \E d \in Deliveries : RequestReplay(c, d)
         \/ \E w \in Executors : Post(w) \/ Stall(w)
         \/ UNCHANGED vars
  PROVE  LoopInv'
  <1>1. UNCHANGED <<deliveries, due, target, seen>>
    BY DEF RegisterEndpoint, DisableEndpoint, MatchEndpoints, RefuseReplay, RequestReplay, Post, Stall, vars, execVars
  <1>2. \A x \in Executors : pc'[x] = pc[x] \/ (Attempting(x) /\ Attempting(x)')
    <2>1. ASSUME NEW w \in Executors, Post(w), NEW x \in Executors
          PROVE  pc'[x] = pc[x] \/ (Attempting(x) /\ Attempting(x)')
      <3>1. pc[w] = "authorize" /\ \E to \in {"accepted", "unaccepted"} : pc' = [pc EXCEPT ![w] = to]
        BY <2>1 DEF Post
      <3>2. QED
        BY <3>1 DEF Attempting, WebhooksInv, TypeOK
    <2>2. ASSUME NEW w \in Executors, Stall(w), NEW x \in Executors
          PROVE  pc'[x] = pc[x] \/ (Attempting(x) /\ Attempting(x)')
      <3>1. pc[w] \in {"accepted", "unaccepted"} /\ pc' = [pc EXCEPT ![w] = "stalled"]
        BY <2>2 DEF Stall
      <3>2. QED
        BY <3>1 DEF Attempting, WebhooksInv, TypeOK
    <2>3. CASE ~\E w \in Executors : Post(w) \/ Stall(w)
      <3>1. pc' = pc
        BY <2>3 DEF RegisterEndpoint, DisableEndpoint, MatchEndpoints, RefuseReplay, RequestReplay, vars, execVars
      <3>2. QED
        BY <3>1
    <2>4. QED
      BY <2>1, <2>3, <2>2
  <1>3. \A d \in Deliveries : AttemptLeft(d)'
    BY <1>1 DEF LoopInv, AttemptLeft
  <1>4. \A d \in Deliveries :
          \/ IsDue(deliveries'[d])
          \/ deliveries'[d].version = deliveries[d].version /\ ~IsDue(deliveries[d])
    BY <1>1
  <1>5. QED
    <2>1. UNCHANGED <<due, target, seen>>
      BY <1>1
    <2>2. QED
      BY <1>2, <1>3, <1>4, <2>1, WaitingKeepsLoop, ZenonT(60)

LEMMA ReplayKeepsLoop ==
  ASSUME OneLoop, WebhooksInv, LoopInv, NEW c \in Clients, ReplayDelivery(c) PROVE LoopInv'
  <1>1. PICK d \in Deliveries : d = asked[c].delivery
    BY DEF ReplayDelivery, WebhooksInv, ClientInv
  <1>2. UNCHANGED <<pc, due, target, seen>>
    BY DEF ReplayDelivery, execVars
  <1>3. \A k \in Deliveries :
          \/ deliveries'[k] = deliveries[k]
          \/ deliveries'[k].status = "pending" /\ deliveries'[k].attemptCount = 0
    <2>1. CASE ~VersionMatches(d, asked[c].version)
      BY <1>1, <2>1 DEF ReplayDelivery
    <2>2. CASE VersionMatches(d, asked[c].version)
      <3>1. TypeOK /\ deliveries[d] \in Delivery
        BY DEF WebhooksInv, TypeOK
      <3>2. PICK new \in Delivery :
              /\ new = [deliveries[d] EXCEPT !.status = "pending", !.attemptCount = 0, !.nextAttemptAt = 0]
              /\ new.status = "pending" /\ new.attemptCount = 0
        BY <3>1, ReplayedFields
      <3>3. deliveries' = [deliveries EXCEPT ![d] = Written(d, new)]
        BY <1>1, <2>2, <3>2 DEF ReplayDelivery
      <3>4. QED
        BY <3>1, <3>2, <3>3, WriteEffect
    <2>3. QED
      BY <2>1, <2>2
  <1>4. \A k \in Deliveries : AttemptLeft(k)'
    BY <1>3, WebhooksAssumption DEF LoopInv, AttemptLeft, OneLoop
  <1>5. \A k \in Deliveries :
          \/ IsDue(deliveries'[k])
          \/ deliveries'[k].version = deliveries[k].version /\ ~IsDue(deliveries[k])
    BY <1>3 DEF IsDue
  <1>6. QED
    <2>1. UNCHANGED <<due, target, seen>> /\ \A w \in Executors : pc'[w] = pc[w] \/ (Attempting(w) /\ Attempting(w)')
      BY <1>2
    <2>2. QED
      BY <1>4, <1>5, <2>1, WaitingKeepsLoop, ZenonT(60)

LEMMA QueueKeepsLoop ==
  ASSUME OneLoop, WebhooksInv, LoopInv, NEW s \in Sources, QueueDeliveries(s) PROVE LoopInv'
  <1>1. UNCHANGED <<pc, due, target, seen>>
    BY DEF QueueDeliveries, OneLoop
  <1>2. \A k \in Deliveries :
          \/ deliveries'[k] = deliveries[k]
          \/ deliveries'[k].status = "pending" /\ deliveries'[k].attemptCount = 0
    BY DEF QueueDeliveries, AbsentDelivery
  <1>3. \A k \in Deliveries : AttemptLeft(k)'
    BY <1>2, WebhooksAssumption DEF LoopInv, AttemptLeft, OneLoop
  <1>4. \A k \in Deliveries :
          \/ IsDue(deliveries'[k])
          \/ deliveries'[k].version = deliveries[k].version /\ ~IsDue(deliveries[k])
    BY <1>2 DEF IsDue
  <1>5. QED
    <2>1. UNCHANGED <<due, target, seen>> /\ \A w \in Executors : pc'[w] = pc[w] \/ (Attempting(w) /\ Attempting(w)')
      BY <1>1
    <2>2. QED
      BY <1>3, <1>4, <2>1, WaitingKeepsLoop, ZenonT(60)

LEMMA TickKeepsLoop == ASSUME OneLoop, WebhooksInv, LoopInv, Tick PROVE LoopInv'
  <1>1. UNCHANGED <<pc, due, target, seen>>
    BY DEF Tick, execVars
  <1>2. \A k \in Deliveries :
          /\ deliveries'[k].status = deliveries[k].status
          /\ deliveries'[k].attemptCount = deliveries[k].attemptCount
          /\ deliveries'[k].version = deliveries[k].version
          /\ deliveries[k].nextAttemptAt = 0 => deliveries'[k].nextAttemptAt = 0
    <2> SUFFICES ASSUME NEW k \in Deliveries
                 PROVE  /\ deliveries'[k].status = deliveries[k].status
                        /\ deliveries'[k].attemptCount = deliveries[k].attemptCount
                        /\ deliveries'[k].version = deliveries[k].version
                        /\ deliveries[k].nextAttemptAt = 0 => deliveries'[k].nextAttemptAt = 0
      OBVIOUS
    <2>1. PICK r \in Delivery : r = deliveries[k]
      BY DEF WebhooksInv, TypeOK
    <2>2. PICK t \in Nat : /\ t = IF r.nextAttemptAt > 0 THEN r.nextAttemptAt - 1 ELSE 0
                           /\ r.nextAttemptAt = 0 => t = 0
      BY DeliveryFields
    <2>3. deliveries'[k] = [r EXCEPT !.nextAttemptAt = t]
      BY <2>1, <2>2 DEF Tick, Elapsed
    <2>4. QED
      BY <2>1, <2>2, <2>3, DeliveryFields
  <1>3. \A k \in Deliveries : AttemptLeft(k)'
    BY <1>2 DEF LoopInv, AttemptLeft
  <1>4. \A k \in Deliveries :
          \/ IsDue(deliveries'[k])
          \/ deliveries'[k].version = deliveries[k].version /\ ~IsDue(deliveries[k])
    BY <1>2 DEF IsDue
  <1>5. QED
    <2>1. UNCHANGED <<due, target, seen>> /\ \A w \in Executors : pc'[w] = pc[w] \/ (Attempting(w) /\ Attempting(w)')
      BY <1>1
    <2>2. QED
      BY <1>3, <1>4, <2>1, WaitingKeepsLoop, ZenonT(60)

LEMMA LoopInitInv == ASSUME OneLoop PROVE Init => LoopInv
  <1> SUFFICES ASSUME Init PROVE LoopInv
    OBVIOUS
  <1>1. AbsentDelivery.status = "absent" /\ AbsentDelivery.attemptCount = 0
    BY DEF AbsentDelivery
  <1>2. \A d \in Deliveries : AttemptLeft(d)
    BY <1>1, WebhooksAssumption DEF Init, AttemptLeft
  <1>3. \A w \in Executors : PickedDue(w)
    BY DEF Init, PickedDue
  <1>4. QED
    BY <1>2, <1>3 DEF LoopInv

LEMMA LoopNextInv == ASSUME OneLoop PROVE WebhooksInv /\ LoopInv /\ [Next]_vars => LoopInv'
  <1> SUFFICES ASSUME WebhooksInv, LoopInv, [Next]_vars PROVE LoopInv'
    OBVIOUS
  <1>1. ASSUME NEW w \in Executors, Deliver(w) \/ Crash(w) PROVE LoopInv'
    <2>1. CASE ListDue(w) \/ ReadEndpoint(w) \/ Crash(w) \/ \E d \in Deliveries : ReadDelivery(w, d)
      BY <2>1, ReadKeepsLoop
    <2>2. CASE Refuse(w) \/ Deny(w)
      BY <2>2, RefuseKeepsLoop
    <2>3. CASE Succeed(w) \/ Reject(w) \/ Miss(w)
      BY <2>3, RecordKeepsLoop
    <2>4. CASE Claim(w)
      BY <2>4, ClaimKeepsLoop
    <2>5. CASE Postpone(w)
      BY <2>5, PostponeKeepsLoop
    <2>6. CASE Post(w) \/ Stall(w)
      BY <2>6, OthersKeepLoop
    <2>7. QED
      BY <1>1, <2>1, <2>2, <2>3, <2>4, <2>5, <2>6 DEF Deliver
  <1>2. CASE \/ \E e \in Endpoints : RegisterEndpoint(e) \/ DisableEndpoint(e)
             \/ \E s \in Sources : MatchEndpoints(s)
             \/ \E c \in Clients : RefuseReplay(c) \/ \E d \in Deliveries : RequestReplay(c, d)
             \/ UNCHANGED vars
    BY <1>2, OthersKeepLoop
  <1>3. ASSUME NEW s \in Sources, QueueDeliveries(s) PROVE LoopInv'
    BY <1>3, QueueKeepsLoop
  <1>4. ASSUME NEW c \in Clients, ReplayDelivery(c) PROVE LoopInv'
    BY <1>4, ReplayKeepsLoop
  <1>5. CASE Tick
    BY <1>5, TickKeepsLoop
  <1>6. QED
    BY <1>1, <1>2, <1>3, <1>4, <1>5 DEF Next

\* With one managed loop and no publisher, no delivery is attempted more often than
\* maxRetryAttempts says, whatever replays and crashes there are (recordAttempt).
THEOREM AttemptsBoundedWithOneLoop == ASSUME OneLoop PROVE Spec => []AttemptsBounded
  <1>1. LoopInv => AttemptsBounded
    BY DEF LoopInv, AttemptLeft, AttemptsBounded
  <1>2. QED
    BY <1>1, LoopInitInv, LoopNextInv, WebhooksInvariance, PTL DEF Spec

\* What a settlement writes.
LEMMA SettledStatus ==
  ASSUME WebhooksInv, NEW w \in Executors, pc[w] # "idle", NEW new \in Delivery, Settle(w, new)
  PROVE  \A k \in Deliveries : deliveries'[k] = deliveries[k] \/ deliveries'[k].status = new.status
  <1>1. PICK d \in Deliveries : d = target[w]
    BY DEF WebhooksInv, TypeOK
  <1>2. CASE VersionMatches(d, seen[w].version)
    <2>1. TypeOK /\ deliveries' = [deliveries EXCEPT ![d] = Written(d, new)]
      BY <1>1, <1>2 DEF Settle, WebhooksInv
    <2>2. QED
      BY <2>1, WriteEffect
  <1>3. CASE ~VersionMatches(d, seen[w].version)
    BY <1>1, <1>3 DEF Settle
  <1>4. QED
    BY <1>2, <1>3

\* Nothing but a claim starts an attempt.
LEMMA OnlyClaimsDeliver ==
  ASSUME WebhooksInv, Next, NEW k \in Deliveries,
         deliveries[k].status # "delivering", deliveries'[k].status = "delivering"
  PROVE  \E w \in Executors : Claim(w)
  <1>1. deliveries[k] \in Delivery /\ deliveries'[k] # deliveries[k] /\ deliveries' # deliveries
    BY DEF WebhooksInv, TypeOK
  <1>2. ASSUME NEW w \in Executors, NEW new \in Delivery, Settle(w, new), pc[w] # "idle",
               new.status # "delivering"
        PROVE  FALSE
    BY <1>1, <1>2, SettledStatus
  <1>3. ASSUME NEW w \in Executors, pc[w] # "idle"
        PROVE  Current(w) \in Delivery /\ seen[w].attemptCount \in Nat
    BY <1>3 DEF Current, WebhooksInv, TypeOK
  <1>4. ASSUME NEW w \in Executors, Refuse(w) \/ Deny(w) PROVE FALSE
    <2>1. pc[w] # "idle" /\ Settle(w, [Current(w) EXCEPT !.status = "failed"])
      BY <1>4 DEF Refuse, Deny
    <2>2. Current(w) \in Delivery /\ "failed" \in Status
      BY <1>3, <2>1 DEF Status
    <2>3. /\ [Current(w) EXCEPT !.status = "failed"] \in Delivery
          /\ [Current(w) EXCEPT !.status = "failed"].status = "failed"
      BY <2>2, StatusFields
    <2>4. QED
      BY <1>2, <2>1, <2>3
  <1>5. ASSUME NEW w \in Executors, Postpone(w) PROVE FALSE
    <2> DEFINE new == [Current(w) EXCEPT !.status = "retrying", !.nextAttemptAt = RetryDelay]
    <2>1. pc[w] # "idle" /\ Settle(w, new)
      BY <1>5 DEF Postpone
    <2>2. Current(w) \in Delivery /\ RetryDelay \in Nat
      BY <1>3, <2>1, WebhooksAssumption
    <2>3. new \in Delivery /\ new.status = "retrying"
      BY <2>2, RetryingFields
    <2>4. QED
      BY <1>2, <2>1, <2>3
  <1>6. ASSUME NEW w \in Executors, Succeed(w) \/ Reject(w) \/ Miss(w) PROVE FALSE
    <2>1. pc[w] # "idle"
      BY <1>6 DEF Succeed, Reject, Miss
    <2>2. PICK n \in Nat : n = seen[w].attemptCount
      BY <1>3, <2>1
    <2>3. PICK m \in Nat : m = n + 1
      OBVIOUS
    <2>4. PICK c \in Delivery : c = Attempted(w)
      <3>1. Attempted(w) = [Current(w) EXCEPT !.attemptCount = m] /\ Current(w) \in Delivery
        BY <1>3, <2>1, <2>2, <2>3 DEF Attempted
      <3>2. Attempted(w) \in Delivery
        BY <3>1, AttemptedFields, Zenon
      <3>3. QED
        BY <3>2
    <2>5. ASSUME NEW st \in {"delivered", "failed"}, Settle(w, [c EXCEPT !.status = st]) PROVE FALSE
      <3>1. st \in Status /\ st # "delivering"
        BY DEF Status
      <3>2. [c EXCEPT !.status = st] \in Delivery /\ [c EXCEPT !.status = st].status = st
        BY <3>1, StatusFields, Zenon
      <3>3. QED
        BY <1>2, <2>1, <2>5, <3>1, <3>2
    <2>6. CASE Succeed(w) \/ Reject(w) \/ (Miss(w) /\ LastAttempt(w))
      BY <2>4, <2>5, <2>6 DEF Succeed, Reject, Miss
    <2>7. CASE Miss(w) /\ ~LastAttempt(w)
      <3>1. PICK wait \in Nat : wait = Backoff(n)
        BY <2>2, <2>7, WebhooksAssumption, BackoffAssumption DEF LastAttempt
      <3> DEFINE new == [c EXCEPT !.status = "retrying", !.nextAttemptAt = wait]
      <3>2. Settle(w, new)
        BY <2>2, <2>4, <2>7, <3>1 DEF Miss
      <3>3. new \in Delivery /\ new.status = "retrying"
        BY <3>1, RetryingFields, Zenon
      <3>4. QED
        BY <1>2, <2>1, <3>2, <3>3
    <2>8. QED
      BY <1>6, <2>6, <2>7
  <1>7. ASSUME NEW w \in Executors, Deliver(w) \/ Crash(w), ~Claim(w) PROVE FALSE
    BY <1>1, <1>4, <1>5, <1>6, <1>7 DEF Deliver, ListDue, ReadDelivery, ReadEndpoint, Post, Stall, Crash
  <1>8. ASSUME NEW s \in Sources, QueueDeliveries(s) PROVE FALSE
    BY <1>1, <1>8 DEF QueueDeliveries, AbsentDelivery
  <1>9. ASSUME NEW c \in Clients, ReplayDelivery(c) PROVE FALSE
    <2>1. PICK d \in Deliveries : d = asked[c].delivery
      BY <1>9 DEF ReplayDelivery, WebhooksInv, ClientInv
    <2>2. TypeOK /\ deliveries[d] \in Delivery
      BY DEF WebhooksInv, TypeOK
    <2>3. PICK new \in Delivery :
            /\ new = [deliveries[d] EXCEPT !.status = "pending", !.attemptCount = 0, !.nextAttemptAt = 0]
            /\ new.status = "pending"
      BY <2>2, ReplayedFields
    <2>4. deliveries' = [deliveries EXCEPT ![d] = Written(d, new)]
      BY <1>1, <1>9, <2>1, <2>3 DEF ReplayDelivery
    <2>5. QED
      BY <1>1, <2>2, <2>3, <2>4, WriteEffect
  <1>10. ~Tick
    <2> SUFFICES ASSUME Tick PROVE FALSE
      OBVIOUS
    <2>1. PICK r \in Delivery : r = deliveries[k]
      BY <1>1
    <2>2. deliveries'[k] = [r EXCEPT !.nextAttemptAt = IF r.nextAttemptAt > 0 THEN r.nextAttemptAt - 1 ELSE 0]
      BY <2>1 DEF Tick, Elapsed
    <2>3. deliveries'[k].status = r.status
      BY <2>2, DeliveryFields
    <2>4. QED
      BY <2>1, <2>3
  <1>11. QED
    BY <1>1, <1>7, <1>8, <1>9, <1>10
       DEF Next, RegisterEndpoint, DisableEndpoint, MatchEndpoints, RequestReplay, RefuseReplay

\* Under the same condition, a retry waits for its backoff (the managed loop's list).
THEOREM BackoffRespectedWithOneLoop == ASSUME OneLoop PROVE Spec => BackoffRespected
  <1> DEFINE Waited == \A d \in Deliveries :
                         deliveries[d].status = "retrying" /\ deliveries'[d].status = "delivering"
                           => deliveries[d].nextAttemptAt = 0
  <1>1. WebhooksInv /\ LoopInv /\ [Next]_vars => [Waited]_vars
    <2> SUFFICES ASSUME WebhooksInv, LoopInv, Next, NEW d \in Deliveries,
                        deliveries[d].status = "retrying", deliveries'[d].status = "delivering"
                 PROVE  deliveries[d].nextAttemptAt = 0
      OBVIOUS
    <2>1. PICK w \in Executors : Claim(w)
      BY OnlyClaimsDeliver
    <2>2. deliveries' # deliveries
      OBVIOUS
    <2>3. /\ IsDue(deliveries[target[w]])
          /\ \A k \in Deliveries : k # target[w] => deliveries'[k] = deliveries[k]
      BY <2>1, <2>2, ClaimTakesDue
    <2>4. d = target[w]
      BY <2>3
    <2>5. QED
      BY <2>3, <2>4 DEF IsDue
  <1>2. QED
    BY <1>1, LoopInitInv, LoopNextInv, WebhooksInvariance, PTL DEF Spec, BackoffRespected

-----------------------------------------------------------------------------
(* Refinement: each delivery lives as if one worker at a time took it up *)

\* The executor is at a place of its attempt that still has an end.
Answerable(w) == pc[w] \in {"authorize", "accepted", "unaccepted"}

\* A step that changes one delivery, in the terms of DeliveryLifecycle.
LEMMA StepBecomes ==
  ASSUME NEW d \in Deliveries, NEW s, NEW n, StateOf(d)' = s, deliveries'[d].attemptCount = n,
         \A k \in Deliveries : k # d => /\ StateOf(k)' = StateOf(k)
                                        /\ deliveries'[k].attemptCount = deliveries[k].attemptCount
  PROVE  Lifecycle!Become(d, s, n)
  <1>1. [k \in Deliveries |-> StateOf(k)]' = [[k \in Deliveries |-> StateOf(k)] EXCEPT ![d] = s]
    OBVIOUS
  <1>2. [k \in Deliveries |-> deliveries[k].attemptCount]'
          = [[k \in Deliveries |-> deliveries[k].attemptCount] EXCEPT ![d] = n]
    OBVIOUS
  <1> QED
    BY <1>1, <1>2 DEF Lifecycle!Become

LEMMA StepStutters ==
  ASSUME \A k \in Deliveries : /\ StateOf(k)' = StateOf(k)
                               /\ deliveries'[k].attemptCount = deliveries[k].attemptCount
  PROVE  UNCHANGED Lifecycle!lifecycleVars
  BY DEF Lifecycle!lifecycleVars

\* Nobody began or ended an attempt of k that counts, and its record says what it said.
LEMMA StateKept ==
  ASSUME NEW k \in Deliveries,
         deliveries'[k].status = deliveries[k].status, deliveries'[k].version = deliveries[k].version,
         \A x \in Executors : \/ Unmoved(x)
                              \/ /\ ~(Answerable(x) /\ target[x] = k /\ seen[x].version = deliveries[k].version)
                                 /\ ~(Answerable(x)' /\ target'[x] = k /\ seen'[x].version = deliveries'[k].version)
  PROVE  StateOf(k)' = StateOf(k)
  <1>1. ASSUME NEW place \in {"authorize", "accepted", "unaccepted"}
        PROVE  HeldAt(place, k)' <=> HeldAt(place, k)
    BY DEF HeldAt, Unmoved, Answerable
  <1>2. /\ HeldAt("authorize", k)' <=> HeldAt("authorize", k)
        /\ HeldAt("accepted", k)' <=> HeldAt("accepted", k)
        /\ HeldAt("unaccepted", k)' <=> HeldAt("unaccepted", k)
    BY <1>1
  <1> QED
    BY <1>2 DEF StateOf

\* The one executor that attempts a delivery as it stands says how far it is.
LEMMA StateHeld ==
  ASSUME WebhooksInv, NEW w \in Executors, Answerable(w), Fresh(w)
  PROVE  /\ target[w] \in Deliveries /\ deliveries[target[w]].status = "delivering"
         /\ seen[w].attemptCount = deliveries[target[w]].attemptCount
         /\ StateOf(target[w]) = IF pc[w] = "authorize" THEN "claimed" ELSE pc[w]
         /\ StateOf(target[w]) \in {"claimed", "accepted", "unaccepted"}
  <1>1. pc[w] # "idle" /\ target[w] \in Deliveries
    BY DEF Answerable, WebhooksInv, TypeOK
  <1>2. /\ deliveries[target[w]].status = "delivering"
        /\ seen[w].attemptCount = deliveries[target[w]].attemptCount
    BY <1>1 DEF WebhooksInv, ExecutorInv, Knows, Answerable, Attempting
  <1>3. HeldAt(pc[w], target[w])
    BY DEF HeldAt, Fresh
  <1>4. ASSUME NEW place \in {"authorize", "accepted", "unaccepted"}, HeldAt(place, target[w]) PROVE place = pc[w]
    <2>1. PICK x \in Executors : pc[x] = place /\ target[x] = target[w] /\ Fresh(x)
      BY <1>4 DEF HeldAt, Fresh
    <2>2. Answerable(x)
      BY <1>4, <2>1 DEF Answerable
    <2>3. x = w
      BY <2>1, <2>2 DEF WebhooksInv, OneAttempt, Answerable, Attempting
    <2> QED
      BY <2>1, <2>3
  <1>5. pc[w] \in {"authorize", "accepted", "unaccepted"}
    BY DEF Answerable
  <1> QED
    BY <1>1, <1>2, <1>3, <1>4, <1>5 DEF StateOf

\* A write: the other deliveries keep their states, and a record that is not delivering says its own.
LEMMA WriteState ==
  ASSUME WebhooksInv, NEW d \in Deliveries, NEW new \in Delivery, new.status # "delivering",
         deliveries' = [deliveries EXCEPT ![d] = Written(d, new)],
         \A x \in Executors : Unmoved(x) \/ (target[x] = d /\ pc'[x] = "idle")
  PROVE  Lifecycle!Become(d, new.status, new.attemptCount)
  <1>1. /\ deliveries'[d].status = new.status /\ deliveries'[d].attemptCount = new.attemptCount
        /\ \A k \in Deliveries : k # d => deliveries'[k] = deliveries[k]
    BY WriteEffect DEF WebhooksInv
  <1>2. StateOf(d)' = new.status
    BY <1>1 DEF StateOf
  <1>3. ASSUME NEW k \in Deliveries, k # d PROVE StateOf(k)' = StateOf(k)
    BY <1>1, <1>3, StateKept DEF Answerable
  <1> QED
    BY <1>1, <1>2, <1>3, StepBecomes

\* The write that ends deliverWebhook is lost without a trace, or it ends the attempt of its worker.
LEMMA SettleRefines ==
  ASSUME WebhooksInv, NEW w \in Executors, pc[w] # "idle", NEW new \in Delivery, new.status # "delivering",
         Settle(w, new)
  PROVE  \/ UNCHANGED Lifecycle!lifecycleVars
         \/ /\ target[w] \in Deliveries /\ Fresh(w)
            /\ Lifecycle!Become(target[w], new.status, new.attemptCount)
  <1>1. PICK d \in Deliveries : d = target[w]
    BY DEF WebhooksInv, TypeOK
  <1>2. /\ \A x \in Executors \ {w} : Unmoved(x)
        /\ pc'[w] = "idle"
    BY DEF Settle, Return, Unmoved, WebhooksInv, TypeOK
  <1>3. CASE Fresh(w)
    <2>1. deliveries' = [deliveries EXCEPT ![d] = Written(d, new)]
      BY <1>1, <1>3 DEF Settle, VersionMatches, Fresh
    <2>2. Lifecycle!Become(d, new.status, new.attemptCount)
      BY <1>1, <1>2, <2>1, WriteState
    <2> QED
      BY <1>1, <1>3, <2>2
  <1>4. CASE ~Fresh(w)
    <2>1. deliveries' = deliveries
      BY <1>1, <1>4 DEF Settle, VersionMatches, Fresh
    <2>2. ASSUME NEW k \in Deliveries PROVE StateOf(k)' = StateOf(k)
      <3>1. ~(Answerable(w) /\ target[w] = k /\ seen[w].version = deliveries[k].version)
        BY <1>4 DEF Fresh
      <3> QED
        BY <1>2, <2>1, <3>1, StateKept DEF Answerable
    <2> QED
      BY <2>1, <2>2, StepStutters
  <1> QED
    BY <1>3, <1>4

\* A step that leaves the records, but for the time left, and the attempts that count alone.
LEMMA QuietRefines ==
  ASSUME \A k \in Deliveries : /\ deliveries'[k].status = deliveries[k].status
                               /\ deliveries'[k].version = deliveries[k].version
                               /\ deliveries'[k].attemptCount = deliveries[k].attemptCount,
         \A x \in Executors : \/ Unmoved(x)
                              \/ ~(Answerable(x) /\ Fresh(x)) /\ ~(Answerable(x)' /\ Fresh(x)')
  PROVE  UNCHANGED Lifecycle!lifecycleVars
  <1>1. ASSUME NEW k \in Deliveries PROVE StateOf(k)' = StateOf(k)
    <2>1. \A x \in Executors :
            \/ Unmoved(x)
            \/ /\ ~(Answerable(x) /\ target[x] = k /\ seen[x].version = deliveries[k].version)
               /\ ~(Answerable(x)' /\ target'[x] = k /\ seen'[x].version = deliveries'[k].version)
      BY DEF Fresh
    <2> QED
      BY <2>1, StateKept
  <1> QED
    BY <1>1, StepStutters

\* Lists, records and endpoints are read; endpoints come and go; replays are asked for and
\* refused; time passes.
LEMMA ReadRefines ==
  ASSUME WebhooksInv, NEW w \in Executors,
         ListDue(w) \/ (\E d \in Deliveries : ReadDelivery(w, d)) \/ ReadEndpoint(w)
  PROVE  UNCHANGED Lifecycle!lifecycleVars
  <1>1. deliveries' = deliveries /\ \A x \in Executors \ {w} : Unmoved(x)
    BY DEF ListDue, ReadDelivery, ReadEndpoint, Unmoved, WebhooksInv, TypeOK
  <1>2. ~Answerable(w) /\ ~Answerable(w)'
    <2>1. pc \in [Executors -> {"idle", "endpoint", "refuse", "claim", "authorize", "accepted", "unaccepted", "stalled"}]
      BY DEF WebhooksInv, TypeOK
    <2> QED
      BY <2>1 DEF ListDue, ReadDelivery, ReadEndpoint, Answerable
  <1> QED
    BY <1>1, <1>2, QuietRefines

LEMMA OthersRefine ==
  ASSUME \/ \E e \in Endpoints : RegisterEndpoint(e) \/ DisableEndpoint(e)
         \/ \E s \in Sources : MatchEndpoints(s)
         \/ \E c \in Clients : RefuseReplay(c) \/ \E d \in Deliveries : RequestReplay(c, d)
         \/ UNCHANGED vars
  PROVE  UNCHANGED Lifecycle!lifecycleVars
  <1>1. UNCHANGED <<deliveries, pc, due, target, seen>>
    BY DEF RegisterEndpoint, DisableEndpoint, MatchEndpoints, RefuseReplay, RequestReplay, vars, execVars
  <1>2. \A x \in Executors : Unmoved(x)
    BY <1>1 DEF Unmoved
  <1> QED
    BY <1>1, <1>2, QuietRefines

LEMMA TickRefines == ASSUME WebhooksInv, Tick PROVE UNCHANGED Lifecycle!lifecycleVars
  <1>1. \A x \in Executors : Unmoved(x)
    BY DEF Tick, execVars, Unmoved
  <1>2. ASSUME NEW k \in Deliveries
        PROVE  /\ deliveries'[k].status = deliveries[k].status
               /\ deliveries'[k].version = deliveries[k].version
               /\ deliveries'[k].attemptCount = deliveries[k].attemptCount
    <2>1. PICK r \in Delivery : r = deliveries[k]
      BY DEF WebhooksInv, TypeOK
    <2>2. PICK t \in Nat : t = IF r.nextAttemptAt > 0 THEN r.nextAttemptAt - 1 ELSE 0
      BY DeliveryFields
    <2>3. deliveries'[k] = [r EXCEPT !.nextAttemptAt = t]
      BY <2>1, <2>2 DEF Tick, Elapsed
    <2> QED
      BY <2>1, <2>3, DeliveryFields
  <1> QED
    BY <1>1, <1>2, QuietRefines

\* A claim takes the delivery up, unless it has moved on.
LEMMA ClaimRefines ==
  ASSUME WebhooksInv, NEW w \in Executors, Claim(w)
  PROVE  UNCHANGED Lifecycle!lifecycleVars \/ \E d \in Deliveries : Lifecycle!Claim(d)
  <1>1. pc[w] = "claim" /\ ~Answerable(w) /\ due' = due
    BY DEF Claim, Answerable
  <1>2. PICK d \in Deliveries : d = target[w]
    BY <1>1 DEF WebhooksInv, TypeOK
  <1>3. VersionMatches(d, seen[w].version) <=> Fresh(w)
    BY <1>2 DEF VersionMatches, Fresh
  <1>4. CASE ~Fresh(w)
    <2>1. Return(w) /\ UNCHANGED deliveries
      BY <1>2, <1>3, <1>4 DEF Claim
    <2>2. ~Answerable(w)' /\ \A x \in Executors \ {w} : Unmoved(x)
      BY <1>1, <2>1 DEF Return, Unmoved, Answerable, WebhooksInv, TypeOK
    <2> QED
      BY <1>4, <2>1, <2>2, QuietRefines
  <1>5. CASE Fresh(w)
    <2>1. TypeOK /\ Knows(w, d) /\ deliveries[d] \in Delivery
      BY <1>1, <1>2 DEF WebhooksInv, ExecutorInv, TypeOK
    <2>2. PICK new \in Delivery :
            /\ new = [deliveries[d] EXCEPT !.status = "delivering"]
            /\ new.status = "delivering" /\ new.attemptCount = deliveries[d].attemptCount
      <3>1. "delivering" \in Status
        BY DEF Status
      <3> QED
        BY <2>1, <3>1, StatusFields, Zenon
    <2>3. /\ deliveries' = [deliveries EXCEPT ![d] = Written(d, new)]
          /\ seen' = [seen EXCEPT ![w] = Snapshot(deliveries'[d])]
          /\ pc' = [pc EXCEPT ![w] = "authorize"]
          /\ UNCHANGED target
      BY <1>2, <1>3, <1>5, <2>2 DEF Claim
    <2>4. /\ deliveries' \in [Deliveries -> Delivery]
          /\ deliveries'[d].status = "delivering"
          /\ deliveries'[d].attemptCount = deliveries[d].attemptCount
          /\ \A k \in Deliveries : k # d => deliveries'[k] = deliveries[k]
      BY <2>1, <2>2, <2>3, WriteEffect
    <2>5. Snapshot(deliveries'[d]).version = deliveries'[d].version
      BY <2>4, SnapshotFields
    <2>6. pc'[w] = "authorize" /\ target'[w] = d /\ seen'[w].version = deliveries'[d].version
      BY <1>2, <2>1, <2>3, <2>5 DEF TypeOK
    <2>7. StateOf(d)' = "claimed"
      BY <2>4, <2>6 DEF StateOf, HeldAt
    <2>8. ASSUME NEW k \in Deliveries, k # d PROVE StateOf(k)' = StateOf(k)
      <3>1. \A x \in Executors \ {w} : Unmoved(x)
        BY <1>1, <2>1, <2>3 DEF Unmoved, TypeOK
      <3> QED
        BY <1>1, <2>4, <2>6, <2>8, <3>1, StateKept
    <2>9. PICK n \in Nat : n = deliveries[d].attemptCount
      BY <2>1, DeliveryFields
    <2>10. Lifecycle!Become(d, "claimed", n)
      BY <2>4, <2>7, <2>8, <2>9, StepBecomes
    <2>11. /\ [k \in Deliveries |-> StateOf(k)][d] \in {"pending", "retrying", "failed"}
           /\ [k \in Deliveries |-> deliveries[k].attemptCount][d] = n
      BY <1>1, <1>5, <2>1, <2>9, DeliveryFields DEF Knows, Answerable, Attempting, Deliverable, StateOf, Status
    <2>12. Lifecycle!Claim(d)
      BY <2>10, <2>11, Zenon DEF Lifecycle!Claim, Lifecycle!Waiting, Lifecycle!Become
    <2> QED
      BY <2>12
  <1> QED
    BY <1>4, <1>5

\* The request of a claim is sent; that of a claim that a replay overtook counts for nothing.
LEMMA PostRefines ==
  ASSUME WebhooksInv, NEW w \in Executors, Post(w)
  PROVE  UNCHANGED Lifecycle!lifecycleVars \/ \E d \in Deliveries : Lifecycle!Post(d)
  <1>1. pc[w] = "authorize" /\ Answerable(w) /\ UNCHANGED <<deliveries, due, target, seen>>
    BY DEF Post, Answerable
  <1>2. PICK to \in {"accepted", "unaccepted"} : pc' = [pc EXCEPT ![w] = to]
    BY DEF Post
  <1>3. pc'[w] = to /\ \A x \in Executors \ {w} : Unmoved(x)
    BY <1>1, <1>2 DEF Unmoved, WebhooksInv, TypeOK
  <1>4. CASE ~Fresh(w)
    <2>1. ~Fresh(w)'
      BY <1>1, <1>4 DEF Fresh
    <2> QED
      BY <1>1, <1>3, <1>4, <2>1, QuietRefines
  <1>5. CASE Fresh(w)
    <2>1. PICK d \in Deliveries : /\ d = target[w] /\ deliveries[d].status = "delivering"
                                  /\ StateOf(d) = "claimed"
      BY <1>1, <1>5, StateHeld
    <2>2. PICK n \in Nat : n = deliveries[d].attemptCount
      BY DeliveryFields DEF WebhooksInv, TypeOK
    <2>3. HeldAt(to, d)'
      BY <1>1, <1>3, <1>5, <2>1 DEF HeldAt, Fresh
    <2>4. ASSUME NEW place \in {"authorize", "accepted", "unaccepted"}, HeldAt(place, d)' PROVE place = to
      <3>1. PICK x \in Executors : pc'[x] = place /\ target[x] = d /\ Fresh(x)
        BY <1>1, <2>4 DEF HeldAt, Fresh
      <3>2. CASE x = w
        BY <1>3, <3>1, <3>2
      <3>3. CASE x # w
        <4>1. Answerable(x)
          BY <1>3, <2>4, <3>1, <3>3 DEF Unmoved, Answerable
        <4> QED
          BY <1>1, <1>5, <2>1, <3>1, <3>3, <4>1 DEF WebhooksInv, OneAttempt, Answerable, Attempting
      <3> QED
        BY <3>2, <3>3
    <2>5. StateOf(d)' = to
      BY <1>1, <2>1, <2>3, <2>4 DEF StateOf
    <2>6. ASSUME NEW k \in Deliveries, k # d PROVE StateOf(k)' = StateOf(k)
      BY <1>1, <1>3, <2>1, <2>6, StateKept
    <2>7. Lifecycle!Become(d, to, n)
      BY <1>1, <2>2, <2>5, <2>6, StepBecomes
    <2>8. /\ [k \in Deliveries |-> StateOf(k)][d] = "claimed"
          /\ [k \in Deliveries |-> deliveries[k].attemptCount][d] = n
      BY <2>1, <2>2
    <2>9. Lifecycle!Post(d)
      BY <2>7, <2>8, Zenon DEF Lifecycle!Post, Lifecycle!Become
    <2> QED
      BY <2>9
  <1> QED
    BY <1>4, <1>5

\* An executor stops, or waits for ever: nobody ends the attempt that it was making.
LEMMA CrashRefines ==
  ASSUME WebhooksInv, NEW w \in Executors, Crash(w) \/ Stall(w)
  PROVE  UNCHANGED Lifecycle!lifecycleVars \/ \E d \in Deliveries : Lifecycle!Stop(d)
  <1>1. /\ deliveries' = deliveries /\ pc'[w] \in {"idle", "stalled"}
        /\ \A x \in Executors \ {w} : Unmoved(x)
    BY DEF Crash, Stall, Return, Unmoved, WebhooksInv, TypeOK
  <1>2. ~Answerable(w)'
    BY <1>1 DEF Answerable
  <1>3. CASE ~(Answerable(w) /\ Fresh(w))
    BY <1>1, <1>2, <1>3, QuietRefines
  <1>4. CASE Answerable(w) /\ Fresh(w)
    <2>1. PICK d \in Deliveries : /\ d = target[w] /\ deliveries[d].status = "delivering"
                                  /\ StateOf(d) \in {"claimed", "accepted", "unaccepted"}
      BY <1>4, StateHeld
    <2>2. PICK n \in Nat : n = deliveries[d].attemptCount
      BY DeliveryFields DEF WebhooksInv, TypeOK
    <2>3. ASSUME NEW place \in {"authorize", "accepted", "unaccepted"}, HeldAt(place, d)' PROVE FALSE
      <3>1. PICK x \in Executors : /\ pc'[x] = place /\ target'[x] = d
                                   /\ seen'[x].version = deliveries[d].version
        BY <1>1, <2>3 DEF HeldAt
      <3>2. x # w
        BY <1>1, <2>3, <3>1
      <3>3. Answerable(x) /\ Fresh(x) /\ target[x] = d
        BY <1>1, <2>3, <3>1, <3>2 DEF Unmoved, Answerable, Fresh
      <3> QED
        BY <1>4, <2>1, <3>2, <3>3 DEF WebhooksInv, OneAttempt, Answerable, Attempting
    <2>4. StateOf(d)' = "lost"
      BY <1>1, <2>1, <2>3 DEF StateOf
    <2>5. ASSUME NEW k \in Deliveries, k # d PROVE StateOf(k)' = StateOf(k)
      BY <1>1, <1>2, <2>1, <2>5, StateKept
    <2>6. Lifecycle!Become(d, "lost", n)
      BY <1>1, <2>2, <2>4, <2>5, StepBecomes
    <2>7. /\ [k \in Deliveries |-> StateOf(k)][d] \in {"claimed", "accepted", "unaccepted"}
          /\ [k \in Deliveries |-> deliveries[k].attemptCount][d] = n
      BY <2>1, <2>2
    <2>8. Lifecycle!Stop(d)
      BY <2>6, <2>7, Zenon DEF Lifecycle!Stop, Lifecycle!Held, Lifecycle!Become
    <2> QED
      BY <2>8
  <1> QED
    BY <1>3, <1>4

\* A replay makes the delivery pending, whoever is at work on it.
LEMMA ReplayRefines ==
  ASSUME WebhooksInv, NEW c \in Clients, ReplayDelivery(c)
  PROVE  UNCHANGED Lifecycle!lifecycleVars \/ \E d \in Deliveries : Lifecycle!Replay(d)
  <1>1. PICK d \in Deliveries : d = asked[c].delivery /\ deliveries[d].status # "absent"
    BY DEF ReplayDelivery, WebhooksInv, ClientInv
  <1>2. \A x \in Executors : Unmoved(x)
    BY DEF ReplayDelivery, execVars, Unmoved
  <1>3. CASE ~VersionMatches(d, asked[c].version)
    <2>1. deliveries' = deliveries
      BY <1>1, <1>3 DEF ReplayDelivery
    <2> QED
      BY <1>2, <2>1, QuietRefines
  <1>4. CASE VersionMatches(d, asked[c].version)
    <2>1. deliveries[d] \in Delivery
      BY DEF WebhooksInv, TypeOK
    <2>2. PICK new \in Delivery :
            /\ new = [deliveries[d] EXCEPT !.status = "pending", !.attemptCount = 0, !.nextAttemptAt = 0]
            /\ new.status = "pending" /\ new.attemptCount = 0
      BY <2>1, ReplayedFields
    <2>3. deliveries' = [deliveries EXCEPT ![d] = Written(d, new)]
      BY <1>1, <1>4, <2>2 DEF ReplayDelivery
    <2>4. Lifecycle!Become(d, "pending", 0)
      BY <1>2, <2>2, <2>3, WriteState
    <2>5. [k \in Deliveries |-> StateOf(k)][d] # "absent"
      BY <1>1 DEF StateOf
    <2>6. Lifecycle!Replay(d)
      BY <2>4, <2>5, Zenon DEF Lifecycle!Replay
    <2> QED
      BY <2>6
  <1> QED
    BY <1>3, <1>4

\* An emit queues its deliveries at once.
LEMMA QueueRefines ==
  ASSUME WebhooksInv, NEW s \in Sources, QueueDeliveries(s)
  PROVE  \E new \in SUBSET Deliveries : Lifecycle!Queue(new)
  <1>1. UNCHANGED <<pc, target, seen>>
    BY DEF QueueDeliveries
  <1>2. PICK ids \in [matched[s] -> Unused] :
          LET new == {ids[e] : e \in matched[s]} IN
          deliveries' = [d \in Deliveries |->
            IF d \in new
              THEN [AbsentDelivery EXCEPT !.status = "pending", !.version = 1,
                      !.endpoint = CHOOSE e \in matched[s] : ids[e] = d]
              ELSE deliveries[d]]
    BY DEF QueueDeliveries
  <1>3. PICK N \in SUBSET Deliveries :
          /\ N = {ids[e] : e \in matched[s]}
          /\ \A d \in N : deliveries[d].status = "absent"
    <2> DEFINE M == {ids[e] : e \in matched[s]}
    <2>1. \A d \in M : d \in Deliveries /\ deliveries[d].status = "absent"
      BY DEF Unused
    <2>2. M \in SUBSET Deliveries
      BY <2>1
    <2> QED
      BY <2>1, <2>2, Zenon
  <1>4. /\ \A d \in Deliveries \ N : deliveries'[d] = deliveries[d]
        /\ \A d \in N : deliveries'[d].status = "pending" /\ deliveries'[d].attemptCount = 0
    BY <1>2, <1>3 DEF AbsentDelivery
  <1>5. \A d \in N : StateOf(d) = "absent" /\ StateOf(d)' = "pending"
    BY <1>3, <1>4 DEF StateOf
  <1>6. ASSUME NEW d \in Deliveries \ N PROVE StateOf(d)' = StateOf(d)
    BY <1>1, <1>4, <1>6 DEF StateOf, HeldAt
  <1>7. /\ \A d \in N : [k \in Deliveries |-> StateOf(k)][d] = "absent"
        /\ [k \in Deliveries |-> StateOf(k)]'
             = [d \in Deliveries |-> IF d \in N THEN "pending" ELSE [k \in Deliveries |-> StateOf(k)][d]]
        /\ [k \in Deliveries |-> deliveries[k].attemptCount]'
             = [d \in Deliveries |-> IF d \in N THEN 0 ELSE [k \in Deliveries |-> deliveries[k].attemptCount][d]]
    BY <1>4, <1>5, <1>6
  <1>8. Lifecycle!Queue(N)
    BY <1>7, Zenon DEF Lifecycle!Queue
  <1> QED
    BY <1>8

\* What the write that ends deliverWebhook makes of the delivery, unless it is lost.
LEMMA RefuseRefines ==
  ASSUME WebhooksInv, NEW w \in Executors, Refuse(w) \/ Deny(w)
  PROVE  \/ UNCHANGED Lifecycle!lifecycleVars
         \/ \E d \in Deliveries : Lifecycle!Refuse(d) \/ Lifecycle!Deny(d)
  <1>1. pc[w] \in {"refuse", "authorize"} /\ Settle(w, [Current(w) EXCEPT !.status = "failed"])
    BY DEF Refuse, Deny
  <1>2. PICK d \in Deliveries : d = target[w] /\ deliveries[d] \in Delivery
    BY <1>1 DEF WebhooksInv, TypeOK
  <1>3. PICK n \in Nat : n = deliveries[d].attemptCount
    BY <1>2, DeliveryFields
  <1>4. PICK new \in Delivery : /\ new = [Current(w) EXCEPT !.status = "failed"]
                                /\ new.status = "failed" /\ new.attemptCount = n
    <2>1. PICK r \in Delivery : r = Current(w) /\ r.attemptCount = n
      BY <1>2, <1>3 DEF Current
    <2>2. "failed" \in Status
      BY DEF Status
    <2>3. /\ [r EXCEPT !.status = "failed"] \in Delivery
          /\ [r EXCEPT !.status = "failed"].status = "failed"
          /\ [r EXCEPT !.status = "failed"].attemptCount = r.attemptCount
      BY <2>2, StatusFields, Zenon
    <2> QED
      BY <2>1, <2>3, Zenon
  <1>5. CASE UNCHANGED Lifecycle!lifecycleVars
    BY <1>5
  <1>6. CASE Fresh(w) /\ Lifecycle!Become(d, "failed", n)
    <2>1. StateOf(d) \in {"pending", "retrying", "failed", "claimed"}
      <3>1. CASE pc[w] = "authorize"
        <4>1. Answerable(w)
          BY <3>1 DEF Answerable
        <4> QED
          BY <1>2, <1>6, <3>1, <4>1, StateHeld
      <3>2. CASE pc[w] = "refuse"
        <4>1. ~Answerable(w) /\ Knows(w, d)
          BY <1>2, <3>2 DEF Answerable, WebhooksInv, ExecutorInv
        <4>2. deliveries[d].status \in {"pending", "retrying", "failed"}
          BY <3>2, <1>2, <1>6, <4>1, DeliveryFields DEF Knows, Answerable, Attempting, Deliverable, Status
        <4> QED
          BY <4>2 DEF StateOf
      <3> QED
        BY <1>1, <3>1, <3>2
    <2>2. /\ [k \in Deliveries |-> StateOf(k)][d] \in {"pending", "retrying", "failed", "claimed"}
          /\ [k \in Deliveries |-> deliveries[k].attemptCount][d] = n
      BY <1>3, <2>1
    <2>3. Lifecycle!Refuse(d) \/ Lifecycle!Deny(d)
      BY <1>6, <2>2, Zenon DEF Lifecycle!Refuse, Lifecycle!Deny, Lifecycle!Waiting, Lifecycle!Become
    <2> QED
      BY <2>3
  <1> QED
    <2>1. Settle(w, new) /\ pc[w] # "idle" /\ new.status # "delivering"
      BY <1>1, <1>4
    <2> QED
      BY <1>2, <1>4, <1>5, <1>6, <2>1, SettleRefines

LEMMA PostponeRefines ==
  ASSUME WebhooksInv, NEW w \in Executors, Postpone(w)
  PROVE  UNCHANGED Lifecycle!lifecycleVars \/ \E d \in Deliveries : Lifecycle!Postpone(d)
  <1>1. /\ pc[w] = "authorize" /\ Answerable(w)
        /\ Settle(w, [Current(w) EXCEPT !.status = "retrying", !.nextAttemptAt = RetryDelay])
    BY DEF Postpone, Answerable
  <1>2. PICK d \in Deliveries : d = target[w] /\ deliveries[d] \in Delivery
    BY <1>1 DEF WebhooksInv, TypeOK
  <1>3. PICK n \in Nat : n = deliveries[d].attemptCount
    BY <1>2, DeliveryFields
  <1>4. PICK new \in Delivery :
          /\ new = [Current(w) EXCEPT !.status = "retrying", !.nextAttemptAt = RetryDelay]
          /\ new.status = "retrying" /\ new.attemptCount = n
    <2>1. PICK r \in Delivery : r = Current(w) /\ r.attemptCount = n
      BY <1>2, <1>3 DEF Current
    <2>2. RetryDelay \in Nat
      BY WebhooksAssumption
    <2>3. /\ [r EXCEPT !.status = "retrying", !.nextAttemptAt = RetryDelay] \in Delivery
          /\ [r EXCEPT !.status = "retrying", !.nextAttemptAt = RetryDelay].status = "retrying"
          /\ [r EXCEPT !.status = "retrying", !.nextAttemptAt = RetryDelay].attemptCount = r.attemptCount
      BY <2>2, RetryingFields, Zenon
    <2> QED
      BY <2>1, <2>3, Zenon
  <1>5. CASE UNCHANGED Lifecycle!lifecycleVars
    BY <1>5
  <1>6. CASE Fresh(w) /\ Lifecycle!Become(d, "retrying", n)
    <2>1. /\ [k \in Deliveries |-> StateOf(k)][d] = "claimed"
          /\ [k \in Deliveries |-> deliveries[k].attemptCount][d] = n
      BY <1>1, <1>2, <1>3, <1>6, StateHeld
    <2>2. Lifecycle!Postpone(d)
      BY <1>6, <2>1, Zenon DEF Lifecycle!Postpone, Lifecycle!Become
    <2> QED
      BY <2>2
  <1> QED
    <2>1. Settle(w, new) /\ pc[w] # "idle" /\ new.status # "delivering"
      BY <1>1, <1>4
    <2> QED
      BY <1>2, <1>4, <1>5, <1>6, <2>1, SettleRefines

LEMMA RecordRefines ==
  ASSUME WebhooksInv, NEW w \in Executors, Succeed(w) \/ Reject(w) \/ Miss(w)
  PROVE  \/ UNCHANGED Lifecycle!lifecycleVars
         \/ \E d \in Deliveries : Lifecycle!Succeed(d) \/ Lifecycle!Reject(d) \/ Lifecycle!Miss(d)
  <1>1. Answerable(w) /\ pc[w] # "idle"
    BY DEF Succeed, Reject, Miss, Answerable
  <1>2. PICK d \in Deliveries : d = target[w] /\ deliveries[d] \in Delivery
    BY <1>1 DEF WebhooksInv, TypeOK
  <1>3. PICK n \in Nat : n = seen[w].attemptCount
    BY DEF WebhooksInv, TypeOK
  <1>4. PICK m \in Nat : m = n + 1
    OBVIOUS
  <1>5. PICK c \in Delivery : c = Attempted(w) /\ c.attemptCount = m
    <2>1. Current(w) \in Delivery /\ Attempted(w) = [Current(w) EXCEPT !.attemptCount = m]
      BY <1>2, <1>3, <1>4 DEF Attempted, Current
    <2> QED
      BY <2>1, AttemptedFields
  <1>6. PICK new \in Delivery :
          /\ Settle(w, new) /\ new.attemptCount = m
          /\ \/ pc[w] = "accepted" /\ new.status = "delivered"
             \/ pc[w] = "unaccepted" /\ new.status = "failed"
             \/ new.status = IF m >= MaxRetryAttempts THEN "failed" ELSE "retrying"
    <2>1. ASSUME NEW st \in {"delivered", "failed"}
          PROVE  /\ [c EXCEPT !.status = st] \in Delivery
                 /\ [c EXCEPT !.status = st].status = st
                 /\ [c EXCEPT !.status = st].attemptCount = m
      <3>1. st \in Status
        BY DEF Status
      <3>2. /\ [c EXCEPT !.status = st] \in Delivery
            /\ [c EXCEPT !.status = st].status = st
            /\ [c EXCEPT !.status = st].attemptCount = c.attemptCount
        BY <3>1, StatusFields, Zenon
      <3> QED
        BY <1>5, <3>2
    <2>2. CASE Succeed(w)
      <3>1. Settle(w, [c EXCEPT !.status = "delivered"]) /\ pc[w] = "accepted"
        BY <1>5, <2>2 DEF Succeed
      <3> QED
        BY <2>1, <3>1
    <2>3. CASE Reject(w)
      <3>1. Settle(w, [c EXCEPT !.status = "failed"]) /\ pc[w] = "unaccepted"
        BY <1>5, <2>3 DEF Reject
      <3> QED
        BY <2>1, <3>1
    <2>4. CASE Miss(w) /\ LastAttempt(w)
      <3>1. Settle(w, [c EXCEPT !.status = "failed"]) /\ m >= MaxRetryAttempts
        BY <1>3, <1>4, <1>5, <2>4 DEF Miss, LastAttempt
      <3> QED
        BY <2>1, <3>1
    <2>5. CASE Miss(w) /\ ~LastAttempt(w)
      <3>1. PICK wait \in Nat : wait = Backoff(n)
        BY <1>3, <2>5, WebhooksAssumption, BackoffAssumption DEF LastAttempt
      <3>2. /\ Settle(w, [c EXCEPT !.status = "retrying", !.nextAttemptAt = wait])
            /\ ~(m >= MaxRetryAttempts)
        BY <1>3, <1>4, <1>5, <2>5, <3>1 DEF Miss, LastAttempt
      <3>3. /\ [c EXCEPT !.status = "retrying", !.nextAttemptAt = wait] \in Delivery
            /\ [c EXCEPT !.status = "retrying", !.nextAttemptAt = wait].status = "retrying"
            /\ [c EXCEPT !.status = "retrying", !.nextAttemptAt = wait].attemptCount = m
        BY <1>5, <3>1, RetryingFields
      <3> QED
        BY <3>2, <3>3
    <2> QED
      BY <2>2, <2>3, <2>4, <2>5
  <1>7. CASE UNCHANGED Lifecycle!lifecycleVars
    BY <1>7
  <1>8. CASE Fresh(w) /\ Lifecycle!Become(d, new.status, m)
    <2>1. /\ [k \in Deliveries |-> StateOf(k)][d] = IF pc[w] = "authorize" THEN "claimed" ELSE pc[w]
          /\ [k \in Deliveries |-> StateOf(k)][d] \in {"claimed", "accepted", "unaccepted"}
          /\ [k \in Deliveries |-> deliveries[k].attemptCount][d] + 1 = m
      BY <1>1, <1>2, <1>3, <1>4, <1>8, StateHeld
    <2>2. PICK st : st = new.status
      OBVIOUS
    <2>3. Lifecycle!Become(d, st, m)
      BY <1>8, <2>2
    <2>4. CASE pc[w] = "accepted" /\ st = "delivered"
      <3>1. Lifecycle!Succeed(d)
        BY <2>1, <2>3, <2>4 DEF Lifecycle!Succeed, Lifecycle!Become
      <3> QED
        BY <3>1
    <2>5. CASE pc[w] = "unaccepted" /\ st = "failed"
      <3>1. Lifecycle!Reject(d)
        BY <2>1, <2>3, <2>5 DEF Lifecycle!Reject, Lifecycle!Become
      <3> QED
        BY <3>1
    <2>6. CASE st = IF m >= MaxRetryAttempts THEN "failed" ELSE "retrying"
      <3>1. Lifecycle!Miss(d)
        BY <2>1, <2>3, <2>6 DEF Lifecycle!Miss, Lifecycle!Held, Lifecycle!Become
      <3> QED
        BY <3>1
    <2> QED
      BY <1>6, <2>2, <2>4, <2>5, <2>6
  <1> QED
    <2>1. new.status # "delivering"
      BY <1>6
    <2> QED
      BY <1>1, <1>2, <1>6, <1>7, <1>8, <2>1, SettleRefines

\* Every step of the webhooks is a step of DeliveryLifecycle or a stutter.
LEMMA StepRefines ==
  ASSUME WebhooksInv, [Next]_vars
  PROVE  [Lifecycle!Next]_(Lifecycle!lifecycleVars)
  <1> USE DEF Lifecycle!Next
  <1>1. ASSUME NEW w \in Executors, Deliver(w) \/ Crash(w)
        PROVE  [Lifecycle!Next]_(Lifecycle!lifecycleVars)
    <2>1. CASE ListDue(w) \/ (\E d \in Deliveries : ReadDelivery(w, d)) \/ ReadEndpoint(w)
      BY <2>1, ReadRefines
    <2>2. CASE Refuse(w) \/ Deny(w)
      BY <2>2, RefuseRefines
    <2>3. CASE Claim(w)
      BY <2>3, ClaimRefines
    <2>4. CASE Postpone(w)
      BY <2>4, PostponeRefines
    <2>5. CASE Post(w)
      BY <2>5, PostRefines
    <2>6. CASE Succeed(w) \/ Reject(w) \/ Miss(w)
      BY <2>6, RecordRefines
    <2>7. CASE Crash(w) \/ Stall(w)
      BY <2>7, CrashRefines
    <2> QED
      BY <1>1, <2>1, <2>2, <2>3, <2>4, <2>5, <2>6, <2>7 DEF Deliver
  <1>2. CASE \/ \E e \in Endpoints : RegisterEndpoint(e) \/ DisableEndpoint(e)
             \/ \E s \in Sources : MatchEndpoints(s)
             \/ \E c \in Clients : RefuseReplay(c) \/ \E d \in Deliveries : RequestReplay(c, d)
             \/ UNCHANGED vars
    BY <1>2, OthersRefine
  <1>3. ASSUME NEW s \in Sources, QueueDeliveries(s) PROVE [Lifecycle!Next]_(Lifecycle!lifecycleVars)
    BY <1>3, QueueRefines
  <1>4. ASSUME NEW c \in Clients, ReplayDelivery(c) PROVE [Lifecycle!Next]_(Lifecycle!lifecycleVars)
    BY <1>4, ReplayRefines
  <1>5. CASE Tick
    BY <1>5, TickRefines
  <1> QED
    BY <1>1, <1>2, <1>3, <1>4, <1>5 DEF Next

\* The outbound webhooks implement DeliveryLifecycle, for any number of endpoints, deliveries,
\* loops, publishers and clients: each delivery lives as if one worker at a time took it up.
THEOREM DeliveryRefinement == Spec => ImplementsDelivery
  <1>1. Init => Lifecycle!Init
    BY DEF Init, AbsentDelivery, StateOf, Lifecycle!Init
  <1>2. WebhooksInv /\ [Next]_vars => [Lifecycle!Next]_(Lifecycle!lifecycleVars)
    BY StepRefines
  <1> QED
    BY <1>1, <1>2, WebhooksInvariance, PTL DEF Spec, ImplementsDelivery, Lifecycle!Spec
=============================================================================
