--------------------------- MODULE ApiKeysProofs ----------------------------
(***************************************************************************)
(* Proofs about API keys: what their ceilings permit, for any              *)
(* capabilities, fields and values; and the operations on keys, for any    *)
(* number of keys, calls, faults and attempts.                             *)
(***************************************************************************)
EXTENDS ApiKeys, TLAPS

-----------------------------------------------------------------------------
(* Ceilings: restrictionsWithin is an order, and bounds what restrictionsPermit
   permits *)

\* A rule that narrows one that narrows a third narrows the third; the same
\* fact says that a resource an inner rule matches, the outer rule matches.
LEMMA AgreesTransitive ==
  ASSUME NEW a, NEW b, NEW c, Agrees(a, b), Agrees(b, c)
  PROVE  Agrees(a, c)
  BY DEF Agrees

\* A ceiling that restrictionsWithin accepts permits nothing that the outer
\* ceiling refuses: the check at creation bounds every later use of the key,
\* whatever capability and resource it is used on.
THEOREM WithinIsNarrower ==
  ASSUME NEW child, NEW parent, NEW capability, NEW resource,
         Within(child, parent),
         Permits(child, capability, resource)
  PROVE  Permits(parent, capability, resource)
  <1>1. CASE ~parent.limited
    BY <1>1 DEF Permits
  <1>2. CASE parent.limited
    <2>1. /\ child.limited
          /\ child.capabilities \subseteq parent.capabilities
          /\ \/ ~parent.ruled
             \/ /\ child.ruled
                /\ \A rule \in child.resources :
                     \E outer \in parent.resources : RuleNarrows(rule, outer)
      BY <1>2 DEF Within
    <2>2. capability \in parent.capabilities
      BY <2>1 DEF Permits
    <2>3. CASE ~parent.ruled
      BY <2>2, <2>3 DEF Permits
    <2>4. CASE parent.ruled
      <3>1. PICK rule \in child.resources : RuleMatches(rule, resource)
        BY <2>1, <2>4 DEF Permits
      <3>2. PICK outer \in parent.resources : RuleNarrows(rule, outer)
        BY <2>1, <2>4, <3>1
      <3>3. RuleMatches(outer, resource)
        BY <3>1, <3>2, AgreesTransitive DEF RuleMatches, RuleNarrows
      <3>4. QED
        BY <2>2, <3>3 DEF Permits
    <2>5. QED
      BY <2>3, <2>4
  <1>3. QED
    BY <1>1, <1>2

\* Rotation keeps the ceiling of the key it replaces, and that ceiling passes
\* the check against itself.
THEOREM WithinReflexive ==
  ASSUME NEW restrictions
  PROVE  Within(restrictions, restrictions)
  <1>1. \A rule \in restrictions.resources : RuleNarrows(rule, rule)
    BY DEF RuleNarrows, Agrees
  <1>2. QED
    BY <1>1 DEF Within

\* A key created with a key that was created with a key: the ceiling of the
\* last one lies within that of the first, so a chain of delegations never
\* widens.
THEOREM WithinTransitive ==
  ASSUME NEW inner, NEW middle, NEW outer,
         Within(inner, middle),
         Within(middle, outer)
  PROVE  Within(inner, outer)
  <1>1. CASE ~outer.limited
    BY <1>1 DEF Within
  <1>2. CASE outer.limited
    <2>1. /\ middle.limited
          /\ middle.capabilities \subseteq outer.capabilities
      BY <1>2 DEF Within
    <2>2. /\ inner.limited
          /\ inner.capabilities \subseteq outer.capabilities
      BY <2>1 DEF Within
    <2>3. CASE ~outer.ruled
      BY <2>2, <2>3 DEF Within
    <2>4. CASE outer.ruled
      <3>1. /\ middle.ruled
            /\ \A rule \in middle.resources :
                 \E o \in outer.resources : RuleNarrows(rule, o)
        BY <1>2, <2>4 DEF Within
      <3>2. /\ inner.ruled
            /\ \A rule \in inner.resources :
                 \E m \in middle.resources : RuleNarrows(rule, m)
        BY <2>1, <3>1 DEF Within
      <3>3. ASSUME NEW rule \in inner.resources
            PROVE  \E o \in outer.resources : RuleNarrows(rule, o)
        <4>1. PICK m \in middle.resources : RuleNarrows(rule, m)
          BY <3>2
        <4>2. PICK o \in outer.resources : RuleNarrows(m, o)
          BY <3>1, <4>1
        <4>3. QED
          BY <4>1, <4>2, AgreesTransitive DEF RuleNarrows
      <3>4. QED
        BY <2>2, <3>2, <3>3 DEF Within
    <2>5. QED
      BY <2>3, <2>4
  <1>3. QED
    BY <1>1, <1>2

-----------------------------------------------------------------------------
(* The inductive invariant *)

\* Where a call of each operation may wait.
Placed(q) ==
  q.pc \in Ends \union
    CASE q.op = "none" -> {"new"}
      [] q.op = "create" -> {"authorize", "within", "queue", "write", "audit"}
      [] q.op \in {"update", "rotate"} -> {"authorize", "read", "within", "write", "audit"}
      [] q.op = "revoke" -> {"authorize", "read", "write", "audit"}
      [] q.op = "revokeAll" -> {"authorize", "next", "read", "write", "audit"}
      [] q.op = "authenticate" -> {"queue", "read", "write", "last"}
      [] q.op = "use" -> {"authorize"}

\* The call has read the key it is about.
HasRead(q) == q.op # "create" /\ q.pc \in {"within", "write", "audit"}

\* In what follows K are the records and L the keys that reads do not see yet: the
\* same is said of a state and of the next one.

\* r is what key k was at some time: no later than now, and what it is unless it was
\* written since.
Reading(K, k, r) ==
  /\ K[k].exists /\ r.exists
  /\ r.version <= K[k].version
  /\ r.version = K[k].version => r = K[k]

\* What a call has read and concluded.
Concluded(q, K, L) ==
  /\ q.op \in {"update", "rotate", "revoke", "authenticate"} /\ q.pc \notin Ends => q.key \in Keys
  /\ q.op = "revokeAll" /\ q.pc \in {"read", "write", "audit"} => q.key \in q.todo
  /\ HasRead(q) => Reading(K, q.key, q.seen) /\ (q.op = "authenticate" \/ q.key \notin L)
  /\ HasRead(q) /\ q.pc # "audit" /\ q.op \in {"update", "rotate"} => ~q.seen.revoked
  /\ HasRead(q) /\ q.pc # "audit" /\ q.op = "rotate" => q.seen.rotatedTo = NoKey
  /\ q.pc = "audit" /\ q.op \in {"revoke", "revokeAll"} => K[q.key].revoked

\* A call whose key was revoked before it began gets nowhere.
Stopped(q, K) ==
  q.late =>
    /\ q.pc # "ok"
    /\ q.pc \notin Ends =>
         IF q.op = "authenticate" THEN q.pc \in {"queue", "read", "last"} /\ K[q.key].revoked
         ELSE q.pc = "authorize" /\ q.by \in Keys /\ K[q.by].revoked

\* revokeAll has revoked what it listed and is not still to do.
Swept(q, K, L) ==
  q.op = "revokeAll" =>
    /\ q.pc = "ok" => \A k \in q.listed : K[k].revoked
    /\ q.pc \notin Ends =>
         /\ \A k \in q.listed : k \in q.todo \/ K[k].revoked
         /\ \A k \in q.todo : K[k].exists /\ k \notin L

\* The call gives something to a key.
Gives(q) == q.op \in {"create", "rotate"} \/ q.changes # {}

\* What a key's principal is about to give lies within what its key was.
Checked(q) ==
  /\ q.changes # {} => q.op = "update"
  /\ q.by # Host /\ Gives(q) /\ q.pc \in {"queue", "write"} =>
       /\ Within(Ceilings[Intended(q).restrictions], Ceilings[q.caller.restrictions])
       /\ Intended(q).expires <= q.caller.expires

CallInv(q, K, L) ==
  /\ Placed(q)
  /\ q.pc # "last" => q.tries < MaxTries
  /\ Concluded(q, K, L) /\ Stopped(q, K) /\ Swept(q, K, L) /\ Checked(q)

KeyInv(k) ==
  /\ ~keys[k].exists => keys[k] = AbsentKey
  /\ k \in lag => keys[k].exists /\ ~keys[k].revoked
  /\ copies[k].exists => Reading(keys, k, copies[k])

ApiKeysInv ==
  /\ TypeOK
  /\ \A k \in Keys : KeyInv(k)
  /\ OneReplacement
  /\ \A c \in Calls : CallInv(call[c], keys, lag)

-----------------------------------------------------------------------------
(* Records *)

Places == {"new", "authorize", "next", "read", "within", "queue", "write", "audit", "last",
           "ok", "null", "denied", "error"}

LEMMA RecordFields ==
  Record = [exists : BOOLEAN, version : Nat, revoked : BOOLEAN, expires : 0..Never,
            restrictions : DOMAIN Ceilings, rotatedTo : Keys \union {NoKey},
            rotatedFrom : Keys \union {NoKey}]
  BY DEF Record

LEMMA CallFields ==
  Call = [op : {"none", "create", "update", "rotate", "revoke", "revokeAll", "authenticate", "use"},
          by : Keys \union {Host}, key : Keys \union {NoKey},
          changes : SUBSET {"restrictions", "expires"}, restrictions : DOMAIN Ceilings,
          expires : 0..Never, overlap : Overlaps \union {0}, pc : Places,
          seen : Record, tries : 0..MaxTries, todo : SUBSET Keys,
          caller : Record, late : BOOLEAN, listed : SUBSET Keys]
  BY DEF Call, Places

LEMMA AbsentKeyFields ==
  /\ AbsentKey \in Record /\ ~AbsentKey.exists /\ ~AbsentKey.revoked
  /\ AbsentKey.rotatedTo = NoKey /\ AbsentKey.rotatedFrom = NoKey /\ AbsentKey.version = 0
  /\ AbsentKey.expires = Never
  BY RecordFields, ApiKeysAssumption DEF AbsentKey, Never

\* A call that goes on elsewhere.
LEMMA MovedFields ==
  ASSUME NEW q \in Call, NEW w \in Places, NEW r, r = [q EXCEPT !.pc = w]
  PROVE  /\ r \in Call /\ r.pc = w
         /\ r.op = q.op /\ r.by = q.by /\ r.key = q.key /\ r.changes = q.changes
         /\ r.restrictions = q.restrictions /\ r.expires = q.expires /\ r.overlap = q.overlap
         /\ r.seen = q.seen /\ r.tries = q.tries /\ r.todo = q.todo /\ r.caller = q.caller
         /\ r.late = q.late /\ r.listed = q.listed
  BY CallFields

LEMMA TriedFields ==
  ASSUME NEW q \in Call, NEW n \in 0..MaxTries, NEW r, r = [q EXCEPT !.tries = n]
  PROVE  /\ r \in Call /\ r.tries = n
         /\ r.op = q.op /\ r.by = q.by /\ r.key = q.key /\ r.changes = q.changes
         /\ r.restrictions = q.restrictions /\ r.expires = q.expires /\ r.overlap = q.overlap
         /\ r.pc = q.pc /\ r.seen = q.seen /\ r.todo = q.todo /\ r.caller = q.caller
         /\ r.late = q.late /\ r.listed = q.listed
  BY CallFields

\* A call that has ended.
LEMMA EndedFields ==
  ASSUME NEW q \in Call, NEW w \in Ends, NEW r, r = At(q, w)
  PROVE  /\ r \in Call /\ r.pc = w /\ r.op = q.op /\ r.late = q.late /\ r.listed = q.listed
         /\ r.by = Host /\ r.changes = {} /\ r.tries = 0
  <1>1. PICK e \in 0..Never : e = Never
    BY ApiKeysAssumption DEF Never
  <1>2. w \in Places /\ 0 \in 0..MaxTries /\ "none" \in DOMAIN Ceilings
    BY ApiKeysAssumption DEF Ends, Places
  <1>3. r = [op |-> q.op, by |-> Host, key |-> NoKey, changes |-> {}, restrictions |-> "none",
             expires |-> e, overlap |-> 0, pc |-> w, seen |-> AbsentKey, tries |-> 0, todo |-> {},
             caller |-> AbsentKey, late |-> q.late, listed |-> q.listed]
    BY <1>1 DEF At, NoCall
  <1>4. QED
    BY <1>2, <1>3, CallFields, AbsentKeyFields

-----------------------------------------------------------------------------
(* Calls *)

\* An ended call claims nothing but that it was not late, or swept what it listed.
LEMMA EndInv ==
  ASSUME NEW q \in Call, NEW w \in Ends, NEW K, NEW L,
         q.late => w # "ok",
         q.op = "revokeAll" /\ w = "ok" => \A k \in q.listed : K[k].revoked
  PROVE  At(q, w) \in Call /\ CallInv(At(q, w), K, L)
  <1>1. PICK r \in Call : /\ r = At(q, w) /\ r.pc = w /\ r.op = q.op /\ r.late = q.late
                          /\ r.listed = q.listed /\ r.by = Host /\ r.changes = {} /\ r.tries = 0
    BY EndedFields
  <1>2. w \notin {"last", "read", "write", "audit", "within", "queue"}
    BY DEF Ends
  <1>3. Placed(r)
    BY <1>1 DEF Placed
  <1>4. Concluded(r, K, L)
    BY <1>1, <1>2 DEF Concluded, HasRead
  <1>5. Stopped(r, K) /\ Swept(r, K, L) /\ Checked(r)
    BY <1>1, <1>2 DEF Stopped, Swept, Checked
  <1>6. r.tries < MaxTries
    BY <1>1, ApiKeysAssumption
  <1>7. QED
    BY <1>1, <1>3, <1>4, <1>5, <1>6 DEF CallInv

\* The records only grow: what is written has the next version, nothing disappears and
\* nothing revoked comes back.
Grow(K, K2) ==
  \A k \in Keys :
    /\ K2[k] = K[k] \/ (K2[k].version = K[k].version + 1 /\ K2[k].exists)
    /\ K[k].revoked => K2[k].revoked

\* Growing keeps a reading, and all that is known of a call.
LEMMA GrowKeepsReading ==
  ASSUME NEW K \in [Keys -> Record], NEW K2 \in [Keys -> Record], Grow(K, K2),
         NEW k \in Keys, NEW r \in Record, Reading(K, k, r)
  PROVE  Reading(K2, k, r)
  <1>1. K[k].version \in Nat /\ r.version \in Nat
    BY RecordFields
  <1>2. QED
    BY <1>1 DEF Grow, Reading

LEMMA GrowKeepsCall ==
  ASSUME NEW K \in [Keys -> Record], NEW K2 \in [Keys -> Record], Grow(K, K2), NEW L, NEW L2,
         \A k \in L2 : k \in L \/ ~K[k].exists,
         NEW q \in Call, CallInv(q, K, L)
  PROVE  CallInv(q, K2, L2)
  <1>1. q.key \in Keys \union {NoKey} /\ q.seen \in Record /\ q.todo \subseteq Keys /\ q.listed \subseteq Keys
    BY CallFields
  <1>2. HasRead(q) \/ (q.pc = "audit" /\ q.op \in {"revoke", "revokeAll"}) => q.key \in Keys
    <2>1. CASE q.op \in {"none", "create", "use"}
      BY <2>1 DEF CallInv, Placed, HasRead, Ends
    <2>2. CASE q.op = "revokeAll"
      BY <1>1, <2>2 DEF CallInv, Placed, Concluded, HasRead, Ends
    <2>3. CASE q.op \in {"update", "rotate", "revoke", "authenticate"}
      BY <2>3 DEF CallInv, Concluded, HasRead, Ends
    <2>4. QED
      BY <2>1, <2>2, <2>3, CallFields
  <1>3. Concluded(q, K2, L2)
    BY <1>1, <1>2, GrowKeepsReading DEF CallInv, Concluded, Grow, Reading
  <1>4. Stopped(q, K2)
    BY <1>1 DEF CallInv, Stopped, Concluded, Grow
  <1>5. Swept(q, K2, L2)
    BY <1>1 DEF CallInv, Swept, Grow
  <1>6. QED
    BY <1>3, <1>4, <1>5 DEF CallInv

\* A step of one call, or of none: what is left to show is what the call has become
\* and that the records are in order.
LEMMA StepOf ==
  ASSUME ApiKeysInv, NEW c \in Calls, NEW q \in Call, call' = [call EXCEPT ![c] = q],
         CallInv(q, keys', lag'),
         keys' \in [Keys -> Record], Grow(keys, keys'),
         lag' \subseteq Keys, \A k \in lag' : k \in lag \/ ~keys[k].exists,
         copies' \in [Keys -> Record], principals' \subseteq Keys, faults' \in 0..MaxFaults,
         \A k \in Keys : KeyInv(k)', OneReplacement'
  PROVE  ApiKeysInv'
  <1>1. TypeOK /\ keys \in [Keys -> Record]
    BY DEF ApiKeysInv, TypeOK
  <1>2. TypeOK'
    BY <1>1 DEF TypeOK
  <1>3. ASSUME NEW d \in Calls PROVE CallInv(call'[d], keys', lag')
    <2>1. CASE d = c
      BY <1>1, <2>1 DEF TypeOK
    <2>2. CASE d # c
      <3>1. PICK r \in Call : r = call[d] /\ r = call'[d] /\ CallInv(r, keys, lag)
        BY <1>1, <2>2 DEF TypeOK, ApiKeysInv
      <3>2. CallInv(r, keys', lag')
        BY <1>1, <3>1, GrowKeepsCall
      <3>3. QED
        BY <3>1, <3>2
    <2>3. QED
      BY <2>1, <2>2
  <1>4. QED
    BY <1>2, <1>3 DEF ApiKeysInv

\* The same for a step that writes no key.
LEMMA QuietStep ==
  ASSUME ApiKeysInv, NEW c \in Calls, NEW q \in Call, call' = [call EXCEPT ![c] = q],
         CallInv(q, keys, lag), UNCHANGED <<keys, lag>>,
         copies' \in [Keys -> Record], principals' \subseteq Keys, faults' \in 0..MaxFaults,
         \A k \in Keys : copies'[k].exists => Reading(keys, k, copies'[k])
  PROVE  ApiKeysInv'
  <1>1. keys' \in [Keys -> Record] /\ lag' \subseteq Keys
    BY DEF ApiKeysInv, TypeOK
  <1>2. Grow(keys, keys')
    BY DEF Grow
  <1>3. \A k \in lag' : k \in lag \/ ~keys[k].exists
    OBVIOUS
  <1>4. OneReplacement'
    BY DEF ApiKeysInv, OneReplacement
  <1>5. \A k \in Keys : KeyInv(k)'
    BY DEF ApiKeysInv, KeyInv
  <1>6. CallInv(q, keys', lag')
    OBVIOUS
  <1>7. QED
    BY <1>1, <1>2, <1>3, <1>4, <1>5, <1>6, StepOf

\* And for one that changes its call alone.
LEMMA CallStep ==
  ASSUME ApiKeysInv, NEW c \in Calls, NEW q \in Call, call' = [call EXCEPT ![c] = q],
         CallInv(q, keys, lag), UNCHANGED <<keys, lag, copies, principals>>, faults' \in 0..MaxFaults
  PROVE  ApiKeysInv'
  <1>1. copies' \in [Keys -> Record] /\ principals' \subseteq Keys
    BY DEF ApiKeysInv, TypeOK
  <1>2. \A k \in Keys : copies'[k].exists => Reading(keys, k, copies'[k])
    BY DEF ApiKeysInv, KeyInv
  <1>3. UNCHANGED <<keys, lag>>
    OBVIOUS
  <1>4. QED
    BY <1>1, <1>2, <1>3, QuietStep

LEMMA FaultStep == ASSUME ApiKeysInv, Fault PROVE faults' \in 0..MaxFaults
  BY ApiKeysAssumption DEF ApiKeysInv, TypeOK, Fault

\* A call ends, and its claims with it.
LEMMA EndStep ==
  ASSUME ApiKeysInv, NEW c \in Calls, NEW q \in Call, NEW w \in Ends, call' = [call EXCEPT ![c] = At(q, w)],
         q.op = call[c].op, q.late = call[c].late, q.listed = call[c].listed,
         call[c].late => w # "ok",
         call[c].op = "revokeAll" /\ w = "ok" => \A k \in call[c].listed : keys[k].revoked,
         UNCHANGED <<keys, lag, copies, principals>>, faults' \in 0..MaxFaults
  PROVE  ApiKeysInv'
  <1>1. At(q, w) \in Call /\ CallInv(At(q, w), keys, lag)
    BY EndInv
  <1>2. QED
    BY <1>1, CallStep

\* What reads return.
LEMMA StoredFacts ==
  ASSUME ApiKeysInv, NEW k \in Keys
  PROVE  /\ Stored(k) \in Record /\ keys[k] \in Record
         /\ Stored(k).exists => k \notin lag /\ Stored(k) = keys[k] /\ Reading(keys, k, keys[k])
         /\ keys[k].revoked => keys[k].exists /\ k \notin lag /\ Stored(k) = keys[k]
         /\ keys[k].exists /\ k \notin lag => Stored(k).exists
  <1>1. keys[k] \in Record /\ KeyInv(k)
    BY DEF ApiKeysInv, TypeOK
  <1>2. keys[k].version \in Nat
    BY <1>1, RecordFields
  <1>3. QED
    BY <1>1, <1>2, AbsentKeyFields DEF KeyInv, Stored, Reading

-----------------------------------------------------------------------------
(* Steps of a call *)

Operation == {"create", "update", "rotate", "revoke", "revokeAll", "authenticate", "use"}

\* The record of a call that begins.
LEMMA RequestFields ==
  ASSUME NEW op \in Operation, NEW by \in Keys \union {Host}, NEW k \in Keys \union {NoKey}, NEW r,
         r = Request(op, by, k)
  PROVE  /\ r \in Call /\ r.op = op /\ r.by = by /\ r.key = k /\ r.pc = "authorize" /\ r.changes = {}
         /\ r.tries = 0 /\ r.todo = {} /\ r.listed = {}
  <1>1. PICK e \in 0..Never : e = Never
    BY ApiKeysAssumption DEF Never
  <1>2. "authorize" \in Places /\ 0 \in 0..MaxTries /\ "none" \in DOMAIN Ceilings
    BY ApiKeysAssumption DEF Places
  <1>3. r = [op |-> op, by |-> by, key |-> k, changes |-> {}, restrictions |-> "none",
             expires |-> e, overlap |-> 0, pc |-> "authorize", seen |-> AbsentKey, tries |-> 0, todo |-> {},
             caller |-> AbsentKey, late |-> FALSE, listed |-> {}]
    BY <1>1 DEF Request, NoCall
  <1>4. QED
    BY <1>2, <1>3, CallFields, AbsentKeyFields DEF Operation

LEMMA LateFields ==
  ASSUME NEW q \in Call, NEW l \in BOOLEAN, NEW r, r = [q EXCEPT !.late = l]
  PROVE  /\ r \in Call /\ r.late = l /\ r.pc = q.pc /\ r.changes = q.changes
         /\ r.op = q.op /\ r.by = q.by /\ r.key = q.key /\ r.tries = q.tries /\ r.todo = q.todo /\ r.listed = q.listed
  BY CallFields

LEMMA OverlapFields ==
  ASSUME NEW q \in Call, NEW o \in Overlaps, NEW r, r = [q EXCEPT !.overlap = o]
  PROVE  /\ r \in Call /\ r.pc = q.pc /\ r.changes = q.changes
         /\ r.op = q.op /\ r.by = q.by /\ r.key = q.key /\ r.tries = q.tries /\ r.todo = q.todo /\ r.listed = q.listed
  BY CallFields

\* A call begins: if it is late, the key that stops it is revoked.
LEMMA StartStep ==
  ASSUME ApiKeysInv, NEW c \in Calls, NEW k \in Keys \union {Host}, NEW new \in Call, Start(c, k, new),
         new.op \in Operation, new.tries = 0, new.todo = {}, new.listed = {},
         new.pc = IF new.op = "authenticate" THEN "queue" ELSE "authorize",
         k = IF new.op = "authenticate" THEN new.key ELSE new.by,
         new.op \in {"update", "rotate", "revoke", "authenticate"} => new.key \in Keys,
         new.changes # {} => new.op = "update"
  PROVE  ApiKeysInv'
  <1>1. PICK l \in BOOLEAN : l = (k # Host /\ keys[k].revoked)
    OBVIOUS
  <1>2. l => k \in Keys /\ keys[k].revoked
    BY <1>1
  <1>0. PICK q : q = [new EXCEPT !.late = l]
    OBVIOUS
  <1>3. /\ q \in Call /\ q.late = l /\ q.pc = new.pc /\ q.changes = new.changes
        /\ q.op = new.op /\ q.by = new.by /\ q.key = new.key /\ q.tries = 0 /\ q.todo = {} /\ q.listed = {}
    BY <1>0, LateFields
  <1>4. call' = [call EXCEPT ![c] = q] /\ UNCHANGED <<keys, lag, copies, principals, faults>>
    BY <1>0, <1>1 DEF Start
  <1>5. Placed(q)
    BY <1>3 DEF Placed, Operation
  <1>6. Concluded(q, keys, lag) /\ Swept(q, keys, lag)
    BY <1>3 DEF Concluded, HasRead, Swept, Ends
  <1>7. Stopped(q, keys)
    BY <1>2, <1>3 DEF Stopped, Ends
  <1>8. Checked(q)
    BY <1>3 DEF Checked, Gives
  <1>9. CallInv(q, keys, lag)
    BY <1>3, <1>5, <1>6, <1>7, <1>8, ApiKeysAssumption DEF CallInv
  <1>10. faults' \in 0..MaxFaults /\ UNCHANGED <<keys, lag, copies, principals>>
    BY <1>4 DEF ApiKeysInv, TypeOK
  <1>11. QED
    BY <1>3, <1>4, <1>9, <1>10, CallStep

LEMMA BeginStep == ASSUME ApiKeysInv, NEW c \in Calls, Begin(c) PROVE ApiKeysInv'
  <1>1. /\ MaxLife \in 0..Never /\ Never \in 0..Never /\ "none" \in DOMAIN Ceilings
        /\ Wanted \subseteq DOMAIN Ceilings
        /\ Edits \subseteq SUBSET {"restrictions", "expires"} /\ principals \subseteq Keys
    BY ApiKeysAssumption DEF Never, ApiKeysInv, TypeOK
  <1>2. Callers \subseteq Keys \union {Host}
    BY <1>1 DEF Callers
  <1>3. CASE StartCreate(c)
    <2>1. PICK by \in Callers, x \in Wanted, e \in {MaxLife, Never} :
            Start(c, by, [Request("create", by, NoKey) EXCEPT !.restrictions = x, !.expires = e])
      BY <1>3 DEF StartCreate
    <2>2. PICK q \in Call : /\ q = Request("create", by, NoKey) /\ q.op = "create" /\ q.by = by /\ q.changes = {}
                            /\ q.pc = "authorize" /\ q.tries = 0 /\ q.todo = {} /\ q.listed = {}
      BY <1>2, RequestFields DEF Operation
    <2>0. PICK r : r = [q EXCEPT !.restrictions = x, !.expires = e]
      OBVIOUS
    <2>3. /\ r \in Call /\ r.op = "create" /\ r.by = by /\ r.changes = {}
          /\ r.pc = "authorize" /\ r.tries = 0 /\ r.todo = {} /\ r.listed = {}
      <3>1. x \in DOMAIN Ceilings /\ e \in 0..Never
        BY <1>1
      <3>2. QED
        <4>1. /\ r \in Call /\ r.pc = q.pc /\ r.changes = q.changes
              /\ r.op = q.op /\ r.by = q.by /\ r.key = q.key /\ r.tries = q.tries /\ r.todo = q.todo /\ r.listed = q.listed
          BY <2>0, <3>1, CallFields
        <4>2. QED
          BY <2>2, <4>1
    <2>4. by \in Keys \union {Host} /\ Start(c, by, r)
      BY <1>2, <2>0, <2>1, <2>2
    <2>5. QED
      BY <2>3, <2>4, StartStep DEF Operation
  <1>4. CASE StartUpdate(c)
    <2>1. PICK by \in Callers, k \in Keys, ch \in Edits :
            \E x \in IF "restrictions" \in ch THEN Wanted ELSE {"none"},
               e \in IF "expires" \in ch THEN {MaxLife, Never} ELSE {Never} :
              Start(c, by, [Request("update", by, k) EXCEPT !.changes = ch, !.restrictions = x, !.expires = e])
      BY <1>4 DEF StartUpdate
    <2>2. PICK x \in DOMAIN Ceilings, e \in 0..Never :
            Start(c, by, [Request("update", by, k) EXCEPT !.changes = ch, !.restrictions = x, !.expires = e])
      BY <1>1, <2>1
    <2>3. PICK q \in Call : /\ q = Request("update", by, k) /\ q.op = "update" /\ q.by = by /\ q.key = k
                            /\ q.pc = "authorize" /\ q.tries = 0 /\ q.todo = {} /\ q.listed = {}
      BY <1>2, RequestFields DEF Operation
    <2>4. ch \in SUBSET {"restrictions", "expires"}
      BY <1>1
    <2>0. PICK r : r = [q EXCEPT !.changes = ch, !.restrictions = x, !.expires = e]
      OBVIOUS
    <2>5. /\ r \in Call /\ r.op = "update" /\ r.by = by /\ r.key = k
          /\ r.pc = "authorize" /\ r.tries = 0 /\ r.todo = {} /\ r.listed = {}
      <3>1. /\ r \in Call /\ r.pc = q.pc /\ r.changes = ch
            /\ r.op = q.op /\ r.by = q.by /\ r.key = q.key /\ r.tries = q.tries /\ r.todo = q.todo /\ r.listed = q.listed
        BY <2>0, <2>4, CallFields
      <3>2. QED
        BY <2>3, <3>1
    <2>6. by \in Keys \union {Host} /\ Start(c, by, r)
      BY <1>2, <2>0, <2>2, <2>3
    <2>7. QED
      BY <2>5, <2>6, StartStep DEF Operation
  <1>5. CASE StartRotate(c)
    <2>1. PICK by \in Callers, k \in Keys, o \in Overlaps :
            Start(c, by, [Request("rotate", by, k) EXCEPT !.overlap = o])
      BY <1>5 DEF StartRotate
    <2>2. PICK q \in Call : /\ q = Request("rotate", by, k) /\ q.op = "rotate" /\ q.by = by /\ q.key = k
                            /\ q.changes = {} /\ q.pc = "authorize" /\ q.tries = 0 /\ q.todo = {} /\ q.listed = {}
      BY <1>2, RequestFields DEF Operation
    <2>0. PICK r : r = [q EXCEPT !.overlap = o]
      OBVIOUS
    <2>3. /\ r \in Call /\ r.op = "rotate" /\ r.by = by /\ r.key = k /\ r.changes = {}
          /\ r.pc = "authorize" /\ r.tries = 0 /\ r.todo = {} /\ r.listed = {}
      BY <2>0, <2>2, OverlapFields
    <2>4. by \in Keys \union {Host} /\ Start(c, by, r)
      BY <1>2, <2>0, <2>1, <2>2
    <2>5. QED
      BY <2>3, <2>4, StartStep DEF Operation
  <1>6. CASE StartRevoke(c)
    <2>1. PICK by \in Callers, k \in Keys : Start(c, by, Request("revoke", by, k))
      BY <1>6 DEF StartRevoke
    <2>2. PICK q \in Call : /\ q = Request("revoke", by, k) /\ q.op = "revoke" /\ q.by = by /\ q.key = k
                            /\ q.changes = {} /\ q.pc = "authorize" /\ q.tries = 0 /\ q.todo = {} /\ q.listed = {}
      BY <1>2, RequestFields DEF Operation
    <2>3. by \in Keys \union {Host} /\ Start(c, by, q)
      BY <1>2, <2>1, <2>2
    <2>4. QED
      BY <2>2, <2>3, StartStep DEF Operation
  <1>7. CASE StartRevokeAll(c) \/ StartUse(c)
    <2>1. PICK by \in Callers, op \in {"revokeAll", "use"} : Start(c, by, Request(op, by, NoKey))
      BY <1>7 DEF StartRevokeAll, StartUse, Callers
    <2>2. PICK q \in Call : /\ q = Request(op, by, NoKey) /\ q.op = op /\ q.by = by
                            /\ q.changes = {} /\ q.pc = "authorize" /\ q.tries = 0 /\ q.todo = {} /\ q.listed = {}
      BY <1>2, RequestFields DEF Operation
    <2>3. by \in Keys \union {Host} /\ Start(c, by, q)
      BY <1>2, <2>1, <2>2
    <2>4. QED
      BY <2>2, <2>3, StartStep DEF Operation
  <1>8. CASE StartAuthenticate(c)
    <2>1. PICK k \in Keys : Start(c, k, [Request("authenticate", Host, k) EXCEPT !.pc = "queue"])
      BY <1>8 DEF StartAuthenticate
    <2>2. PICK q \in Call : /\ q = Request("authenticate", Host, k) /\ q.op = "authenticate" /\ q.key = k
                            /\ q.changes = {} /\ q.tries = 0 /\ q.todo = {} /\ q.listed = {}
      BY RequestFields DEF Operation
    <2>0. PICK r : r = [q EXCEPT !.pc = "queue"]
      OBVIOUS
    <2>3. /\ r \in Call /\ r.op = "authenticate" /\ r.key = k /\ r.changes = {}
          /\ r.pc = "queue" /\ r.tries = 0 /\ r.todo = {} /\ r.listed = {}
      BY <2>0, <2>2, MovedFields DEF Places
    <2>4. k \in Keys \union {Host} /\ Start(c, k, r)
      BY <2>0, <2>1, <2>2
    <2>5. QED
      BY <2>3, <2>4, StartStep DEF Operation
  <1>9. QED
    BY <1>3, <1>4, <1>5, <1>6, <1>7, <1>8 DEF Begin
\* What is known of a call that goes on: where it may be, and that it is not late unless
\* it still waits to be stopped.
LEMMA CallFacts ==
  ASSUME ApiKeysInv, NEW c \in Calls
  PROVE  /\ call[c] \in Call /\ CallInv(call[c], keys, lag)
         /\ call[c].pc \notin Ends => (HasRead(call[c]) => call[c].key \in Keys)
         /\ call[c].pc \notin {"authorize", "queue", "read", "last"} \union Ends => ~call[c].late
         /\ call[c].pc \notin Ends /\ call[c].pc # "authorize" /\ call[c].op # "authenticate" => ~call[c].late
  <1>1. PICK q : q = call[c]
    OBVIOUS
  <1>2. q \in Call /\ CallInv(q, keys, lag)
    BY <1>1 DEF ApiKeysInv, TypeOK
  <1>3. q.todo \subseteq Keys /\ q.op \in Operation \union {"none"}
    BY <1>2, CallFields DEF Operation
  <1>4. HasRead(q) => q.key \in Keys
    BY <1>2, <1>3 DEF CallInv, Concluded, Placed, HasRead, Ends, Operation
  <1>5. /\ q.pc \notin {"authorize", "queue", "read", "last"} \union Ends => ~q.late
        /\ q.pc \notin Ends /\ q.pc # "authorize" /\ q.op # "authenticate" => ~q.late
    BY <1>2 DEF CallInv, Stopped
  <1>6. QED
    BY <1>1, <1>2, <1>4, <1>5

\* The revocation of a key is over: the call has ended, or the key is off the list.
LEMMA FinishCall ==
  ASSUME ApiKeysInv, NEW c \in Calls, NEW w \in Ends, Finish(c, w),
         call[c].pc \notin Ends, ~call[c].late \/ w # "ok",
         (call[c].op = "revokeAll" /\ w # "error") => (~call[c].late /\ keys[call[c].key].revoked)
  PROVE  \E q \in Call : call' = [call EXCEPT ![c] = q] /\ CallInv(q, keys, lag)
  <1>1. PICK q : q = call[c]
    OBVIOUS
  <1>2. q \in Call /\ CallInv(q, keys, lag)
    BY <1>1, CallFacts
  <1>3. PICK d : d = [q EXCEPT !.todo = @ \ {q.key}, !.tries = 0]
    OBVIOUS
  <1>4. PICK T \in SUBSET Keys : T = q.todo \ {q.key}
    BY <1>2, CallFields
  <1>5. /\ d \in Call /\ d.tries = 0 /\ d.todo = T
        /\ d.op = q.op /\ d.by = q.by /\ d.key = q.key /\ d.changes = q.changes
        /\ d.late = q.late /\ d.listed = q.listed
    <2>1. d = [q EXCEPT !.todo = T, !.tries = 0]
      BY <1>3, <1>4
    <2>2. 0 \in 0..MaxTries
      BY ApiKeysAssumption
    <2>3. QED
      BY <1>2, <1>4, <2>1, <2>2, CallFields
  <1>6. CASE q.op = "revokeAll" /\ w # "error"
    <2>1. PICK r : r = [d EXCEPT !.pc = "next"]
      OBVIOUS
    <2>2. call' = [call EXCEPT ![c] = r]
      BY <1>1, <1>3, <1>5, <1>6, <2>1 DEF Finish, At, Ends
    <2>3. /\ r \in Call /\ r.tries = 0 /\ r.todo = T /\ r.pc = "next" /\ r.op = "revokeAll"
          /\ r.changes = q.changes /\ r.late = q.late /\ r.listed = q.listed
      BY <1>5, <1>6, <2>1, MovedFields DEF Places
    <2>4. Placed(r) /\ Concluded(r, keys, lag) /\ Stopped(r, keys)
      BY <1>1, <1>6, <2>3 DEF Placed, Concluded, HasRead, Stopped
    <2>5. Swept(r, keys, lag)
      BY <1>1, <1>2, <1>4, <1>6, <2>3 DEF CallInv, Swept
    <2>6. Checked(r)
      BY <1>2, <1>6, <2>3 DEF CallInv, Checked
    <2>7. CallInv(r, keys, lag)
      BY <2>3, <2>4, <2>5, <2>6, ApiKeysAssumption DEF CallInv
    <2>8. QED
      BY <2>2, <2>3, <2>7
  <1>7. CASE ~(q.op = "revokeAll" /\ w # "error")
    <2>1. call' = [call EXCEPT ![c] = At(d, w)]
      BY <1>1, <1>3, <1>5, <1>7 DEF Finish
    <2>2. d.late => w # "ok"
      BY <1>1, <1>5
    <2>3. d.op = "revokeAll" /\ w = "ok" => \A k \in d.listed : keys[k].revoked
      BY <1>5, <1>7
    <2>4. At(d, w) \in Call /\ CallInv(At(d, w), keys, lag)
      BY <1>5, <2>2, <2>3, EndInv
    <2>5. QED
      BY <2>1, <2>4
  <1>8. QED
    BY <1>6, <1>7

\* A call goes elsewhere.
LEMMA GotoCall ==
  ASSUME NEW c \in Calls, NEW w, Goto(c, w)
  PROVE  /\ w \in Ends => call' = [call EXCEPT ![c] = At(call[c], w)]
         /\ w \notin Ends => call' = [call EXCEPT ![c] = [call[c] EXCEPT !.pc = w]]
  BY DEF Goto, At


LEMMA AuthorizeStep == ASSUME ApiKeysInv, NEW c \in Calls, Authorize(c) PROVE ApiKeysInv'
  <1>1. PICK q : q = call[c]
    OBVIOUS
  <1>2. q \in Call /\ CallInv(q, keys, lag) /\ q.pc = "authorize"
    BY <1>1, CallFacts DEF Authorize
  <1>3. q.op \in Operation \ {"authenticate"} /\ q.by \in Keys \union {Host}
    BY <1>2, CallFields DEF CallInv, Placed, Operation, Ends
  <1>4. UNCHANGED <<keys, lag, copies, principals>> /\ faults' \in 0..MaxFaults
    BY DEF Authorize, ApiKeysInv, TypeOK
  <1>5. CASE Goto(c, "denied")
    <2>1. call' = [call EXCEPT ![c] = At(q, "denied")] /\ "denied" \in Ends
      BY <1>1, <1>5, GotoCall DEF Ends
    <2>2. QED
      BY <1>1, <1>2, <1>4, <2>1, EndStep
  <1>6. CASE CredentialAllows(c) /\ ~Goto(c, "denied")
    <2>1. PICK w : /\ w = CASE q.op = "use" -> "ok" [] q.op = "create" -> "within"
                            [] q.op = "revokeAll" -> "next" [] OTHER -> "read"
                   /\ Goto(c, w)
      BY <1>1, <1>6 DEF Authorize
    <2>2. ~q.late
      <3>1. SUFFICES ASSUME q.late PROVE FALSE
        OBVIOUS
      <3>2. q.by \in Keys /\ keys[q.by].revoked
        BY <1>2, <1>3, <3>1 DEF CallInv, Stopped, Ends, Operation
      <3>3. Stored(q.by) = keys[q.by] /\ q.by # Host
        BY <3>2, StoredFacts, ApiKeysAssumption
      <3>4. QED
        BY <1>1, <1>6, <3>2, <3>3 DEF CredentialAllows, Active
    <2>3. CASE q.op = "use"
      <3>1. w = "ok" /\ w \in Ends
        BY <2>1, <2>3 DEF Ends
      <3>2. call' = [call EXCEPT ![c] = At(q, "ok")]
        BY <1>1, <2>1, <3>1, GotoCall
      <3>3. QED
        BY <1>1, <1>2, <1>4, <2>2, <2>3, <3>1, <3>2, EndStep
    <2>4. CASE q.op # "use"
      <3>1. /\ w \in Places \ Ends /\ w \in {"within", "next", "read"}
            /\ q.op = "create" <=> w = "within"
            /\ q.op = "revokeAll" <=> w = "next"
        BY <2>1, <2>4 DEF Places, Ends
      <3>2. PICK r : r = [q EXCEPT !.pc = w]
        OBVIOUS
      <3>3. call' = [call EXCEPT ![c] = r]
        BY <1>1, <2>1, <3>1, <3>2, GotoCall
      <3>4. /\ r \in Call /\ r.pc = w
            /\ r.op = q.op /\ r.by = q.by /\ r.key = q.key /\ r.changes = q.changes
            /\ r.tries = q.tries /\ r.todo = q.todo /\ r.late = q.late /\ r.listed = q.listed
        BY <1>2, <3>1, <3>2, MovedFields
      <3>5. Placed(r)
        BY <1>3, <2>4, <3>1, <3>4 DEF Placed, Operation
      <3>6. Concluded(r, keys, lag)
        BY <1>2, <1>3, <3>1, <3>4 DEF CallInv, Concluded, HasRead, Operation, Ends
      <3>7. Stopped(r, keys) /\ Swept(r, keys, lag)
        BY <1>2, <2>2, <3>1, <3>4 DEF CallInv, Stopped, Swept, Ends
      <3>8. Checked(r)
        BY <1>2, <3>1, <3>4 DEF CallInv, Checked
      <3>9. CallInv(r, keys, lag)
        BY <1>2, <3>4, <3>5, <3>6, <3>7, <3>8 DEF CallInv
      <3>10. QED
        BY <1>4, <3>3, <3>4, <3>9, CallStep
    <2>5. QED
      BY <2>3, <2>4
  <1>7. QED
    BY <1>5, <1>6 DEF Authorize

\* A creation, or an authentication, is let through.
LEMMA EnterStep ==
  ASSUME ApiKeysInv, NEW c \in Calls, EnterCreation(c) \/ EnterAuthentication(c)
  PROVE  ApiKeysInv'
  <1>1. PICK q : q = call[c]
    OBVIOUS
  <1>2. q \in Call /\ CallInv(q, keys, lag) /\ q.pc = "queue"
    BY <1>1, CallFacts DEF EnterCreation, EnterAuthentication
  <1>3. PICK w \in {"write", "read"} :
          /\ Goto(c, w)
          /\ \/ q.op = "create" /\ w = "write"
             \/ q.op = "authenticate" /\ w = "read"
    BY <1>1 DEF EnterCreation, EnterAuthentication
  <1>4. w \in Places \ Ends
    BY DEF Places, Ends
  <1>5. PICK r : r = [q EXCEPT !.pc = w]
    OBVIOUS
  <1>6. call' = [call EXCEPT ![c] = r]
    BY <1>1, <1>3, <1>4, <1>5, GotoCall
  <1>7. /\ r \in Call /\ r.pc = w
        /\ r.op = q.op /\ r.by = q.by /\ r.key = q.key /\ r.changes = q.changes
        /\ r.restrictions = q.restrictions /\ r.expires = q.expires
        /\ r.tries = q.tries /\ r.todo = q.todo /\ r.late = q.late /\ r.listed = q.listed
        /\ r.caller = q.caller
    BY <1>2, <1>4, <1>5, MovedFields
  <1>8. Placed(r)
    BY <1>3, <1>7 DEF Placed
  <1>9. Concluded(r, keys, lag)
    BY <1>2, <1>3, <1>7 DEF CallInv, Concluded, HasRead, Ends
  <1>10. Stopped(r, keys) /\ Swept(r, keys, lag)
    BY <1>2, <1>3, <1>7 DEF CallInv, Stopped, Swept, Ends
  <1>11. Checked(r)
    <2>1. CASE q.op = "create"
      <3>1. Intended(r) = Intended(q)
        BY <1>7, <2>1 DEF Intended
      <3>2. QED
        BY <1>2, <1>7, <2>1, <3>1 DEF CallInv, Checked, Gives
    <2>2. CASE q.op = "authenticate"
      BY <1>2, <1>7, <2>2 DEF CallInv, Checked, Gives
    <2>3. QED
      BY <1>3, <2>1, <2>2
  <1>12. CallInv(r, keys, lag)
    BY <1>2, <1>7, <1>8, <1>9, <1>10, <1>11 DEF CallInv
  <1>13. UNCHANGED <<keys, lag, copies, principals>> /\ faults' \in 0..MaxFaults
    BY DEF EnterCreation, EnterAuthentication, ApiKeysInv, TypeOK
  <1>14. QED
    BY <1>6, <1>7, <1>12, <1>13, CallStep

LEMMA RevokeNextStep == ASSUME ApiKeysInv, NEW c \in Calls, RevokeNext(c) PROVE ApiKeysInv'
  <1>1. PICK q : q = call[c]
    OBVIOUS
  <1>2. q \in Call /\ CallInv(q, keys, lag) /\ q.pc = "next" /\ ~q.late
    BY <1>1, CallFacts DEF RevokeNext, Ends
  <1>3. q.op = "revokeAll" /\ q.todo \subseteq Keys
    BY <1>2, CallFields DEF CallInv, Placed, Ends
  <1>4. UNCHANGED <<keys, lag, copies, principals>> /\ faults' \in 0..MaxFaults
    BY DEF RevokeNext, ApiKeysInv, TypeOK
  <1>5. PICK candidates : candidates = {k \in Keys : Stored(k).exists /\ ~Stored(k).revoked}
    OBVIOUS
  <1>6. /\ \A k \in q.listed : k \in q.todo \/ keys[k].revoked
        /\ \A k \in q.todo : keys[k].exists /\ k \notin lag
    BY <1>2, <1>3 DEF CallInv, Swept, Ends
  <1>7. CASE Goto(c, "ok") /\ (candidates = {} \/ q.todo = {})
    <2>1. \A k \in q.listed : keys[k].revoked
      <3>1. CASE q.todo = {}
        BY <1>6, <3>1
      <3>2. CASE candidates = {}
        <4>1. ASSUME NEW k \in q.todo PROVE keys[k].revoked
          BY <1>3, <1>5, <1>6, <3>2 DEF Stored
        <4>2. QED
          BY <1>6, <4>1
      <3>3. QED
        BY <1>7, <3>1, <3>2
    <2>2. call' = [call EXCEPT ![c] = At(q, "ok")] /\ "ok" \in Ends
      BY <1>1, <1>7, GotoCall DEF Ends
    <2>3. QED
      BY <1>1, <1>2, <1>4, <2>1, <2>2, EndStep
  <1>8. ASSUME NEW k \in Keys, NEW T \in SUBSET Keys, NEW A \in SUBSET Keys, k \in T,
               call' = [call EXCEPT ![c] = [q EXCEPT !.pc = "read", !.key = k, !.todo = T, !.listed = A]],
               \A j \in A : j \in T \/ keys[j].revoked, \A j \in T : keys[j].exists /\ j \notin lag
        PROVE  ApiKeysInv'
    <2>1. PICK r : r = [q EXCEPT !.pc = "read", !.key = k, !.todo = T, !.listed = A]
      OBVIOUS
    <2>2. "read" \in Places
      BY DEF Places
    <2>3. /\ r \in Call /\ r.pc = "read" /\ r.key = k /\ r.todo = T /\ r.listed = A
          /\ r.op = q.op /\ r.by = q.by /\ r.changes = q.changes /\ r.tries = q.tries /\ r.late = q.late
      BY <1>2, <1>8, <2>1, <2>2, CallFields
    <2>4. Placed(r)
      BY <1>3, <2>3 DEF Placed
    <2>5. Concluded(r, keys, lag)
      BY <1>3, <1>8, <2>3 DEF Concluded, HasRead, Ends
    <2>6. Stopped(r, keys) /\ Swept(r, keys, lag)
      BY <1>2, <1>8, <2>3 DEF Stopped, Swept
    <2>7. Checked(r)
      BY <1>2, <2>3 DEF CallInv, Checked
    <2>8. CallInv(r, keys, lag)
      BY <1>2, <2>3, <2>4, <2>5, <2>6, <2>7 DEF CallInv
    <2>9. call' = [call EXCEPT ![c] = r]
      BY <1>8, <2>1
    <2>10. QED
      BY <1>4, <2>3, <2>8, <2>9, CallStep
  <1>9. CASE \E k \in candidates : call' = [call EXCEPT ![c].pc = "read", ![c].key = k,
                                               ![c].todo = candidates, ![c].listed = candidates]
    <2>1. PICK k \in candidates : call' = [call EXCEPT ![c].pc = "read", ![c].key = k,
                                               ![c].todo = candidates, ![c].listed = candidates]
      BY <1>9
    <2>2. candidates \in SUBSET Keys /\ k \in Keys
      BY <1>5, <2>1
    <2>3. \A j \in candidates : keys[j].exists /\ j \notin lag
      BY <1>5, StoredFacts
    <2>4. call' = [call EXCEPT ![c] = [q EXCEPT !.pc = "read", !.key = k, !.todo = candidates,
                                                 !.listed = candidates]]
      BY <1>1, <2>1
    <2>5. QED
      BY <1>8, <2>1, <2>2, <2>3, <2>4
  <1>10. CASE \E k \in q.todo : call' = [call EXCEPT ![c].pc = "read", ![c].key = k]
    <2>1. PICK k \in q.todo : call' = [call EXCEPT ![c].pc = "read", ![c].key = k]
      BY <1>10
    <2>2. [q EXCEPT !.pc = "read", !.key = k] = [q EXCEPT !.pc = "read", !.key = k, !.todo = q.todo, !.listed = q.listed]
      BY <1>2, CallFields
    <2>3. call' = [call EXCEPT ![c] = [q EXCEPT !.pc = "read", !.key = k]]
      BY <1>1, <2>1
    <2>4. q.listed \in SUBSET Keys /\ q.todo \in SUBSET Keys /\ k \in Keys
      BY <1>2, <1>3, <2>1, CallFields
    <2>5. call' = [call EXCEPT ![c] = [q EXCEPT !.pc = "read", !.key = k, !.todo = q.todo,
                                                 !.listed = q.listed]]
      BY <2>2, <2>3
    <2>6. k \in q.todo
      BY <2>1
    <2>7. QED
      BY <1>6, <1>8, <2>4, <2>5, <2>6
  <1>11. QED
    BY <1>1, <1>5, <1>7, <1>9, <1>10 DEF RevokeNext

\* What a reading decides.
LEMMA AfterReadCases ==
  ASSUME NEW c \in Calls, NEW k, NEW w, w = AfterRead(c, k),
         call[c].op \in {"update", "rotate", "revoke", "revokeAll"}
  PROVE  /\ w \in {"within", "write", "null", "error", "ok"}
         /\ w \in {"within", "write"} =>
              /\ k.exists
              /\ call[c].op \in {"update", "rotate"} => ~k.revoked
              /\ call[c].op = "update" => (w = "write" <=> call[c].changes = {})
              /\ call[c].op = "rotate" => w = "within" /\ k.rotatedTo = NoKey
              /\ call[c].op \in {"revoke", "revokeAll"} => w = "write"
         /\ call[c].op = "revokeAll" /\ k.exists /\ w \notin {"within", "write"} => k.revoked
  <1>1. CASE ~k.exists
    BY <1>1 DEF AfterRead
  <1>2. CASE k.exists /\ call[c].op = "update"
    BY <1>2 DEF AfterRead
  <1>3. CASE k.exists /\ call[c].op = "rotate"
    BY <1>3 DEF AfterRead, Active
  <1>4. CASE k.exists /\ call[c].op \in {"revoke", "revokeAll"}
    BY <1>4 DEF AfterRead
  <1>5. QED
    BY <1>1, <1>2, <1>3, <1>4

LEMMA ReadKeyStep == ASSUME ApiKeysInv, NEW c \in Calls, ReadKey(c) PROVE ApiKeysInv'
  <1>1. PICK q : q = call[c]
    OBVIOUS
  <1>2. q \in Call /\ CallInv(q, keys, lag) /\ q.pc = "read" /\ ~q.late /\ q.pc \notin Ends
    BY <1>1, CallFacts DEF ReadKey, Ends
  <1>3. q.op \in {"update", "rotate", "revoke", "revokeAll"} /\ q.key \in Keys
    BY <1>1, <1>2, CallFields DEF ReadKey, CallInv, Placed, Concluded, Ends
  <1>4. UNCHANGED <<keys, lag, copies, principals>>
    BY DEF ReadKey
  <1>5. PICK s \in Record : s = Stored(q.key)
    BY <1>3, StoredFacts
  <1>6. s.exists => q.key \notin lag /\ s = keys[q.key] /\ Reading(keys, q.key, s)
    BY <1>3, <1>5, StoredFacts
  <1>7. PICK w : w = AfterRead(c, s)
    OBVIOUS
  <1>8. /\ w \in {"within", "write", "null", "error", "ok"}
        /\ w \in {"within", "write"} =>
             /\ s.exists
             /\ q.op \in {"update", "rotate"} => ~s.revoked
             /\ q.op = "update" => (w = "write" <=> q.changes = {})
             /\ q.op = "rotate" => w = "within" /\ s.rotatedTo = NoKey
             /\ q.op \in {"revoke", "revokeAll"} => w = "write"
        /\ q.op = "revokeAll" /\ s.exists /\ w \notin {"within", "write"} => s.revoked
    BY <1>1, <1>3, <1>7, AfterReadCases
  <1>9. CASE w \in {"within", "write"} /\ call' = [call EXCEPT ![c] = [At(q, w) EXCEPT !.seen = s]]
             /\ UNCHANGED faults
    <2>1. PICK r : r = [q EXCEPT !.pc = w, !.seen = s]
      OBVIOUS
    <2>2. At(q, w) = [q EXCEPT !.pc = w] /\ w \in Places
      BY <1>9 DEF At, Ends, Places
    <2>3. /\ r \in Call /\ r.pc = w /\ r.seen = s
          /\ r.op = q.op /\ r.by = q.by /\ r.key = q.key /\ r.changes = q.changes
          /\ r.tries = q.tries /\ r.todo = q.todo /\ r.late = q.late /\ r.listed = q.listed
      BY <1>2, <1>5, <2>1, <2>2, CallFields
    <2>4. [At(q, w) EXCEPT !.seen = s] = r
      BY <1>2, <2>1, <2>2, CallFields
    <2>5. Placed(r)
      BY <1>3, <1>8, <1>9, <2>3 DEF Placed
    <2>6. Concluded(r, keys, lag)
      BY <1>2, <1>3, <1>6, <1>8, <1>9, <2>3 DEF CallInv, Concluded, HasRead
    <2>7. Stopped(r, keys) /\ Swept(r, keys, lag)
      BY <1>2, <1>9, <2>3 DEF CallInv, Stopped, Swept, Ends
    <2>8. Checked(r)
      BY <1>2, <1>3, <1>8, <1>9, <2>3 DEF CallInv, Checked, Gives
    <2>9. CallInv(r, keys, lag)
      BY <1>2, <2>3, <2>5, <2>6, <2>7, <2>8 DEF CallInv
    <2>10. call' = [call EXCEPT ![c] = r] /\ faults' \in 0..MaxFaults
      BY <1>9, <2>4 DEF ApiKeysInv, TypeOK
    <2>11. QED
      BY <1>4, <2>3, <2>9, <2>10, CallStep
  <1>10. CASE w \notin {"within", "write"} /\ Finish(c, w) /\ UNCHANGED faults
    <2>1. q.op = "revokeAll" => keys[q.key].revoked
      <3>1. q.op = "revokeAll" => keys[q.key].exists /\ q.key \notin lag
        BY <1>2 DEF CallInv, Concluded, Swept
      <3>2. QED
        BY <1>3, <1>5, <1>6, <1>8, <1>10, <3>1, StoredFacts
    <2>2. w \in Ends
      BY <1>8, <1>10 DEF Ends
    <2>3. PICK r \in Call : call' = [call EXCEPT ![c] = r] /\ CallInv(r, keys, lag)
      BY <1>1, <1>2, <1>10, <2>1, <2>2, FinishCall
    <2>4. faults' \in 0..MaxFaults
      BY <1>10 DEF ApiKeysInv, TypeOK
    <2>5. QED
      BY <1>4, <2>3, <2>4, CallStep
  <1>11. CASE Fault /\ Finish(c, "error")
    <2>1. "error" \in Ends /\ "error" # "ok"
      BY DEF Ends
    <2>2. PICK r \in Call : call' = [call EXCEPT ![c] = r] /\ CallInv(r, keys, lag)
      BY <1>1, <1>2, <1>11, <2>1, FinishCall
    <2>3. faults' \in 0..MaxFaults
      BY <1>11, FaultStep
    <2>4. QED
      BY <1>4, <2>2, <2>3, CallStep
  <1>12. QED
    BY <1>1, <1>5, <1>7, <1>9, <1>10, <1>11 DEF ReadKey

LEMMA AssertWithinCallerStep ==
  ASSUME ApiKeysInv, NEW c \in Calls, AssertWithinCaller(c)
  PROVE  ApiKeysInv'
  <1>1. PICK q : q = call[c]
    OBVIOUS
  <1>2. q \in Call /\ CallInv(q, keys, lag) /\ q.pc = "within" /\ ~q.late
    BY <1>1, CallFacts DEF AssertWithinCaller, Ends
  <1>3. q.op \in {"create", "update", "rotate"} /\ q.by \in Keys \union {Host}
    BY <1>2, CallFields DEF CallInv, Placed, Ends
  <1>4. UNCHANGED <<keys, lag, copies, principals>>
    BY DEF AssertWithinCaller
  <1>5. PICK w \in {"queue", "write"} : w = IF q.op = "create" THEN "queue" ELSE "write"
    OBVIOUS
  <1>6. w \in Places \ Ends
    BY DEF Places, Ends
  <1>7. ASSUME NEW w2 \in {"denied", "error"}, Goto(c, w2), faults' \in 0..MaxFaults
        PROVE  ApiKeysInv'
    <2>1. w2 \in Ends /\ w2 # "ok"
      BY DEF Ends
    <2>2. call' = [call EXCEPT ![c] = At(q, w2)]
      BY <1>1, <1>7, <2>1, GotoCall
    <2>3. QED
      BY <1>1, <1>2, <1>4, <1>7, <2>1, <2>2, EndStep
  <1>8. ASSUME NEW r \in Call, call' = [call EXCEPT ![c] = r], UNCHANGED faults, Checked(r), r.pc = w,
               r.op = q.op, r.by = q.by, r.key = q.key, r.changes = q.changes,
               r.tries = q.tries, r.todo = q.todo, r.late = q.late, r.listed = q.listed, r.seen = q.seen
        PROVE  ApiKeysInv'
    <2>1. Placed(r)
      BY <1>3, <1>5, <1>8 DEF Placed
    <2>2. Concluded(r, keys, lag)
      BY <1>2, <1>3, <1>5, <1>8 DEF CallInv, Concluded, HasRead, Ends
    <2>3. Stopped(r, keys) /\ Swept(r, keys, lag)
      BY <1>2, <1>3, <1>8 DEF Stopped, Swept
    <2>4. CallInv(r, keys, lag)
      BY <1>2, <1>8, <2>1, <2>2, <2>3 DEF CallInv
    <2>5. faults' \in 0..MaxFaults
      BY <1>8 DEF ApiKeysInv, TypeOK
    <2>6. QED
      BY <1>4, <1>8, <2>4, <2>5, CallStep
  <1>9. CASE q.by = Host /\ Goto(c, w) /\ UNCHANGED faults
    <2>1. PICK r : r = [q EXCEPT !.pc = w]
      OBVIOUS
    <2>2. call' = [call EXCEPT ![c] = r]
      BY <1>1, <1>6, <1>9, <2>1, GotoCall
    <2>3. /\ r \in Call /\ r.pc = w /\ r.op = q.op /\ r.by = q.by /\ r.key = q.key /\ r.changes = q.changes
          /\ r.tries = q.tries /\ r.todo = q.todo /\ r.late = q.late /\ r.listed = q.listed /\ r.seen = q.seen
      BY <1>2, <1>6, <2>1, MovedFields
    <2>4. Checked(r)
      BY <1>2, <1>9, <2>3 DEF CallInv, Checked
    <2>5. QED
      BY <1>8, <1>9, <2>2, <2>3, <2>4
  <1>10. ASSUME NEW s, q.by # Host, s = Stored(q.by), UNCHANGED faults,
                Within(Ceilings[Intended(q).restrictions], Ceilings[s.restrictions]),
                Intended(q).expires <= s.expires,
                call' = [call EXCEPT ![c].pc = w, ![c].caller = s]
         PROVE  ApiKeysInv'
    <2>1. PICK r : r = [q EXCEPT !.pc = w, !.caller = s]
      OBVIOUS
    <2>2. call' = [call EXCEPT ![c] = r]
      BY <1>1, <1>10, <2>1
    <2>3. s \in Record
      BY <1>3, <1>10, StoredFacts
    <2>4. /\ r \in Call /\ r.pc = w /\ r.op = q.op /\ r.by = q.by /\ r.key = q.key /\ r.changes = q.changes
          /\ r.tries = q.tries /\ r.todo = q.todo /\ r.late = q.late /\ r.listed = q.listed /\ r.seen = q.seen
      BY <1>2, <1>6, <2>1, <2>3, CallFields
    <2>5. r.caller = s /\ r.restrictions = q.restrictions /\ r.expires = q.expires
      BY <1>2, <1>6, <2>1, <2>3, CallFields
    <2>6. Intended(r) = Intended(q)
      BY <2>4, <2>5 DEF Intended
    <2>7. Checked(r)
      BY <1>2, <1>10, <2>4, <2>5, <2>6 DEF CallInv, Checked
    <2>8. QED
      BY <1>8, <1>10, <2>2, <2>4, <2>7
  <1>11. Fault => faults' \in 0..MaxFaults
    BY FaultStep
  <1>12. UNCHANGED faults => faults' \in 0..MaxFaults
    BY DEF ApiKeysInv, TypeOK
  <1>13. QED
    BY <1>1, <1>5, <1>7, <1>9, <1>10, <1>11, <1>12 DEF AssertWithinCaller

\* An attempt that failed is tried again; the last one ends the call, or leads to the
\* last read of an authentication.
LEMMA TryAgainCall ==
  ASSUME ApiKeysInv, NEW c \in Calls, NEW at, NEW last, TryAgain(c, at, last),
         call[c].pc \in {"read", "write"},
         \/ /\ call[c].op = "create" /\ call[c].pc = "write" /\ at = "write" /\ last = "error"
         \/ /\ call[c].op \in {"update", "rotate", "revoke", "revokeAll", "authenticate"}
            /\ at = "read" /\ last = IF call[c].op = "authenticate" THEN "last" ELSE "error"
  PROVE  \E q \in Call : call' = [call EXCEPT ![c] = q] /\ CallInv(q, keys, lag)
  <1>1. PICK q : q = call[c]
    OBVIOUS
  <1>2. q \in Call /\ CallInv(q, keys, lag)
    BY <1>1, CallFacts
  <1>3. q.op # "authenticate" => ~q.late
    BY <1>1, CallFacts DEF Ends
  <1>4. q.tries \in 0..MaxTries /\ q.tries < MaxTries
    BY <1>1, <1>2, CallFields DEF CallInv
  <1>5. PICK n \in 0..MaxTries : n = q.tries + 1
    BY <1>4, ApiKeysAssumption
  <1>6. PICK d : d = [q EXCEPT !.tries = n]
    OBVIOUS
  <1>7. d \in Call /\ d.tries = n /\ d.op = q.op /\ d.late = q.late /\ d.listed = q.listed
    BY <1>2, <1>5, <1>6, TriedFields
  <1>8. PICK w : w = IF n < MaxTries THEN at ELSE last
    OBVIOUS
  <1>9. call' = [call EXCEPT ![c] = At(d, w)]
    BY <1>1, <1>5, <1>6, <1>7, <1>8 DEF TryAgain
  <1>10. CASE w = "error"
    <2>1. "error" \in Ends /\ w # "ok"
      BY <1>10 DEF Ends
    <2>2. At(d, w) \in Call /\ CallInv(At(d, w), keys, lag)
      BY <1>7, <1>10, <2>1, EndInv
    <2>3. QED
      BY <1>9, <2>2
  <1>11. CASE w # "error"
    <2>1. w \in {"read", "write", "last"} /\ w \in Places /\ w \notin Ends
      BY <1>1, <1>8, <1>11 DEF Places, Ends
    <2>2. PICK r : r = [d EXCEPT !.pc = w]
      OBVIOUS
    <2>3. call' = [call EXCEPT ![c] = r]
      BY <1>9, <2>1, <2>2 DEF At
    <2>4. /\ r \in Call /\ r.pc = w /\ r.tries = n /\ r.op = q.op /\ r.by = q.by /\ r.key = q.key
          /\ r.changes = q.changes /\ r.todo = q.todo /\ r.late = q.late /\ r.listed = q.listed
          /\ r.seen = q.seen /\ r.caller = q.caller /\ r.restrictions = q.restrictions
          /\ r.expires = q.expires
      BY <1>2, <1>5, <1>6, <2>1, <2>2, CallFields
    <2>5. Placed(r)
      BY <1>1, <1>8, <1>11, <2>4 DEF Placed
    <2>6. Concluded(r, keys, lag)
      BY <1>1, <1>2, <1>8, <1>11, <2>4 DEF CallInv, Concluded, HasRead, Ends
    <2>7. Stopped(r, keys) /\ Swept(r, keys, lag)
      BY <1>1, <1>2, <1>3, <1>8, <1>11, <2>4 DEF CallInv, Stopped, Swept, Ends
    <2>8. Intended(r) = Intended(q)
      BY <2>4 DEF Intended
    <2>9. Checked(r)
      <3>1. r.pc \in {"queue", "write"} => q.pc = "write"
        BY <1>1, <1>8, <1>11, <2>4
      <3>2. QED
        BY <1>2, <2>4, <2>8, <3>1 DEF CallInv, Checked, Gives
    <2>10. r.pc # "last" => r.tries < MaxTries
      BY <1>1, <1>8, <1>11, <2>4
    <2>11. CallInv(r, keys, lag)
      BY <2>5, <2>6, <2>7, <2>9, <2>10 DEF CallInv
    <2>12. QED
      BY <2>3, <2>4, <2>11
  <1>12. QED
    BY <1>10, <1>11

LEMMA RetryCall ==
  ASSUME ApiKeysInv, NEW c \in Calls, Retry(c),
         call[c].pc \in {"read", "write"},
         call[c].op \in {"update", "rotate", "revoke", "revokeAll", "authenticate"}
  PROVE  \E q \in Call : call' = [call EXCEPT ![c] = q] /\ CallInv(q, keys, lag)
  <1>1. PICK last : last = IF call[c].op = "authenticate" THEN "last" ELSE "error"
    OBVIOUS
  <1>2. TryAgain(c, "read", last)
    BY <1>1 DEF Retry
  <1>3. QED
    BY <1>1, <1>2, TryAgainCall

-----------------------------------------------------------------------------
(* Steps that write *)

\* An existing key is written by version; the copy of it is left alone or follows.
LEMMA RewriteKey ==
  ASSUME ApiKeysInv, NEW k \in Keys, NEW new \in Record, k \notin lag,
         keys[k].exists, new.exists, new.version = keys[k].version + 1,
         keys[k].revoked => new.revoked,
         new.rotatedTo = keys[k].rotatedTo, new.rotatedFrom = keys[k].rotatedFrom,
         keys' = [keys EXCEPT ![k] = new], lag' = lag,
         copies' = copies \/ copies' = [copies EXCEPT ![k] = new]
  PROVE  /\ keys' \in [Keys -> Record] /\ copies' \in [Keys -> Record] /\ lag' \subseteq Keys
         /\ Grow(keys, keys') /\ OneReplacement' /\ \A j \in Keys : KeyInv(j)'
         /\ \A j \in lag' : j \in lag \/ ~keys[j].exists
         /\ keys'[k] = new /\ Reading(keys', k, new)
  <1>1. keys \in [Keys -> Record] /\ copies \in [Keys -> Record] /\ lag \subseteq Keys
    BY DEF ApiKeysInv, TypeOK
  <1>2. keys' \in [Keys -> Record] /\ copies' \in [Keys -> Record] /\ keys'[k] = new
    BY <1>1
  <1>3. \A j \in Keys : j # k => keys'[j] = keys[j]
    BY <1>1
  <1>4. Grow(keys, keys')
    BY <1>2, <1>3 DEF Grow
  <1>5. new.version \in Nat
    BY RecordFields
  <1>6. Reading(keys', k, new)
    BY <1>2, <1>5 DEF Reading
  <1>7. OneReplacement'
    BY <1>2, <1>3 DEF ApiKeysInv, OneReplacement
  <1>8. ASSUME NEW j \in Keys PROVE KeyInv(j)'
    <2>1. KeyInv(j) /\ copies[j] \in Record
      BY <1>1 DEF ApiKeysInv
    <2>2. copies[j].exists => Reading(keys', j, copies[j])
      BY <1>1, <1>2, <1>4, <2>1, GrowKeepsReading DEF KeyInv
    <2>3. copies'[j] = copies[j] \/ (j = k /\ copies'[j] = new)
      BY <1>1
    <2>4. QED
      BY <1>2, <1>3, <1>6, <2>1, <2>2, <2>3 DEF KeyInv
  <1>9. QED
    BY <1>1, <1>2, <1>4, <1>6, <1>7, <1>8

\* The record of an updated or revoked key.
LEMMA ChangedFields ==
  ASSUME NEW q \in Call, NEW r, r = Changed(q), q.op \in {"update", "revoke", "revokeAll"}
  PROVE  /\ r \in Record /\ r.exists = q.seen.exists /\ r.version = q.seen.version + 1
         /\ r.rotatedTo = q.seen.rotatedTo /\ r.rotatedFrom = q.seen.rotatedFrom
         /\ q.seen.revoked => r.revoked
         /\ q.op # "update" => r.revoked /\ r.expires = q.seen.expires
         /\ q.op = "update" => r.restrictions = Intended(q).restrictions /\ r.expires = Intended(q).expires
  <1>1. PICK s \in Record : s = q.seen
    BY CallFields
  <1>2. s.version + 1 \in Nat
    BY RecordFields
  <1>3. CASE q.op = "update"
    <2>1. PICK x \in DOMAIN Ceilings, e \in 0..Never : x = Intended(q).restrictions /\ e = Intended(q).expires
      BY <1>1, <1>3, CallFields, RecordFields DEF Intended
    <2>2. PICK n \in Nat : n = s.version + 1
      BY <1>2
    <2>3. r = [s EXCEPT !.restrictions = x, !.expires = e, !.version = n]
      BY <1>1, <1>3, <2>1, <2>2 DEF Changed
    <2>4. /\ r \in Record /\ r.exists = s.exists /\ r.version = n
          /\ r.rotatedTo = s.rotatedTo /\ r.rotatedFrom = s.rotatedFrom /\ r.revoked = s.revoked
          /\ r.restrictions = x /\ r.expires = e
      BY <2>3, RecordFields
    <2>5. QED
      BY <1>1, <1>3, <2>1, <2>2, <2>4
  <1>4. CASE q.op # "update"
    <2>1. PICK n \in Nat : n = s.version + 1
      BY <1>2
    <2>2. r = [s EXCEPT !.revoked = TRUE, !.version = n]
      BY <1>1, <1>4, <2>1 DEF Changed
    <2>3. /\ r \in Record /\ r.exists = s.exists /\ r.version = n
          /\ r.rotatedTo = s.rotatedTo /\ r.rotatedFrom = s.rotatedFrom /\ r.revoked = TRUE
          /\ r.expires = s.expires
      BY <2>2, RecordFields
    <2>4. QED
      BY <1>1, <1>4, <2>1, <2>3
  <1>5. QED
    BY <1>3, <1>4

\* A reading whose version the store still has is the record.
LEMMA MatchIsCurrent ==
  ASSUME NEW k, NEW s, VersionMatches(k, s), Reading(keys, k, s)
  PROVE  s = keys[k] /\ keys[k].exists
  BY DEF VersionMatches, Reading

\* What a call that has ended leaves, when it has written: StepOf asks no more.
LEMMA WroteStep ==
  ASSUME ApiKeysInv, NEW c \in Calls, NEW q \in Call, call' = [call EXCEPT ![c] = q],
         CallInv(q, keys, lag) \/ CallInv(q, keys', lag'),
         keys' \in [Keys -> Record], Grow(keys, keys'),
         lag' \subseteq Keys, \A k \in lag' : k \in lag \/ ~keys[k].exists,
         copies' \in [Keys -> Record], principals' \subseteq Keys, faults' \in 0..MaxFaults,
         \A k \in Keys : KeyInv(k)', OneReplacement'
  PROVE  ApiKeysInv'
  <1>1. keys \in [Keys -> Record]
    BY DEF ApiKeysInv, TypeOK
  <1>2. CallInv(q, keys, lag) => CallInv(q, keys', lag')
    BY <1>1, GrowKeepsCall
  <1>3. CallInv(q, keys', lag')
    BY <1>2
  <1>4. QED
    BY <1>3, StepOf

LEMMA WriteKeyStep == ASSUME ApiKeysInv, NEW c \in Calls, WriteKey(c) PROVE ApiKeysInv'
  <1>1. PICK q : q = call[c]
    OBVIOUS
  <1>2. q \in Call /\ CallInv(q, keys, lag) /\ q.pc = "write" /\ ~q.late
    BY <1>1, CallFacts DEF WriteKey, Ends
  <1>3. q.op \in {"update", "revoke", "revokeAll"} /\ HasRead(q)
    BY <1>1, <1>2 DEF WriteKey, HasRead
  <1>4. q.key \in Keys /\ q.seen \in Record
    BY <1>1, <1>2, <1>3, CallFacts, CallFields DEF Ends
  <1>5. Reading(keys, q.key, q.seen) /\ q.key \notin lag
    BY <1>2, <1>3 DEF CallInv, Concluded
  <1>6. principals' \subseteq Keys /\ UNCHANGED <<lag, principals>>
    BY DEF WriteKey, ApiKeysInv, TypeOK
  <1>7. PICK new : new = Changed(q)
    OBVIOUS
  <1>8. /\ new \in Record /\ new.exists = q.seen.exists /\ new.version = q.seen.version + 1
        /\ new.rotatedTo = q.seen.rotatedTo /\ new.rotatedFrom = q.seen.rotatedFrom
        /\ q.seen.revoked => new.revoked
        /\ q.op # "update" => new.revoked
    BY <1>2, <1>3, <1>7, ChangedFields
  <1>9. ASSUME VersionMatches(q.key, q.seen), keys' = [keys EXCEPT ![q.key] = new],
               copies' = copies \/ copies' = [copies EXCEPT ![q.key] = new]
        PROVE  /\ keys' \in [Keys -> Record] /\ copies' \in [Keys -> Record] /\ lag' \subseteq Keys
               /\ Grow(keys, keys') /\ OneReplacement' /\ \A j \in Keys : KeyInv(j)'
               /\ \A j \in lag' : j \in lag \/ ~keys[j].exists
               /\ keys'[q.key] = new /\ Reading(keys', q.key, new)
    <2>1. q.seen = keys[q.key] /\ keys[q.key].exists
      BY <1>5, <1>9, MatchIsCurrent
    <2>2. lag' = lag
      BY <1>6
    <2>3. QED
      BY <1>4, <1>5, <1>8, <1>9, <2>1, <2>2, RewriteKey
  <1>10. ASSUME VersionMatches(q.key, q.seen), keys' = [keys EXCEPT ![q.key] = new],
                call' = [call EXCEPT ![c].pc = "audit", ![c].seen = new], UNCHANGED faults,
                copies' = copies \/ copies' = [copies EXCEPT ![q.key] = new]
         PROVE  ApiKeysInv'
    <2>1. /\ keys' \in [Keys -> Record] /\ copies' \in [Keys -> Record] /\ lag' \subseteq Keys
          /\ Grow(keys, keys') /\ OneReplacement' /\ \A j \in Keys : KeyInv(j)'
          /\ \A j \in lag' : j \in lag \/ ~keys[j].exists
          /\ keys'[q.key] = new /\ Reading(keys', q.key, new)
      BY <1>9, <1>10
    <2>2. PICK r : r = [q EXCEPT !.pc = "audit", !.seen = new]
      OBVIOUS
    <2>3. call' = [call EXCEPT ![c] = r] /\ "audit" \in Places
      BY <1>1, <1>10, <2>2 DEF Places
    <2>4. /\ r \in Call /\ r.pc = "audit" /\ r.seen = new
          /\ r.op = q.op /\ r.by = q.by /\ r.key = q.key /\ r.changes = q.changes
          /\ r.tries = q.tries /\ r.todo = q.todo /\ r.late = q.late /\ r.listed = q.listed
      BY <1>2, <1>8, <2>2, <2>3, CallFields
    <2>5. q.listed \subseteq Keys /\ q.todo \subseteq Keys
      BY <1>2, CallFields
    <2>6. Placed(r) /\ Stopped(r, keys')
      BY <1>2, <1>3, <2>4 DEF Placed, Stopped
    <2>7. Concluded(r, keys', lag')
      BY <1>2, <1>3, <1>4, <1>5, <1>6, <1>8, <2>1, <2>4 DEF CallInv, Concluded, HasRead
    <2>8. Swept(r, keys', lag')
      <3>1. Swept(q, keys, lag)
        BY <1>2 DEF CallInv
      <3>2. \A k \in Keys : (keys[k].exists => keys'[k].exists) /\ (keys[k].revoked => keys'[k].revoked)
        BY <2>1 DEF Grow
      <3>3. QED
        BY <1>2, <1>6, <2>4, <2>5, <3>1, <3>2 DEF Swept, Ends
    <2>9. Checked(r)
      BY <1>2, <2>4 DEF CallInv, Checked
    <2>10. CallInv(r, keys', lag')
      BY <1>2, <2>4, <2>6, <2>7, <2>8, <2>9 DEF CallInv
    <2>11. faults' \in 0..MaxFaults
      BY <1>10 DEF ApiKeysInv, TypeOK
    <2>12. QED
      BY <1>6, <2>1, <2>3, <2>4, <2>10, <2>11, WroteStep
  <1>11. CASE Retry(c) /\ UNCHANGED <<keys, copies, faults>>
    <2>1. PICK r \in Call : call' = [call EXCEPT ![c] = r] /\ CallInv(r, keys, lag)
      BY <1>1, <1>2, <1>3, <1>11, RetryCall
    <2>2. UNCHANGED <<keys, lag, copies, principals>> /\ faults' \in 0..MaxFaults
      BY <1>6, <1>11 DEF ApiKeysInv, TypeOK
    <2>3. QED
      BY <2>1, <2>2, CallStep
  <1>12. ASSUME Fault, Goto(c, "error"), UNCHANGED copies,
                UNCHANGED keys \/ (VersionMatches(q.key, q.seen) /\ keys' = [keys EXCEPT ![q.key] = new])
         PROVE  ApiKeysInv'
    <2>1. "error" \in Ends /\ "error" # "ok"
      BY DEF Ends
    <2>2. call' = [call EXCEPT ![c] = At(q, "error")] /\ faults' \in 0..MaxFaults
      BY <1>1, <1>12, <2>1, GotoCall, FaultStep
    <2>3. CASE UNCHANGED keys
      <3>1. UNCHANGED <<keys, lag, copies, principals>>
        BY <1>6, <1>12, <2>3
      <3>2. QED
        BY <1>1, <1>2, <2>1, <2>2, <3>1, EndStep
    <2>4. CASE VersionMatches(q.key, q.seen) /\ keys' = [keys EXCEPT ![q.key] = new]
      <3>1. /\ keys' \in [Keys -> Record] /\ copies' \in [Keys -> Record] /\ lag' \subseteq Keys
            /\ Grow(keys, keys') /\ OneReplacement' /\ \A j \in Keys : KeyInv(j)'
            /\ \A j \in lag' : j \in lag \/ ~keys[j].exists
        BY <1>9, <1>12, <2>4
      <3>2. At(q, "error") \in Call /\ CallInv(At(q, "error"), keys, lag)
        BY <1>2, <2>1, EndInv
      <3>3. QED
        BY <1>6, <2>2, <3>1, <3>2, WroteStep
    <2>5. QED
      BY <1>12, <2>3, <2>4
  <1>13. QED
    BY <1>1, <1>7, <1>10, <1>11, <1>12 DEF WriteKey, Remember

\* The record of a key that is issued.
LEMMA IssuedFields ==
  ASSUME NEW x \in DOMAIN Ceilings, NEW e \in 0..Never, NEW from \in Keys \union {NoKey}, NEW r,
         r = Issued(x, e, from)
  PROVE  /\ r \in Record /\ r.exists /\ r.version = 1 /\ ~r.revoked /\ r.restrictions = x /\ r.expires = e
         /\ r.rotatedFrom = from /\ r.rotatedTo = NoKey
  <1>1. r = [exists |-> TRUE, version |-> 1, revoked |-> FALSE, expires |-> e, restrictions |-> x,
             rotatedTo |-> NoKey, rotatedFrom |-> from]
    BY DEF Issued, AbsentKey
  <1>2. QED
    BY <1>1, RecordFields

\* A key is issued, for itself.
LEMMA NewKey ==
  ASSUME ApiKeysInv, NEW k \in Fresh, NEW new \in Record,
         new.exists, new.version = 1, ~new.revoked, new.rotatedFrom = NoKey, new.rotatedTo = NoKey,
         keys' = [keys EXCEPT ![k] = new],
         lag' = lag \/ lag' = lag \union {k},
         copies' = copies \/ copies' = [copies EXCEPT ![k] = new]
  PROVE  /\ keys' \in [Keys -> Record] /\ copies' \in [Keys -> Record] /\ lag' \subseteq Keys
         /\ Grow(keys, keys') /\ OneReplacement' /\ \A j \in Keys : KeyInv(j)'
         /\ \A j \in lag' : j \in lag \/ ~keys[j].exists
  <1>1. keys \in [Keys -> Record] /\ copies \in [Keys -> Record] /\ lag \subseteq Keys
    BY DEF ApiKeysInv, TypeOK
  <1>2. k \in Keys /\ ~keys[k].exists /\ keys[k] = AbsentKey
    BY DEF Fresh, ApiKeysInv, KeyInv
  <1>3. keys' \in [Keys -> Record] /\ copies' \in [Keys -> Record] /\ keys'[k] = new /\ lag' \subseteq Keys
    BY <1>1, <1>2
  <1>4. \A j \in Keys : j # k => keys'[j] = keys[j]
    BY <1>1
  <1>5. Grow(keys, keys')
    BY <1>2, <1>3, <1>4, AbsentKeyFields DEF Grow
  <1>6. Reading(keys', k, new)
    BY <1>2, <1>3 DEF Reading
  <1>7. OneReplacement'
    <2>1. \A i, j \in Keys : (keys[i].exists /\ keys[i].rotatedFrom = j) <=> (i # NoKey /\ keys[j].rotatedTo = i)
      BY DEF ApiKeysInv, OneReplacement
    <2>2. SUFFICES ASSUME NEW i \in Keys, NEW j \in Keys
                   PROVE  (keys'[i].exists /\ keys'[i].rotatedFrom = j) <=> (i # NoKey /\ keys'[j].rotatedTo = i)
      BY DEF OneReplacement
    <2>3. i # NoKey /\ j # NoKey
      BY ApiKeysAssumption
    <2>4. keys'[j].rotatedTo = keys[j].rotatedTo
      BY <1>2, <1>3, <1>4, AbsentKeyFields
    <2>5. CASE i = k
      BY <1>2, <1>3, <2>1, <2>3, <2>4, <2>5
    <2>6. CASE i # k
      BY <1>4, <2>1, <2>4, <2>6
    <2>7. QED
      BY <2>5, <2>6
  <1>8. ASSUME NEW j \in Keys PROVE KeyInv(j)'
    <2>1. KeyInv(j) /\ copies[j] \in Record
      BY <1>1 DEF ApiKeysInv
    <2>2. copies[j].exists => Reading(keys', j, copies[j])
      BY <1>1, <1>3, <1>5, <2>1, GrowKeepsReading DEF KeyInv
    <2>3. copies'[j] = copies[j] \/ (j = k /\ copies'[j] = new)
      BY <1>1
    <2>4. QED
      BY <1>2, <1>3, <1>4, <1>6, <2>1, <2>2, <2>3 DEF KeyInv
  <1>9. QED
    BY <1>2, <1>3, <1>5, <1>7, <1>8

LEMMA WriteCreationStep == ASSUME ApiKeysInv, NEW c \in Calls, WriteCreation(c) PROVE ApiKeysInv'
  <1>1. PICK q : q = call[c]
    OBVIOUS
  <1>2. q \in Call /\ CallInv(q, keys, lag) /\ q.pc = "write" /\ ~q.late /\ q.op = "create"
    BY <1>1, CallFacts DEF WriteCreation, Ends
  <1>3. principals' \subseteq Keys /\ UNCHANGED principals
    BY DEF WriteCreation, ApiKeysInv, TypeOK
  <1>4. PICK new : new = Issued(q.restrictions, q.expires, NoKey)
    OBVIOUS
  <1>5. new \in Record /\ new.exists /\ new.version = 1 /\ ~new.revoked /\ new.rotatedFrom = NoKey /\ new.rotatedTo = NoKey
    <2>1. q.restrictions \in DOMAIN Ceilings /\ q.expires \in 0..Never
      BY <1>2, CallFields
    <2>2. QED
      BY <1>4, <2>1, IssuedFields
  <1>6. "error" \in Ends /\ "error" # "ok" /\ "audit" \in Places /\ "audit" \notin Ends
    BY DEF Ends, Places
  <1>7. At(q, "error") \in Call /\ CallInv(At(q, "error"), keys, lag)
    BY <1>2, <1>6, EndInv
  <1>8. PICK r : r = [q EXCEPT !.pc = "audit"]
    OBVIOUS
  <1>9. r \in Call /\ CallInv(r, keys, lag)
    <2>1. /\ r \in Call /\ r.pc = "audit" /\ r.op = q.op /\ r.by = q.by /\ r.key = q.key /\ r.changes = q.changes
          /\ r.tries = q.tries /\ r.todo = q.todo /\ r.late = q.late /\ r.listed = q.listed
      BY <1>2, <1>6, <1>8, MovedFields
    <2>2. Placed(r) /\ Concluded(r, keys, lag) /\ Stopped(r, keys) /\ Swept(r, keys, lag)
      BY <1>2, <2>1 DEF Placed, Concluded, HasRead, Stopped, Swept
    <2>3. Checked(r)
      BY <1>2, <2>1 DEF CallInv, Checked
    <2>4. QED
      BY <1>2, <2>1, <2>2, <2>3 DEF CallInv
  <1>10. Goto(c, "error") => call' = [call EXCEPT ![c] = At(q, "error")]
    BY <1>1, <1>6, GotoCall
  <1>11. Goto(c, "audit") => call' = [call EXCEPT ![c] = r]
    BY <1>1, <1>6, <1>8, GotoCall
  <1>12. (Fault => faults' \in 0..MaxFaults) /\ (UNCHANGED faults => faults' \in 0..MaxFaults)
    BY FaultStep DEF ApiKeysInv, TypeOK
  <1>13. ASSUME NEW k \in Fresh, keys' = [keys EXCEPT ![k] = new],
                \/ Goto(c, "audit") /\ Created(k, new) /\ UNCHANGED faults
                \/ /\ Fault /\ Goto(c, "error") /\ UNCHANGED copies
                   /\ lag' = IF LocalMode THEN lag \union {k} ELSE lag
         PROVE  ApiKeysInv'
    <2>1. /\ lag' = lag \/ lag' = lag \union {k}
          /\ copies' = copies \/ copies' = [copies EXCEPT ![k] = new]
      BY <1>13 DEF Created
    <2>2. /\ keys' \in [Keys -> Record] /\ copies' \in [Keys -> Record] /\ lag' \subseteq Keys
          /\ Grow(keys, keys') /\ OneReplacement' /\ \A j \in Keys : KeyInv(j)'
          /\ \A j \in lag' : j \in lag \/ ~keys[j].exists
      BY <1>5, <1>13, <2>1, NewKey
    <2>3. PICK d \in Call : call' = [call EXCEPT ![c] = d] /\ CallInv(d, keys, lag)
      BY <1>7, <1>9, <1>10, <1>11, <1>13
    <2>4. faults' \in 0..MaxFaults
      BY <1>12, <1>13
    <2>5. QED
      BY <1>3, <2>2, <2>3, <2>4, WroteStep
  <1>14. CASE TryAgain(c, "write", "error") /\ UNCHANGED <<keys, lag, copies, faults>>
    <2>1. PICK d \in Call : call' = [call EXCEPT ![c] = d] /\ CallInv(d, keys, lag)
      BY <1>1, <1>2, <1>14, TryAgainCall
    <2>2. UNCHANGED <<keys, lag, copies, principals>> /\ faults' \in 0..MaxFaults
      BY <1>3, <1>12, <1>14
    <2>3. QED
      BY <2>1, <2>2, CallStep
  <1>15. CASE Fault /\ Goto(c, "error") /\ UNCHANGED <<keys, lag, copies>>
    <2>1. UNCHANGED <<keys, lag, copies, principals>> /\ faults' \in 0..MaxFaults
      BY <1>3, <1>12, <1>15
    <2>2. QED
      BY <1>7, <1>10, <1>15, <2>1, CallStep
  <1>16. QED
    BY <1>1, <1>4, <1>13, <1>14, <1>15 DEF WriteCreation

\* The record of a key that was replaced.
LEMMA RetiredFields ==
  ASSUME NEW q \in Call, NEW k \in Keys, NEW r, r = Retired(q, k)
  PROVE  /\ r \in Record /\ r.exists = q.seen.exists /\ r.version = q.seen.version + 1
         /\ r.rotatedTo = k /\ r.rotatedFrom = q.seen.rotatedFrom /\ r.restrictions = q.seen.restrictions
         /\ r.expires <= q.seen.expires
  <1>1. PICK s \in Record : s = q.seen
    BY CallFields
  <1>2. PICK n \in Nat : n = s.version + 1
    BY RecordFields
  <1>3. PICK o \in 0..MaxLife : o = q.overlap
    <2>1. Overlaps \union {0} \subseteq 0..MaxLife
      BY ApiKeysAssumption
    <2>2. QED
      BY <2>1, CallFields
  <1>4. s.expires \in 0..Never
    BY RecordFields
  <1>5. PICK e \in 0..Never : e = (IF o = 0 \/ s.expires < o THEN s.expires ELSE o) /\ e <= s.expires
    BY <1>3, <1>4, ApiKeysAssumption DEF Never
  <1>6. PICK b \in BOOLEAN : b = (o = 0)
    OBVIOUS
  <1>7. r = [s EXCEPT !.rotatedTo = k, !.version = n, !.revoked = b, !.expires = e]
    BY <1>1, <1>2, <1>3, <1>5, <1>6 DEF Retired
  <1>8. /\ r \in Record /\ r.exists = s.exists /\ r.version = n
        /\ r.rotatedTo = k /\ r.rotatedFrom = s.rotatedFrom /\ r.restrictions = s.restrictions
        /\ r.expires = e
    BY <1>7, RecordFields
  <1>9. QED
    BY <1>1, <1>2, <1>5, <1>8

LEMMA CopiesKept ==
  ASSUME ApiKeysInv, keys' \in [Keys -> Record], Grow(keys, keys')
  PROVE  \A j \in Keys : copies[j].exists => Reading(keys', j, copies[j])
  <1>1. keys \in [Keys -> Record] /\ \A j \in Keys : copies[j] \in Record /\ KeyInv(j)
    BY DEF ApiKeysInv, TypeOK
  <1>2. QED
    BY <1>1, GrowKeepsReading DEF KeyInv

\* A key is replaced by a new one, which names it.
LEMMA ReplaceKey ==
  ASSUME ApiKeysInv, NEW o \in Keys, NEW k \in Fresh, NEW old \in Record, NEW new \in Record,
         o \notin lag, keys[o].exists, ~keys[o].revoked, keys[o].rotatedTo = NoKey,
         old.exists, old.version = keys[o].version + 1, old.rotatedTo = k,
         old.rotatedFrom = keys[o].rotatedFrom,
         new.exists, new.version = 1, ~new.revoked, new.rotatedFrom = o, new.rotatedTo = NoKey,
         keys' \in [Keys -> Record], keys'[o] = old, keys'[k] = new,
         \A j \in Keys : j # k /\ j # o => keys'[j] = keys[j],
         lag' = lag \/ lag' = lag \union {k},
         copies' \in [Keys -> Record],
         \A j \in Keys : \/ copies'[j] = copies[j]
                         \/ j = k /\ copies'[j] = new
                         \/ j = o /\ copies'[j] = old
  PROVE  /\ lag' \subseteq Keys
         /\ Grow(keys, keys') /\ OneReplacement' /\ \A j \in Keys : KeyInv(j)'
         /\ \A j \in lag' : j \in lag \/ ~keys[j].exists
  <1>1. keys \in [Keys -> Record] /\ copies \in [Keys -> Record] /\ lag \subseteq Keys
    BY DEF ApiKeysInv, TypeOK
  <1>2. k \in Keys /\ ~keys[k].exists /\ keys[k] = AbsentKey /\ k # o
    BY DEF Fresh, ApiKeysInv, KeyInv
  <1>3. keys' \in [Keys -> Record] /\ keys'[k] = new /\ keys'[o] = old /\ lag' \subseteq Keys
    BY <1>1, <1>2
  <1>4. \A j \in Keys : j # k /\ j # o => keys'[j] = keys[j]
    OBVIOUS
  <1>5. Grow(keys, keys')
    BY <1>2, <1>3, <1>4, AbsentKeyFields DEF Grow
  <1>6. Reading(keys', k, new) /\ Reading(keys', o, old)
    <2>1. old.version \in Nat
      BY RecordFields
    <2>2. QED
      BY <1>2, <1>3, <2>1 DEF Reading
  <1>7. OneReplacement'
    <2>1. \A i, j \in Keys : (keys[i].exists /\ keys[i].rotatedFrom = j) <=> (i # NoKey /\ keys[j].rotatedTo = i)
      BY DEF ApiKeysInv, OneReplacement
    <2>2. SUFFICES ASSUME NEW i \in Keys, NEW j \in Keys
                   PROVE  (keys'[i].exists /\ keys'[i].rotatedFrom = j) <=> (i # NoKey /\ keys'[j].rotatedTo = i)
      BY DEF OneReplacement
    <2>3. i # NoKey /\ j # NoKey
      BY ApiKeysAssumption
    <2>4. j # o => keys'[j].rotatedTo = keys[j].rotatedTo
      BY <1>2, <1>3, <1>4, AbsentKeyFields
    <2>5. CASE i = k
      <3>1. keys[j].rotatedTo # k
        BY <1>2, <2>1, <2>3, <2>5
      <3>2. QED
        BY <1>3, <2>3, <2>4, <2>5, <3>1
    <2>6. CASE i # k
      <3>1. (keys'[i].exists <=> keys[i].exists) /\ keys'[i].rotatedFrom = keys[i].rotatedFrom
        BY <1>3, <1>4, <2>6
      <3>2. CASE j = o
        BY <1>3, <2>1, <2>3, <2>6, <3>1, <3>2
      <3>3. CASE j # o
        BY <2>1, <2>4, <3>1, <3>3
      <3>4. QED
        BY <3>2, <3>3
    <2>7. QED
      BY <2>5, <2>6
  <1>8. ASSUME NEW j \in Keys PROVE KeyInv(j)'
    <2>1. KeyInv(j) /\ copies[j] \in Record
      BY <1>1 DEF ApiKeysInv
    <2>2. copies[j].exists => Reading(keys', j, copies[j])
      BY <1>3, <1>5, CopiesKept
    <2>3. copies'[j].exists => Reading(keys', j, copies'[j])
      BY <1>6, <2>2
    <2>4. ~keys'[j].exists => keys'[j] = AbsentKey
      BY <1>2, <1>3, <1>4, <2>1 DEF KeyInv
    <2>5. j \in lag' => keys'[j].exists /\ ~keys'[j].revoked
      BY <1>2, <1>3, <1>4, <2>1 DEF KeyInv
    <2>6. QED
      BY <2>3, <2>4, <2>5 DEF KeyInv
  <1>9. QED
    BY <1>2, <1>3, <1>5, <1>7, <1>8

LEMMA WriteRotationStep == ASSUME ApiKeysInv, NEW c \in Calls, WriteRotation(c) PROVE ApiKeysInv'
  <1>1. PICK q : q = call[c]
    OBVIOUS
  <1>2. q \in Call /\ CallInv(q, keys, lag) /\ q.pc = "write" /\ ~q.late /\ q.op = "rotate" /\ HasRead(q)
    BY <1>1, CallFacts DEF WriteRotation, Ends, HasRead
  <1>3. q.key \in Keys /\ q.seen \in Record
    BY <1>1, <1>2, CallFacts, CallFields DEF Ends
  <1>4. Reading(keys, q.key, q.seen) /\ q.key \notin lag /\ ~q.seen.revoked /\ q.seen.rotatedTo = NoKey
    BY <1>2 DEF CallInv, Concluded
  <1>5. principals' \subseteq Keys /\ UNCHANGED principals
    BY DEF WriteRotation, ApiKeysInv, TypeOK
  <1>6. PICK new : new = Issued(q.seen.restrictions, q.seen.expires, q.key)
    OBVIOUS
  <1>7. new \in Record /\ new.exists /\ new.version = 1 /\ ~new.revoked /\ new.rotatedFrom = q.key /\ new.rotatedTo = NoKey
    <2>1. q.seen.restrictions \in DOMAIN Ceilings /\ q.seen.expires \in 0..Never
      BY <1>3, RecordFields
    <2>2. QED
      BY <1>3, <1>6, <2>1, IssuedFields
  <1>8. "error" \in Ends /\ "error" # "ok" /\ "audit" \in Places /\ "audit" \notin Ends
    BY DEF Ends, Places
  <1>9. At(q, "error") \in Call /\ CallInv(At(q, "error"), keys, lag)
    BY <1>2, <1>8, EndInv
  <1>10. PICK r : r = [q EXCEPT !.pc = "audit"]
    OBVIOUS
  <1>11. r \in Call /\ CallInv(r, keys, lag)
    <2>1. /\ r \in Call /\ r.pc = "audit" /\ r.op = q.op /\ r.by = q.by /\ r.key = q.key /\ r.changes = q.changes
          /\ r.tries = q.tries /\ r.todo = q.todo /\ r.late = q.late /\ r.listed = q.listed /\ r.seen = q.seen
      BY <1>2, <1>8, <1>10, MovedFields
    <2>2. Placed(r) /\ Concluded(r, keys, lag) /\ Stopped(r, keys) /\ Swept(r, keys, lag)
      BY <1>2, <1>3, <1>4, <2>1 DEF Placed, Concluded, HasRead, Stopped, Swept
    <2>3. Checked(r)
      BY <1>2, <2>1 DEF CallInv, Checked
    <2>4. QED
      BY <1>2, <2>1, <2>2, <2>3 DEF CallInv
  <1>12. Goto(c, "error") => call' = [call EXCEPT ![c] = At(q, "error")]
    BY <1>1, <1>8, GotoCall
  <1>13. Goto(c, "audit") => call' = [call EXCEPT ![c] = r]
    BY <1>1, <1>8, <1>10, GotoCall
  <1>14. (Fault => faults' \in 0..MaxFaults) /\ (UNCHANGED faults => faults' \in 0..MaxFaults)
    BY FaultStep DEF ApiKeysInv, TypeOK
  <1>15. ASSUME VersionMatches(q.key, q.seen), NEW k \in Fresh,
                keys' = [keys EXCEPT ![q.key] = Retired(q, k), ![k] = new],
                \/ /\ Goto(c, "audit")
                   /\ copies' = [j \in Keys |-> IF j = k /\ LocalMode THEN new
                                                ELSE IF j = q.key /\ copies[j].exists THEN Retired(q, k)
                                                ELSE copies[j]]
                   /\ UNCHANGED faults
                \/ Fault /\ Goto(c, "error") /\ UNCHANGED copies,
                lag' = IF LocalMode THEN lag \union {k} ELSE lag
         PROVE  ApiKeysInv'
    <2>1. q.seen = keys[q.key] /\ keys[q.key].exists
      BY <1>4, <1>15, MatchIsCurrent
    <2>2. PICK old : old = Retired(q, k)
      OBVIOUS
    <2>3. k \in Keys
      BY DEF Fresh
    <2>4. /\ old \in Record /\ old.exists = q.seen.exists /\ old.version = q.seen.version + 1
          /\ old.rotatedTo = k /\ old.rotatedFrom = q.seen.rotatedFrom
      BY <1>2, <2>2, <2>3, RetiredFields
    <2>5. copies \in [Keys -> Record]
      BY DEF ApiKeysInv, TypeOK
    <2>6. /\ copies' \in [Keys -> Record]
          /\ \A j \in Keys : \/ copies'[j] = copies[j]
                             \/ j = k /\ copies'[j] = new
                             \/ j = q.key /\ copies'[j] = old
      BY <1>7, <1>15, <2>2, <2>4, <2>5
    <2>7. lag' = lag \/ lag' = lag \union {k}
      BY <1>15
    <2>8. keys' = [keys EXCEPT ![q.key] = old, ![k] = new]
      BY <1>15, <2>2
    <2>13. /\ keys' \in [Keys -> Record] /\ keys'[q.key] = old /\ keys'[k] = new
           /\ \A j \in Keys : j # k /\ j # q.key => keys'[j] = keys[j]
      <3>1. keys \in [Keys -> Record] /\ q.key # k
        BY <2>1 DEF ApiKeysInv, TypeOK, Fresh
      <3>2. QED
        BY <1>3, <1>7, <2>3, <2>4, <2>8, <3>1
    <2>9. /\ lag' \subseteq Keys
          /\ Grow(keys, keys') /\ OneReplacement' /\ \A j \in Keys : KeyInv(j)'
          /\ \A j \in lag' : j \in lag \/ ~keys[j].exists
      <3>1. keys[q.key].exists /\ ~keys[q.key].revoked /\ keys[q.key].rotatedTo = NoKey
        BY <1>4, <2>1
      <3>2. old.exists /\ old.version = keys[q.key].version + 1 /\ old.rotatedFrom = keys[q.key].rotatedFrom
        BY <2>1, <2>4
      <3>3. QED
        BY <1>3, <1>4, <1>7, <2>4, <2>6, <2>7, <2>13, <3>1, <3>2, ReplaceKey
    <2>10. PICK d \in Call : call' = [call EXCEPT ![c] = d] /\ CallInv(d, keys, lag)
      BY <1>9, <1>11, <1>12, <1>13, <1>15
    <2>11. faults' \in 0..MaxFaults
      BY <1>14, <1>15
    <2>12. QED
      BY <1>5, <2>6, <2>9, <2>10, <2>11, <2>13, WroteStep
  <1>16. CASE Retry(c) /\ UNCHANGED <<keys, lag, copies, faults>>
    <2>1. PICK d \in Call : call' = [call EXCEPT ![c] = d] /\ CallInv(d, keys, lag)
      BY <1>1, <1>2, <1>16, RetryCall
    <2>2. UNCHANGED <<keys, lag, copies, principals>> /\ faults' \in 0..MaxFaults
      BY <1>5, <1>14, <1>16
    <2>3. QED
      BY <2>1, <2>2, CallStep
  <1>17. CASE Fault /\ Goto(c, "error") /\ UNCHANGED <<keys, lag, copies>>
    <2>1. UNCHANGED <<keys, lag, copies, principals>> /\ faults' \in 0..MaxFaults
      BY <1>5, <1>14, <1>17
    <2>2. QED
      BY <1>9, <1>12, <1>17, <2>1, CallStep
  <1>18. QED
    BY <1>1, <1>6, <1>15, <1>16, <1>17 DEF WriteRotation

LEMMA AuditStep == ASSUME ApiKeysInv, NEW c \in Calls, Audit(c) PROVE ApiKeysInv'
  <1>1. PICK q : q = call[c]
    OBVIOUS
  <1>2. q \in Call /\ CallInv(q, keys, lag) /\ q.pc = "audit" /\ ~q.late /\ q.pc \notin Ends
    BY <1>1, CallFacts DEF Audit, Ends
  <1>3. q.op \in {"revoke", "revokeAll"} => q.key \in Keys /\ Reading(keys, q.key, q.seen) /\ keys[q.key].revoked
    BY <1>1, <1>2, CallFacts DEF CallInv, Concluded, HasRead
  <1>4. UNCHANGED <<keys, lag>> /\ principals' \subseteq Keys
    BY DEF Audit, ApiKeysInv, TypeOK
  <1>5. q.seen \in Record /\ copies \in [Keys -> Record]
    BY <1>2, CallFields DEF ApiKeysInv, TypeOK
  <1>6. "ok" \in Ends /\ "error" \in Ends /\ "error" # "ok"
    BY DEF Ends
  <1>7. PICK r \in Call : call' = [call EXCEPT ![c] = r] /\ CallInv(r, keys, lag)
    <2>1. CASE Finish(c, "ok")
      BY <1>1, <1>2, <1>3, <1>6, <2>1, FinishCall
    <2>2. CASE Finish(c, "error")
      BY <1>1, <1>2, <1>6, <2>2, FinishCall
    <2>3. QED
      BY <2>1, <2>2 DEF Audit
  <1>8. faults' \in 0..MaxFaults
    BY FaultStep DEF Audit, ApiKeysInv, TypeOK
  <1>9. \/ copies' = copies
        \/ q.op \in {"revoke", "revokeAll"} /\ copies' = [copies EXCEPT ![q.key] = q.seen]
    BY <1>1 DEF Audit, Remember
  <1>10. copies' \in [Keys -> Record]
    BY <1>5, <1>9
  <1>11. \A k \in Keys : copies[k].exists => Reading(keys, k, copies[k])
    BY DEF ApiKeysInv, KeyInv
  <1>12. \A k \in Keys : copies'[k].exists => Reading(keys, k, copies'[k])
    BY <1>3, <1>5, <1>9, <1>11
  <1>13. QED
    BY <1>4, <1>7, <1>8, <1>10, <1>12, QuietStep

-----------------------------------------------------------------------------
(* authenticate *)

\* What an authentication finds: the record or a copy of what it was; of a revoked key,
\* the record.
LEMMA FoundFacts ==
  ASSUME ApiKeysInv, NEW k \in Keys
  PROVE  /\ Found(k) \in Record
         /\ Found(k).exists => Reading(keys, k, Found(k))
         /\ keys[k].revoked => ~Active(Found(k))
  <1>1. copies[k] \in Record /\ (copies[k].exists => Reading(keys, k, copies[k]))
    BY DEF ApiKeysInv, TypeOK, KeyInv
  <1>2. QED
    BY <1>1, StoredFacts DEF Found, Active

LEMMA DropCopyFacts ==
  ASSUME ApiKeysInv, NEW k \in Keys, DropCopy(k) \/ copies' = copies
  PROVE  /\ copies' \in [Keys -> Record]
         /\ \A j \in Keys : copies'[j].exists => Reading(keys, j, copies'[j])
  <1>1. copies \in [Keys -> Record] /\ \A j \in Keys : copies[j].exists => Reading(keys, j, copies[j])
    BY DEF ApiKeysInv, TypeOK, KeyInv
  <1>2. copies' = copies \/ copies' = [copies EXCEPT ![k] = AbsentKey]
    BY DEF DropCopy
  <1>3. QED
    BY <1>1, <1>2, AbsentKeyFields

LEMMA FindKeyStep == ASSUME ApiKeysInv, NEW c \in Calls, FindKey(c) PROVE ApiKeysInv'
  <1>1. PICK q : q = call[c]
    OBVIOUS
  <1>2. q \in Call /\ CallInv(q, keys, lag) /\ q.pc = "read" /\ q.op = "authenticate"
    BY <1>1, CallFacts DEF FindKey
  <1>3. q.key \in Keys
    BY <1>2 DEF CallInv, Concluded, Ends
  <1>4. UNCHANGED <<keys, lag>> /\ principals' \subseteq Keys
    BY DEF FindKey, ApiKeysInv, TypeOK
  <1>5. faults' \in 0..MaxFaults
    BY FaultStep DEF FindKey, ApiKeysInv, TypeOK
  <1>6. DropCopy(q.key) \/ copies' = copies
    BY <1>1 DEF FindKey
  <1>7. /\ copies' \in [Keys -> Record]
        /\ \A j \in Keys : copies'[j].exists => Reading(keys, j, copies'[j])
    BY <1>3, <1>6, DropCopyFacts
  <1>8. SUFFICES \E r \in Call : call' = [call EXCEPT ![c] = r] /\ CallInv(r, keys, lag)
    BY <1>4, <1>5, <1>7, QuietStep
  <1>9. PICK f : f = Found(q.key)
    OBVIOUS
  <1>10. f \in Record /\ (f.exists => Reading(keys, q.key, f)) /\ (keys[q.key].revoked => ~Active(f))
    BY <1>3, <1>9, FoundFacts
  <1>11. CASE f.exists /\ Active(f) /\ call' = [call EXCEPT ![c].pc = "write", ![c].seen = f]
    <2>1. ~q.late
      BY <1>2, <1>10, <1>11 DEF CallInv, Stopped, Ends
    <2>2. PICK r : r = [q EXCEPT !.pc = "write", !.seen = f]
      OBVIOUS
    <2>3. call' = [call EXCEPT ![c] = r] /\ "write" \in Places
      BY <1>1, <1>11, <2>2 DEF Places
    <2>4. /\ r \in Call /\ r.pc = "write" /\ r.seen = f
          /\ r.op = q.op /\ r.by = q.by /\ r.key = q.key /\ r.changes = q.changes
          /\ r.tries = q.tries /\ r.todo = q.todo /\ r.late = q.late /\ r.listed = q.listed
      BY <1>2, <1>10, <2>2, <2>3, CallFields
    <2>5. Placed(r) /\ Concluded(r, keys, lag) /\ Stopped(r, keys) /\ Swept(r, keys, lag)
      BY <1>2, <1>3, <1>10, <1>11, <2>1, <2>4 DEF Placed, Concluded, HasRead, Stopped, Swept
    <2>6. Checked(r)
      BY <1>2, <2>4 DEF CallInv, Checked, Gives
    <2>7. CallInv(r, keys, lag)
      BY <1>2, <2>4, <2>5, <2>6 DEF CallInv
    <2>8. QED
      BY <2>3, <2>4, <2>7
  <1>12. ASSUME NEW w \in {"null", "error"}, Goto(c, w)
         PROVE  \E r \in Call : call' = [call EXCEPT ![c] = r] /\ CallInv(r, keys, lag)
    <2>1. w \in Ends /\ w # "ok"
      BY DEF Ends
    <2>2. At(q, w) \in Call /\ CallInv(At(q, w), keys, lag)
      BY <1>2, <2>1, EndInv
    <2>3. QED
      BY <1>1, <1>12, <2>1, <2>2, GotoCall
  <1>13. Retry(c) => \E r \in Call : call' = [call EXCEPT ![c] = r] /\ CallInv(r, keys, lag)
    BY <1>1, <1>2, RetryCall
  <1>14. QED
    BY <1>1, <1>9, <1>11, <1>12, <1>13 DEF FindKey

LEMMA RecordLastUsedStep ==
  ASSUME ApiKeysInv, NEW c \in Calls, RecordLastUsed(c)
  PROVE  ApiKeysInv'
  <1>1. PICK q : q = call[c]
    OBVIOUS
  <1>2. q \in Call /\ CallInv(q, keys, lag) /\ q.pc = "write" /\ q.op = "authenticate" /\ ~q.late
    BY <1>1, CallFacts DEF RecordLastUsed, Ends
  <1>3. q.key \in Keys /\ q.seen \in Record /\ Reading(keys, q.key, q.seen)
    BY <1>2, CallFields DEF CallInv, Concluded, HasRead, Ends
  <1>4. principals' \subseteq Keys
    BY <1>1, <1>3 DEF RecordLastUsed, ApiKeysInv, TypeOK
  <1>5. lag' = lag
    BY DEF RecordLastUsed
  <1>6. faults' \in 0..MaxFaults
    BY FaultStep DEF RecordLastUsed, ApiKeysInv, TypeOK
  <1>7. "ok" \in Ends
    BY DEF Ends
  <1>8. PICK r \in Call : call' = [call EXCEPT ![c] = r] /\ CallInv(r, keys, lag)
    <2>1. CASE Goto(c, "ok")
      <3>1. At(q, "ok") \in Call /\ CallInv(At(q, "ok"), keys, lag)
        BY <1>2, <1>7, EndInv
      <3>2. QED
        BY <1>1, <1>7, <2>1, <3>1, GotoCall
    <2>2. CASE Retry(c)
      BY <1>1, <1>2, <2>2, RetryCall
    <2>3. QED
      BY <2>1, <2>2 DEF RecordLastUsed
  <1>9. PICK n \in Nat : n = q.seen.version + 1
    BY <1>3, RecordFields
  <1>10. PICK used : used = [q.seen EXCEPT !.version = n]
    OBVIOUS
  <1>11. /\ used \in Record /\ used.exists = q.seen.exists /\ used.version = n /\ used.revoked = q.seen.revoked
         /\ used.rotatedTo = q.seen.rotatedTo /\ used.rotatedFrom = q.seen.rotatedFrom
    BY <1>3, <1>9, <1>10, RecordFields
  <1>12. CASE /\ q.key \notin lag /\ VersionMatches(q.key, q.seen)
              /\ keys' = [keys EXCEPT ![q.key] = used]
              /\ copies' = copies \/ copies' = [copies EXCEPT ![q.key] = used]
    <2>1. q.seen = keys[q.key] /\ keys[q.key].exists
      BY <1>3, <1>12, MatchIsCurrent
    <2>2. /\ used.exists /\ used.version = keys[q.key].version + 1
          /\ keys[q.key].revoked => used.revoked
          /\ used.rotatedTo = keys[q.key].rotatedTo /\ used.rotatedFrom = keys[q.key].rotatedFrom
      BY <1>9, <1>11, <2>1
    <2>3. /\ keys' \in [Keys -> Record] /\ copies' \in [Keys -> Record] /\ lag' \subseteq Keys
          /\ Grow(keys, keys') /\ OneReplacement' /\ \A j \in Keys : KeyInv(j)'
          /\ \A j \in lag' : j \in lag \/ ~keys[j].exists
      BY <1>3, <1>5, <1>11, <1>12, <2>1, <2>2, RewriteKey
    <2>4. QED
      BY <1>4, <1>6, <1>8, <2>3, WroteStep
  <1>13. CASE UNCHANGED <<keys, copies>>
    <2>1. copies' \in [Keys -> Record] /\ UNCHANGED <<keys, lag>>
      BY <1>5, <1>13 DEF ApiKeysInv, TypeOK
    <2>2. \A k \in Keys : copies'[k].exists => Reading(keys, k, copies'[k])
      BY <1>13 DEF ApiKeysInv, KeyInv
    <2>3. QED
      BY <1>4, <1>6, <1>8, <2>1, <2>2, QuietStep
  <1>14. QED
    BY <1>1, <1>9, <1>10, <1>12, <1>13 DEF RecordLastUsed, Remember

LEMMA LastReadStep == ASSUME ApiKeysInv, NEW c \in Calls, LastRead(c) PROVE ApiKeysInv'
  <1>1. PICK q : q = call[c]
    OBVIOUS
  <1>2. q \in Call /\ CallInv(q, keys, lag) /\ q.pc = "last"
    BY <1>1, CallFacts DEF LastRead
  <1>3. q.op = "authenticate" /\ q.key \in Keys
    BY <1>2, CallFields DEF CallInv, Placed, Concluded, Ends
  <1>4. UNCHANGED <<keys, lag>> /\ principals' \subseteq Keys
    BY <1>1, <1>3 DEF LastRead, ApiKeysInv, TypeOK
  <1>5. faults' \in 0..MaxFaults
    BY FaultStep DEF LastRead, ApiKeysInv, TypeOK
  <1>6. DropCopy(q.key) \/ copies' = copies
    BY <1>1 DEF LastRead
  <1>7. /\ copies' \in [Keys -> Record]
        /\ \A j \in Keys : copies'[j].exists => Reading(keys, j, copies'[j])
    BY <1>3, <1>6, DropCopyFacts
  <1>8. PICK w \in {"ok", "null"} : Goto(c, w) /\ (w = "ok" => Active(Found(q.key)))
    BY <1>1 DEF LastRead
  <1>9. q.late => w # "ok"
    BY <1>2, <1>3, <1>8, FoundFacts DEF CallInv, Stopped, Ends
  <1>10. w \in Ends
    BY DEF Ends
  <1>11. At(q, w) \in Call /\ CallInv(At(q, w), keys, lag)
    BY <1>2, <1>3, <1>9, <1>10, EndInv
  <1>12. call' = [call EXCEPT ![c] = At(q, w)]
    BY <1>1, <1>8, <1>10, GotoCall
  <1>13. QED
    BY <1>4, <1>5, <1>7, <1>11, <1>12, QuietStep

-----------------------------------------------------------------------------
(* The store catches up, and time passes *)

LEMMA EndLagStep == ASSUME ApiKeysInv, NEW k \in Keys, EndLag(k) PROVE ApiKeysInv'
  <1>1. TypeOK /\ keys \in [Keys -> Record] /\ UNCHANGED <<keys, copies, principals, call, faults>>
    BY DEF ApiKeysInv, TypeOK, EndLag
  <1>2. lag' \subseteq lag /\ lag' \subseteq Keys
    BY <1>1 DEF EndLag, TypeOK
  <1>3. TypeOK'
    BY <1>1, <1>2 DEF TypeOK
  <1>4. \A j \in Keys : KeyInv(j)'
    BY <1>1, <1>2 DEF ApiKeysInv, KeyInv
  <1>5. OneReplacement'
    BY <1>1 DEF ApiKeysInv, OneReplacement
  <1>6. Grow(keys, keys)
    BY DEF Grow
  <1>7. ASSUME NEW c \in Calls PROVE CallInv(call[c], keys, lag')
    BY <1>1, <1>2, <1>6, GrowKeepsCall DEF ApiKeysInv, TypeOK
  <1>8. QED
    BY <1>1, <1>3, <1>4, <1>5, <1>7 DEF ApiKeysInv

LEMMA ElapsedFacts ==
  ASSUME NEW d \in 0..Never, NEW e \in 0..Never
  PROVE  Elapsed(e) \in 0..Never /\ Elapsed(e) <= e /\ (d <= e => Elapsed(d) <= Elapsed(e))
  BY ApiKeysAssumption DEF Elapsed, Never

LEMMA OlderFields ==
  ASSUME NEW k \in Record, NEW r, r = Older(k)
  PROVE  /\ r \in Record /\ r.exists = k.exists /\ r.version = k.version /\ r.revoked = k.revoked
         /\ r.expires = Elapsed(k.expires) /\ r.restrictions = k.restrictions
         /\ r.rotatedTo = k.rotatedTo /\ r.rotatedFrom = k.rotatedFrom
  <1>1. PICK e \in 0..Never : e = Elapsed(k.expires)
    BY RecordFields, ElapsedFacts
  <1>2. r = [k EXCEPT !.expires = e]
    BY <1>1 DEF Older
  <1>3. QED
    BY <1>1, <1>2, RecordFields

LEMMA OlderReading ==
  ASSUME NEW K \in [Keys -> Record], NEW K2, K2 = [j \in Keys |-> Older(K[j])],
         NEW k \in Keys, NEW s \in Record, Reading(K, k, s)
  PROVE  Reading(K2, k, Older(s))
  <1>1. K2[k] = Older(K[k]) /\ K[k] \in Record
    OBVIOUS
  <1>2. /\ Older(s).exists = s.exists /\ Older(s).version = s.version
        /\ K2[k].exists = K[k].exists /\ K2[k].version = K[k].version
    BY <1>1, OlderFields
  <1>3. s = K[k] => Older(s) = K2[k]
    BY <1>1
  <1>4. QED
    BY <1>2, <1>3 DEF Reading

LEMMA AgedFields ==
  ASSUME NEW q \in Call, NEW s \in Record, NEW a \in Record, NEW e \in 0..Never
  PROVE  [q EXCEPT !.seen = s, !.caller = a, !.expires = e] \in Call
  BY CallFields

\* All expiry dates come nearer together: what is known of a call stays known.
LEMMA OlderCall ==
  ASSUME NEW K \in [Keys -> Record], NEW K2, K2 = [j \in Keys |-> Older(K[j])], NEW L,
         NEW q \in Call, CallInv(q, K, L), NEW r,
         r = [q EXCEPT !.seen = Older(@), !.caller = Older(@), !.expires = Elapsed(@)]
  PROVE  r \in Call /\ CallInv(r, K2, L)
  <1>1. q.seen \in Record /\ q.caller \in Record /\ q.expires \in 0..Never
    BY CallFields
  <1>2. PICK s \in Record : /\ s = Older(q.seen) /\ s.expires = Elapsed(q.seen.expires)
                            /\ s.revoked = q.seen.revoked /\ s.rotatedTo = q.seen.rotatedTo
                            /\ s.restrictions = q.seen.restrictions
    BY <1>1, OlderFields
  <1>3. PICK a \in Record : /\ a = Older(q.caller) /\ a.expires = Elapsed(q.caller.expires)
                            /\ a.restrictions = q.caller.restrictions
    BY <1>1, OlderFields
  <1>4. PICK e \in 0..Never : e = Elapsed(q.expires)
    BY <1>1, ElapsedFacts
  <1>5. r = [q EXCEPT !.seen = s, !.caller = a, !.expires = e]
    BY <1>2, <1>3, <1>4
  <1>6. /\ r \in Call /\ r.pc = q.pc /\ r.op = q.op /\ r.by = q.by /\ r.key = q.key /\ r.changes = q.changes
        /\ r.tries = q.tries /\ r.todo = q.todo /\ r.late = q.late /\ r.listed = q.listed
        /\ r.seen = s /\ r.caller = a /\ r.expires = e /\ r.restrictions = q.restrictions
    <2>1. [q EXCEPT !.seen = s, !.caller = a, !.expires = e] \in Call
      BY AgedFields
    <2>2. /\ r.pc = q.pc /\ r.op = q.op /\ r.by = q.by /\ r.key = q.key /\ r.changes = q.changes
          /\ r.tries = q.tries /\ r.todo = q.todo /\ r.late = q.late /\ r.listed = q.listed
      BY <1>5, CallFields
    <2>3. r.seen = s /\ r.caller = a /\ r.expires = e /\ r.restrictions = q.restrictions
      BY <1>5, CallFields
    <2>4. QED
      BY <1>5, <2>1, <2>2, <2>3
  <1>7. \A k \in Keys : /\ K2[k].exists = K[k].exists /\ K2[k].revoked = K[k].revoked
                        /\ K2[k] = Older(K[k])
    BY OlderFields
  <1>8. q.key \in Keys \union {NoKey} /\ q.by \in Keys \union {Host} /\ q.todo \subseteq Keys /\ q.listed \subseteq Keys
    BY CallFields
  <1>9. HasRead(q) \/ (q.pc = "audit" /\ q.op \in {"revoke", "revokeAll"}) => q.key \in Keys
    <2>1. CASE q.op \in {"none", "create", "use"}
      BY <2>1 DEF CallInv, Placed, HasRead, Ends
    <2>2. CASE q.op = "revokeAll"
      BY <1>8, <2>2 DEF CallInv, Placed, Concluded, HasRead, Ends
    <2>3. CASE q.op \in {"update", "rotate", "revoke", "authenticate"}
      BY <2>3 DEF CallInv, Concluded, HasRead, Ends
    <2>4. QED
      BY <2>1, <2>2, <2>3, CallFields
  <1>10. HasRead(r) <=> HasRead(q)
    BY <1>6 DEF HasRead
  <1>11. HasRead(q) => Reading(K2, q.key, s)
    <2>1. SUFFICES ASSUME HasRead(q) PROVE Reading(K2, q.key, s)
      OBVIOUS
    <2>2. Reading(K, q.key, q.seen) /\ q.key \in Keys
      BY <1>9, <2>1 DEF CallInv, Concluded
    <2>3. Reading(K2, q.key, Older(q.seen))
      BY <1>1, <2>2, OlderReading
    <2>4. QED
      BY <1>2, <2>3
  <1>12. Concluded(r, K2, L)
    <2>1. Concluded(q, K, L)
      BY DEF CallInv
    <2>2. q.pc = "audit" /\ q.op \in {"revoke", "revokeAll"} => K2[q.key].revoked
      BY <1>7, <1>9, <2>1 DEF Concluded
    <2>3. QED
      BY <1>2, <1>6, <1>10, <1>11, <2>1, <2>2 DEF Concluded
  <1>13. Placed(r) /\ (r.pc # "last" => r.tries < MaxTries)
    BY <1>6 DEF CallInv, Placed
  <1>14. Stopped(r, K2)
    <2>1. Stopped(q, K) /\ Concluded(q, K, L)
      BY DEF CallInv
    <2>2. QED
      BY <1>6, <1>7, <1>8, <2>1 DEF Stopped, Concluded
  <1>15. Swept(r, K2, L)
    BY <1>6, <1>7, <1>8 DEF CallInv, Swept
  <1>16. Checked(r)
    <2>1. /\ Intended(r).restrictions = Intended(q).restrictions
          /\ Intended(r).expires = Elapsed(Intended(q).expires)
          /\ Intended(q).expires \in 0..Never
      <3>1. q.seen.expires \in 0..Never
        BY <1>1, RecordFields
      <3>2. CASE q.op = "create"
        BY <1>1, <1>4, <1>6, <3>2 DEF Intended
      <3>3. CASE q.op = "update"
        BY <1>1, <1>2, <1>4, <1>6, <3>1, <3>3 DEF Intended
      <3>4. CASE q.op \notin {"create", "update"}
        BY <1>2, <1>6, <3>1, <3>4 DEF Intended
      <3>5. QED
        BY <3>2, <3>3, <3>4
    <2>2. q.caller.expires \in 0..Never
      BY <1>1, RecordFields
    <2>3. Intended(q).expires <= q.caller.expires => Intended(r).expires <= a.expires
      BY <1>3, <2>1, <2>2, ElapsedFacts
    <2>4. Gives(r) <=> Gives(q)
      BY <1>6 DEF Gives
    <2>5. QED
      BY <1>3, <1>6, <2>1, <2>3, <2>4 DEF CallInv, Checked
  <1>17. QED
    BY <1>6, <1>12, <1>13, <1>14, <1>15, <1>16 DEF CallInv

LEMMA TickStep == ASSUME ApiKeysInv, Tick PROVE ApiKeysInv'
  <1>1. /\ keys \in [Keys -> Record] /\ copies \in [Keys -> Record] /\ call \in [Calls -> Call]
        /\ lag' = lag /\ lag' \subseteq Keys /\ principals' \subseteq Keys /\ faults' \in 0..MaxFaults
    BY DEF ApiKeysInv, TypeOK, Tick
  <1>2. keys' = [k \in Keys |-> Older(keys[k])] /\ copies' = [k \in Keys |-> Older(copies[k])]
    BY DEF Tick
  <1>3. \A k \in Keys : Older(keys[k]) \in Record /\ Older(copies[k]) \in Record
    BY <1>1, OlderFields
  <1>4. keys' \in [Keys -> Record] /\ copies' \in [Keys -> Record]
    BY <1>2, <1>3
  <1>5. ASSUME NEW c \in Calls PROVE call'[c] \in Call /\ CallInv(call'[c], keys', lag')
    <2>1. PICK q \in Call : q = call[c] /\ CallInv(q, keys, lag)
      BY <1>1 DEF ApiKeysInv
    <2>2. call'[c] = [q EXCEPT !.seen = Older(@), !.caller = Older(@), !.expires = Elapsed(@)]
      BY <2>1 DEF Tick
    <2>3. QED
      BY <1>1, <1>2, <2>1, <2>2, OlderCall
  <1>6. call' \in [Calls -> Call]
    <2>1. call' = [c \in Calls |-> call'[c]]
      BY DEF Tick
    <2>2. QED
      BY <1>5, <2>1
  <1>7. TypeOK'
    BY <1>1, <1>4, <1>6 DEF TypeOK
  <1>8. \A k \in Keys : /\ keys'[k].exists = keys[k].exists /\ keys'[k].revoked = keys[k].revoked
                        /\ keys'[k].rotatedTo = keys[k].rotatedTo /\ keys'[k].rotatedFrom = keys[k].rotatedFrom
    BY <1>1, <1>2, OlderFields
  <1>9. OneReplacement'
    BY <1>8 DEF ApiKeysInv, OneReplacement
  <1>10. ASSUME NEW k \in Keys PROVE KeyInv(k)'
    <2>1. KeyInv(k) /\ keys[k] \in Record /\ copies[k] \in Record
      BY <1>1 DEF ApiKeysInv
    <2>2. keys[k] = AbsentKey => keys'[k] = AbsentKey
      BY <1>2 DEF AbsentKey, Older, Elapsed
    <2>3. copies'[k] = Older(copies[k]) /\ copies'[k].exists = copies[k].exists
      BY <1>2, <2>1, OlderFields
    <2>4. copies[k].exists => Reading(keys', k, copies'[k])
      BY <1>1, <1>2, <2>1, <2>3, OlderReading DEF KeyInv
    <2>5. QED
      BY <1>1, <1>8, <2>1, <2>2, <2>3, <2>4 DEF KeyInv
  <1>11. QED
    BY <1>5, <1>7, <1>9, <1>10 DEF ApiKeysInv

LEMMA InitInv == ASSUME Init PROVE ApiKeysInv
  <1>1. PICK q : q = NoCall
    OBVIOUS
  <1>2. /\ q \in Call /\ q.op = "none" /\ q.pc = "new" /\ q.changes = {} /\ q.tries = 0 /\ ~q.late
    <2>1. PICK e \in 0..Never : e = Never
      BY ApiKeysAssumption DEF Never
    <2>2. "new" \in Places /\ 0 \in 0..MaxTries /\ "none" \in DOMAIN Ceilings
      BY ApiKeysAssumption DEF Places
    <2>3. q = [op |-> "none", by |-> Host, key |-> NoKey, changes |-> {}, restrictions |-> "none",
               expires |-> e, overlap |-> 0, pc |-> "new", seen |-> AbsentKey, tries |-> 0, todo |-> {},
               caller |-> AbsentKey, late |-> FALSE, listed |-> {}]
      BY <1>1, <2>1 DEF NoCall
    <2>4. QED
      BY <2>2, <2>3, CallFields, AbsentKeyFields
  <1>3. CallInv(q, keys, lag)
    <2>1. Placed(q) /\ Concluded(q, keys, lag) /\ Stopped(q, keys) /\ Swept(q, keys, lag) /\ Checked(q)
      BY <1>2 DEF Placed, Concluded, HasRead, Stopped, Swept, Checked
    <2>2. QED
      BY <1>2, <2>1, ApiKeysAssumption DEF CallInv
  <1>4. ASSUME NEW k \in Keys
        PROVE  /\ keys[k] \in Record /\ keys[k].rotatedFrom = NoKey /\ keys[k].rotatedTo = NoKey
               /\ keys[k].exists \/ keys[k] = AbsentKey
    <2>1. CASE k \in DOMAIN InitialKeys
      <3>1. keys[k] = Issued(InitialKeys[k], Never, NoKey)
        BY <2>1 DEF Init
      <3>2. InitialKeys[k] \in DOMAIN Ceilings /\ Never \in 0..Never
        BY <2>1, ApiKeysAssumption DEF Never
      <3>3. QED
        BY <3>1, <3>2, IssuedFields
    <2>2. CASE k \notin DOMAIN InitialKeys
      BY <2>2, AbsentKeyFields DEF Init
    <2>3. QED
      BY <2>1, <2>2
  <1>5. keys \in [Keys -> Record]
    <2>1. keys = [k \in Keys |-> keys[k]]
      BY DEF Init
    <2>2. QED
      BY <1>4, <2>1
  <1>6. TypeOK
    BY <1>1, <1>2, <1>5, ApiKeysAssumption, AbsentKeyFields DEF Init, TypeOK
  <1>7. \A k \in Keys : KeyInv(k)
    BY <1>4, AbsentKeyFields DEF Init, KeyInv
  <1>8. OneReplacement
    BY <1>4, ApiKeysAssumption DEF OneReplacement
  <1>9. QED
    BY <1>1, <1>3, <1>6, <1>7, <1>8 DEF Init, ApiKeysInv

LEMMA NextInv == ASSUME ApiKeysInv, [Next]_vars PROVE ApiKeysInv'
  <1>1. CASE UNCHANGED vars
    BY <1>1 DEF vars, ApiKeysInv, TypeOK, KeyInv, OneReplacement
  <1>2. ASSUME NEW c \in Calls, Begin(c) \/ Continue(c) PROVE ApiKeysInv'
    BY <1>2, BeginStep, AuthorizeStep, ReadKeyStep, AssertWithinCallerStep, WriteKeyStep,
       WriteRotationStep, EnterStep, WriteCreationStep, AuditStep, RevokeNextStep, FindKeyStep,
       RecordLastUsedStep, LastReadStep DEF Continue
  <1>3. QED
    BY <1>1, <1>2, EndLagStep, TickStep DEF Next

\* The inductive invariant holds in every reachable state: a reading a call goes on with
\* is what its key was, and still is unless it was written since.
THEOREM ApiKeysInvariance == Spec => []ApiKeysInv
  <1>1. Init => ApiKeysInv
    BY InitInv
  <1>2. ApiKeysInv /\ [Next]_vars => ApiKeysInv'
    BY NextInv
  <1>3. QED
    BY <1>1, <1>2, PTL DEF Spec

\* For any number of keys, calls, faults and attempts: a key has one replacement and
\* names it, a key that was revoked before a call began neither authenticates nor is
\* used by it, and revokeAll leaves no key of its list unrevoked
\* (rotate, enforceCredential, authenticateApiKey, revokeAllApiKeys).
THEOREM KeysSoundAlways == Spec => []KeysSound
  <1>1. ApiKeysInv => KeysSound
    <2>1. SUFFICES ASSUME ApiKeysInv PROVE KeysSound
      OBVIOUS
    <2>2. ASSUME NEW c \in Calls
          PROVE  /\ call[c].late => call[c].pc # "ok"
                 /\ call[c].op = "revokeAll" /\ call[c].pc = "ok" => \A k \in call[c].listed : keys[k].revoked
      BY <2>1 DEF ApiKeysInv, CallInv, Stopped, Swept
    <2>3. QED
      BY <2>1, <2>2 DEF ApiKeysInv, KeysSound, NoUseAfterRevoke, SweepComplete
  <1>2. QED
    BY <1>1, ApiKeysInvariance, PTL

-----------------------------------------------------------------------------
(* What a step may do to a key *)

\* A call writes the record of an existing key, of a new one, or of both.
Writes(c) ==
  LET q == call[c] IN
  /\ q.pc = "write"
  /\ \/ /\ q.op \in {"update", "revoke", "revokeAll"} /\ VersionMatches(q.key, q.seen)
        /\ keys' = [keys EXCEPT ![q.key] = Changed(q)]
        /\ call'[c].pc # "write"
     \/ /\ q.op = "rotate" /\ VersionMatches(q.key, q.seen)
        /\ \E k \in Fresh : keys' = [keys EXCEPT ![q.key] = Retired(q, k),
                                                 ![k] = Issued(q.seen.restrictions, q.seen.expires, q.key)]
     \/ /\ q.op = "create"
        /\ \E k \in Fresh : keys' = [keys EXCEPT ![k] = Issued(q.restrictions, q.expires, NoKey)]
     \/ /\ q.op = "authenticate" /\ VersionMatches(q.key, q.seen)
        /\ keys' = [keys EXCEPT ![q.key] = [q.seen EXCEPT !.version = @ + 1]]

\* Nothing else writes a key, and a step of one call leaves the others alone.
LEMMA OnlyWrites ==
  ASSUME ApiKeysInv, Next
  PROVE  \/ UNCHANGED keys
         \/ Tick
         \/ \E c \in Calls : Writes(c) /\ \A d \in Calls : d # c => call'[d] = call[d]
  <1>1. call \in [Calls -> Call]
    BY DEF ApiKeysInv, TypeOK
  <1>2. ASSUME NEW c \in Calls, NEW w, call' = [call EXCEPT ![c] = w]
        PROVE  (\A d \in Calls : d # c => call'[d] = call[d]) /\ call'[c] = w
    BY <1>1, <1>2
  <1>3. ASSUME NEW c \in Calls, Begin(c) PROVE UNCHANGED keys
    BY <1>3 DEF Begin, StartCreate, StartUpdate, StartRotate, StartRevoke, StartRevokeAll, StartUse,
                StartAuthenticate, Start
  <1>4. ASSUME NEW c \in Calls, WriteKey(c), keys' # keys
        PROVE  Writes(c) /\ \A d \in Calls : d # c => call'[d] = call[d]
    <2>1. CASE call' = [call EXCEPT ![c].pc = "audit", ![c].seen = Changed(call[c])]
      <3>1. PICK r : r = [call[c] EXCEPT !.pc = "audit", !.seen = Changed(call[c])]
        OBVIOUS
      <3>2. r.pc = "audit"
        BY <1>1, <3>1, CallFields
      <3>3. call' = [call EXCEPT ![c] = r]
        BY <2>1, <3>1
      <3>4. QED
        BY <1>2, <1>4, <3>2, <3>3 DEF WriteKey, Writes
    <2>2. CASE Goto(c, "error") /\ VersionMatches(call[c].key, call[c].seen)
               /\ keys' = [keys EXCEPT ![call[c].key] = Changed(call[c])]
      <3>1. "error" \in Ends
        BY DEF Ends
      <3>2. call' = [call EXCEPT ![c] = At(call[c], "error")]
        BY <2>2, <3>1, GotoCall
      <3>3. At(call[c], "error").pc = "error"
        BY <1>1, <3>1, EndedFields
      <3>4. QED
        BY <1>2, <1>4, <2>2, <3>2, <3>3 DEF WriteKey, Writes
    <2>3. QED
      BY <1>4, <2>1, <2>2 DEF WriteKey
  <1>5. ASSUME NEW c \in Calls, WriteRotation(c) \/ WriteCreation(c) \/ RecordLastUsed(c), keys' # keys
        PROVE  Writes(c) /\ \A d \in Calls : d # c => call'[d] = call[d]
    <2>1. Writes(c)
      BY <1>5 DEF WriteRotation, WriteCreation, RecordLastUsed, Writes
    <2>2. \E w : call' = [call EXCEPT ![c] = w]
      BY <1>5 DEF WriteRotation, WriteCreation, RecordLastUsed, Goto, Retry, TryAgain
    <2>3. QED
      BY <1>2, <2>1, <2>2
  <1>6. ASSUME NEW c \in Calls, Continue(c), keys' # keys
        PROVE  Writes(c) /\ \A d \in Calls : d # c => call'[d] = call[d]
    BY <1>4, <1>5, <1>6 DEF Continue, Authorize, ReadKey, AssertWithinCaller, EnterCreation, Audit, RevokeNext,
                            EnterAuthentication, FindKey, LastRead
  <1>7. ASSUME NEW k \in Keys, EndLag(k) PROVE UNCHANGED keys
    BY <1>7 DEF EndLag
  <1>8. QED
    BY <1>3, <1>6, <1>7 DEF Next

\* What a key's principal writes lies within what its key was when it was looked at.
Narrow(new, q) ==
  q.by # Host /\ Gives(q) =>
    /\ new.expires <= q.caller.expires
    /\ Within(Ceilings[new.restrictions], Ceilings[q.caller.restrictions])

LEMMA WrittenKey ==
  ASSUME ApiKeysInv, NEW c \in Calls, Writes(c), NEW k \in Keys, keys'[k] # keys[k]
  PROVE  /\ keys[k].revoked => keys'[k].revoked
         /\ Narrow(keys'[k], call[c])
         /\ keys[k].exists /\ keys'[k].expires > keys[k].expires =>
              call[c].op = "update" /\ call[c].key = k /\ call[c].pc = "write" /\ call'[c].pc # "write"
  <1>1. PICK q : q = call[c]
    OBVIOUS
  <1>2. q \in Call /\ CallInv(q, keys, lag) /\ q.pc = "write" /\ keys \in [Keys -> Record]
    BY <1>1, CallFacts DEF Writes, ApiKeysInv, TypeOK
  <1>3. q.seen \in Record /\ q.caller \in Record /\ keys[k] \in Record
    BY <1>2, CallFields
  <1>4. /\ q.seen.expires \in 0..Never /\ q.caller.expires \in 0..Never /\ keys[k].expires \in 0..Never
        /\ q.seen.restrictions \in DOMAIN Ceilings /\ q.restrictions \in DOMAIN Ceilings
        /\ q.expires \in 0..Never
    BY <1>2, <1>3, RecordFields, CallFields
  <1>5. /\ q.changes # {} => q.op = "update"
        /\ q.by # Host /\ Gives(q) =>
             /\ Within(Ceilings[Intended(q).restrictions], Ceilings[q.caller.restrictions])
             /\ Intended(q).expires <= q.caller.expires
    BY <1>2 DEF CallInv, Checked
  <1>6. CASE /\ q.op \in {"update", "revoke", "revokeAll"} /\ VersionMatches(q.key, q.seen)
             /\ keys' = [keys EXCEPT ![q.key] = Changed(q)]
             /\ call'[c].pc # "write"
    <2>1. q.key = k /\ keys'[k] = Changed(q)
      BY <1>2, <1>6
    <2>2. q.seen = keys[k]
      BY <1>2, <1>6, <2>1, MatchIsCurrent DEF CallInv, Concluded, HasRead
    <2>3. PICK new : new = Changed(q)
      OBVIOUS
    <2>4. /\ q.seen.revoked => new.revoked
          /\ q.op # "update" => new.revoked /\ new.expires = q.seen.expires
          /\ q.op = "update" => new.restrictions = Intended(q).restrictions /\ new.expires = Intended(q).expires
      BY <1>2, <1>6, <2>3, ChangedFields
    <2>5. Narrow(new, q)
      BY <1>5, <1>6, <2>4 DEF Narrow, Gives
    <2>6. q.op # "update" => ~(new.expires > keys[k].expires)
      BY <1>4, <2>2, <2>4
    <2>7. QED
      BY <1>1, <1>2, <1>6, <2>1, <2>2, <2>3, <2>4, <2>5, <2>6
  <1>7. CASE q.op = "rotate" /\ VersionMatches(q.key, q.seen)
             /\ \E j \in Fresh : keys' = [keys EXCEPT ![q.key] = Retired(q, j),
                                                ![j] = Issued(q.seen.restrictions, q.seen.expires, q.key)]
    <2>1. PICK j \in Fresh : keys' = [keys EXCEPT ![q.key] = Retired(q, j),
                                                ![j] = Issued(q.seen.restrictions, q.seen.expires, q.key)]
      BY <1>7
    <2>2. j \in Keys /\ ~keys[j].exists /\ q.key \in Keys /\ ~keys[j].revoked
      BY <1>1, <1>2, <1>7, CallFacts, StoredFacts DEF Fresh, HasRead, Ends
    <2>3. q.seen = keys[q.key] /\ keys[q.key].exists /\ ~q.seen.revoked
      BY <1>2, <1>7, MatchIsCurrent DEF CallInv, Concluded, HasRead
    <2>4. Intended(q).restrictions = q.seen.restrictions /\ Intended(q).expires = q.seen.expires
      BY <1>7 DEF Intended
    <2>5. CASE k = j
      <3>1. PICK new : new = Issued(q.seen.restrictions, q.seen.expires, q.key)
        OBVIOUS
      <3>2. new.restrictions = q.seen.restrictions /\ new.expires = q.seen.expires
        BY <1>4, <2>2, <3>1, IssuedFields
      <3>3. keys'[k] = new
        BY <1>2, <2>1, <2>2, <2>5, <3>1
      <3>4. Narrow(new, q)
        BY <1>5, <2>4, <3>2 DEF Narrow
      <3>5. QED
        BY <1>1, <2>2, <2>5, <3>3, <3>4
    <2>6. CASE k # j
      <3>1. k = q.key /\ keys'[k] = Retired(q, j)
        BY <1>2, <2>1, <2>2, <2>6
      <3>2. PICK old : old = Retired(q, j)
        OBVIOUS
      <3>3. old \in Record /\ old.restrictions = q.seen.restrictions /\ old.expires <= q.seen.expires
        BY <1>2, <2>2, <3>2, RetiredFields
      <3>4. old.expires \in 0..Never
        BY <3>3, RecordFields
      <3>5. Narrow(old, q)
        BY <1>4, <1>5, <2>4, <3>3, <3>4 DEF Narrow
      <3>6. ~(old.expires > keys[k].expires) /\ ~keys[k].revoked
        BY <1>4, <2>3, <3>1, <3>3, <3>4
      <3>7. QED
        BY <1>1, <3>1, <3>2, <3>5, <3>6
    <2>7. QED
      BY <2>5, <2>6
  <1>8. CASE q.op = "create" /\ \E j \in Fresh : keys' = [keys EXCEPT ![j] = Issued(q.restrictions, q.expires, NoKey)]
    <2>1. PICK j \in Fresh : keys' = [keys EXCEPT ![j] = Issued(q.restrictions, q.expires, NoKey)]
      BY <1>8
    <2>2. j \in Keys /\ ~keys[j].exists /\ ~keys[j].revoked
      BY StoredFacts DEF Fresh
    <2>3. PICK new : new = Issued(q.restrictions, q.expires, NoKey)
      OBVIOUS
    <2>4. k = j /\ keys'[k] = new
      BY <1>2, <2>1, <2>2, <2>3
    <2>5. new.restrictions = Intended(q).restrictions /\ new.expires = Intended(q).expires
      BY <1>4, <1>8, <2>3, IssuedFields DEF Intended
    <2>6. Narrow(new, q)
      BY <1>5, <2>5 DEF Narrow
    <2>7. QED
      BY <1>1, <2>2, <2>4, <2>6
  <1>9. CASE q.op = "authenticate" /\ VersionMatches(q.key, q.seen)
             /\ keys' = [keys EXCEPT ![q.key] = [q.seen EXCEPT !.version = @ + 1]]
    <2>1. PICK new : new = [q.seen EXCEPT !.version = @ + 1]
      OBVIOUS
    <2>2. k = q.key /\ keys'[k] = new
      BY <1>2, <1>9, <2>1
    <2>3. q.seen = keys[k]
      BY <1>2, <1>9, <2>2, MatchIsCurrent DEF CallInv, Concluded, HasRead
    <2>4. new.revoked = q.seen.revoked /\ new.expires = q.seen.expires
      BY <1>3, <2>1, RecordFields
    <2>5. Narrow(new, q)
      BY <1>5, <1>9 DEF Narrow, Gives
    <2>6. ~(new.expires > keys[k].expires)
      BY <1>4, <2>3, <2>4
    <2>7. QED
      BY <1>1, <2>2, <2>3, <2>4, <2>5, <2>6
  <1>10. QED
    BY <1>1, <1>6, <1>7, <1>8, <1>9 DEF Writes

\* Time brings nothing back and gives no time.
LEMMA TickNarrows ==
  ASSUME ApiKeysInv, Tick
  PROVE  /\ \A k \in Keys : (keys[k].revoked => keys'[k].revoked) /\ ~(keys'[k].expires > keys[k].expires)
         /\ \A c \in Calls : call'[c].pc = call[c].pc
  <1>1. keys \in [Keys -> Record] /\ call \in [Calls -> Call]
    BY DEF ApiKeysInv, TypeOK
  <1>2. ASSUME NEW k \in Keys PROVE (keys[k].revoked => keys'[k].revoked) /\ ~(keys'[k].expires > keys[k].expires)
    <2>1. PICK s \in Record : s = keys[k]
      BY <1>1
    <2>2. keys'[k] = Older(s)
      BY <2>1 DEF Tick
    <2>3. Older(s).revoked = s.revoked /\ Older(s).expires = Elapsed(s.expires)
      BY OlderFields
    <2>4. s.expires \in 0..Never
      BY RecordFields
    <2>5. Elapsed(s.expires) <= s.expires /\ Elapsed(s.expires) \in 0..Never
      BY <2>4, ElapsedFacts
    <2>6. QED
      BY <2>1, <2>2, <2>3, <2>4, <2>5
  <1>3. ASSUME NEW c \in Calls PROVE call'[c].pc = call[c].pc
    <2>1. PICK q \in Call : q = call[c]
      BY <1>1
    <2>2. PICK s, a, e : call'[c] = [q EXCEPT !.seen = s, !.caller = a, !.expires = e]
      BY <2>1 DEF Tick
    <2>3. [q EXCEPT !.seen = s, !.caller = a, !.expires = e].pc = q.pc
      BY CallFields
    <2>4. QED
      BY <2>1, <2>2, <2>3
  <1>4. QED
    BY <1>2, <1>3

\* No step of any call gives more than there was, whatever interleaves with it: a revoked
\* key does not come back, a key's principal gives no key a permission or a life its own
\* key did not have when it was looked at, and only an update adds time to a key
\* (updateIfVersion, assertWithinCaller, rotate's validUntil).
THEOREM KeysOnlyNarrowAlways == Spec => KeysOnlyNarrow
  <1>1. ApiKeysInv /\ [Next]_vars => [RevokedForGood /\ NoEscalation /\ LifeOnlyByUpdate]_vars
    <2>1. SUFFICES ASSUME ApiKeysInv, Next PROVE RevokedForGood /\ NoEscalation /\ LifeOnlyByUpdate
      OBVIOUS
    <2>2. \A k \in Keys : keys[k].expires \in 0..Never
      BY <2>1, RecordFields DEF ApiKeysInv, TypeOK
    <2>3. CASE UNCHANGED keys
      BY <2>2, <2>3 DEF RevokedForGood, NoEscalation, LifeOnlyByUpdate
    <2>4. CASE Tick
      BY <2>1, <2>4, TickNarrows DEF RevokedForGood, NoEscalation, LifeOnlyByUpdate
    <2>5. ASSUME NEW c \in Calls, Writes(c), \A d \in Calls : d # c => call'[d] = call[d]
          PROVE  RevokedForGood /\ NoEscalation /\ LifeOnlyByUpdate
      <3>1. RevokedForGood
        BY <2>1, <2>5, WrittenKey DEF RevokedForGood
      <3>2. LifeOnlyByUpdate
        <4>1. ASSUME NEW k \in Keys, keys[k].exists, keys'[k].expires > keys[k].expires
              PROVE  call[c].op = "update" /\ call[c].key = k /\ call[c].pc = "write" /\ call'[c].pc # "write"
          <5>1. keys'[k] # keys[k]
            BY <2>2, <4>1
          <5>2. QED
            BY <2>1, <2>5, <4>1, <5>1, WrittenKey
        <4>2. QED
          BY <4>1 DEF LifeOnlyByUpdate
      <3>3. NoEscalation
        <4>1. SUFFICES ASSUME NEW d \in Calls, NEW k \in Keys,
                              call[d].by # Host, call[d].pc = "write", call'[d].pc \in {"audit", "error"},
                              call[d].op \in {"create", "rotate"} \/ call[d].changes # {},
                              keys'[k] # keys[k]
                       PROVE  /\ keys'[k].expires <= call[d].caller.expires
                              /\ \A o \in Operations : May(keys'[k].restrictions, o) => May(call[d].caller.restrictions, o)
          BY DEF NoEscalation
        <4>2. d = c
          BY <2>5, <4>1
        <4>3. Narrow(keys'[k], call[c])
          BY <2>1, <2>5, <4>1, WrittenKey
        <4>4. /\ keys'[k].expires <= call[c].caller.expires
              /\ Within(Ceilings[keys'[k].restrictions], Ceilings[call[c].caller.restrictions])
          BY <4>1, <4>2, <4>3 DEF Narrow, Gives
        <4>5. QED
          BY <4>2, <4>4, WithinIsNarrower DEF May
      <3>4. QED
        BY <3>1, <3>2, <3>3
    <2>6. QED
      BY <2>1, <2>3, <2>4, <2>5, OnlyWrites
  <1>2. QED
    BY <1>1, ApiKeysInvariance, PTL DEF Spec, KeysOnlyNarrow
=============================================================================
