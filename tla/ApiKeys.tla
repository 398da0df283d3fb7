------------------------------ MODULE ApiKeys -------------------------------
(***************************************************************************)
(* API keys: ApiKeyService (src/api-keys/service.ts), its store            *)
(* (src/storage/api-keys.ts) and the check of a key that the gateway makes *)
(* before every operation of a key's principal (toPrincipal,               *)
(* enforceCredential).                                                     *)
(*                                                                         *)
(* A call is one operation of a client, cut at its awaits.  Its caller is  *)
(* the host, or the principal of a key that was authenticated before.      *)
(* Names and secrets are left out: who authenticates has the secret of the *)
(* key he names.  Instants are kept as the time left; Never is no expiry.  *)
(***************************************************************************)
EXTENDS Naturals, FiniteSets, Restrictions

CONSTANTS
  Keys,        \* ids of keys
  Calls,       \* operations of clients
  Host,        \* a caller that is not a key
  NoKey,       \* an absent reference to a key
  Ceilings,    \* name -> restrictions, "none" for no restrictions
  Wanted,      \* the ceilings clients ask for
  Edits,       \* the sets of fields that updates change
  Operations,  \* pairs of a capability and a resource that keys are used for
  MaxLife,     \* bound: expiry dates lie at most so far ahead
  Overlaps,    \* overlapSeconds clients ask for
  MaxTries,    \* MAX_UPDATE_ATTEMPTS
  MaxFaults,   \* bound: store and audit calls that fail
  InitialKeys, \* keys that exist at the start -> their restrictions
  LocalMode    \* the deployment mode is local: reads may lag behind a creation

Never == MaxLife + 1

ASSUME ApiKeysAssumption ==
  /\ Host \notin Keys /\ NoKey \notin Keys
  /\ MaxLife \in Nat /\ MaxFaults \in Nat /\ MaxTries \in Nat \ {0}
  /\ Overlaps \subseteq 0..MaxLife
  /\ "none" \in DOMAIN Ceilings /\ Ceilings["none"] = Unrestricted
  /\ \A n \in DOMAIN Ceilings : Normalized(Ceilings[n])
  /\ Wanted \subseteq DOMAIN Ceilings /\ Edits \subseteq SUBSET {"restrictions", "expires"}
  /\ DOMAIN InitialKeys \subseteq Keys
  /\ \A k \in DOMAIN InitialKeys : InitialKeys[k] \in DOMAIN Ceilings
  /\ LocalMode \in BOOLEAN

VARIABLES
  keys,       \* id -> record
  lag,        \* keys whose creation reads do not see yet
  copies,     \* id -> locallyCreatedKeys, a record or an absent one
  principals, \* keys whose principal some client holds
  call,       \* call -> its operation, where it waits and what it has read
  faults

vars == <<keys, lag, copies, principals, call, faults>>

Record ==
  [exists : BOOLEAN, version : Nat, revoked : BOOLEAN, expires : 0..Never,
   restrictions : DOMAIN Ceilings, rotatedTo : Keys \union {NoKey}, rotatedFrom : Keys \union {NoKey}]

AbsentKey ==
  [exists |-> FALSE, version |-> 0, revoked |-> FALSE, expires |-> Never,
   restrictions |-> "none", rotatedTo |-> NoKey, rotatedFrom |-> NoKey]

Call ==
  [op : {"none", "create", "update", "rotate", "revoke", "revokeAll", "authenticate", "use"},
   by : Keys \union {Host}, key : Keys \union {NoKey},
   changes : SUBSET {"restrictions", "expires"}, restrictions : DOMAIN Ceilings, expires : 0..Never,
   overlap : Overlaps \union {0},
   pc : {"new", "authorize", "next", "read", "within", "queue", "write", "audit", "last",
         "ok", "null", "denied", "error"},
   seen : Record, tries : 0..MaxTries, todo : SUBSET Keys,
   \* history: the caller's key as assertWithinCaller read it, whether the key in use was
   \* revoked when the call began, and the keys revokeAll listed
   caller : Record, late : BOOLEAN, listed : SUBSET Keys]

NoCall ==
  [op |-> "none", by |-> Host, key |-> NoKey,
   changes |-> {}, restrictions |-> "none", expires |-> Never, overlap |-> 0, pc |-> "new",
   seen |-> AbsentKey, tries |-> 0, todo |-> {}, caller |-> AbsentKey, late |-> FALSE,
   listed |-> {}]

TypeOK ==
  /\ keys \in [Keys -> Record]
  /\ lag \subseteq Keys
  /\ copies \in [Keys -> Record]
  /\ principals \subseteq Keys
  /\ call \in [Calls -> Call]
  /\ faults \in 0..MaxFaults

Issued(restrictions, expires, from) ==
  [AbsentKey EXCEPT !.exists = TRUE, !.version = 1, !.restrictions = restrictions,
                    !.expires = expires, !.rotatedFrom = from]

Init ==
  /\ keys = [k \in Keys |-> IF k \in DOMAIN InitialKeys THEN Issued(InitialKeys[k], Never, NoKey)
                                                         ELSE AbsentKey]
  /\ lag = {}
  /\ copies = [k \in Keys |-> AbsentKey]
  /\ principals = DOMAIN InitialKeys
  /\ call = [c \in Calls |-> NoCall]
  /\ faults = 0

-----------------------------------------------------------------------------
(* Records, reads and writes *)

\* keyStatus
Active(k) == k.exists /\ ~k.revoked /\ k.expires > 0

\* What store.get returns.
Stored(k) == IF k \in lag THEN AbsentKey ELSE keys[k]

Ends == {"ok", "null", "denied", "error"}

\* A call goes on elsewhere, or ends and forgets what it has read.
At(q, where) ==
  IF where \in Ends
    THEN [NoCall EXCEPT !.op = q.op, !.pc = where, !.late = q.late, !.listed = q.listed]
    ELSE [q EXCEPT !.pc = where]

Goto(c, where) == call' = [call EXCEPT ![c] = At(@, where)]

\* waitForUpdateRetry, or what follows the last attempt.
TryAgain(c, at, last) ==
  LET q == [call[c] EXCEPT !.tries = @ + 1]
  IN call' = [call EXCEPT ![c] = At(q, IF q.tries < MaxTries THEN at ELSE last)]

Retry(c) == TryAgain(c, "read", IF call[c].op = "authenticate" THEN "last" ELSE "error")

\* A call of the store or of the audit sink throws.
Fault == faults < MaxFaults /\ faults' = faults + 1

\* Mutant: the record is written whatever happened to it since it was read.
UnconditionalWrite(k, seen) == keys[k].exists

\* updateIfVersion, expectedVersion
VersionMatches(k, seen) == keys[k].exists /\ keys[k].version = seen.version

\* rememberLocal: copies that are tracked follow this process's writes.
Remember(k, new) == copies' = IF copies[k].exists THEN [copies EXCEPT ![k] = new] ELSE copies

-----------------------------------------------------------------------------
(* Starting an operation; the gateway's check of the caller's key *)

\* A client calls; k is the key whose revocation must stop it.
Start(c, k, new) ==
  /\ call[c].pc = "new"
  /\ call' = [call EXCEPT ![c] = [new EXCEPT !.late = k # Host /\ keys[k].revoked]]
  /\ UNCHANGED <<keys, lag, copies, principals, faults>>

Request(op, by, k) == [NoCall EXCEPT !.op = op, !.by = by, !.key = k, !.pc = "authorize"]

Callers == principals \union {Host}

StartCreate(c) ==
  \E by \in Callers, r \in Wanted, e \in {MaxLife, Never} :
    Start(c, by, [Request("create", by, NoKey) EXCEPT !.restrictions = r, !.expires = e])

StartUpdate(c) ==
  \E by \in Callers, k \in Keys, ch \in Edits :
    \E r \in IF "restrictions" \in ch THEN Wanted ELSE {"none"},
       e \in IF "expires" \in ch THEN {MaxLife, Never} ELSE {Never} :
      Start(c, by, [Request("update", by, k) EXCEPT !.changes = ch, !.restrictions = r, !.expires = e])

StartRotate(c) ==
  \E by \in Callers, k \in Keys, o \in Overlaps :
    Start(c, by, [Request("rotate", by, k) EXCEPT !.overlap = o])

StartRevoke(c) ==
  \E by \in Callers, k \in Keys : Start(c, by, Request("revoke", by, k))

StartRevokeAll(c) == \E by \in Callers : Start(c, by, Request("revokeAll", by, NoKey))

StartUse(c) == \E by \in principals : Start(c, by, Request("use", by, NoKey))

StartAuthenticate(c) ==
  \E k \in Keys : Start(c, k, [Request("authenticate", Host, k) EXCEPT !.pc = "queue"])

\* What the gateway asks about.
Asked(q) ==
  IF q.op = "use" THEN Operations
  ELSE {<<IF q.op = "revokeAll" THEN "revoke" ELSE q.op,
          IF q.key = NoKey THEN [type |-> "api_key"] ELSE [type |-> "api_key", id |-> q.key]>>}

May(ceiling, o) == Permits(Ceilings[ceiling], o[1], o[2])

\* Mutant: the principal keeps what its key was when it was authenticated.
BoundAtLogin(c) == TRUE

\* enforceCredential, with the check toPrincipal binds to a key's principal.
CredentialAllows(c) ==
  LET q == call[c] IN
  q.by # Host =>
    Active(Stored(q.by)) /\ \E o \in Asked(q) : May(Stored(q.by).restrictions, o)

\* The gateway allows the operation, or the key's check, AuthBoundry or a fault stops it.
Authorize(c) ==
  /\ call[c].pc = "authorize"
  /\ \/ /\ CredentialAllows(c)
        /\ Goto(c, CASE call[c].op = "use" -> "ok"
                     [] call[c].op = "create" -> "within"
                     [] call[c].op = "revokeAll" -> "next"
                     [] OTHER -> "read")
     \/ Goto(c, "denied")
  /\ UNCHANGED <<keys, lag, copies, principals, faults>>

-----------------------------------------------------------------------------
(* update, rotate, revoke: read, check against the caller's key, write by version *)

\* What a call that has read its key does next; k is the record.
AfterRead(c, k) ==
  IF ~k.exists THEN "null"
  ELSE CASE call[c].op = "update" -> IF k.revoked THEN "error"
                                     ELSE IF call[c].changes = {} THEN "write" ELSE "within"
         [] call[c].op = "rotate" -> IF k.rotatedTo # NoKey \/ ~Active(k) THEN "error" ELSE "within"
         [] call[c].op \in {"revoke", "revokeAll"} -> IF k.revoked THEN "ok" ELSE "write"

\* The revocation of one key is over: revokeAll goes on with the next one.
Finish(c, where) ==
  LET q == [call[c] EXCEPT !.todo = @ \ {call[c].key}, !.tries = 0]
  IN call' = [call EXCEPT ![c] = At(q, IF q.op = "revokeAll" /\ where # "error" THEN "next" ELSE where)]

ReadKey(c) ==
  LET q == call[c]
      where == AfterRead(c, Stored(q.key))
  IN /\ q.pc = "read" /\ q.op # "authenticate"
     /\ \/ where \in {"within", "write"}
           /\ call' = [call EXCEPT ![c] = [At(q, where) EXCEPT !.seen = Stored(q.key)]]
           /\ UNCHANGED faults
        \/ where \notin {"within", "write"} /\ Finish(c, where) /\ UNCHANGED faults
        \/ Fault /\ Finish(c, "error")
     /\ UNCHANGED <<keys, lag, copies, principals>>

\* The restrictions and the expiry the call is about to give a key.
Intended(q) ==
  CASE q.op = "create" -> [restrictions |-> q.restrictions, expires |-> q.expires]
    [] q.op = "update" ->
         [restrictions |-> IF "restrictions" \in q.changes THEN q.restrictions ELSE q.seen.restrictions,
          expires |-> IF "expires" \in q.changes THEN q.expires ELSE q.seen.expires]
    [] OTHER -> [restrictions |-> q.seen.restrictions, expires |-> q.seen.expires]

\* assertWithinCaller
AssertWithinCaller(c) ==
  LET q == call[c]
      caller == IF q.by = Host THEN AbsentKey ELSE Stored(q.by)
      new == Intended(q)
      next == IF q.op = "create" THEN "queue" ELSE "write"
  IN /\ q.pc = "within"
     /\ \/ /\ IF q.by = Host THEN Goto(c, next)
              ELSE IF /\ caller.exists
                      /\ Within(Ceilings[new.restrictions], Ceilings[caller.restrictions])
                      /\ new.expires <= caller.expires
              THEN call' = [call EXCEPT ![c].pc = next, ![c].caller = caller]
              ELSE Goto(c, "denied")
           /\ UNCHANGED faults
        \/ q.by # Host /\ Fault /\ Goto(c, "error")
     /\ UNCHANGED <<keys, lag, copies, principals>>

\* The record of an updated or revoked key.
Changed(q) ==
  IF q.op = "update"
    THEN [q.seen EXCEPT !.restrictions = Intended(q).restrictions, !.expires = Intended(q).expires,
                        !.version = @ + 1]
    ELSE [q.seen EXCEPT !.revoked = TRUE, !.version = @ + 1]

\* replace and revoke of the store.  A write that throws may have taken effect.
WriteKey(c) ==
  LET q == call[c] IN
  /\ q.pc = "write" /\ q.op \in {"update", "revoke", "revokeAll"}
  /\ \/ /\ VersionMatches(q.key, q.seen)
        /\ keys' = [keys EXCEPT ![q.key] = Changed(q)]
        /\ call' = [call EXCEPT ![c].pc = "audit", ![c].seen = Changed(q)]
        /\ IF q.op = "update" THEN Remember(q.key, Changed(q)) ELSE UNCHANGED copies
        /\ UNCHANGED faults
     \/ /\ ~VersionMatches(q.key, q.seen)
        /\ Retry(c)
        /\ UNCHANGED <<keys, copies, faults>>
     \/ /\ Fault
        /\ \/ UNCHANGED keys
           \/ VersionMatches(q.key, q.seen) /\ keys' = [keys EXCEPT ![q.key] = Changed(q)]
        /\ Goto(c, "error")
        /\ UNCHANGED copies
  /\ UNCHANGED <<lag, principals>>

\* The replaced key: revoked, or expiring after the overlap, never later than before.
Retired(q, k) ==
  [q.seen EXCEPT
    !.rotatedTo = k, !.version = @ + 1,
    !.revoked = (q.overlap = 0),
    !.expires = IF q.overlap = 0 \/ @ < q.overlap THEN @ ELSE q.overlap]

Fresh == {k \in Keys : ~keys[k].exists}

\* rememberCreated, and the lag of the embedded store.
Created(k, new) ==
  /\ copies' = IF LocalMode THEN [copies EXCEPT ![k] = new] ELSE copies
  /\ lag' = IF LocalMode THEN lag \union {k} ELSE lag

\* store.rotate, one transaction.
WriteRotation(c) ==
  LET q == call[c] IN
  /\ q.pc = "write" /\ q.op = "rotate"
  /\ \/ /\ VersionMatches(q.key, q.seen)
        /\ \E k \in Fresh :
             LET new == Issued(q.seen.restrictions, q.seen.expires, q.key) IN
             /\ keys' = [keys EXCEPT ![q.key] = Retired(q, k), ![k] = new]
             /\ \/ /\ Goto(c, "audit")
                   /\ copies' = [j \in Keys |-> IF j = k /\ LocalMode THEN new
                                                ELSE IF j = q.key /\ copies[j].exists THEN Retired(q, k)
                                                ELSE copies[j]]
                   /\ UNCHANGED faults
                \/ Fault /\ Goto(c, "error") /\ UNCHANGED copies
             /\ lag' = IF LocalMode THEN lag \union {k} ELSE lag
     \/ Retry(c) /\ UNCHANGED <<keys, lag, copies, faults>>   \* the version, or a prefix that is taken
     \/ Fault /\ Goto(c, "error") /\ UNCHANGED <<keys, lag, copies>>
  /\ UNCHANGED principals

-----------------------------------------------------------------------------
(* create *)

\* creationQueue lets one creation through at a time.
EnterCreation(c) ==
  /\ call[c].pc = "queue" /\ call[c].op = "create"
  /\ \A d \in Calls : call[d].op = "create" => call[d].pc \notin {"write", "audit"}
  /\ Goto(c, "write")
  /\ UNCHANGED <<keys, lag, copies, principals, faults>>

\* The key and its prefix, in one transaction; a prefix that is taken is tried again.
WriteCreation(c) ==
  LET q == call[c]
      new == Issued(q.restrictions, q.expires, NoKey)
  IN /\ q.pc = "write" /\ q.op = "create"
     /\ \/ \E k \in Fresh :
             /\ keys' = [keys EXCEPT ![k] = new]
             /\ \/ Goto(c, "audit") /\ Created(k, new) /\ UNCHANGED faults
                \/ /\ Fault /\ Goto(c, "error") /\ UNCHANGED copies
                   /\ lag' = IF LocalMode THEN lag \union {k} ELSE lag
        \/ TryAgain(c, "write", "error") /\ UNCHANGED <<keys, lag, copies, faults>>
        \/ Fault /\ Goto(c, "error") /\ UNCHANGED <<keys, lag, copies>>
     /\ UNCHANGED principals

\* The audit events of a creation, an update, a rotation or a revocation, which remembers
\* the revoked record only after it.
Audit(c) ==
  LET q == call[c] IN
  /\ q.pc = "audit"
  /\ \/ /\ Finish(c, "ok")
        /\ IF q.op \in {"revoke", "revokeAll"} THEN Remember(q.key, q.seen) ELSE UNCHANGED copies
        /\ UNCHANGED faults
     \/ Fault /\ Finish(c, "error") /\ UNCHANGED copies
  /\ UNCHANGED <<keys, lag, principals>>

-----------------------------------------------------------------------------
(* revokeAll *)

\* The candidates; then one after the other.  The list is taken once, right after the
\* authorization.
RevokeNext(c) ==
  LET q == call[c]
      candidates == {k \in Keys : Stored(k).exists /\ ~Stored(k).revoked}
  IN /\ q.pc = "next"
     /\ \/ q.key = NoKey /\ \/ /\ candidates = {}
                               /\ Goto(c, "ok")
                            \/ \E k \in candidates :
                                 call' = [call EXCEPT ![c].pc = "read", ![c].key = k,
                                                      ![c].todo = candidates, ![c].listed = candidates]
        \/ q.key # NoKey /\ q.todo = {} /\ Goto(c, "ok")
        \/ q.key # NoKey /\ \E k \in q.todo : call' = [call EXCEPT ![c].pc = "read", ![c].key = k]
     /\ UNCHANGED <<keys, lag, copies, principals, faults>>

-----------------------------------------------------------------------------
(* authenticate *)

\* Mutant: only a call that succeeds leaves the queue.
EnterAfterSuccess(c) ==
  /\ call[c].pc = "queue" /\ call[c].op = "authenticate"
  /\ \A d \in Calls : call[d].op = "authenticate" =>
       call[d].pc \notin {"read", "write", "last", "null", "error"}
  /\ Goto(c, "read")
  /\ UNCHANGED <<keys, lag, copies, principals, faults>>

\* authenticationQueue
EnterAuthentication(c) ==
  /\ call[c].pc = "queue" /\ call[c].op = "authenticate"
  /\ \A d \in Calls : call[d].op = "authenticate" => call[d].pc \notin {"read", "write", "last"}
  /\ Goto(c, "read")
  /\ UNCHANGED <<keys, lag, copies, principals, faults>>

\* findApiKeyByPrefix: the stored record, else the copy of a key created here.
Found(k) == IF Stored(k).exists THEN Stored(k) ELSE copies[k]
DropCopy(k) == copies' = IF Stored(k).exists THEN [copies EXCEPT ![k] = AbsentKey] ELSE copies

FindKey(c) ==
  LET q == call[c] IN
  /\ q.pc = "read" /\ q.op = "authenticate"
  /\ \/ /\ Found(q.key).exists /\ Active(Found(q.key))
        /\ call' = [call EXCEPT ![c].pc = "write", ![c].seen = Found(q.key)]
        /\ DropCopy(q.key)
        /\ UNCHANGED faults
     \/ /\ Found(q.key).exists /\ ~Active(Found(q.key))
        /\ \/ Goto(c, "null") /\ UNCHANGED faults
           \/ Fault /\ Goto(c, "error")        \* the audit of the failure
        /\ DropCopy(q.key)
     \/ ~Found(q.key).exists /\ Retry(c) /\ UNCHANGED <<copies, faults>>
     \/ Fault /\ Retry(c) /\ UNCHANGED copies
  /\ UNCHANGED <<keys, lag, principals>>

\* recordLastUsed: it reads the record again, which a lagging store does not have.
RecordLastUsed(c) ==
  LET q == call[c]
      used == [q.seen EXCEPT !.version = @ + 1]
      fits == q.key \notin lag /\ VersionMatches(q.key, q.seen)
  IN /\ q.pc = "write" /\ q.op = "authenticate"
     /\ \/ /\ fits
           /\ keys' = [keys EXCEPT ![q.key] = used]
           /\ Goto(c, "ok")
           /\ principals' = principals \union {q.key}
           /\ Remember(q.key, used)
           /\ UNCHANGED faults
        \/ ~fits /\ Retry(c) /\ UNCHANGED <<keys, principals, copies, faults>>
        \/ /\ Fault
           /\ \/ UNCHANGED keys
              \/ fits /\ keys' = [keys EXCEPT ![q.key] = used]
           /\ Retry(c)
           /\ UNCHANGED <<principals, copies>>
     /\ UNCHANGED lag

\* After the last attempt: identity does not depend on the bookkeeping write.
LastRead(c) ==
  LET q == call[c] IN
  /\ q.pc = "last"
  /\ \/ /\ Active(Found(q.key))
        /\ Goto(c, "ok")
        /\ principals' = principals \union {q.key}
        /\ DropCopy(q.key)
        /\ UNCHANGED faults
     \/ ~Active(Found(q.key)) /\ Goto(c, "null") /\ DropCopy(q.key) /\ UNCHANGED <<principals, faults>>
     \/ Fault /\ Goto(c, "null") /\ UNCHANGED <<copies, principals>>
  /\ UNCHANGED <<keys, lag>>

-----------------------------------------------------------------------------

EndLag(k) ==
  /\ k \in lag
  /\ lag' = lag \ {k}
  /\ UNCHANGED <<keys, copies, principals, call, faults>>

Elapsed(e) == IF e \in {0, Never} THEN e ELSE e - 1
Older(k) == [k EXCEPT !.expires = Elapsed(@)]

Tick ==
  /\ \E k \in Keys : keys[k].expires \notin {0, Never}
  /\ keys' = [k \in Keys |-> Older(keys[k])]
  /\ copies' = [k \in Keys |-> Older(copies[k])]
  /\ call' = [c \in Calls |-> [call[c] EXCEPT !.seen = Older(@), !.caller = Older(@),
                                              !.expires = Elapsed(@)]]
  /\ UNCHANGED <<lag, principals, faults>>

Begin(c) ==
  \/ StartCreate(c) \/ StartUpdate(c) \/ StartRotate(c) \/ StartRevoke(c) \/ StartRevokeAll(c)
  \/ StartUse(c) \/ StartAuthenticate(c)

Continue(c) ==
  \/ Authorize(c) \/ ReadKey(c) \/ AssertWithinCaller(c) \/ WriteKey(c) \/ WriteRotation(c)
  \/ EnterCreation(c) \/ WriteCreation(c) \/ Audit(c) \/ RevokeNext(c)
  \/ EnterAuthentication(c) \/ FindKey(c) \/ RecordLastUsed(c) \/ LastRead(c)

Next ==
  \/ \E c \in Calls : Begin(c) \/ Continue(c)
  \/ \E k \in Keys : EndLag(k)
  \/ Tick

Spec == Init /\ [][Next]_vars

\* Store, audit sink and authorizer answer: a call that began goes on.
FairSpec == Spec /\ \A c \in Calls : WF_vars(Continue(c))

-----------------------------------------------------------------------------
(* Properties *)

\* A revoked key stays revoked: no write made from an older reading, by an update, a
\* rotation or a use, brings it back (replace, rotate, recordLastUsed).
RevokedForGood == \A k \in Keys : keys[k].revoked => keys'[k].revoked

\* Concurrent rotations of a key leave one replacement, and a key that names a
\* replacement has it (rotate, one fenced transaction).
OneReplacement ==
  \A j, k \in Keys : (keys[j].exists /\ keys[j].rotatedFrom = k) <=> (j # NoKey /\ keys[k].rotatedTo = j)

\* A key that was revoked before a call began neither authenticates nor lets its
\* principal do anything, whatever was read or remembered before (enforceCredential,
\* authenticateApiKey and its last read, locallyCreatedKeys).
NoUseAfterRevoke == \A c \in Calls : call[c].late => call[c].pc # "ok"

\* A key's principal gives no key a permission, or a life, that its own key did not
\* have when it was looked at (assertWithinCaller, restrictionsWithin).
NoEscalation ==
  \A c \in Calls, k \in Keys :
       (/\ call[c].by # Host /\ call[c].pc = "write" /\ call'[c].pc \in {"audit", "error"}
        /\ call[c].op \in {"create", "rotate"} \/ call[c].changes # {}
        /\ keys'[k] # keys[k])
       => /\ keys'[k].expires <= call[c].caller.expires
          /\ \A o \in Operations : May(keys'[k].restrictions, o) => May(call[c].caller.restrictions, o)

\* revokeAll that returned has revoked every key it listed, also those that were rotated,
\* updated or used meanwhile.
SweepComplete ==
  \A c \in Calls : call[c].op = "revokeAll" /\ call[c].pc = "ok" => \A k \in call[c].listed : keys[k].revoked

\* Only an update gives a key more time: a rotation never does (rotate, validUntil).
LifeOnlyByUpdate ==
  \A k \in Keys : keys[k].exists /\ keys'[k].expires > keys[k].expires
       => \E c \in Calls : call[c].op = "update" /\ call[c].key = k /\ call[c].pc = "write" /\ call'[c].pc # "write"

\* Every call ends: attempts are bounded, and the queues are left on every path.
CallsEnd == \A c \in Calls : call[c].op # "none" ~> call[c].pc \in {"ok", "null", "denied", "error"}

\* The keys make sense together and a revocation takes effect: for calls that
\* began after it, for the sweep, and for the chain of rotations.
KeysSound == TypeOK /\ OneReplacement /\ NoUseAfterRevoke /\ SweepComplete

\* No step of any call gives more than there was: a revoked key does not come back, a
\* caller's key does not exceed itself, only an update adds time.
KeysOnlyNarrow == [][RevokedForGood /\ NoEscalation /\ LifeOnlyByUpdate]_vars
=============================================================================
