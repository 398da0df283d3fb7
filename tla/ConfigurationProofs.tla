------------------------- MODULE ConfigurationProofs ------------------------
(***************************************************************************)
(* Proofs about Configuration, for any number of calls, names and          *)
(* references, and about Transfer, for any documents, imports and edits of *)
(* the target, whatever fails.                                             *)
(***************************************************************************)
EXTENDS Configuration, Transfer, FiniteSetTheorems, TLAPS

-----------------------------------------------------------------------------
(* The inductive invariant: the records and their names *)

Over == {"audit", "ok", "expired", "error"}             \* a call that may have inserted its record
Recorded == {"insert", "save"} \union Over              \* a call that may have inserted its version
Noted == {"list", "retire", "version"} \union Recorded  \* a call that has written its row
Noting == {"find", "note", "list", "retire", "version"} \* a call between custody and its version

\* The record i has been inserted, and its call does it once.
Inserted(i) == i \in Calls => call[i].pc \in Over

\* A record counts its updates, and was inserted.
RecordInv(k, i) ==
  /\ records[k][i].exists => Inserted(i) /\ records[k][i].version = 1 + written[k][i]
  /\ written[k][i] # 0 => Inserted(i)

\* What a call has read is a record of its name, if it is still there.
CallInv(c) ==
  /\ call[c].pc = "new" => call[c] = NoCall
  /\ call[c].op = "none" => call[c].pc = "new"
  /\ call[c].op \in {"create", "update", "delete"} => call[c].name \in Names
  /\ call[c].pc \in {"own", "other", "read", "permit", "insert"} \/ call[c].bind => call[c].name \in Names
  /\ call[c].pc \in {"own", "insert"} => call[c].id = None
  /\ call[c].op = "create" => call[c].id = None
  /\ call[c].pc \in {"save", "remove"} => call[c].id # None
  /\ call[c].pc \in {"permit", "keep"} \union Noting => call[c].op = "store"
  /\ call[c].pc = "own" => call[c].op = "create"
  /\ call[c].pc \in {"other", "insert"} => call[c].op \in {"create", "store"}
  /\ call[c].pc = "read" => call[c].op \in {"update", "delete", "store"}
  /\ call[c].op = "store" => call[c].kind = "secret" /\ call[c].ref \in Refs
  /\ call[c].id # None =>
       /\ Inserted(call[c].id)
       /\ records[call[c].kind][call[c].id].exists => records[call[c].kind][call[c].id].name = call[c].name

\* What a call that goes on to create n has looked for was not there.
FoundFree(c, n) ==
  /\ call[c].op = "create" \/ call[c].pc # "read" => Named(call[c].kind, n) = {}
  /\ call[c].op = "store" \/ call[c].pc # "other" => Named(Other(call[c].kind), n) = {}

\* A name nobody raced for has one record, and none while a call goes on to create it.
NameInv(n) ==
  /\ \A k, l \in Kinds, i, j \in Ids : i \in Named(k, n) /\ j \in Named(l, n) => k = l /\ i = j
  /\ \A c \in Creating(n) : FoundFree(c, n)

NamePart ==
  /\ \A k \in Kinds, i \in Ids : RecordInv(k, i)
  /\ \A c \in Calls : CallInv(c)
  /\ \A n \in Names \ raced : NameInv(n)

-----------------------------------------------------------------------------
(* The inductive invariant: custody and the metadata *)

\* What a call has of custody and of its row; a row belongs to one reference.
MetaInv(c) ==
  /\ call[c].pc \in Noting => call[c].kept # 0
  /\ call[c].kept # 0 =>
       call[c].pc \in Noting \union Recorded /\ call[c].op = "store" /\ call[c].kept <= custody[call[c].ref]
  /\ call[c].pc \notin Noted \union {"note"} => call[c].row = None
  /\ call[c].pc \notin Noted => call[c].olds = {}
  /\ call[c].pc \in {"list", "retire", "version"} => call[c].row # None
  /\ call[c].row # None => call[c].ref \in Refs /\ secrets[call[c].row].ref = call[c].ref
  /\ secrets[c].ref # None => call[c].pc \in Noted /\ secrets[c].ref = call[c].ref /\ call[c].op = "store"
  /\ \A d \in call[c].olds : call[d].pc \in Recorded /\ call[d].row = call[c].row /\ call[d].row # None

\* Custody never gives a version twice.
KeptApart ==
  \A c, d \in Calls : c # d /\ call[c].ref = call[d].ref /\ call[c].kept # 0 => call[c].kept # call[d].kept

\* A row of SecretVersions is what its call had.
VersionInv(v) ==
  /\ call[v.id].pc \in Recorded
  /\ v.row = call[v.id].row /\ v.version = call[v.id].kept

\* A call that meets no other has the last value, and sees its row and its versions as
\* it left them.
AloneInv(c) ==
  (call[c].pc \in Noting /\ call[c].alone) =>
    /\ Recording(call[c].ref) = {c}
    /\ call[c].kept = custody[call[c].ref]
    /\ call[c].pc \in {"list", "retire", "version"} =>
         secrets[call[c].row] = [ref |-> call[c].ref, current |-> call[c].kept]
    /\ call[c].pc = "retire" =>
         \A v \in versions : v.row = call[c].row /\ v.status = "active" => v.id \in call[c].olds
    /\ call[c].pc = "version" =>
         \A v \in versions : v.row = call[c].row => v.status = "retired"

\* The metadata of a settled reference, which nobody is writing.
SettledInv(r) ==
  /\ Recording(r) = {}
  /\ \E row \in Calls :
       /\ secrets[row] = [ref |-> r, current |-> custody[r]]
       /\ \A v \in versions : v.row = row => (v.status = "active" <=> v.version = custody[r])

MetaPart ==
  /\ \A c \in Calls : MetaInv(c)
  /\ KeptApart
  /\ \A v \in versions : VersionInv(v)
  /\ \A c \in Calls : AloneInv(c)
  /\ \A r \in settled : SettledInv(r)

ConfigurationInv == TypeOK /\ NamePart /\ MetaPart

-----------------------------------------------------------------------------
(* The initial states *)

LEMMA ConfigurationInitInv == Init => ConfigurationInv
  <1>1. SUFFICES ASSUME Init PROVE ConfigurationInv
    OBVIOUS
  <1>2. /\ NoCall \in Call /\ NoCall.pc = "new" /\ NoCall.bind = FALSE /\ NoCall.id = None /\ NoCall.op = "none"
        /\ NoCall.kept = 0 /\ NoCall.row = None /\ NoCall.olds = {}
    BY DEF NoCall, Call, Kinds
  <1>3. \A c \in Calls : call[c] = NoCall /\ secrets[c].ref = None
    BY <1>1 DEF Init
  <1>4. PICK kind \in Kinds \union {None}, n \in Names, r \in Refs :
          records = [k \in Kinds |-> [i \in Ids |-> IF k = kind /\ i = Initial
            THEN [exists |-> TRUE, name |-> n, ref |-> IF k = "secret" THEN r ELSE None, version |-> 1]
            ELSE Absent]]
    BY <1>1 DEF Init
  <1>5. TypeOK
    <2>1. records \in [Kinds -> [Ids -> Record]]
      BY <1>4 DEF Record, Absent
    <2>2. versions = {} /\ raced = {} /\ settled = {} /\ faults = 0
      BY <1>1 DEF Init
    <2>3. custody \in [Refs -> Nat] /\ call \in [Calls -> Call] /\ written \in [Kinds -> [Ids -> Nat]]
      BY <1>1, <1>2 DEF Init
    <2>4. secrets \in [Calls -> [ref : Refs \union {None}, current : Nat]]
      BY <1>1 DEF Init
    <2>5. QED
      BY <2>1, <2>2, <2>3, <2>4, ConfigurationAssumption DEF TypeOK
  <1>6. NamePart
    <2>1. ASSUME NEW k \in Kinds, NEW i \in Ids
          PROVE  RecordInv(k, i) /\ (records[k][i].exists => k = kind /\ i = Initial)
      <3>1. written[k][i] = 0
        BY <1>1 DEF Init
      <3>2. CASE k = kind /\ i = Initial
        BY <1>4, <3>1, <3>2, ConfigurationAssumption DEF RecordInv, Inserted
      <3>3. CASE ~(k = kind /\ i = Initial)
        BY <1>4, <3>1, <3>3 DEF RecordInv, Absent
      <3>4. QED
        BY <3>2, <3>3
    <2>2. ASSUME NEW c \in Calls PROVE CallInv(c)
      BY <1>2, <1>3 DEF CallInv, Noting
    <2>3. ASSUME NEW m \in Names PROVE NameInv(m)
      BY <1>2, <1>3, <2>1 DEF NameInv, Named, Creating
    <2>4. QED
      BY <2>1, <2>2, <2>3 DEF NamePart
  <1>7. MetaPart
    <2>1. versions = {} /\ settled = {}
      BY <1>1 DEF Init
    <2>2. ASSUME NEW c \in Calls PROVE MetaInv(c) /\ AloneInv(c)
      BY <1>2, <1>3 DEF MetaInv, AloneInv, Noting
    <2>3. KeptApart
      BY <1>2, <1>3 DEF KeptApart
    <2>4. QED
      BY <2>1, <2>2, <2>3 DEF MetaPart
  <1>8. QED
    BY <1>5, <1>6, <1>7 DEF ConfigurationInv

-----------------------------------------------------------------------------
(* What a step leaves alone *)

Places == {"new", "authorize", "own", "other", "insert", "read", "save", "remove", "permit", "keep",
           "find", "note", "list", "retire", "version", "audit", "ok", "denied", "expired", "error"}

\* The call keeps what it is about, what it has read, what it has of custody.
SameInput(d) ==
  call'[d].op = call[d].op /\ call'[d].kind = call[d].kind /\ call'[d].name = call[d].name /\ call'[d].ref = call[d].ref
SameRead(d) == call'[d].id = call[d].id /\ call'[d].version = call[d].version /\ call'[d].bind = call[d].bind
SameMeta(d) ==
  call'[d].kept = call[d].kept /\ call'[d].row = call[d].row /\ call'[d].olds = call[d].olds /\ call'[d].alone = call[d].alone

LEMMA GotoFields ==
  ASSUME TypeOK, NEW c \in Calls, NEW p \in Places, Goto(c, p)
  PROVE  /\ call' \in [Calls -> Call] /\ call'[c].pc = p
         /\ SameInput(c) /\ SameRead(c) /\ SameMeta(c)
         /\ \A d \in Calls : d # c => call'[d] = call[d]
  <1>1. PICK q : q = [call[c] EXCEPT !.pc = p]
    OBVIOUS
  <1>2. call' = [call EXCEPT ![c] = q] /\ call[c] \in Call
    BY <1>1 DEF Goto, TypeOK
  <1>3. /\ q \in Call /\ q.pc = p
        /\ q.op = call[c].op /\ q.kind = call[c].kind /\ q.name = call[c].name /\ q.ref = call[c].ref
        /\ q.id = call[c].id /\ q.version = call[c].version /\ q.bind = call[c].bind
        /\ q.kept = call[c].kept /\ q.row = call[c].row /\ q.olds = call[c].olds /\ q.alone = call[c].alone
    BY <1>1, <1>2 DEF Call, Places
  <1>4. call \in [Calls -> Call]
    BY DEF TypeOK
  <1>5. call' \in [Calls -> Call] /\ call'[c] = q /\ \A d \in Calls : d # c => call'[d] = call[d]
    BY <1>2, <1>3, <1>4
  <1>6. QED
    BY <1>3, <1>5 DEF SameInput, SameRead, SameMeta

\* A step that leaves the records alone: the others keep what they know, and the call
\* that steps knows what its new place asks for.
LEMMA NamesKept ==
  ASSUME TypeOK, NamePart, NEW c \in Calls, UNCHANGED <<records, written, raced>>,
         \A d \in Calls : d # c => /\ SameInput(d) /\ SameRead(d) /\ call'[d].pc = call[d].pc
                                   /\ call[d].pc = "new" => call'[d] = call[d],
         call[c].pc \in Over => call'[c].pc \in Over,
         CallInv(c)',
         \A n \in Names \ raced : c \in Creating(n)' => FoundFree(c, n)'
  PROVE  NamePart'
  <1>1. \A i \in Ids : Inserted(i) => Inserted(i)'
    BY DEF Inserted
  <1>2. ASSUME NEW k \in Kinds, NEW i \in Ids PROVE RecordInv(k, i)'
    BY <1>1 DEF NamePart, RecordInv
  <1>3. ASSUME NEW d \in Calls PROVE CallInv(d)'
    <2>1. CASE d = c
      BY <2>1
    <2>2. CASE d # c
      <3>1. CallInv(d) /\ call[d] \in Call
        BY DEF NamePart, TypeOK
      <3>2. /\ call'[d].op = call[d].op /\ call'[d].kind = call[d].kind /\ call'[d].name = call[d].name
            /\ call'[d].ref = call[d].ref /\ call'[d].id = call[d].id /\ call'[d].bind = call[d].bind
            /\ call'[d].pc = call[d].pc /\ (call[d].pc = "new" => call'[d] = call[d])
        BY <2>2 DEF SameInput, SameRead
      <3>3. call[d].id # None => call[d].id \in Ids
        BY <3>1 DEF Call
      <3>4. QED
        BY <1>1, <3>1, <3>2, <3>3 DEF CallInv
    <2>3. QED
      BY <2>1, <2>2
  <1>4. ASSUME NEW n \in Names \ raced PROVE NameInv(n)'
    <2>1. \A k \in Kinds : Named(k, n)' = Named(k, n)
      BY DEF Named
    <2>2. NameInv(n)
      BY DEF NamePart
    <2>3. ASSUME NEW d \in Creating(n)' PROVE FoundFree(d, n)'
      <3>1. CASE d = c
        BY <2>3, <3>1
      <3>2. CASE d # c
        <4>1. d \in Creating(n) /\ d \in Calls
          BY <2>3, <3>2 DEF Creating, SameInput, SameRead
        <4>2. FoundFree(d, n)
          BY <2>2, <4>1 DEF NameInv
        <4>3. call[d].kind \in Kinds /\ Other(call[d].kind) \in Kinds
          BY <4>1 DEF TypeOK, Call, Kinds, Other
        <4>4. QED
          BY <2>1, <3>2, <4>1, <4>2, <4>3 DEF FoundFree, SameInput, Other
      <3>3. QED
        BY <3>1, <3>2
    <2>4. \A k, l \in Kinds, i, j \in Ids : i \in Named(k, n)' /\ j \in Named(l, n)' => k = l /\ i = j
      BY <2>1, <2>2 DEF NameInv
    <2>5. QED
      BY <2>3, <2>4 DEF NameInv
  <1>5. QED
    BY <1>2, <1>3, <1>4 DEF NamePart

\* A step that leaves custody and the metadata alone, of a call that does not write them.
LEMMA MetaKept ==
  ASSUME TypeOK, MetaPart, NEW c \in Calls, UNCHANGED <<custody, secrets, versions, settled>>,
         \A d \in Calls : d # c => call'[d] = call[d],
         SameMeta(c), call'[c].pc \notin Noting,
         call[c].pc \in Noted => call'[c].pc \in Recorded,
         call[c].kept # 0 => call'[c].pc \in Recorded,
         \/ call'[c].ref = call[c].ref /\ call'[c].op = call[c].op
         \/ call[c].kept = 0 /\ call[c].row = None /\ secrets[c].ref = None
  PROVE  MetaPart'
  <1>1. \A d \in Calls : /\ call'[d].kept = call[d].kept /\ call'[d].row = call[d].row
                         /\ call'[d].olds = call[d].olds /\ call'[d].alone = call[d].alone
                         /\ call[d].pc \in Recorded => call'[d].pc \in Recorded
    BY DEF SameMeta, Noted
  <1>2. ASSUME NEW d \in Calls PROVE MetaInv(d)'
    <2>1. MetaInv(d) /\ call[d].olds \subseteq Calls
      BY DEF MetaPart, TypeOK, Call
    <2>2. \A x \in call'[d].olds : call'[x].pc \in Recorded /\ call'[x].row = call'[d].row /\ call'[x].row # None
      BY <1>1, <2>1 DEF MetaInv
    <2>3. CASE d = c
      BY <1>1, <2>1, <2>2, <2>3 DEF MetaInv, Noting, Noted
    <2>4. CASE d # c
      BY <1>1, <2>1, <2>2, <2>4 DEF MetaInv
    <2>5. QED
      BY <2>3, <2>4
  <1>3. KeptApart'
    BY <1>1 DEF MetaPart, KeptApart
  <1>4. ASSUME NEW v \in versions' PROVE VersionInv(v)'
    <2>1. v \in versions /\ VersionInv(v) /\ v.id \in Calls
      BY <1>4 DEF MetaPart, TypeOK
    <2>2. QED
      BY <1>1, <2>1 DEF VersionInv
  <1>5. \A r \in Refs : Recording(r)' \subseteq Recording(r) /\ Recording(r) \ {c} \subseteq Recording(r)'
    BY DEF Recording, Noting
  <1>6. ASSUME NEW d \in Calls PROVE AloneInv(d)'
    <2>1. CASE d = c
      BY <2>1 DEF AloneInv
    <2>2. CASE d # c
      <3>1. AloneInv(d) /\ call'[d] = call[d]
        BY <2>2 DEF MetaPart
      <3>2. SUFFICES ASSUME call[d].pc \in Noting, call[d].alone PROVE AloneInv(d)'
        BY <3>1 DEF AloneInv
      <3>3. Recording(call[d].ref) = {d}
        BY <3>1, <3>2 DEF AloneInv
      <3>4. Recording(call[d].ref)' = {d}
        BY <2>2, <3>3 DEF Recording, Noting
      <3>5. QED
        BY <3>1, <3>2, <3>4 DEF AloneInv
    <2>3. QED
      BY <2>1, <2>2
  <1>7. ASSUME NEW r \in settled' PROVE SettledInv(r)'
    <2>1. r \in settled /\ r \in Refs /\ SettledInv(r)
      BY <1>7 DEF MetaPart, TypeOK
    <2>2. Recording(r)' = {}
      BY <1>5, <2>1 DEF SettledInv
    <2>3. QED
      BY <2>1, <2>2 DEF SettledInv
  <1>8. QED
    BY <1>2, <1>3, <1>4, <1>6, <1>7 DEF MetaPart
-----------------------------------------------------------------------------
(* Steps that only move the call *)

\* Neither the records nor the metadata change.
LEMMA ReadsKeepsInv ==
  ASSUME ConfigurationInv, NEW c \in Calls, call' \in [Calls -> Call], SameInput(c), SameMeta(c),
         \A d \in Calls : d # c => call'[d] = call[d],
         UNCHANGED <<stored, history>>, faults' \in 0..MaxFaults,
         call'[c].pc \notin Noting,
         call[c].pc \in Noting \union Recorded => call'[c].pc \in Recorded,
         call[c].pc \in Over => call'[c].pc \in Over,
         CallInv(c)',
         \A n \in Names \ raced : c \in Creating(n)' => FoundFree(c, n)'
  PROVE  ConfigurationInv'
  <1>1. TypeOK /\ NamePart /\ MetaPart /\ MetaInv(c)
    BY DEF ConfigurationInv, MetaPart
  <1>2. UNCHANGED <<records, custody, secrets, versions, written, raced, settled>>
    BY DEF stored, history
  <1>3. TypeOK'
    BY <1>1, <1>2 DEF TypeOK
  <1>4. NamePart'
    <2>1. \A d \in Calls : d # c => /\ SameInput(d) /\ SameRead(d) /\ call'[d].pc = call[d].pc
                                    /\ call[d].pc = "new" => call'[d] = call[d]
      BY DEF SameInput, SameRead
    <2>2. QED
      BY <1>1, <1>2, <2>1, NamesKept
  <1>5. MetaPart'
    <2>1. call[c].kept # 0 => call'[c].pc \in Recorded
      BY <1>1 DEF MetaInv
    <2>2. call[c].pc \in Noted => call'[c].pc \in Recorded
      BY DEF Noted, Noting
    <2>3. call'[c].ref = call[c].ref /\ call'[c].op = call[c].op
      BY DEF SameInput
    <2>4. QED
      BY <1>1, <1>2, <2>1, <2>2, <2>3, MetaKept
  <1>6. QED
    BY <1>3, <1>4, <1>5 DEF ConfigurationInv

\* The call goes to p and keeps what it has read.
LEMMA MovesKeepsInv ==
  ASSUME ConfigurationInv, NEW c \in Calls, NEW p \in Places \ Noting, Goto(c, p),
         UNCHANGED <<stored, history>>, faults' \in 0..MaxFaults,
         call[c].pc \in Noting \union Recorded => p \in Recorded,
         call[c].pc \in Over => p \in Over,
         p # "new", call[c].pc # "new",
         p \in {"own", "other", "read", "permit", "insert"} => call[c].name \in Names,
         p \in {"own", "insert"} => call[c].id = None,
         p \in {"save", "remove"} => call[c].id # None,
         p \in {"permit", "keep"} => call[c].op = "store",
         p = "own" => call[c].op = "create",
         p \in {"other", "insert"} => call[c].op \in {"create", "store"},
         p = "read" => call[c].op \in {"update", "delete", "store"},
         \A n \in Names \ raced : c \in Creating(n)' => FoundFree(c, n)'
  PROVE  ConfigurationInv'
  <1>1. TypeOK /\ CallInv(c) /\ call[c] \in Call
    BY DEF ConfigurationInv, NamePart, TypeOK
  <1>2. /\ call' \in [Calls -> Call] /\ call'[c].pc = p /\ SameInput(c) /\ SameRead(c) /\ SameMeta(c)
        /\ \A d \in Calls : d # c => call'[d] = call[d]
    BY <1>1, GotoFields
  <1>3. UNCHANGED records
    BY DEF stored
  <1>4. CallInv(c)'
    <2>1. call[c].id # None => call[c].id \in Ids
      BY <1>1 DEF Call
    <2>2. \A i \in Ids : Inserted(i) => Inserted(i)'
      BY <1>2 DEF Inserted
    <2>3. /\ call'[c].op = call[c].op /\ call'[c].kind = call[c].kind /\ call'[c].name = call[c].name
          /\ call'[c].ref = call[c].ref /\ call'[c].id = call[c].id /\ call'[c].bind = call[c].bind
      BY <1>2 DEF SameInput, SameRead
    <2>4. QED
      BY <1>1, <1>2, <1>3, <2>1, <2>2, <2>3 DEF CallInv
  <1>5. QED
    BY <1>2, <1>4, ReadsKeepsInv

\* The call ends.
LEMMA EndsKeepsInv ==
  ASSUME ConfigurationInv, NEW c \in Calls, NEW p \in {"ok", "error", "expired", "denied"}, Goto(c, p),
         UNCHANGED <<stored, history>>, faults' \in 0..MaxFaults, call[c].pc # "new",
         p = "denied" => call[c].pc \notin Noting \union Recorded
  PROVE  ConfigurationInv'
  <1>1. p \in Places \ Noting /\ (p # "denied" => p \in Over /\ p \in Recorded)
    BY DEF Places, Noting, Over, Recorded
  <1>2. call'[c].pc = p
    BY <1>1, GotoFields DEF ConfigurationInv
  <1>3. \A n \in Names \ raced : c \in Creating(n)' => FoundFree(c, n)'
    BY <1>2 DEF Creating
  <1>4. call[c].pc \in Over => p \in Over
    BY <1>1 DEF Recorded
  <1>5. QED
    BY <1>1, <1>3, <1>4, MovesKeepsInv

\* The call is new: nothing is known of it.
LEMMA StartKeepsInv ==
  ASSUME ConfigurationInv, NEW c \in Calls, Start(c)
  PROVE  ConfigurationInv'
  <1>1. TypeOK /\ NamePart /\ MetaPart /\ CallInv(c) /\ MetaInv(c) /\ call[c].pc = "new"
    BY DEF ConfigurationInv, NamePart, MetaPart, Start
  <1>2. call[c] = NoCall
    BY <1>1 DEF CallInv
  <1>3. PICK i \in Inputs : call' = [call EXCEPT ![c] = [NoCall EXCEPT !.op = i.op, !.kind = i.kind,
                                       !.name = i.name, !.ref = i.ref, !.pc = "authorize"]]
    BY DEF Start
  <1>4. /\ i.op \in {"create", "update", "delete", "store"} /\ i.kind \in Kinds
        /\ i.name \in Names \union {None} /\ i.ref \in Refs \union {None}
        /\ i.op = "store" => i.kind = "secret" /\ i.ref \in Refs
        /\ i.op # "store" => i.name \in Names
    BY DEF Inputs, Kinds
  <1>5. PICK q : q = [NoCall EXCEPT !.op = i.op, !.kind = i.kind, !.name = i.name, !.ref = i.ref, !.pc = "authorize"]
    OBVIOUS
  <1>6. /\ q \in Call /\ q.pc = "authorize" /\ q.op = i.op /\ q.kind = i.kind /\ q.name = i.name /\ q.ref = i.ref
        /\ q.id = None /\ q.bind = FALSE /\ q.kept = 0 /\ q.row = None /\ q.olds = {} /\ q.alone = TRUE
    BY <1>4, <1>5 DEF NoCall, Call
  <1>7. call' \in [Calls -> Call] /\ call'[c] = q /\ \A d \in Calls : d # c => call'[d] = call[d]
    BY <1>1, <1>3, <1>5, <1>6 DEF TypeOK
  <1>8. UNCHANGED <<records, custody, secrets, versions, faults, written, raced, settled>>
    BY DEF Start, stored, history
  <1>9. TypeOK'
    BY <1>1, <1>7, <1>8 DEF TypeOK
  <1>10. NamePart'
    <2>1. CallInv(c)'
      BY <1>4, <1>6, <1>7 DEF CallInv, Noting
    <2>2. \A n \in Names \ raced : c \in Creating(n)' => FoundFree(c, n)'
      BY <1>6, <1>7 DEF Creating
    <2>3. \A d \in Calls : d # c => /\ SameInput(d) /\ SameRead(d) /\ call'[d].pc = call[d].pc
                                    /\ call[d].pc = "new" => call'[d] = call[d]
      BY <1>7 DEF SameInput, SameRead
    <2>4. call[c].pc \notin Over
      BY <1>1 DEF Over
    <2>5. QED
      BY <1>1, <1>8, <2>1, <2>2, <2>3, <2>4, NamesKept
  <1>11. MetaPart'
    <2>0. NoCall.kept = 0 /\ NoCall.row = None /\ NoCall.olds = {} /\ NoCall.alone = TRUE
      BY DEF NoCall
    <2>1. call[c].kept = 0 /\ call[c].row = None /\ SameMeta(c)
      BY <1>2, <1>6, <1>7, <2>0 DEF SameMeta
    <2>2. secrets[c].ref = None /\ call[c].pc \notin Noted /\ call'[c].pc \notin Noting
      BY <1>1, <1>6, <1>7 DEF MetaInv, Noted, Recorded, Over, Noting
    <2>3. QED
      BY <1>1, <1>7, <1>8, <2>1, <2>2, MetaKept
  <1>12. QED
    BY <1>9, <1>10, <1>11 DEF ConfigurationInv

\* The gateway lets the call do its first read, or denies it.
LEMMA AuthorizeKeepsInv ==
  ASSUME ConfigurationInv, NEW c \in Calls, Authorize(c)
  PROVE  ConfigurationInv'
  <1>1. /\ TypeOK /\ CallInv(c) /\ call[c] \in Call /\ call[c].pc = "authorize"
        /\ UNCHANGED <<stored, history>> /\ faults' \in 0..MaxFaults
    BY DEF ConfigurationInv, NamePart, TypeOK, Authorize
  <1>2. call[c].pc \notin Noting \union Recorded /\ call[c].pc \notin Over
    BY <1>1 DEF Noting, Recorded, Over
  <1>3. CASE Goto(c, "denied")
    BY <1>1, <1>2, <1>3, EndsKeepsInv
  <1>4. CASE Goto(c, FirstRead(c))
    <2>1. PICK p : p = FirstRead(c)
      OBVIOUS
    <2>2. /\ call[c].op \in {"create", "update", "delete", "store"}
          /\ call[c].op # "store" => call[c].name \in Names
          /\ call[c].name \in Names \union {None}
      BY <1>1 DEF CallInv, Call
    <2>3. \/ p = "own" /\ call[c].op = "create"
          \/ p = "other" /\ call[c].op = "store" /\ call[c].name \in Names
          \/ p = "keep" /\ call[c].op = "store" /\ call[c].name = None
          \/ p = "read" /\ call[c].op \in {"update", "delete"}
      BY <2>1, <2>2 DEF FirstRead
    <2>4. p \in Places \ Noting /\ Goto(c, p)
      BY <1>4, <2>1, <2>3 DEF Places, Noting
    <2>5. /\ call'[c].pc = p /\ SameInput(c)
          /\ call'[c].op = call[c].op /\ call'[c].name = call[c].name
      BY <1>1, <2>4, GotoFields DEF SameInput
    <2>6. \A n \in Names \ raced : c \in Creating(n)' => FoundFree(c, n)'
      BY <2>3, <2>5, ConfigurationAssumption DEF Creating
    <2>7. p = "own" => call[c].id = None
      BY <1>1, <2>3 DEF CallInv
    <2>8. QED
      BY <1>1, <1>2, <2>2, <2>3, <2>4, <2>6, <2>7, MovesKeepsInv
  <1>5. QED
    BY <1>1, <1>3, <1>4 DEF Authorize
\* A read or a write throws.
LEMMA ThrowKeepsInv ==
  ASSUME ConfigurationInv, NEW c \in Calls, Throw(c)
  PROVE  ConfigurationInv'
  <1>1. /\ Goto(c, "error") /\ UNCHANGED <<stored, history>> /\ faults' \in 0..MaxFaults /\ call[c].pc # "new"
    BY ConfigurationAssumption DEF ConfigurationInv, TypeOK, Throw
  <1>2. QED
    BY <1>1, EndsKeepsInv

LEMMA AuditKeepsInv ==
  ASSUME ConfigurationInv, NEW c \in Calls, Audit(c)
  PROVE  ConfigurationInv'
  <1>1. /\ Goto(c, "ok") /\ UNCHANGED <<stored, history>> /\ faults' \in 0..MaxFaults /\ call[c].pc # "new"
    BY DEF ConfigurationInv, TypeOK, Audit
  <1>2. QED
    BY <1>1, EndsKeepsInv

\* No record of the call's kind has the name.
LEMMA CheckOwnKeepsInv ==
  ASSUME ConfigurationInv, NEW c \in Calls, CheckOwn(c)
  PROVE  ConfigurationInv'
  <1>1. /\ TypeOK /\ CallInv(c) /\ call[c].pc = "own" /\ call[c].name \in Names /\ call[c].id = None
        /\ call[c].op = "create"
        /\ UNCHANGED <<stored, history>> /\ faults' \in 0..MaxFaults
    BY DEF ConfigurationInv, NamePart, TypeOK, CheckOwn, CallInv
  <1>2. call[c].pc \notin Noting \union Recorded /\ call[c].pc \notin Over
    BY <1>1 DEF Noting, Recorded, Over
  <1>3. CASE Goto(c, "error")
    BY <1>1, <1>2, <1>3, EndsKeepsInv
  <1>4. CASE Goto(c, "other") /\ Named(call[c].kind, call[c].name) = {}
    <2>1. "other" \in Places \ Noting
      BY DEF Places, Noting
    <2>2. call'[c].pc = "other" /\ SameInput(c)
      BY <1>1, <1>4, <2>1, GotoFields
    <2>3. UNCHANGED records
      BY <1>1 DEF stored
    <2>4. ASSUME NEW n \in Names \ raced, c \in Creating(n)' PROVE FoundFree(c, n)'
      <3>1. n = call[c].name /\ call'[c].op = "create" /\ call'[c].kind = call[c].kind
        BY <2>2, <2>4 DEF Creating, SameInput
      <3>2. Named(call[c].kind, n)' = {}
        BY <1>4, <2>3, <3>1 DEF Named
      <3>3. QED
        BY <2>2, <3>1, <3>2 DEF FoundFree
    <2>5. QED
      BY <1>1, <1>2, <1>4, <2>1, <2>4, MovesKeepsInv
  <1>5. QED
    BY <1>3, <1>4 DEF CheckOwn

\* No record of the other kind has the name.
LEMMA CheckOtherKeepsInv ==
  ASSUME ConfigurationInv, NEW c \in Calls, CheckOther(c)
  PROVE  ConfigurationInv'
  <1>1. /\ TypeOK /\ CallInv(c) /\ call[c].pc = "other" /\ call[c].name \in Names
        /\ UNCHANGED <<stored, history>> /\ faults' \in 0..MaxFaults
    BY DEF ConfigurationInv, NamePart, TypeOK, CheckOther, CallInv
  <1>2. call[c].pc \notin Noting \union Recorded /\ call[c].pc \notin Over
    BY <1>1 DEF Noting, Recorded, Over
  <1>3. CASE Goto(c, "error")
    BY <1>1, <1>2, <1>3, EndsKeepsInv
  <1>4. CASE Named(Other(call[c].kind), call[c].name) = {}
    <2>1. PICK p : p = IF call[c].op = "create" THEN "insert" ELSE "read"
      OBVIOUS
    <2>2. Goto(c, p) /\ p \in Places \ Noting
      BY <1>4, <2>1 DEF CheckOther, Places, Noting
    <2>3. call'[c].pc = p /\ SameInput(c)
      BY <1>1, <2>2, GotoFields
    <2>4. UNCHANGED records
      BY <1>1 DEF stored
    <2>5. ASSUME NEW n \in Names \ raced, c \in Creating(n)' PROVE FoundFree(c, n)'
      <3>1. n = call[c].name /\ call'[c].kind = call[c].kind /\ call'[c].op = call[c].op /\ call'[c].id = call[c].id
        BY <1>1, <2>2, <2>3, <2>5, GotoFields DEF Creating, SameInput, SameRead
      <3>2. Named(Other(call[c].kind), n)' = {}
        BY <1>4, <2>4, <3>1 DEF Named, Other
      <3>3. CASE call[c].op = "create"
        <4>1. c \in Creating(n) /\ NameInv(n)
          BY <1>1, <2>5, <3>1, <3>3 DEF Creating, CallInv, ConfigurationInv, NamePart
        <4>2. Named(call[c].kind, n) = {}
          BY <3>3, <4>1 DEF NameInv, FoundFree
        <4>3. Named(call[c].kind, n)' = {}
          BY <2>4, <3>1, <4>2 DEF Named
        <4>4. QED
          BY <3>2, <4>3 DEF FoundFree
      <3>4. CASE call[c].op # "create"
        BY <2>1, <2>3, <3>1, <3>2, <3>4 DEF FoundFree
      <3>5. QED
        BY <3>3, <3>4
    <2>6. /\ p = "insert" => call[c].op \in {"create", "store"} /\ call[c].id = None
          /\ p = "read" => call[c].op \in {"update", "delete", "store"}
          /\ p \in {"insert", "read"}
      BY <1>1, <2>1 DEF CallInv
    <2>7. QED
      BY <1>1, <1>2, <2>2, <2>5, <2>6, MovesKeepsInv
  <1>5. QED
    BY <1>3, <1>4 DEF CheckOther
\* The call reads the record of its name, or finds none.
LEMMA ReadKeepsInv ==
  ASSUME ConfigurationInv, NEW c \in Calls, Read(c)
  PROVE  ConfigurationInv'
  <1>1. /\ TypeOK /\ NamePart /\ CallInv(c) /\ call[c] \in Call /\ call[c].pc = "read" /\ call[c].name \in Names
        /\ call[c].op \in {"update", "delete", "store"}
        /\ UNCHANGED <<stored, history>> /\ UNCHANGED records /\ faults' \in 0..MaxFaults
    BY DEF ConfigurationInv, NamePart, TypeOK, Read, CallInv, stored
  <1>2. call[c].pc \notin Noting \union Recorded /\ call[c].pc \notin Over
    BY <1>1 DEF Noting, Recorded, Over
  <1>3. ASSUME NEW i \in Named(call[c].kind, call[c].name),
               call' = [call EXCEPT ![c].id = i, ![c].version = records[call[c].kind][i].version,
                 ![c].pc = CASE call[c].op = "update" -> "save" [] call[c].op = "delete" -> "remove"
                             [] OTHER -> BindingStep(c, i)]
        PROVE  ConfigurationInv'
    <2>1. /\ i \in Ids /\ i # None /\ records[call[c].kind][i].exists /\ records[call[c].kind][i].name = call[c].name
          /\ records[call[c].kind][i].version \in Nat /\ Inserted(i) /\ call[c].kind \in Kinds
      <3>1. i \in Ids /\ call[c].kind \in Kinds /\ records[call[c].kind][i].exists
            /\ records[call[c].kind][i].name = call[c].name
        BY <1>1, <1>3 DEF Named, Call
      <3>2. records[call[c].kind][i] \in Record /\ RecordInv(call[c].kind, i)
        BY <1>1, <3>1 DEF TypeOK, NamePart
      <3>3. i # None
        BY <3>1, ConfigurationAssumption DEF Ids
      <3>4. QED
        BY <3>1, <3>2, <3>3 DEF Record, RecordInv
    <2>2. PICK p : p = CASE call[c].op = "update" -> "save" [] call[c].op = "delete" -> "remove"
                         [] OTHER -> BindingStep(c, i)
      OBVIOUS
    <2>3. /\ p \in {"save", "remove", "keep", "permit"}
          /\ p \in {"keep", "permit"} => call[c].op = "store"
      BY <1>1, <2>2 DEF BindingStep
    <2>4. PICK q : q = [call[c] EXCEPT !.id = i, !.version = records[call[c].kind][i].version, !.pc = p]
      OBVIOUS
    <2>5. /\ q \in Call /\ q.pc = p /\ q.id = i
          /\ q.op = call[c].op /\ q.kind = call[c].kind /\ q.name = call[c].name /\ q.ref = call[c].ref
          /\ q.bind = call[c].bind
          /\ q.kept = call[c].kept /\ q.row = call[c].row /\ q.olds = call[c].olds /\ q.alone = call[c].alone
      BY <1>1, <2>1, <2>3, <2>4 DEF Call
    <2>6. call' = [call EXCEPT ![c] = q] /\ call \in [Calls -> Call]
      BY <1>1, <1>3, <2>2, <2>4 DEF TypeOK
    <2>7. /\ call' \in [Calls -> Call] /\ call'[c] = q
          /\ \A d \in Calls : d # c => call'[d] = call[d]
      BY <2>5, <2>6
    <2>8. SameInput(c) /\ SameMeta(c)
      BY <2>5, <2>7 DEF SameInput, SameMeta
    <2>9. CallInv(c)'
      <3>1. Inserted(i)'
        BY <1>2, <2>1, <2>7 DEF Inserted
      <3>2. call'[c].op # "create" /\ call'[c].pc \notin Noting
        BY <1>1, <2>3, <2>5, <2>7 DEF Noting
      <3>3. QED
        BY <1>1, <2>1, <2>3, <2>5, <2>7, <3>1, <3>2 DEF CallInv
    <2>10. \A n \in Names \ raced : c \in Creating(n)' => FoundFree(c, n)'
      BY <2>1, <2>5, <2>7 DEF Creating
    <2>11. call'[c].pc \notin Noting
      BY <2>3, <2>5, <2>7 DEF Noting
    <2>12. QED
      BY <1>1, <1>2, <2>7, <2>8, <2>9, <2>10, <2>11, ReadsKeepsInv
  <1>4. CASE Named(call[c].kind, call[c].name) = {} /\ Goto(c, "permit") /\ call[c].op = "store"
    <2>1. "permit" \in Places \ Noting
      BY DEF Places, Noting
    <2>2. /\ call'[c].pc = "permit"
          /\ call'[c].kind = call[c].kind /\ call'[c].op = call[c].op /\ call'[c].id = call[c].id
          /\ call'[c].name = call[c].name
      BY <1>1, <1>4, <2>1, GotoFields DEF SameInput, SameRead
    <2>3. ASSUME NEW n \in Names \ raced, c \in Creating(n)' PROVE FoundFree(c, n)'
      <3>1. c \in Creating(n) /\ NameInv(n) /\ n = call[c].name
        BY <1>1, <1>4, <2>2, <2>3 DEF Creating, NamePart
      <3>2. Named(Other(call[c].kind), n) = {} /\ Named(call[c].kind, n) = {}
        BY <1>4, <3>1 DEF NameInv, FoundFree
      <3>3. Named(Other(call[c].kind), n)' = {} /\ Named(call[c].kind, n)' = {}
        BY <1>1, <2>2, <3>2 DEF Named, Other
      <3>4. QED
        BY <3>3 DEF FoundFree
    <2>4. QED
      BY <1>1, <1>2, <1>4, <2>1, <2>3, MovesKeepsInv
  <1>5. CASE Goto(c, "error") \/ Goto(c, "ok")
    BY <1>1, <1>2, <1>5, EndsKeepsInv
  <1>6. QED
    <2>1. CASE \E i \in Named(call[c].kind, call[c].name) :
             call' = [call EXCEPT ![c].id = i, ![c].version = records[call[c].kind][i].version,
               ![c].pc = CASE call[c].op = "update" -> "save" [] call[c].op = "delete" -> "remove"
                           [] OTHER -> BindingStep(c, i)]
      BY <1>3, <2>1
    <2>2. CASE /\ Named(call[c].kind, call[c].name) = {}
               /\ Goto(c, CASE call[c].op = "update" -> "error" [] call[c].op = "delete" -> "ok"
                            [] OTHER -> BindingStep(c, None))
      <3>1. BindingStep(c, None) = "permit"
        BY DEF BindingStep
      <3>2. QED
        BY <1>1, <1>4, <1>5, <2>2, <3>1
    <2>3. QED
      BY <2>1, <2>2 DEF Read

\* The binding is authorized.
LEMMA PermitKeepsInv ==
  ASSUME ConfigurationInv, NEW c \in Calls, Permit(c)
  PROVE  ConfigurationInv'
  <1>1. /\ TypeOK /\ NamePart /\ CallInv(c) /\ call[c] \in Call /\ call[c].pc = "permit" /\ call[c].name \in Names
        /\ call[c].op = "store"
        /\ UNCHANGED <<stored, history>> /\ UNCHANGED records /\ faults' \in 0..MaxFaults
    BY DEF ConfigurationInv, NamePart, TypeOK, Permit, CallInv, stored
  <1>2. call[c].pc \notin Noting \union Recorded /\ call[c].pc \notin Over
    BY <1>1 DEF Noting, Recorded, Over
  <1>3. CASE call' = [call EXCEPT ![c].pc = "keep", ![c].bind = TRUE]
    <2>1. PICK q : q = [call[c] EXCEPT !.pc = "keep", !.bind = TRUE]
      OBVIOUS
    <2>2. /\ q \in Call /\ q.pc = "keep" /\ q.id = call[c].id
          /\ q.op = call[c].op /\ q.kind = call[c].kind /\ q.name = call[c].name /\ q.ref = call[c].ref
          /\ q.kept = call[c].kept /\ q.row = call[c].row /\ q.olds = call[c].olds /\ q.alone = call[c].alone
      BY <1>1, <2>1 DEF Call
    <2>3. call' = [call EXCEPT ![c] = q] /\ call \in [Calls -> Call]
      BY <1>1, <1>3, <2>1 DEF TypeOK
    <2>4. /\ call' \in [Calls -> Call] /\ call'[c] = q
          /\ \A d \in Calls : d # c => call'[d] = call[d]
      BY <2>2, <2>3
    <2>5. SameInput(c) /\ SameMeta(c)
      BY <2>2, <2>4 DEF SameInput, SameMeta
    <2>6. CallInv(c)'
      <3>1. \A i \in Ids : Inserted(i) => Inserted(i)'
        BY <1>2, <2>4 DEF Inserted
      <3>2. call[c].id # None => call[c].id \in Ids
        BY <1>1 DEF Call
      <3>3. QED
        BY <1>1, <2>2, <2>4, <3>1, <3>2 DEF CallInv
    <2>7. ASSUME NEW n \in Names \ raced, c \in Creating(n)' PROVE FoundFree(c, n)'
      <3>1. c \in Creating(n) /\ NameInv(n)
        BY <1>1, <2>2, <2>4, <2>7 DEF Creating, NamePart
      <3>2. Named(Other(call[c].kind), n) = {} /\ Named(call[c].kind, n) = {}
        BY <1>1, <3>1 DEF NameInv, FoundFree
      <3>3. Named(Other(call[c].kind), n)' = {} /\ Named(call[c].kind, n)' = {}
        BY <1>1, <2>2, <2>4, <3>2 DEF Named, Other
      <3>4. QED
        BY <3>3 DEF FoundFree
    <2>8. call'[c].pc \notin Noting
      BY <2>2, <2>4 DEF Noting
    <2>9. QED
      BY <1>1, <1>2, <2>4, <2>5, <2>6, <2>7, <2>8, ReadsKeepsInv
  <1>4. CASE Goto(c, "denied")
    BY <1>1, <1>2, <1>4, EndsKeepsInv
  <1>5. QED
    BY <1>3, <1>4 DEF Permit
-----------------------------------------------------------------------------
(* Writes of configuration *)

\* What a write makes of the collections.
Writes(k, i, rec) == records' = [records EXCEPT ![k] = [records[k] EXCEPT ![i] = rec]]

LEMMA RecordWritten ==
  ASSUME TypeOK, NEW k \in Kinds, NEW i \in Ids, NEW rec \in Record, Writes(k, i, rec)
  PROVE  /\ records' \in [Kinds -> [Ids -> Record]] /\ records'[k][i] = rec
         /\ \A l \in Kinds, j \in Ids : ~(l = k /\ j = i) => records'[l][j] = records[l][j]
  <1>1. records \in [Kinds -> [Ids -> Record]]
    BY DEF TypeOK
  <1>2. QED
    BY <1>1 DEF Writes

\* The call has written a record: it goes on to its audit, and leaves the metadata alone.
LEMMA WriterKeepsMeta ==
  ASSUME ConfigurationInv, NEW c \in Calls, Goto(c, "audit"), UNCHANGED <<custody, secrets, versions, settled>>
  PROVE  MetaPart' /\ call' \in [Calls -> Call] /\ call'[c].pc = "audit" /\ SameInput(c) /\ SameRead(c)
         /\ \A d \in Calls : d # c => call'[d] = call[d]
  <1>1. TypeOK /\ MetaPart
    BY DEF ConfigurationInv
  <1>2. "audit" \in Places /\ "audit" \in Recorded /\ "audit" \notin Noting
    BY DEF Places, Recorded, Over, Noting
  <1>3. /\ call' \in [Calls -> Call] /\ call'[c].pc = "audit" /\ SameInput(c) /\ SameRead(c) /\ SameMeta(c)
        /\ \A d \in Calls : d # c => call'[d] = call[d]
    BY <1>1, <1>2, GotoFields
  <1>4. call'[c].ref = call[c].ref /\ call'[c].op = call[c].op
    BY <1>3 DEF SameInput
  <1>5. QED
    BY <1>1, <1>2, <1>3, <1>4, MetaKept

\* A new record: its name was free, or two calls raced for it.
LEMMA InsertKeepsInv ==
  ASSUME ConfigurationInv, NEW c \in Calls, Insert(c)
  PROVE  ConfigurationInv'
  <1>1. /\ TypeOK /\ NamePart /\ CallInv(c) /\ call[c] \in Call /\ call[c].pc = "insert" /\ call[c].name \in Names
        /\ call[c].op \in {"create", "store"} /\ call[c].id = None
        /\ call[c].kind \in Kinds /\ call[c].ref \in Refs \union {None}
        /\ UNCHANGED <<custody, secrets, versions, faults, written, settled>>
    BY DEF ConfigurationInv, NamePart, TypeOK, Insert, CallInv, Call
  <1>2. /\ MetaPart' /\ call' \in [Calls -> Call] /\ call'[c].pc = "audit"
        /\ call'[c].op = call[c].op /\ call'[c].kind = call[c].kind /\ call'[c].name = call[c].name
        /\ call'[c].ref = call[c].ref /\ call'[c].id = None /\ call'[c].bind = call[c].bind
        /\ \A d \in Calls : d # c => call'[d] = call[d]
    BY <1>1, WriterKeepsMeta DEF Insert, SameInput, SameRead
  <1>3. PICK k \in Kinds : k = call[c].kind
    BY <1>1
  <1>4. PICK rec : rec = [exists |-> TRUE, name |-> call[c].name, ref |-> call[c].ref, version |-> 1]
    OBVIOUS
  <1>5. rec \in Record /\ rec.exists /\ rec.name = call[c].name /\ rec.version = 1
    BY <1>1, <1>4 DEF Record
  <1>6. /\ records' \in [Kinds -> [Ids -> Record]] /\ records'[k][c] = rec
        /\ \A l \in Kinds, j \in Ids : ~(l = k /\ j = c) => records'[l][j] = records[l][j]
    <2>1. c \in Ids /\ TypeOK /\ rec \in Record
      BY <1>1, <1>5 DEF Ids
    <2>2. Writes(k, c, rec)
      BY <1>3, <1>4 DEF Insert, Writes
    <2>3. QED
      BY <2>1, <2>2, RecordWritten
  <1>7. /\ raced' \subseteq Names /\ raced \subseteq raced'
        /\ Creating(call[c].name) # {c} => call[c].name \in raced'
    BY <1>1 DEF Insert, TypeOK
  <1>8. TypeOK'
    BY <1>1, <1>2, <1>6, <1>7 DEF TypeOK
  <1>9. ~Inserted(c) /\ \A i \in Ids : Inserted(i) => Inserted(i)'
    BY <1>1, <1>2 DEF Inserted, Over
  <1>10. ASSUME NEW l \in Kinds, NEW i \in Ids PROVE RecordInv(l, i)'
    <2>1. RecordInv(l, i) /\ written'[l][i] = written[l][i]
      BY <1>1 DEF NamePart
    <2>2. CASE l = k /\ i = c
      <3>1. written[l][i] = 0 /\ Inserted(i)'
        BY <1>2, <1>9, <2>1, <2>2 DEF RecordInv, Inserted, Over
      <3>2. QED
        BY <1>5, <1>6, <2>1, <2>2, <3>1 DEF RecordInv
    <2>3. CASE ~(l = k /\ i = c)
      BY <1>6, <1>9, <2>1, <2>3 DEF RecordInv
    <2>4. QED
      BY <2>2, <2>3
  <1>11. ASSUME NEW d \in Calls PROVE CallInv(d)'
    <2>1. CASE d = c
      BY <1>1, <1>2, <2>1 DEF CallInv, Noting
    <2>2. CASE d # c
      <3>1. CallInv(d) /\ call'[d] = call[d] /\ call[d] \in Call
        BY <1>1, <1>2, <2>2 DEF NamePart, TypeOK
      <3>2. call[d].id # None => call[d].id \in Ids /\ Inserted(call[d].id) /\ call[d].id # c
        BY <1>9, <3>1 DEF CallInv, Call
      <3>3. call[d].id # None => records'[call[d].kind][call[d].id] = records[call[d].kind][call[d].id]
        BY <1>6, <3>1, <3>2 DEF Call
      <3>4. QED
        BY <1>9, <3>1, <3>2, <3>3 DEF CallInv
    <2>3. QED
      BY <2>1, <2>2
  <1>12. ASSUME NEW n \in Names \ raced' PROVE NameInv(n)'
    <2>1. NameInv(n) /\ n \notin raced
      BY <1>1, <1>7 DEF NamePart
    <2>2. ASSUME NEW d \in Creating(n)' PROVE d \in Creating(n) /\ d # c /\ call'[d] = call[d]
      BY <1>2, <2>2 DEF Creating
    <2>3. CASE n = call[c].name
      <3>1. Creating(n) = {c}
        BY <1>7, <2>3
      <3>2. FoundFree(c, n)
        BY <2>1, <3>1 DEF NameInv
      <3>3. \A l \in Kinds : Named(l, n) = {}
        BY <1>1, <3>2 DEF FoundFree, Other, Kinds
      <3>4. \A l \in Kinds, i \in Ids : i \in Named(l, n)' => l = k /\ i = c
        BY <1>6, <3>3 DEF Named
      <3>5. Creating(n)' = {}
        BY <2>2, <3>1
      <3>6. QED
        BY <3>4, <3>5 DEF NameInv
    <2>4. CASE n # call[c].name
      <3>1. \A l \in Kinds, i \in Ids : i \in Named(l, n)' <=> i \in Named(l, n)
        <4>1. c \notin Named(k, n)' /\ c \notin Named(k, n)
          <5>1. ~records[k][c].exists
            BY <1>1, <1>9 DEF NamePart, RecordInv, Ids
          <5>2. QED
            BY <1>5, <1>6, <2>4, <5>1 DEF Named
        <4>2. QED
          BY <1>6, <4>1 DEF Named
      <3>2. \A l \in Kinds : Named(l, n)' = Named(l, n)
        BY <3>1 DEF Named
      <3>3. ASSUME NEW d \in Creating(n)' PROVE FoundFree(d, n)'
        <4>1. FoundFree(d, n) /\ call'[d] = call[d] /\ d \in Calls
          BY <2>1, <2>2, <3>3 DEF NameInv, Creating
        <4>2. call[d].kind \in Kinds /\ Other(call[d].kind) \in Kinds
          BY <1>1, <4>1 DEF TypeOK, Call, Kinds, Other
        <4>3. QED
          BY <3>2, <4>1, <4>2 DEF FoundFree, Other
      <3>4. QED
        BY <2>1, <3>1, <3>3 DEF NameInv
    <2>5. QED
      BY <2>3, <2>4
  <1>13. QED
    BY <1>2, <1>8, <1>10, <1>11, <1>12 DEF ConfigurationInv, NamePart

\* A write that gives no record a name it did not have, and makes none appear.
LEMMA RewriteKeepsNames ==
  ASSUME TypeOK, NamePart, NEW c \in Calls, call'[c].pc = "audit", CallInv(c)',
         \A d \in Calls : d # c => call'[d] = call[d], raced' = raced,
         \A l \in Kinds, j \in Ids : records'[l][j].exists =>
             records[l][j].exists /\ records'[l][j].name = records[l][j].name,
         \A l \in Kinds, j \in Ids : RecordInv(l, j)'
  PROVE  NamePart'
  <1>1. \A i \in Ids : Inserted(i) => Inserted(i)'
    BY DEF Inserted, Over
  <1>2. ASSUME NEW d \in Calls PROVE CallInv(d)'
    <2>1. CASE d # c
      <3>1. CallInv(d) /\ call'[d] = call[d] /\ call[d] \in Call
        BY <2>1 DEF NamePart, TypeOK
      <3>2. call[d].id # None => call[d].id \in Ids /\ call[d].kind \in Kinds
        BY <3>1 DEF Call
      <3>3. QED
        BY <1>1, <3>1, <3>2 DEF CallInv
    <2>2. QED
      BY <2>1
  <1>3. ASSUME NEW n \in Names \ raced PROVE NameInv(n)'
    <2>1. NameInv(n)
      BY DEF NamePart
    <2>2. \A l \in Kinds : Named(l, n)' \subseteq Named(l, n)
      BY DEF Named
    <2>3. ASSUME NEW d \in Creating(n)' PROVE FoundFree(d, n)'
      <3>1. d \in Creating(n) /\ call'[d] = call[d] /\ d \in Calls
        BY <2>3 DEF Creating
      <3>2. FoundFree(d, n) /\ call[d].kind \in Kinds /\ Other(call[d].kind) \in Kinds
        BY <2>1, <3>1 DEF NameInv, TypeOK, Call, Kinds, Other
      <3>3. QED
        BY <2>2, <3>1, <3>2 DEF FoundFree, Other
    <2>4. QED
      BY <2>1, <2>2, <2>3 DEF NameInv
  <1>4. QED
    BY <1>2, <1>3 DEF NamePart

\* An update writes the record it read, with the next version, or is refused.
LEMMA SaveKeepsInv ==
  ASSUME ConfigurationInv, NEW c \in Calls, Save(c)
  PROVE  ConfigurationInv'
  <1>1. /\ TypeOK /\ NamePart /\ CallInv(c) /\ call[c] \in Call /\ call[c].pc = "save"
        /\ call[c].id # None /\ call[c].id \in Ids /\ call[c].kind \in Kinds /\ call[c].version \in Nat
        /\ call[c].name \in Names \union {None} /\ call[c].ref \in Refs \union {None}
        /\ UNCHANGED <<custody, secrets, versions, faults, raced, settled>>
    BY DEF ConfigurationInv, NamePart, TypeOK, Save, CallInv, Call
  <1>2. CASE ~VersionMatches(c)
    <2>1. Goto(c, "error") /\ UNCHANGED <<stored, history>> /\ faults' \in 0..MaxFaults
      BY <1>1, <1>2 DEF Save, stored, history, TypeOK
    <2>2. QED
      BY <1>1, <2>1, EndsKeepsInv
  <1>3. CASE VersionMatches(c)
    <2>1. PICK k \in Kinds, i \in Ids : k = call[c].kind /\ i = call[c].id
      BY <1>1
    <2>2. PICK rec : rec = [exists |-> TRUE, name |-> call[c].name, ref |-> call[c].ref, version |-> call[c].version + 1]
      OBVIOUS
    <2>3. rec \in Record /\ rec.exists /\ rec.name = call[c].name /\ rec.version = call[c].version + 1
      BY <1>1, <2>2 DEF Record
    <2>4. /\ records[k][i].exists /\ records[k][i].version = call[c].version /\ records[k][i].name = call[c].name
          /\ RecordInv(k, i) /\ written[k][i] \in Nat
      BY <1>1, <1>3, <2>1 DEF VersionMatches, CallInv, NamePart, TypeOK
    <2>5. Goto(c, "audit") /\ written' = [written EXCEPT ![k][i] = written[k][i] + 1]
          /\ records' = [records EXCEPT ![k][i] = rec]
      BY <1>3, <2>1, <2>2 DEF Save
    <2>6. /\ MetaPart' /\ call' \in [Calls -> Call] /\ call'[c].pc = "audit"
          /\ call'[c].op = call[c].op /\ call'[c].kind = call[c].kind /\ call'[c].name = call[c].name
          /\ call'[c].ref = call[c].ref /\ call'[c].id = call[c].id /\ call'[c].bind = call[c].bind
          /\ \A d \in Calls : d # c => call'[d] = call[d]
      BY <1>1, <2>5, WriterKeepsMeta DEF SameInput, SameRead
    <2>7. /\ records' \in [Kinds -> [Ids -> Record]] /\ records'[k][i] = rec
          /\ \A l \in Kinds, j \in Ids : ~(l = k /\ j = i) => records'[l][j] = records[l][j]
      <3>1. TypeOK /\ rec \in Record
        BY <1>1, <2>3
      <3>2. Writes(k, i, rec)
        BY <2>5 DEF Writes
      <3>3. QED
        BY <3>1, <3>2, RecordWritten
    <2>8. /\ written' \in [Kinds -> [Ids -> Nat]] /\ written'[k][i] = written[k][i] + 1
          /\ \A l \in Kinds, j \in Ids : ~(l = k /\ j = i) => written'[l][j] = written[l][j]
      <3>1. written \in [Kinds -> [Ids -> Nat]]
        BY <1>1 DEF TypeOK
      <3>2. written' = [written EXCEPT ![k] = [written[k] EXCEPT ![i] = written[k][i] + 1]]
        BY <2>5
      <3>3. QED
        BY <2>4, <3>1, <3>2
    <2>9. TypeOK'
      BY <1>1, <2>6, <2>7, <2>8 DEF TypeOK
    <2>10. \A j \in Ids : Inserted(j) => Inserted(j)'
      BY <2>6 DEF Inserted, Over
    <2>11. ASSUME NEW l \in Kinds, NEW j \in Ids PROVE RecordInv(l, j)'
      <3>1. CASE l = k /\ j = i
        BY <2>3, <2>4, <2>7, <2>8, <2>10, <3>1 DEF RecordInv
      <3>2. CASE ~(l = k /\ j = i)
        BY <1>1, <2>7, <2>8, <2>10, <3>2 DEF RecordInv, NamePart
      <3>3. QED
        BY <3>1, <3>2
    <2>12. \A l \in Kinds, j \in Ids : records'[l][j].exists =>
               records[l][j].exists /\ records'[l][j].name = records[l][j].name
      BY <2>3, <2>4, <2>7
    <2>13. CallInv(c)'
      <3>1. call'[c].id \in Ids /\ Inserted(call[c].id)
        BY <1>1, <2>6 DEF CallInv
      <3>2. QED
        BY <1>1, <2>1, <2>3, <2>6, <2>7, <2>10, <3>1 DEF CallInv, Noting
    <2>14. NamePart'
      BY <1>1, <2>6, <2>11, <2>12, <2>13, RewriteKeepsNames
    <2>15. QED
      BY <2>6, <2>9, <2>14 DEF ConfigurationInv
  <1>4. QED
    BY <1>2, <1>3

\* A deletion removes the record it read, whatever its version.
LEMMA RemoveRecordKeepsInv ==
  ASSUME ConfigurationInv, NEW c \in Calls, RemoveRecord(c)
  PROVE  ConfigurationInv'
  <1>1. /\ TypeOK /\ NamePart /\ CallInv(c) /\ call[c] \in Call /\ call[c].pc = "remove"
        /\ call[c].id # None /\ call[c].id \in Ids /\ call[c].kind \in Kinds
        /\ UNCHANGED <<custody, secrets, versions, faults, written, raced, settled>>
    BY DEF ConfigurationInv, NamePart, TypeOK, RemoveRecord, CallInv, Call, history
  <1>2. PICK k \in Kinds, i \in Ids : k = call[c].kind /\ i = call[c].id
    BY <1>1
  <1>3. Absent \in Record /\ ~Absent.exists
    BY DEF Absent, Record
  <1>4. /\ MetaPart' /\ call' \in [Calls -> Call] /\ call'[c].pc = "audit"
        /\ call'[c].op = call[c].op /\ call'[c].kind = call[c].kind /\ call'[c].name = call[c].name
        /\ call'[c].ref = call[c].ref /\ call'[c].id = call[c].id /\ call'[c].bind = call[c].bind
        /\ \A d \in Calls : d # c => call'[d] = call[d]
    BY <1>1, WriterKeepsMeta DEF RemoveRecord, SameInput, SameRead
  <1>5. /\ records' \in [Kinds -> [Ids -> Record]] /\ records'[k][i] = Absent
        /\ \A l \in Kinds, j \in Ids : ~(l = k /\ j = i) => records'[l][j] = records[l][j]
    <2>1. TypeOK /\ Absent \in Record
      BY <1>1, <1>3
    <2>2. Writes(k, i, Absent)
      BY <1>2 DEF RemoveRecord, Writes
    <2>3. QED
      BY <2>1, <2>2, RecordWritten
  <1>6. TypeOK'
    BY <1>1, <1>4, <1>5 DEF TypeOK
  <1>7. \A j \in Ids : Inserted(j) => Inserted(j)'
    BY <1>4 DEF Inserted, Over
  <1>8. ASSUME NEW l \in Kinds, NEW j \in Ids PROVE RecordInv(l, j)'
    BY <1>1, <1>3, <1>5, <1>7 DEF RecordInv, NamePart
  <1>9. \A l \in Kinds, j \in Ids : records'[l][j].exists =>
             records[l][j].exists /\ records'[l][j].name = records[l][j].name
    BY <1>3, <1>5
  <1>10. CallInv(c)'
    <2>1. call'[c].id \in Ids /\ Inserted(call[c].id)
      BY <1>1, <1>4 DEF CallInv
    <2>2. QED
      BY <1>1, <1>2, <1>3, <1>4, <1>5, <1>7, <2>1 DEF CallInv, Noting
  <1>11. NamePart'
    BY <1>1, <1>4, <1>8, <1>9, <1>10, RewriteKeepsNames
  <1>12. QED
    BY <1>4, <1>6, <1>11 DEF ConfigurationInv
-----------------------------------------------------------------------------
(* Custody and its metadata *)

\* A call between custody and its binding leaves the names as it found them.
LEMMA StoringKeepsNames ==
  ASSUME ConfigurationInv, NEW c \in Calls, call[c].pc \in {"keep"} \union Noting,
         call'[c].pc \in Noting \union {"insert", "save", "audit", "expired", "error"},
         UNCHANGED <<records, written, raced>>, SameInput(c), SameRead(c),
         \A d \in Calls : d # c => /\ SameInput(d) /\ SameRead(d) /\ call'[d].pc = call[d].pc
                                   /\ call[d].pc = "new" => call'[d] = call[d],
         call'[c].pc = "insert" => call[c].bind /\ call[c].id = None,
         call'[c].pc = "save" => call[c].id # None
  PROVE  NamePart'
  <1>1. TypeOK /\ NamePart /\ CallInv(c) /\ call[c].op = "store" /\ call[c] \in Call /\ call[c].pc \notin Over
        /\ call[c].pc # "new" /\ call'[c].pc # "new"
    BY DEF ConfigurationInv, NamePart, CallInv, Noting, Over, TypeOK
  <1>2. /\ call'[c].op = call[c].op /\ call'[c].kind = call[c].kind /\ call'[c].name = call[c].name
        /\ call'[c].ref = call[c].ref /\ call'[c].id = call[c].id /\ call'[c].bind = call[c].bind
    BY DEF SameInput, SameRead
  <1>3. CallInv(c)'
    <2>1. \A i \in Ids : Inserted(i) => Inserted(i)'
      BY <1>1 DEF Inserted
    <2>2. call[c].id # None => call[c].id \in Ids
      BY <1>1 DEF Call
    <2>3. call'[c].pc \in Noting \union {"insert", "save", "audit", "expired", "error"}
      OBVIOUS
    <2>4. QED
      BY <1>1, <1>2, <2>1, <2>2, <2>3 DEF CallInv, Noting
  <1>4. ASSUME NEW n \in Names \ raced, c \in Creating(n)' PROVE FoundFree(c, n)'
    <2>1. c \in Creating(n) /\ NameInv(n)
      BY <1>1, <1>2, <1>4 DEF Creating, NamePart, Noting
    <2>2. Named(Other(call[c].kind), n) = {} /\ Named(call[c].kind, n) = {}
      BY <1>1, <2>1 DEF NameInv, FoundFree, Noting
    <2>3. Named(Other(call[c].kind), n)' = {} /\ Named(call[c].kind, n)' = {}
      BY <1>2, <2>2 DEF Named, Other
    <2>4. QED
      BY <2>3 DEF FoundFree
  <1>5. QED
    BY <1>1, <1>3, <1>4, NamesKept

\* A call that writes the metadata of its reference touches no other's, and is not met
\* by a call that is alone.
LEMMA OthersKeepMeta ==
  ASSUME TypeOK, MetaPart, NEW c \in Calls, call[c].pc \in Noting, call'[c].ref = call[c].ref, call[c].ref \in Refs,
         \A d \in Calls : d # c => call'[d] = call[d], UNCHANGED custody,
         \A d \in Calls : secrets[d].ref # None => secrets'[d].ref = secrets[d].ref,
         \A d \in Calls : secrets'[d] # secrets[d] => secrets'[d].ref = call[c].ref,
         \A v \in versions' : v \in versions \/ (v.row \in Calls /\ secrets[v.row].ref = call[c].ref)
  PROVE  /\ \A d \in Calls : d # c => AloneInv(d)'
         /\ \A r \in settled : r # call[c].ref /\ SettledInv(r)'
  <1>1. c \in Recording(call[c].ref)
    BY DEF Recording, Noting
  <1>2. ASSUME NEW r \in Refs, r # call[c].ref PROVE Recording(r)' = Recording(r)
    BY <1>2 DEF Recording
  <1>3. ASSUME NEW row \in Calls, secrets[row].ref # None, secrets[row].ref # call[c].ref
        PROVE  secrets'[row] = secrets[row] /\ \A v \in versions' : v.row = row => v \in versions
    BY <1>3
  <1>4. ASSUME NEW d \in Calls, d # c PROVE AloneInv(d)'
    <2>1. AloneInv(d) /\ MetaInv(d) /\ call'[d] = call[d] /\ call[d] \in Call
      BY <1>4 DEF MetaPart, TypeOK
    <2>2. SUFFICES ASSUME call[d].pc \in Noting, call[d].alone PROVE AloneInv(d)'
      BY <2>1 DEF AloneInv
    <2>3. Recording(call[d].ref) = {d}
      BY <2>1, <2>2 DEF AloneInv
    <2>4. call[d].ref # call[c].ref
      BY <1>1, <1>4, <2>3
    <2>5. Recording(call[d].ref)' = {d}
      BY <2>1, <2>3, <2>4 DEF Recording
    <2>6. CASE call[d].row = None
      BY <2>1, <2>2, <2>5, <2>6 DEF AloneInv, MetaInv
    <2>7. CASE call[d].row # None
      <3>1. call[d].row \in Calls /\ secrets[call[d].row].ref = call[d].ref /\ call[d].ref \in Refs
        BY <2>1, <2>7 DEF MetaInv, Call
      <3>2. /\ secrets'[call[d].row] = secrets[call[d].row]
            /\ \A v \in versions' : v.row = call[d].row => v \in versions
        BY <1>3, <2>4, <3>1, ConfigurationAssumption
      <3>3. QED
        BY <2>1, <2>2, <2>5, <3>2 DEF AloneInv
    <2>8. QED
      BY <2>6, <2>7
  <1>5. ASSUME NEW r \in settled PROVE r # call[c].ref /\ SettledInv(r)'
    <2>1. r \in Refs /\ SettledInv(r) /\ r # None
      BY ConfigurationAssumption DEF MetaPart, TypeOK
    <2>2. r # call[c].ref
      BY <1>1, <2>1 DEF SettledInv
    <2>3. PICK row \in Calls :
            /\ secrets[row] = [ref |-> r, current |-> custody[r]]
            /\ \A v \in versions : v.row = row => (v.status = "active" <=> v.version = custody[r])
      BY <2>1 DEF SettledInv
    <2>4. secrets[row].ref = r
      BY <2>3
    <2>5. secrets'[row] = secrets[row] /\ \A v \in versions' : v.row = row => v \in versions
      BY <1>3, <2>1, <2>2, <2>4
    <2>6. Recording(r)' = {}
      BY <1>2, <2>1, <2>2 DEF SettledInv
    <2>7. QED
      BY <2>2, <2>3, <2>5, <2>6 DEF SettledInv
  <1>6. QED
    BY <1>4, <1>5

\* The call stays between custody and its version: what it says of itself is left to show.
LEMMA NotingKeepsMeta ==
  ASSUME TypeOK, MetaPart, NEW c \in Calls, call[c].pc \in Noting, call'[c].pc \in Noting, call[c].ref \in Refs,
         SameInput(c), call'[c].kept = call[c].kept,
         \A d \in Calls : d # c => call'[d] = call[d], UNCHANGED <<custody, settled>>,
         \A d \in Calls : secrets[d].ref # None => secrets'[d].ref = secrets[d].ref,
         \A d \in Calls : d # c => secrets'[d].ref = secrets[d].ref,
         \A d \in Calls : secrets'[d] # secrets[d] => secrets'[d].ref = call[c].ref,
         \A v \in versions' : \E u \in versions : /\ v.id = u.id /\ v.row = u.row /\ v.version = u.version
                                                  /\ v = u \/ u.row = call[c].row,
         call[c].row # None \/ versions' = versions,
         MetaInv(c)', AloneInv(c)'
  PROVE  MetaPart'
  <1>1. MetaInv(c) /\ call[c].row \in Calls \union {None} /\ call'[c].ref = call[c].ref
    BY DEF MetaPart, TypeOK, Call, SameInput
  <1>2. call[c].pc \notin Recorded
    BY DEF Noting, Recorded, Over
  <1>3. \A v \in versions' : v \in versions \/ (v.row \in Calls /\ secrets[v.row].ref = call[c].ref)
    BY <1>1 DEF MetaInv
  <1>4. /\ \A d \in Calls : d # c => AloneInv(d)'
        /\ \A r \in settled : SettledInv(r)'
    BY <1>1, <1>3, OthersKeepMeta
  <1>5. ASSUME NEW d \in Calls PROVE MetaInv(d)'
    <2>1. CASE d = c
      BY <2>1
    <2>2. CASE d # c
      <3>1. MetaInv(d) /\ call'[d] = call[d] /\ call[d] \in Call
        BY <2>2 DEF MetaPart, TypeOK
      <3>2. \A x \in call[d].olds : x \in Calls /\ x # c /\ call'[x] = call[x]
        BY <1>2, <3>1 DEF MetaInv, Call
      <3>3. call[d].row # None => call[d].row \in Calls /\ secrets'[call[d].row].ref = secrets[call[d].row].ref
        BY <3>1, ConfigurationAssumption DEF MetaInv, Call
      <3>4. secrets'[d].ref = secrets[d].ref
        BY <2>2
      <3>5. QED
        BY <3>1, <3>2, <3>3, <3>4 DEF MetaInv
    <2>3. QED
      BY <2>1, <2>2
  <1>6. KeptApart'
    <2>1. \A d \in Calls : call'[d].kept = call[d].kept /\ call'[d].ref = call[d].ref
      BY <1>1
    <2>2. QED
      BY <2>1 DEF MetaPart, KeptApart
  <1>7. ASSUME NEW v \in versions' PROVE VersionInv(v)'
    <2>1. PICK u \in versions : v.id = u.id /\ v.row = u.row /\ v.version = u.version
      BY <1>7
    <2>2. VersionInv(u) /\ u.id \in Calls
      BY DEF MetaPart, TypeOK
    <2>3. call'[u.id] = call[u.id]
      BY <1>2, <2>2 DEF VersionInv
    <2>4. QED
      BY <2>1, <2>2, <2>3 DEF VersionInv
  <1>8. QED
    BY <1>4, <1>5, <1>6, <1>7 DEF MetaPart
\* recordStored finds the row of the reference, or none.
LEMMA FindKeepsInv ==
  ASSUME ConfigurationInv, NEW c \in Calls, Find(c)
  PROVE  ConfigurationInv'
  <1>1. /\ TypeOK /\ MetaPart /\ MetaInv(c) /\ AloneInv(c) /\ call[c] \in Call /\ call[c].pc = "find"
        /\ call[c].op = "store" /\ call[c].ref \in Refs /\ call[c].row = None /\ call[c].olds = {}
        /\ UNCHANGED <<records, custody, secrets, versions, faults, written, raced, settled>>
    BY DEF ConfigurationInv, NamePart, MetaPart, TypeOK, Find, CallInv, MetaInv, Noting, Noted, Recorded, Over, stored, history
  <1>2. PICK row \in Calls \union {None} :
          /\ call' = [call EXCEPT ![c].pc = "note", ![c].row = row]
          /\ row # None => secrets[row].ref = call[c].ref
    <2>1. CASE \E d \in {d \in Calls : secrets[d].ref = call[c].ref} :
                 call' = [call EXCEPT ![c].pc = "note", ![c].row = d]
      BY <2>1
    <2>2. CASE Goto(c, "note")
      <3>1. [call[c] EXCEPT !.pc = "note", !.row = None] = [call[c] EXCEPT !.pc = "note"]
        BY <1>1 DEF Call
      <3>2. call' = [call EXCEPT ![c].pc = "note", ![c].row = None]
        BY <2>2, <3>1 DEF Goto
      <3>3. QED
        BY <3>2
    <2>3. QED
      BY <2>1, <2>2 DEF Find
  <1>3. PICK q : q = [call[c] EXCEPT !.pc = "note", !.row = row]
    OBVIOUS
  <1>31. q \in Call
    <2>1. call[c] \in Call
      BY <1>1
    <2>2. PICK m : m = [call[c] EXCEPT !.pc = "note"]
      OBVIOUS
    <2>3. m \in Call
      BY <2>1, <2>2 DEF Call
    <2>4. q = [m EXCEPT !.row = row]
      BY <1>3, <2>1, <2>2 DEF Call
    <2>5. QED
      BY <2>3, <2>4 DEF Call
  <1>32. q.pc = "note" /\ q.row = row /\ q.bind = call[c].bind /\ q.alone = call[c].alone
    BY <1>1, <1>3 DEF Call
  <1>33. /\ q.op = call[c].op /\ q.kind = call[c].kind /\ q.name = call[c].name /\ q.ref = call[c].ref
         /\ q.id = call[c].id /\ q.version = call[c].version /\ q.kept = call[c].kept /\ q.olds = call[c].olds
    BY <1>1, <1>3 DEF Call
  <1>4. /\ q \in Call /\ q.pc = "note" /\ q.row = row
        /\ q.op = call[c].op /\ q.kind = call[c].kind /\ q.name = call[c].name /\ q.ref = call[c].ref
        /\ q.id = call[c].id /\ q.version = call[c].version /\ q.bind = call[c].bind
        /\ q.kept = call[c].kept /\ q.olds = call[c].olds /\ q.alone = call[c].alone
    BY <1>31, <1>32, <1>33
  <1>5. call' = [call EXCEPT ![c] = q] /\ call \in [Calls -> Call]
    BY <1>1, <1>2, <1>3 DEF TypeOK
  <1>6. call' \in [Calls -> Call] /\ call'[c] = q /\ \A d \in Calls : d # c => call'[d] = call[d]
    BY <1>4, <1>5
  <1>7. TypeOK'
    BY <1>1, <1>6 DEF TypeOK
  <1>8. SameInput(c) /\ SameRead(c) /\ call[c].pc \in Noting /\ call'[c].pc \in Noting
        /\ \A d \in Calls : d # c => /\ SameInput(d) /\ SameRead(d) /\ call'[d].pc = call[d].pc
                                     /\ call[d].pc = "new" => call'[d] = call[d]
    BY <1>1, <1>4, <1>6 DEF SameInput, SameRead, Noting
  <1>9. NamePart'
    BY <1>1, <1>4, <1>6, <1>8, StoringKeepsNames
  <1>10. MetaInv(c)'
    BY <1>1, <1>2, <1>4, <1>6 DEF MetaInv, Noting, Noted, Recorded, Over
  <1>11. AloneInv(c)'
    <2>1. Recording(call[c].ref)' = Recording(call[c].ref)
      BY <1>4, <1>6, <1>8 DEF Recording, Noting
    <2>2. QED
      BY <1>1, <1>4, <1>6, <1>8, <2>1 DEF AloneInv
  <1>12. MetaPart'
    BY <1>1, <1>4, <1>6, <1>8, <1>10, <1>11, NotingKeepsMeta
  <1>13. QED
    BY <1>7, <1>9, <1>12 DEF ConfigurationInv

\* A row of SecretVersions is of a row of Secrets that has the reference of its call.
LEMMA VersionRow ==
  ASSUME TypeOK, MetaPart, NEW v \in versions
  PROVE  /\ v.id \in Calls /\ v.row \in Calls /\ call[v.id].row = v.row /\ call[v.id].pc \in Recorded
         /\ v.version = call[v.id].kept /\ v.version # 0 /\ v.status \in {"active", "retired"}
         /\ secrets[v.row].ref = call[v.id].ref /\ secrets[v.row].ref # None
  <1>1. v.id \in Calls /\ v.row \in Calls /\ v.version # 0 /\ v.status \in {"active", "retired"}
    BY DEF TypeOK
  <1>2. VersionInv(v) /\ MetaInv(v.id) /\ v.row # None
    BY <1>1, ConfigurationAssumption DEF MetaPart
  <1>3. QED
    BY <1>1, <1>2, ConfigurationAssumption DEF VersionInv, MetaInv

\* recordStored writes the row, its own or the one it found.
LEMMA NoteKeepsInv ==
  ASSUME ConfigurationInv, NEW c \in Calls, Note(c)
  PROVE  ConfigurationInv'
  <1>1. /\ TypeOK /\ MetaPart /\ MetaInv(c) /\ AloneInv(c) /\ call[c] \in Call /\ call[c].pc = "note"
        /\ call[c].op = "store" /\ call[c].ref \in Refs /\ call[c].olds = {} /\ secrets[c].ref = None
        /\ call[c].kept \in Nat
        /\ UNCHANGED <<records, custody, versions, faults, written, raced, settled>>
    BY DEF ConfigurationInv, NamePart, MetaPart, TypeOK, Note, CallInv, MetaInv, Noting, Noted, Recorded, Over, history, Call
  <1>2. PICK row : row = IF call[c].row = None THEN c ELSE call[c].row
    OBVIOUS
  <1>3. PICK p : p = IF call[c].row = None THEN "version" ELSE "list"
    OBVIOUS
  <1>4. row \in Calls /\ row # None
    BY <1>1, <1>2, ConfigurationAssumption DEF Call
  <1>5. PICK entry : entry = [ref |-> call[c].ref, current |-> call[c].kept]
    OBVIOUS
  <1>6. secrets' = [secrets EXCEPT ![row] = entry] /\ call' = [call EXCEPT ![c].row = row, ![c].pc = p]
    BY <1>2, <1>3, <1>5 DEF Note
  <1>7. PICK q : q = [call[c] EXCEPT !.row = row, !.pc = p]
    OBVIOUS
  <1>71. p \in {"version", "list"}
    BY <1>3
  <1>72. q \in Call
    <2>1. call[c] \in Call /\ row \in Calls
      BY <1>1, <1>4
    <2>2. PICK m : m = [call[c] EXCEPT !.pc = p]
      OBVIOUS
    <2>3. m \in Call
      BY <1>71, <2>1, <2>2 DEF Call
    <2>4. q = [m EXCEPT !.row = row]
      BY <1>7, <2>1, <2>2 DEF Call
    <2>5. QED
      BY <2>1, <2>3, <2>4 DEF Call
  <1>73. q.pc = p /\ q.row = row /\ q.bind = call[c].bind /\ q.alone = call[c].alone
    BY <1>1, <1>7 DEF Call
  <1>74. /\ q.op = call[c].op /\ q.kind = call[c].kind /\ q.name = call[c].name /\ q.ref = call[c].ref
         /\ q.id = call[c].id /\ q.version = call[c].version /\ q.kept = call[c].kept /\ q.olds = call[c].olds
    BY <1>1, <1>7 DEF Call
  <1>8. /\ q \in Call /\ q.pc = p /\ q.row = row /\ p \in {"version", "list"}
        /\ q.op = call[c].op /\ q.kind = call[c].kind /\ q.name = call[c].name /\ q.ref = call[c].ref
        /\ q.id = call[c].id /\ q.version = call[c].version /\ q.bind = call[c].bind
        /\ q.kept = call[c].kept /\ q.olds = call[c].olds /\ q.alone = call[c].alone
    BY <1>71, <1>72, <1>73, <1>74
  <1>9. call' = [call EXCEPT ![c] = q] /\ call \in [Calls -> Call]
    BY <1>1, <1>6, <1>7 DEF TypeOK
  <1>10. call' \in [Calls -> Call] /\ call'[c] = q /\ \A d \in Calls : d # c => call'[d] = call[d]
    BY <1>8, <1>9
  <1>11. /\ secrets' \in [Calls -> [ref : Refs \union {None}, current : Nat]]
         /\ secrets'[row] = entry /\ entry.ref = call[c].ref /\ \A d \in Calls : d # row => secrets'[d] = secrets[d]
    BY <1>1, <1>4, <1>5, <1>6 DEF TypeOK
  <1>12. TypeOK'
    BY <1>1, <1>10, <1>11 DEF TypeOK
  <1>13. SameInput(c) /\ SameRead(c) /\ call[c].pc \in Noting /\ call'[c].pc \in Noting
         /\ \A d \in Calls : d # c => /\ SameInput(d) /\ SameRead(d) /\ call'[d].pc = call[d].pc
                                      /\ call[d].pc = "new" => call'[d] = call[d]
    BY <1>1, <1>8, <1>10 DEF SameInput, SameRead, Noting
  <1>14. NamePart'
    BY <1>1, <1>8, <1>10, <1>13, StoringKeepsNames
  <1>15. secrets[row].ref = call[c].ref \/ row = c
    BY <1>1, <1>2 DEF MetaInv
  <1>16. MetaInv(c)'
    <2>1. secrets'[c].ref # None => secrets'[c].ref = call[c].ref
      BY <1>1, <1>11
    <2>2. QED
      BY <1>1, <1>4, <1>8, <1>10, <1>11, <1>13, <2>1 DEF MetaInv, Noted
  <1>17. AloneInv(c)'
    <2>1. Recording(call[c].ref)' = Recording(call[c].ref)
      BY <1>8, <1>10, <1>13 DEF Recording, Noting
    <2>2. ASSUME p = "version", NEW v \in versions' PROVE v.row # row
      BY <1>1, <1>2, <1>3, <2>2, VersionRow
    <2>3. secrets'[call'[c].row] = [ref |-> call'[c].ref, current |-> call'[c].kept]
      BY <1>5, <1>8, <1>10, <1>11
    <2>4. QED
      BY <1>1, <1>8, <1>10, <1>13, <2>1, <2>2, <2>3 DEF AloneInv
  <1>18. MetaPart'
    <2>1. /\ \A d \in Calls : secrets[d].ref # None => secrets'[d].ref = secrets[d].ref
          /\ \A d \in Calls : d # c => secrets'[d].ref = secrets[d].ref
          /\ \A d \in Calls : secrets'[d] # secrets[d] => secrets'[d].ref = call[c].ref
      BY <1>1, <1>11, <1>15
    <2>2. \A v \in versions' : \E u \in versions : /\ v.id = u.id /\ v.row = u.row /\ v.version = u.version
                                                   /\ v = u \/ u.row = call[c].row
      BY <1>1
    <2>3. QED
      BY <1>1, <1>8, <1>10, <1>13, <1>16, <1>17, <2>1, <2>2, NotingKeepsMeta
  <1>19. QED
    BY <1>12, <1>14, <1>18 DEF ConfigurationInv

\* recordStored lists the versions of its row that are active.
LEMMA ListActiveKeepsInv ==
  ASSUME ConfigurationInv, NEW c \in Calls, ListActive(c)
  PROVE  ConfigurationInv'
  <1>1. /\ TypeOK /\ MetaPart /\ MetaInv(c) /\ AloneInv(c) /\ call[c] \in Call /\ call[c].pc = "list"
        /\ call[c].op = "store" /\ call[c].ref \in Refs /\ call[c].row # None
        /\ UNCHANGED <<records, custody, secrets, versions, faults, written, raced, settled>>
    BY DEF ConfigurationInv, NamePart, MetaPart, TypeOK, ListActive, CallInv, MetaInv, Noting, stored, history
  <1>2. PICK olds : olds = Active(call[c].row)
    OBVIOUS
  <1>3. /\ olds \subseteq Calls
        /\ \A d \in olds : call[d].pc \in Recorded /\ call[d].row = call[c].row
        /\ \A v \in versions : v.row = call[c].row /\ v.status = "active" => v.id \in olds
    BY <1>1, <1>2, VersionRow DEF Active
  <1>4. PICK q : q = [call[c] EXCEPT !.olds = olds, !.pc = "retire"]
    OBVIOUS
  <1>5. /\ q \in Call /\ q.pc = "retire" /\ q.olds = olds
        /\ q.op = call[c].op /\ q.kind = call[c].kind /\ q.name = call[c].name /\ q.ref = call[c].ref
        /\ q.id = call[c].id /\ q.version = call[c].version /\ q.bind = call[c].bind
        /\ q.kept = call[c].kept /\ q.row = call[c].row /\ q.alone = call[c].alone
    BY <1>1, <1>3, <1>4 DEF Call
  <1>6. call' = [call EXCEPT ![c] = q] /\ call \in [Calls -> Call]
    BY <1>1, <1>2, <1>4 DEF TypeOK, ListActive
  <1>7. call' \in [Calls -> Call] /\ call'[c] = q /\ \A d \in Calls : d # c => call'[d] = call[d]
    BY <1>5, <1>6
  <1>8. TypeOK'
    BY <1>1, <1>7 DEF TypeOK
  <1>9. SameInput(c) /\ SameRead(c) /\ call[c].pc \in Noting /\ call'[c].pc \in Noting
        /\ \A d \in Calls : d # c => /\ SameInput(d) /\ SameRead(d) /\ call'[d].pc = call[d].pc
                                     /\ call[d].pc = "new" => call'[d] = call[d]
    BY <1>1, <1>5, <1>7 DEF SameInput, SameRead, Noting
  <1>10. NamePart'
    BY <1>1, <1>5, <1>7, <1>9, StoringKeepsNames
  <1>11. MetaInv(c)'
    <2>1. \A d \in olds : call'[d].pc \in Recorded /\ call'[d].row = call[c].row
      BY <1>1, <1>3, <1>7 DEF Recorded, Over
    <2>2. QED
      BY <1>1, <1>5, <1>7, <1>9, <2>1 DEF MetaInv, Noted
  <1>12. AloneInv(c)'
    <2>1. Recording(call[c].ref)' = Recording(call[c].ref)
      BY <1>5, <1>7, <1>9 DEF Recording, Noting
    <2>2. QED
      BY <1>1, <1>3, <1>5, <1>7, <1>9, <2>1 DEF AloneInv
  <1>13. MetaPart'
    BY <1>1, <1>5, <1>7, <1>9, <1>11, <1>12, NotingKeepsMeta
  <1>14. QED
    BY <1>8, <1>10, <1>13 DEF ConfigurationInv
\* A step of the retiring: it changes versions of the call's own row only, and what it has
\* not listed, or has taken from its list, is retired when the call is alone.
RetiresOwn(c) ==
  /\ call' \in [Calls -> Call] /\ SameInput(c) /\ SameRead(c)
  /\ call'[c].kept = call[c].kept /\ call'[c].row = call[c].row
  /\ call'[c].pc \in {"retire", "version"} /\ call'[c].olds \subseteq call[c].olds
  /\ \A d \in Calls : d # c => call'[d] = call[d]
  /\ versions' \subseteq [id : Calls, row : Calls, version : Nat \ {0}, status : {"active", "retired"}]
  /\ \A v \in versions' : \E u \in versions : /\ v.id = u.id /\ v.row = u.row /\ v.version = u.version
                                              /\ v = u \/ u.row = call[c].row

RetiredIfAlone(c) ==
  call'[c].alone => /\ call[c].alone
                    /\ \A v \in versions' : v.row = call[c].row /\ v.status = "active"
                                             => call'[c].pc = "retire" /\ v.id \in call'[c].olds

\* recordStored retires the versions it has listed, one by one.
LEMMA RetireKeepsInv ==
  ASSUME ConfigurationInv, NEW c \in Calls, Retire(c)
  PROVE  ConfigurationInv'
  <1>1. /\ TypeOK /\ MetaPart /\ MetaInv(c) /\ AloneInv(c) /\ call[c] \in Call /\ call[c].pc = "retire"
        /\ call[c].op = "store" /\ call[c].ref \in Refs /\ call[c].row # None /\ call[c].olds \subseteq Calls
        /\ UNCHANGED <<records, custody, secrets, faults, written, raced, settled>>
    BY DEF ConfigurationInv, NamePart, MetaPart, TypeOK, Retire, CallInv, MetaInv, Noting, history, Call
  <1>2. ASSUME RetiresOwn(c), RetiredIfAlone(c) PROVE ConfigurationInv'
    <2>0. USE <1>2 DEF RetiresOwn, RetiredIfAlone
    <2>5. TypeOK'
      BY <1>1, <1>2 DEF TypeOK
    <2>6. SameInput(c) /\ SameRead(c) /\ call[c].pc \in Noting /\ call'[c].pc \in Noting
          /\ \A d \in Calls : d # c => /\ SameInput(d) /\ SameRead(d) /\ call'[d].pc = call[d].pc
                                       /\ call[d].pc = "new" => call'[d] = call[d]
      BY <1>1, <1>2 DEF SameInput, SameRead, Noting
    <2>7. NamePart'
      BY <1>1, <1>2, <2>6, StoringKeepsNames
    <2>8. MetaInv(c)'
      <3>1. \A d \in call'[c].olds : d \in Calls /\ call'[d].pc \in Recorded /\ call'[d].row = call[c].row
        BY <1>1, <1>2 DEF MetaInv, Recorded, Over
      <3>2. QED
        BY <1>1, <1>2, <2>6, <3>1 DEF MetaInv, Noted, SameInput
    <2>9. AloneInv(c)'
      <3>1. Recording(call[c].ref)' = Recording(call[c].ref)
        BY <1>2, <2>6 DEF Recording, Noting, SameInput
      <3>2. \A v \in versions' : v.status \in {"active", "retired"}
        BY <1>2
      <3>3. QED
        BY <1>1, <1>2, <2>6, <3>1, <3>2 DEF AloneInv, SameInput
    <2>10. MetaPart'
      BY <1>1, <1>2, <2>6, <2>8, <2>9, NotingKeepsMeta
    <2>11. QED
      BY <2>5, <2>7, <2>10 DEF ConfigurationInv
  <1>3. call[c].pc \in Noting
    BY <1>1 DEF Noting
  <1>4. ASSUME NEW d \in call[c].olds,
               versions' = {IF v.id = d THEN [v EXCEPT !.status = "retired"] ELSE v : v \in versions},
               call' = [call EXCEPT ![c].olds = @ \ {d}]
        PROVE  ConfigurationInv'
    <2>1. PICK q : q = [call[c] EXCEPT !.olds = call[c].olds \ {d}]
      OBVIOUS
    <2>2. /\ q \in Call /\ q.pc = "retire" /\ q.olds = call[c].olds \ {d}
          /\ q.op = call[c].op /\ q.kind = call[c].kind /\ q.name = call[c].name /\ q.ref = call[c].ref
          /\ q.id = call[c].id /\ q.version = call[c].version /\ q.bind = call[c].bind
          /\ q.kept = call[c].kept /\ q.row = call[c].row /\ q.alone = call[c].alone
      BY <1>1, <2>1 DEF Call
    <2>21. call' = [call EXCEPT ![c] = q] /\ call \in [Calls -> Call]
      BY <1>1, <1>4, <2>1 DEF TypeOK
    <2>22. call' \in [Calls -> Call] /\ call'[c] = q /\ \A x \in Calls : x # c => call'[x] = call[x]
      BY <2>2, <2>21
    <2>3. ASSUME NEW v \in versions'
          PROVE  /\ v \in [id : Calls, row : Calls, version : Nat \ {0}, status : {"active", "retired"}]
                 /\ \E u \in versions : /\ v.id = u.id /\ v.row = u.row /\ v.version = u.version
                                        /\ v = u \/ u.row = call[c].row
                 /\ v.status = "active" => v \in versions /\ v.id # d
      <3>1. PICK u \in versions : v = IF u.id = d THEN [u EXCEPT !.status = "retired"] ELSE u
        BY <1>4, <2>3
      <3>2. u \in [id : Calls, row : Calls, version : Nat \ {0}, status : {"active", "retired"}]
        BY <1>1 DEF TypeOK
      <3>3. CASE u.id = d
        <4>1. u.row = call[c].row
          BY <1>1, <3>3, VersionRow DEF MetaInv
        <4>2. v = [u EXCEPT !.status = "retired"]
          BY <3>1, <3>3
        <4>3. v.status = "retired" /\ v.id = u.id /\ v.row = u.row /\ v.version = u.version
              /\ v \in [id : Calls, row : Calls, version : Nat \ {0}, status : {"active", "retired"}]
          BY <3>2, <4>2
        <4>4. QED
          BY <4>1, <4>3
      <3>4. CASE u.id # d
        BY <3>1, <3>2, <3>4
      <3>5. QED
        BY <3>3, <3>4
    <2>4. call[c].alone =>
            \A v \in versions' : v.row = call[c].row /\ v.status = "active" => v.id \in q.olds
      BY <1>1, <1>3, <2>2, <2>3 DEF AloneInv
    <2>5. SameInput(c) /\ SameRead(c)
      BY <2>2, <2>22 DEF SameInput, SameRead
    <2>6. versions' \subseteq [id : Calls, row : Calls, version : Nat \ {0}, status : {"active", "retired"}]
      BY <2>3
    <2>7. \A v \in versions' : \E u \in versions : /\ v.id = u.id /\ v.row = u.row /\ v.version = u.version
                                                   /\ v = u \/ u.row = call[c].row
      BY <2>3
    <2>8. /\ call'[c].kept = call[c].kept /\ call'[c].row = call[c].row /\ call'[c].alone = call[c].alone
          /\ call'[c].pc = "retire" /\ call'[c].olds \subseteq call[c].olds
      BY <2>2, <2>22
    <2>9. call[c].alone =>
            \A v \in versions' : v.row = call[c].row /\ v.status = "active"
                                   => call'[c].pc = "retire" /\ v.id \in call'[c].olds
      BY <2>22, <2>4, <2>8
    <2>10. RetiresOwn(c)
      BY <2>22, <2>5, <2>6, <2>7, <2>8 DEF RetiresOwn
    <2>11. RetiredIfAlone(c)
      BY <2>8, <2>9 DEF RetiredIfAlone
    <2>12. QED
      BY <1>2, <2>10, <2>11
  <1>5. CASE call[c].olds = {} /\ Goto(c, "version") /\ UNCHANGED versions
    <2>1. /\ call' \in [Calls -> Call] /\ call'[c].pc = "version" /\ SameInput(c) /\ SameRead(c) /\ SameMeta(c)
          /\ \A d \in Calls : d # c => call'[d] = call[d]
      <3>1. "version" \in Places
        BY DEF Places
      <3>2. QED
        BY <1>1, <1>5, <3>1, GotoFields
    <2>11. /\ call'[c].kept = call[c].kept /\ call'[c].row = call[c].row /\ call'[c].alone = call[c].alone
           /\ call'[c].olds = call[c].olds
      BY <2>1 DEF SameMeta
    <2>2. call[c].alone => \A v \in versions' : ~(v.row = call[c].row /\ v.status = "active")
      BY <1>1, <1>3, <1>5 DEF AloneInv
    <2>3. versions' \subseteq [id : Calls, row : Calls, version : Nat \ {0}, status : {"active", "retired"}]
      BY <1>1, <1>5 DEF TypeOK
    <2>4. \A v \in versions' : \E u \in versions : /\ v.id = u.id /\ v.row = u.row /\ v.version = u.version
                                                   /\ v = u \/ u.row = call[c].row
      BY <1>5
    <2>5. QED
      <3>1. call[c].alone =>
              \A v \in versions' : v.row = call[c].row /\ v.status = "active"
                                     => call'[c].pc = "retire" /\ v.id \in call'[c].olds
        BY <2>2
      <3>2. call'[c].pc \in {"retire", "version"} /\ call'[c].olds \subseteq call[c].olds
        BY <2>1, <2>11
      <3>3. RetiresOwn(c)
        BY <2>1, <2>11, <2>3, <2>4, <3>2 DEF RetiresOwn
      <3>4. RetiredIfAlone(c)
        BY <2>11, <3>1 DEF RetiredIfAlone
      <3>5. QED
        BY <1>2, <3>3, <3>4
  <1>6. QED
    BY <1>4, <1>5 DEF Retire

\* recordStored inserts the version: a call that met no other has settled its reference.
LEMMA InsertVersionKeepsInv ==
  ASSUME ConfigurationInv, NEW c \in Calls, InsertVersion(c)
  PROVE  ConfigurationInv'
  <1>1. /\ TypeOK /\ MetaPart /\ MetaInv(c) /\ AloneInv(c) /\ call[c] \in Call /\ call[c].pc = "version"
        /\ call[c].op = "store" /\ call[c].ref \in Refs /\ call[c].row # None /\ call[c].row \in Calls
        /\ call[c].kept \in Nat \ {0} /\ secrets[call[c].row].ref = call[c].ref
        /\ UNCHANGED <<records, custody, secrets, faults, written, raced>>
    BY DEF ConfigurationInv, NamePart, MetaPart, TypeOK, InsertVersion, CallInv, MetaInv, Noting, Call
  <1>2. PICK p \in AfterRecording(c) : Goto(c, p)
    BY DEF InsertVersion
  <1>3. /\ p \in {"audit", "insert", "save", "expired"} /\ Goto(c, p)
        /\ p = "insert" => call[c].bind /\ call[c].id = None
        /\ p = "save" => call[c].id # None
    BY <1>2 DEF AfterRecording
  <1>4. p \in Places /\ p \in Recorded /\ p \notin Noting /\ call[c].pc \notin Recorded /\ call[c].pc \in Noting
    BY <1>1, <1>3 DEF Places, Recorded, Over, Noting
  <1>5. /\ call' \in [Calls -> Call] /\ call'[c].pc = p /\ SameInput(c) /\ SameRead(c) /\ SameMeta(c)
        /\ \A d \in Calls : d # c => call'[d] = call[d]
    BY <1>1, <1>3, <1>4, GotoFields
  <1>6. PICK new : new = [id |-> c, row |-> call[c].row, version |-> call[c].kept, status |-> "active"]
    OBVIOUS
  <1>7. /\ versions' = versions \union {new} /\ new.id = c /\ new.row = call[c].row /\ new.version = call[c].kept
        /\ new.status = "active"
        /\ new \in [id : Calls, row : Calls, version : Nat \ {0}, status : {"active", "retired"}]
    BY <1>1, <1>6 DEF InsertVersion
  <1>8. /\ settled \subseteq settled' /\ settled' \subseteq settled \union {call[c].ref}
        /\ call[c].ref \in settled' => call[c].ref \in settled \/ call[c].alone
    BY DEF InsertVersion
  <1>9. TypeOK'
    BY <1>1, <1>5, <1>7, <1>8 DEF TypeOK
  <1>10. NamePart'
    <2>1. \A d \in Calls : d # c => /\ SameInput(d) /\ SameRead(d) /\ call'[d].pc = call[d].pc
                                    /\ call[d].pc = "new" => call'[d] = call[d]
      BY <1>5 DEF SameInput, SameRead
    <2>2. QED
      BY <1>1, <1>3, <1>4, <1>5, <2>1, StoringKeepsNames
  <1>11. /\ \A d \in Calls : call'[d].kept = call[d].kept /\ call'[d].ref = call[d].ref /\ call'[d].row = call[d].row
                             /\ call'[d].op = call[d].op /\ call'[d].olds = call[d].olds
    BY <1>5 DEF SameInput, SameMeta
  <1>12. /\ \A d \in Calls : d # c => AloneInv(d)'
         /\ \A r \in settled : r # call[c].ref /\ SettledInv(r)'
    <2>1. \A v \in versions' : v \in versions \/ (v.row \in Calls /\ secrets[v.row].ref = call[c].ref)
      BY <1>1, <1>7
    <2>2. QED
      BY <1>1, <1>4, <1>5, <1>11, <2>1, OthersKeepMeta
  <1>13. ASSUME NEW d \in Calls PROVE MetaInv(d)'
    <2>1. MetaInv(d) /\ call[d].olds \subseteq Calls
      BY <1>1 DEF MetaPart, TypeOK, Call
    <2>2. \A x \in call[d].olds : call'[x].pc \in Recorded /\ call'[x].row = call[d].row /\ call'[x].row # None
      BY <1>4, <1>5, <1>11, <2>1 DEF MetaInv
    <2>3. CASE d = c
      BY <1>1, <1>4, <1>5, <1>11, <2>1, <2>2, <2>3 DEF MetaInv, Noted
    <2>4. CASE d # c
      BY <1>1, <1>5, <1>11, <2>1, <2>2, <2>4 DEF MetaInv
    <2>5. QED
      BY <2>3, <2>4
  <1>14. KeptApart'
    BY <1>1, <1>11 DEF MetaPart, KeptApart
  <1>15. ASSUME NEW v \in versions' PROVE VersionInv(v)'
    <2>1. CASE v = new
      BY <1>4, <1>5, <1>7, <1>11, <2>1 DEF VersionInv
    <2>2. CASE v \in versions
      BY <1>1, <1>4, <1>5, <1>11, <2>2, VersionRow DEF VersionInv
    <2>3. QED
      BY <1>7, <1>15, <2>1, <2>2
  <1>16. AloneInv(c)'
    BY <1>4, <1>5 DEF AloneInv
  <1>17. ASSUME NEW r \in settled' PROVE SettledInv(r)'
    <2>1. CASE r \in settled
      BY <1>12, <2>1
    <2>2. CASE r \notin settled
      <3>1. r = call[c].ref /\ call[c].alone
        BY <1>8, <1>17, <2>2
      <3>2. /\ Recording(r) = {c} /\ call[c].kept = custody[r]
            /\ secrets[call[c].row] = [ref |-> r, current |-> call[c].kept]
            /\ \A v \in versions : v.row = call[c].row => v.status = "retired"
        BY <1>1, <1>4, <3>1 DEF AloneInv
      <3>3. Recording(r)' = {}
        BY <1>4, <1>5, <1>11, <3>2 DEF Recording, Noting
      <3>4. ASSUME NEW v \in versions, v.row = call[c].row PROVE v.version # custody[r]
        <4>1. v.id \in Calls /\ v.id # c /\ call[v.id].ref = call[c].ref /\ v.version = call[v.id].kept
          BY <1>1, <1>4, <3>4, VersionRow
        <4>2. QED
          BY <1>1, <3>2, <4>1 DEF MetaPart, KeptApart
      <3>5. \A v \in versions' : v.row = call[c].row => (v.status = "active" <=> v.version = custody[r])
        BY <1>7, <3>2, <3>4
      <3>6. QED
        BY <1>1, <3>2, <3>3, <3>5 DEF SettledInv
    <2>3. QED
      BY <2>1, <2>2
  <1>18. QED
    BY <1>9, <1>10, <1>12, <1>13, <1>14, <1>15, <1>16, <1>17 DEF ConfigurationInv, MetaPart

-----------------------------------------------------------------------------
(* Custody *)

\* Custody keeps a value of r for c, which goes on to record it or ends: no call that is
\* recording a value of r is alone any more, and the metadata of r is not settled.
LEMMA KeptKeepsInv ==
  ASSUME ConfigurationInv, NEW c \in Calls, NEW r \in Refs, NEW new \in Call,
         call[c].pc = "keep", call[c].ref = r, call' = Met(r, c, new),
         new.op = call[c].op, new.kind = call[c].kind, new.name = call[c].name, new.ref = r,
         new.id = call[c].id, new.version = call[c].version, new.bind = call[c].bind,
         new.row = call[c].row, new.olds = call[c].olds,
         \/ new.pc = "find" /\ new.kept = custody[r] + 1
         \/ new.pc = "error" /\ new.kept = call[c].kept,
         new.pc = "find" /\ new.alone => Recording(r) = {},
         custody' = [custody EXCEPT ![r] = custody[r] + 1], settled' = settled \ {r},
         UNCHANGED <<records, secrets, versions, written, raced>>, faults' \in 0..MaxFaults
  PROVE  ConfigurationInv'
  <1>1. /\ TypeOK /\ MetaPart /\ MetaInv(c) /\ CallInv(c) /\ call[c] \in Call /\ custody \in [Refs -> Nat]
        /\ call \in [Calls -> Call]
    BY DEF ConfigurationInv, NamePart, MetaPart, TypeOK
  <1>2. call[c].op = "store" /\ call[c].pc \notin Noting \union Noted \union Recorded
    BY <1>1 DEF CallInv, Noting, Noted, Recorded, Over
  <1>3. call[c].kept = 0 /\ call[c].row = None /\ call[c].olds = {} /\ secrets[c].ref = None
    <2>1. call[c].pc \notin Noted \union {"note"} /\ call[c].pc \notin Noting \union Recorded
      BY <1>2 DEF Noting
    <2>2. QED
      BY <1>1, <1>2, <2>1 DEF MetaInv
  <1>4. custody' \in [Refs -> Nat] /\ custody'[r] = custody[r] + 1 /\ custody[r] \in Nat
        /\ \A s \in Refs : s # r => custody'[s] = custody[s]
    BY <1>1
  <1>5. call'[c] = new
    BY DEF Met
  <1>6. ASSUME NEW d \in Calls, d # c
        PROVE  /\ call'[d] \in Call /\ SameInput(d) /\ SameRead(d) /\ call'[d].pc = call[d].pc
               /\ call'[d].kept = call[d].kept /\ call'[d].row = call[d].row /\ call'[d].olds = call[d].olds
               /\ d \notin Recording(r) => call'[d] = call[d]
    <2>1. CASE d \in Recording(r)
      <3>1. PICK q : q = [call[d] EXCEPT !.alone = FALSE]
        OBVIOUS
      <3>2. call'[d] = q /\ call[d] \in Call
        BY <1>1, <1>6, <2>1, <3>1 DEF Met
      <3>3. /\ q \in Call /\ q.pc = call[d].pc
            /\ q.op = call[d].op /\ q.kind = call[d].kind /\ q.name = call[d].name /\ q.ref = call[d].ref
            /\ q.id = call[d].id /\ q.version = call[d].version /\ q.bind = call[d].bind
            /\ q.kept = call[d].kept /\ q.row = call[d].row /\ q.olds = call[d].olds
        BY <3>1, <3>2 DEF Call
      <3>4. QED
        BY <2>1, <3>2, <3>3 DEF SameInput, SameRead
    <2>2. CASE d \notin Recording(r)
      <3>1. call'[d] = call[d] /\ call[d] \in Call
        BY <1>1, <1>6, <2>2 DEF Met
      <3>2. QED
        BY <3>1 DEF SameInput, SameRead
    <2>3. QED
      BY <2>1, <2>2
  <1>7. ASSUME NEW d \in Recording(r) PROVE d \in Calls /\ d # c /\ ~call'[d].alone
    <2>1. d \in Calls /\ d # c
      BY <1>7 DEF Recording
    <2>2. call'[d] = [call[d] EXCEPT !.alone = FALSE] /\ call[d] \in Call
      BY <1>1, <1>7, <2>1 DEF Met
    <2>3. QED
      BY <2>1, <2>2 DEF Call
  <1>8. TypeOK'
    <2>1. call' \in [Calls -> Call]
      <3>1. \A d \in Calls : call'[d] \in Call
        BY <1>5, <1>6
      <3>2. call' = [d \in Calls |-> call'[d]]
        BY DEF Met
      <3>3. QED
        BY <3>1, <3>2
    <2>2. QED
      BY <1>1, <1>4, <2>1 DEF TypeOK
  <1>9. SameInput(c) /\ SameRead(c)
    BY <1>5 DEF SameInput, SameRead
  <1>10. NamePart'
    <2>1. call[c].pc \in {"keep"} \union Noting /\ call'[c].pc \in {"find", "error"}
      BY <1>5
    <2>2. "find" \in Noting
      BY DEF Noting
    <2>3. \A d \in Calls : d # c => /\ SameInput(d) /\ SameRead(d) /\ call'[d].pc = call[d].pc
                                    /\ call[d].pc = "new" => call'[d] = call[d]
      BY <1>6 DEF Recording
    <2>4. QED
      BY <1>9, <2>1, <2>2, <2>3, StoringKeepsNames
  <1>11. ASSUME NEW d \in Calls PROVE MetaInv(d)'
    <2>1. CASE d = c
      <3>1. new.kept = 0 \/ (new.pc = "find" /\ new.kept <= custody'[r])
        BY <1>3, <1>4
      <3>2. new.pc \in {"find", "error"} /\ new.row = None /\ new.olds = {}
        BY <1>3
      <3>3. new.pc = "find" => new.kept # 0
        BY <1>4
      <3>4. QED
        BY <1>2, <1>3, <1>5, <2>1, <3>1, <3>2, <3>3 DEF MetaInv, Noting, Noted, Recorded, Over
    <2>2. CASE d # c
      <3>1. MetaInv(d) /\ CallInv(d) /\ call[d] \in Call /\ call[d].olds \subseteq Calls /\ call[d].kept \in Nat
        BY <1>1 DEF ConfigurationInv, NamePart, MetaPart, Call
      <3>2. /\ call'[d].op = call[d].op /\ call'[d].ref = call[d].ref /\ call'[d].pc = call[d].pc
            /\ call'[d].kept = call[d].kept /\ call'[d].row = call[d].row /\ call'[d].olds = call[d].olds
        BY <1>6, <2>2 DEF SameInput
      <3>3. \A x \in call[d].olds : call'[x].pc \in Recorded /\ call'[x].row = call[d].row /\ call'[x].row # None
        BY <1>2, <1>6, <3>1 DEF MetaInv
      <3>4. call[d].kept # 0 => call[d].kept <= custody'[call[d].ref]
        <4>1. SUFFICES ASSUME call[d].kept # 0 PROVE call[d].kept <= custody'[call[d].ref]
          OBVIOUS
        <4>2. call[d].ref \in Refs /\ call[d].kept <= custody[call[d].ref]
          BY <3>1, <4>1 DEF MetaInv, CallInv
        <4>3. QED
          BY <1>1, <1>4, <3>1, <4>2
      <3>5. QED
        BY <3>1, <3>2, <3>3, <3>4 DEF MetaInv
    <2>3. QED
      BY <2>1, <2>2
  <1>12. KeptApart'
    <2>1. SUFFICES ASSUME NEW d \in Calls, NEW e \in Calls, d # e, call'[d].ref = call'[e].ref, call'[d].kept # 0
                   PROVE  call'[d].kept # call'[e].kept
      BY DEF KeptApart
    <2>2. \A x \in Calls : /\ call'[x].ref = call[x].ref
                           /\ x # c => call'[x].kept = call[x].kept
      BY <1>5, <1>6 DEF SameInput
    <2>3. \A x \in Calls : x # c /\ call[x].ref = r => call[x].kept \in Nat /\ call[x].kept <= custody[r]
      BY <1>1, <1>4 DEF MetaPart, MetaInv, Call
    <2>4. CASE d = c
      BY <1>3, <1>4, <1>5, <2>1, <2>2, <2>3, <2>4
    <2>5. CASE e = c
      BY <1>3, <1>4, <1>5, <2>1, <2>2, <2>3, <2>5
    <2>6. CASE d # c /\ e # c
      BY <1>1, <2>1, <2>2, <2>6 DEF MetaPart, KeptApart
    <2>7. QED
      BY <2>4, <2>5, <2>6
  <1>13. ASSUME NEW v \in versions' PROVE VersionInv(v)'
    <2>1. v \in versions /\ VersionInv(v) /\ v.id \in Calls
      BY <1>1, <1>13 DEF MetaPart, TypeOK
    <2>2. v.id # c
      BY <1>2, <2>1 DEF VersionInv
    <2>3. QED
      BY <1>6, <2>1, <2>2 DEF VersionInv
  <1>14. \A s \in Refs : s # r => Recording(s)' = Recording(s)
    BY <1>5, <1>6 DEF Recording, SameInput
  <1>15. ASSUME NEW d \in Calls PROVE AloneInv(d)'
    <2>1. CASE d = c
      <3>1. SUFFICES ASSUME new.pc = "find", new.alone PROVE AloneInv(c)'
        BY <1>5, <2>1 DEF AloneInv, Noting
      <3>2. Recording(r) = {}
        BY <3>1
      <3>3. Recording(r)' = {c}
        BY <1>5, <1>6, <3>1, <3>2 DEF Recording, SameInput
      <3>4. new.kept = custody'[r]
        BY <1>4, <3>1
      <3>5. QED
        BY <1>5, <3>1, <3>3, <3>4 DEF AloneInv
    <2>2. CASE d # c
      <3>1. CASE d \in Recording(r)
        BY <1>7, <3>1 DEF AloneInv
      <3>2. CASE d \notin Recording(r)
        <4>1. AloneInv(d) /\ CallInv(d) /\ call'[d] = call[d]
          BY <1>1, <1>6, <2>2, <3>2 DEF ConfigurationInv, NamePart, MetaPart
        <4>2. SUFFICES ASSUME call[d].pc \in Noting PROVE AloneInv(d)'
          BY <4>1 DEF AloneInv
        <4>3. call[d].ref \in Refs /\ call[d].ref # r
          BY <3>2, <4>1, <4>2 DEF CallInv, Noting, Recording
        <4>4. Recording(call[d].ref)' = Recording(call[d].ref) /\ custody'[call[d].ref] = custody[call[d].ref]
          BY <1>4, <1>14, <4>1, <4>3
        <4>5. QED
          BY <4>1, <4>2, <4>4 DEF AloneInv
      <3>3. QED
        BY <3>1, <3>2
    <2>3. QED
      BY <2>1, <2>2
  <1>16. ASSUME NEW s \in settled' PROVE SettledInv(s)'
    <2>1. s \in settled /\ s # r /\ s \in Refs /\ SettledInv(s)
      BY <1>1, <1>16 DEF MetaPart, TypeOK
    <2>2. QED
      BY <1>4, <1>14, <2>1 DEF SettledInv
  <1>17. QED
    BY <1>8, <1>10, <1>11, <1>12, <1>13, <1>15, <1>16 DEF ConfigurationInv, MetaPart

\* gateway.storeCredential: custody keeps the value, or cannot write the reference.
LEMMA KeepKeepsInv ==
  ASSUME ConfigurationInv, NEW c \in Calls, Keep(c)
  PROVE  ConfigurationInv'
  <1>1. /\ call[c].pc = "keep" /\ call[c] \in Call /\ call[c].ref \in Refs /\ custody[call[c].ref] \in Nat
        /\ UNCHANGED <<records, secrets, versions, faults, written, raced>> /\ faults \in 0..MaxFaults
    BY DEF ConfigurationInv, NamePart, CallInv, TypeOK, Keep
  <1>2. \/ \E p \in {"error", "denied", "expired"} : Goto(c, p) /\ UNCHANGED <<custody, settled>>
        \/ /\ custody' = [custody EXCEPT ![call[c].ref] = @ + 1]
           /\ call' = Met(call[c].ref, c, [call[c] EXCEPT !.pc = "find", !.kept = Answer(call[c].ref),
                                            !.alone = Recording(call[c].ref) = {}])
           /\ settled' = settled \ {call[c].ref}
    BY DEF Keep
  <1>3. CASE /\ custody' = [custody EXCEPT ![call[c].ref] = @ + 1]
             /\ call' = Met(call[c].ref, c, [call[c] EXCEPT !.pc = "find", !.kept = Answer(call[c].ref),
                                              !.alone = Recording(call[c].ref) = {}])
             /\ settled' = settled \ {call[c].ref}
    <2>1. PICK r : r = call[c].ref
      OBVIOUS
    <2>2. PICK new : new = [call[c] EXCEPT !.pc = "find", !.kept = Answer(r), !.alone = Recording(r) = {}]
      OBVIOUS
    <2>3. /\ custody' = [custody EXCEPT ![r] = custody[r] + 1] /\ call' = Met(r, c, new) /\ settled' = settled \ {r}
      BY <1>3, <2>1, <2>2
    <2>4. Answer(r) = custody[r] + 1 /\ Answer(r) \in Nat /\ (Recording(r) = {}) \in BOOLEAN
      BY <1>1, <2>1 DEF Answer
    <2>41. new \in Call
      BY <1>1, <2>2, <2>4 DEF Call
    <2>42. new.pc = "find" /\ new.kept = custody[r] + 1 /\ new.bind = call[c].bind
      BY <1>1, <2>2, <2>4 DEF Call
    <2>43. /\ new.op = call[c].op /\ new.kind = call[c].kind /\ new.name = call[c].name /\ new.ref = r
           /\ new.id = call[c].id /\ new.version = call[c].version
           /\ new.row = call[c].row /\ new.olds = call[c].olds
      BY <1>1, <2>1, <2>2 DEF Call
    <2>5. /\ new \in Call /\ new.pc = "find" /\ new.kept = custody[r] + 1
          /\ new.op = call[c].op /\ new.kind = call[c].kind /\ new.name = call[c].name /\ new.ref = r
          /\ new.id = call[c].id /\ new.version = call[c].version /\ new.bind = call[c].bind
          /\ new.row = call[c].row /\ new.olds = call[c].olds
      BY <2>41, <2>42, <2>43
    <2>6. new.alone => Recording(r) = {}
      BY <1>1, <2>2 DEF Call
    <2>7. QED
      BY <1>1, <2>1, <2>3, <2>5, <2>6, KeptKeepsInv
  <1>4. CASE \E p \in {"error", "denied", "expired"} : Goto(c, p) /\ UNCHANGED <<custody, settled>>
    <2>1. PICK p \in {"ok", "error", "expired", "denied"} : Goto(c, p) /\ UNCHANGED <<custody, settled>>
      BY <1>4
    <2>2. UNCHANGED <<stored, history>> /\ faults' \in 0..MaxFaults
      BY <1>1, <2>1 DEF stored, history
    <2>3. call[c].pc \notin Noting \union Recorded
      BY <1>1 DEF Noting, Recorded, Over
    <2>4. QED
      BY <1>1, <2>1, <2>2, <2>3, EndsKeepsInv
  <1>5. QED
    BY <1>2, <1>3, <1>4

\* Custody keeps the value and its answer is lost: the call ends with nothing recorded.
LEMMA KeepUnansweredKeepsInv ==
  ASSUME ConfigurationInv, NEW c \in Calls, KeepUnanswered(c)
  PROVE  ConfigurationInv'
  <1>1. /\ call[c].pc = "keep" /\ call[c] \in Call /\ call[c].ref \in Refs /\ custody[call[c].ref] \in Nat
        /\ UNCHANGED <<records, secrets, versions, written, raced>>
    BY DEF ConfigurationInv, NamePart, CallInv, TypeOK, KeepUnanswered
  <1>2. faults' \in 0..MaxFaults
    BY ConfigurationAssumption DEF ConfigurationInv, TypeOK, KeepUnanswered
  <1>3. PICK r : r = call[c].ref
    OBVIOUS
  <1>4. PICK new : new = [call[c] EXCEPT !.pc = "error"]
    OBVIOUS
  <1>5. /\ custody' = [custody EXCEPT ![r] = custody[r] + 1] /\ call' = Met(r, c, new) /\ settled' = settled \ {r}
    BY <1>3, <1>4 DEF KeepUnanswered
  <1>6. /\ new \in Call /\ new.pc = "error" /\ new.kept = call[c].kept
        /\ new.op = call[c].op /\ new.kind = call[c].kind /\ new.name = call[c].name /\ new.ref = r
        /\ new.id = call[c].id /\ new.version = call[c].version /\ new.bind = call[c].bind
        /\ new.row = call[c].row /\ new.olds = call[c].olds
    BY <1>1, <1>3, <1>4 DEF Call
  <1>7. QED
    BY <1>1, <1>2, <1>3, <1>5, <1>6, KeptKeepsInv

-----------------------------------------------------------------------------
(* The theorems *)

\* Every operation, cut at its awaits, keeps the invariant, whatever the others are doing.
LEMMA ConfigurationNextInv == ConfigurationInv /\ [Next]_vars => ConfigurationInv'
  <1>1. SUFFICES ASSUME ConfigurationInv, [Next]_vars PROVE ConfigurationInv'
    OBVIOUS
  <1>2. ASSUME NEW c \in Calls, Step(c) PROVE ConfigurationInv'
    <2>1. CASE Start(c)
      BY <1>1, <2>1, StartKeepsInv
    <2>2. CASE Authorize(c)
      BY <1>1, <2>2, AuthorizeKeepsInv
    <2>3. CASE CheckOwn(c)
      BY <1>1, <2>3, CheckOwnKeepsInv
    <2>4. CASE CheckOther(c)
      BY <1>1, <2>4, CheckOtherKeepsInv
    <2>5. CASE Read(c)
      BY <1>1, <2>5, ReadKeepsInv
    <2>6. CASE Permit(c)
      BY <1>1, <2>6, PermitKeepsInv
    <2>7. CASE Insert(c)
      BY <1>1, <2>7, InsertKeepsInv
    <2>8. CASE Save(c)
      BY <1>1, <2>8, SaveKeepsInv
    <2>9. CASE RemoveRecord(c)
      BY <1>1, <2>9, RemoveRecordKeepsInv
    <2>10. CASE Audit(c)
      BY <1>1, <2>10, AuditKeepsInv
    <2>11. CASE Keep(c)
      BY <1>1, <2>11, KeepKeepsInv
    <2>12. CASE KeepUnanswered(c)
      BY <1>1, <2>12, KeepUnansweredKeepsInv
    <2>13. CASE Find(c)
      BY <1>1, <2>13, FindKeepsInv
    <2>14. CASE Note(c)
      BY <1>1, <2>14, NoteKeepsInv
    <2>15. CASE ListActive(c)
      BY <1>1, <2>15, ListActiveKeepsInv
    <2>16. CASE Retire(c)
      BY <1>1, <2>16, RetireKeepsInv
    <2>17. CASE InsertVersion(c)
      BY <1>1, <2>17, InsertVersionKeepsInv
    <2>18. CASE Throw(c)
      BY <1>1, <2>18, ThrowKeepsInv
    <2>19. QED
      BY <1>2, <2>1, <2>2, <2>3, <2>4, <2>5, <2>6, <2>7, <2>8, <2>9, <2>10, <2>11, <2>12, <2>13, <2>14,
         <2>15, <2>16, <2>17, <2>18 DEF Step
  <1>3. CASE UNCHANGED vars
    <2>1. TypeOK'
      BY <1>1, <1>3 DEF ConfigurationInv, TypeOK, vars
    <2>2. NamePart'
      BY <1>1, <1>3 DEF ConfigurationInv, NamePart, RecordInv, CallInv, NameInv, Inserted, FoundFree,
                        Named, Creating, vars
    <2>3. MetaPart'
      BY <1>1, <1>3 DEF ConfigurationInv, MetaPart, MetaInv, KeptApart, VersionInv, AloneInv, SettledInv,
                        Recording, vars
    <2>4. QED
      BY <2>1, <2>2, <2>3 DEF ConfigurationInv
  <1>4. QED
    BY <1>1, <1>2, <1>3 DEF Next

\* ConfigurationInv holds in every reachable state: the records and the names calls have looked
\* up, and custody, the rows of Secrets and the versions of calls between their awaits
\* (configuration/service.ts, storage/secrets.ts recordStored).
THEOREM ConfigurationInvariance == Spec => []ConfigurationInv
  <1>1. QED
    BY ConfigurationInitInv, ConfigurationNextInv, PTL DEF Spec

\* The names of a state in which nobody raced for n: no record, or one of one kind.
LEMMA OneRecord ==
  ASSUME NEW n \in Names, NameInv(n)
  PROVE  Cardinality(Named("variable", n)) + Cardinality(Named("secret", n)) <= 1
  <1>1. "variable" \in Kinds /\ "secret" \in Kinds
    BY DEF Kinds
  <1>2. \A k \in Kinds : Named(k, n) \subseteq Ids
    BY DEF Named
  <1>3. ASSUME NEW k \in Kinds PROVE Named(k, n) = {} \/ \E i \in Ids : Named(k, n) = {i}
    BY <1>2 DEF NameInv
  <1>4. Named("variable", n) = {} \/ Named("secret", n) = {}
    BY <1>1, <1>2 DEF NameInv
  <1>5. \A k \in Kinds : /\ Cardinality(Named(k, n)) \in {0, 1}
                         /\ Named(k, n) = {} => Cardinality(Named(k, n)) = 0
    BY <1>3, FS_EmptySet, FS_Singleton
  <1>6. QED
    BY <1>1, <1>4, <1>5

\* A call whose context has expired has stored nothing, or its version is recorded and the change
\* of its binding had been permitted.
ExpiredInv(c) ==
  call[c].pc = "expired" /\ call[c].kept # 0 =>
    call[c].bind /\ \E v \in versions : v.id = c /\ v.version = call[c].kept

\* A step leaves what other calls have of custody, and every version.
LEMMA OthersStay ==
  ASSUME TypeOK, NEW c \in Calls, NEW d \in Calls, d # c, Step(c)
  PROVE  /\ call'[d].pc = call[d].pc /\ call'[d].kept = call[d].kept /\ call'[d].bind = call[d].bind
         /\ \A v \in versions : \E w \in versions' : w.id = v.id /\ w.version = v.version
  <1>1. call \in [Calls -> Call]
    BY DEF TypeOK
  <1>2. ASSUME NEW p, Goto(c, p) PROVE call'[d] = call[d]
    BY <1>1, <1>2 DEF Goto
  <1>3. ASSUME NEW r, NEW new, call' = Met(r, c, new)
        PROVE  call'[d].pc = call[d].pc /\ call'[d].kept = call[d].kept /\ call'[d].bind = call[d].bind
    <2>1. call'[d] = call[d] \/ call'[d] = [call[d] EXCEPT !.alone = FALSE]
      BY <1>3 DEF Met
    <2>2. call[d] \in Call
      BY <1>1
    <2>3. QED
      BY <2>1, <2>2 DEF Call
  <1>4. CASE Keep(c) \/ KeepUnanswered(c)
    <2>1. UNCHANGED versions
      BY <1>4 DEF Keep, KeepUnanswered
    <2>2. (\E r, new : call' = Met(r, c, new)) \/ (\E p : Goto(c, p))
      BY <1>4 DEF Keep, KeepUnanswered
    <2>3. QED
      BY <1>2, <1>3, <2>1, <2>2
  <1>5. CASE Retire(c)
    <2>1. call'[d] = call[d]
      BY <1>1, <1>5 DEF Retire, Goto
    <2>2. CASE UNCHANGED versions
      BY <2>1, <2>2
    <2>3. CASE ~UNCHANGED versions
      <3>1. PICK e \in call[c].olds :
              versions' = {IF v.id = e THEN [v EXCEPT !.status = "retired"] ELSE v : v \in versions}
        BY <1>5, <2>3 DEF Retire
      <3>2. ASSUME NEW v \in versions PROVE \E w \in versions' : w.id = v.id /\ w.version = v.version
        <4>1. v \in [id : Calls, row : Calls, version : Nat \ {0}, status : {"active", "retired"}]
          BY DEF TypeOK
        <4>2. PICK w : w = IF v.id = e THEN [v EXCEPT !.status = "retired"] ELSE v
          OBVIOUS
        <4>3. w \in versions'
          BY <3>1, <4>2
        <4>4. w.id = v.id /\ w.version = v.version
          BY <4>1, <4>2
        <4>5. QED
          BY <4>3, <4>4
      <3>3. QED
        BY <2>1, <3>2
    <2>4. QED
      BY <2>2, <2>3
  <1>6. CASE InsertVersion(c)
    <2>1. versions \subseteq versions' /\ \E p : Goto(c, p)
      BY <1>6 DEF InsertVersion
    <2>2. QED
      BY <1>2, <2>1
  <1>7. CASE Start(c) \/ Authorize(c) \/ CheckOwn(c) \/ CheckOther(c) \/ Read(c) \/ Permit(c) \/ Throw(c)
    <2>1. UNCHANGED versions
      BY <1>7 DEF Start, Authorize, CheckOwn, CheckOther, Read, Permit, Throw, stored
    <2>2. call'[d] = call[d]
      BY <1>1, <1>7 DEF Start, Authorize, CheckOwn, CheckOther, Read, Permit, Throw, Goto
    <2>3. QED
      BY <2>1, <2>2
  <1>8. CASE Insert(c) \/ Save(c) \/ RemoveRecord(c) \/ Audit(c) \/ Find(c) \/ Note(c) \/ ListActive(c)
    <2>1. UNCHANGED versions
      BY <1>8 DEF Insert, Save, RemoveRecord, Audit, Find, Note, ListActive, stored
    <2>2. call'[d] = call[d]
      BY <1>1, <1>8 DEF Insert, Save, RemoveRecord, Audit, Find, Note, ListActive, Goto
    <2>3. QED
      BY <2>1, <2>2
  <1>9. QED
    BY <1>4, <1>5, <1>6, <1>7, <1>8 DEF Step

\* Only Keep, before anything is stored, and InsertVersion, as it records the version, let a
\* context expire.
LEMMA ExpiredStep ==
  ASSUME ConfigurationInv, NEW c \in Calls, Step(c), ExpiredInv(c)
  PROVE  ExpiredInv(c)'
  <1>1. call \in [Calls -> Call] /\ call[c] \in Call /\ MetaInv(c)
    BY DEF ConfigurationInv, MetaPart, TypeOK
  <1>2. ASSUME NEW p, Goto(c, p)
        PROVE  call'[c].pc = p /\ call'[c].kept = call[c].kept /\ call'[c].bind = call[c].bind
    BY <1>1, <1>2 DEF Goto, Call
  <1>3. CASE InsertVersion(c)
    <2>1. PICK p \in AfterRecording(c) : Goto(c, p)
      BY <1>3 DEF InsertVersion
    <2>2. p = "expired" => call[c].bind
      BY DEF AfterRecording
    <2>3. PICK new : new = [id |-> c, row |-> call[c].row, version |-> call[c].kept, status |-> "active"]
      OBVIOUS
    <2>4. new \in versions' /\ new.id = c /\ new.version = call[c].kept
      BY <1>3, <2>3 DEF InsertVersion
    <2>5. QED
      BY <1>2, <2>1, <2>2, <2>4 DEF ExpiredInv
  <1>4. CASE Keep(c)
    <2>1. call[c].kept = 0
      BY <1>1, <1>4 DEF Keep, MetaInv, Noting, Recorded, Over
    <2>2. CASE \E p : Goto(c, p)
      BY <1>2, <2>1, <2>2 DEF ExpiredInv
    <2>3. CASE \E r, new : call' = Met(r, c, new) /\ new.pc = "find"
      BY <1>1, <2>3 DEF Met, ExpiredInv
    <2>4. ([call[c] EXCEPT !.pc = "find", !.kept = Answer(call[c].ref),
                           !.alone = Recording(call[c].ref) = {}]).pc = "find"
      BY <1>1 DEF Call
    <2>5. QED
      BY <1>4, <2>2, <2>3, <2>4 DEF Keep
  <1>5. CASE KeepUnanswered(c)
    <2>1. call'[c] = [call[c] EXCEPT !.pc = "error"]
      BY <1>1, <1>5 DEF KeepUnanswered, Met
    <2>2. QED
      BY <1>1, <2>1 DEF Call, ExpiredInv
  <1>6. CASE Start(c) \/ Read(c) \/ Permit(c) \/ Note(c) \/ Find(c) \/ ListActive(c) \/ Retire(c)
    <2>1. ASSUME NEW p, p # "expired", Goto(c, p) PROVE call'[c].pc # "expired"
      BY <1>2, <2>1
    <2>2. call'[c].pc # "expired"
      <3>1. CASE Start(c)
        BY <1>1, <3>1 DEF Start, NoCall
      <3>2. CASE Read(c)
        <4>1. \A i \in Ids \union {None} : BindingStep(c, i) # "expired"
          BY DEF BindingStep
        <4>2. CASE \E i \in Named(call[c].kind, call[c].name) :
                     call' = [call EXCEPT ![c].id = i, ![c].version = records[call[c].kind][i].version,
                       ![c].pc = CASE call[c].op = "update" -> "save" [] call[c].op = "delete" -> "remove"
                                   [] OTHER -> BindingStep(c, i)]
          <5>1. PICK i \in Ids : call'[c].pc = CASE call[c].op = "update" -> "save"
                  [] call[c].op = "delete" -> "remove" [] OTHER -> BindingStep(c, i)
            BY <1>1, <4>2 DEF Named, Call
          <5>2. QED
            BY <4>1, <5>1
        <4>3. CASE Goto(c, CASE call[c].op = "update" -> "error" [] call[c].op = "delete" -> "ok"
                             [] OTHER -> BindingStep(c, None))
          <5>1. BindingStep(c, None) # "expired"
            BY <4>1
          <5>2. PICK p : p = CASE call[c].op = "update" -> "error" [] call[c].op = "delete" -> "ok"
                               [] OTHER -> BindingStep(c, None)
            OBVIOUS
          <5>3. p # "expired" /\ Goto(c, p)
            BY <4>3, <5>1, <5>2
          <5>4. QED
            BY <2>1, <5>3
        <4>4. QED
          BY <3>2, <4>2, <4>3 DEF Read
      <3>3. CASE Permit(c)
        BY <1>1, <2>1, <3>3 DEF Permit, Call
      <3>4. CASE Note(c)
        BY <1>1, <3>4 DEF Note, Call
      <3>5. CASE Find(c)
        BY <1>1, <2>1, <3>5 DEF Find, Call
      <3>6. CASE ListActive(c)
        BY <1>1, <3>6 DEF ListActive, Call
      <3>7. CASE Retire(c)
        BY <1>1, <2>1, <3>7 DEF Retire, Call
      <3>8. QED
        BY <1>6, <3>1, <3>2, <3>3, <3>4, <3>5, <3>6, <3>7
    <2>3. QED
      BY <2>2 DEF ExpiredInv
  <1>7. CASE \/ Authorize(c) \/ CheckOwn(c) \/ CheckOther(c) \/ Insert(c) \/ Save(c) \/ RemoveRecord(c)
            \/ Audit(c) \/ Throw(c)
    <2>1. PICK p : Goto(c, p) /\ p # "expired"
      BY <1>7 DEF Authorize, CheckOwn, CheckOther, Insert, Save, RemoveRecord, Audit, Throw, FirstRead
    <2>2. QED
      BY <1>2, <2>1 DEF ExpiredInv
  <1>8. QED
    BY <1>3, <1>4, <1>5, <1>6, <1>7 DEF Step

\* A call is denied after custody only because its context expired, with its version recorded.
THEOREM ExpiredInvariance == Spec => [](\A c \in Calls : ExpiredInv(c))
  <1>1. Init => \A c \in Calls : ExpiredInv(c)
    BY DEF Init, NoCall, ExpiredInv
  <1>2. ConfigurationInv /\ (\A c \in Calls : ExpiredInv(c)) /\ [Next]_vars => (\A c \in Calls : ExpiredInv(c))'
    <2>1. SUFFICES ASSUME ConfigurationInv, \A c \in Calls : ExpiredInv(c), [Next]_vars, NEW d \in Calls
                   PROVE  ExpiredInv(d)'
      OBVIOUS
    <2>2. CASE UNCHANGED vars
      BY <2>1, <2>2 DEF ExpiredInv, vars
    <2>3. CASE Next
      <3>1. PICK c \in Calls : Step(c)
        BY <2>3 DEF Next
      <3>2. CASE d = c
        BY <2>1, <3>1, <3>2, ExpiredStep
      <3>3. CASE d # c
        <4>1. TypeOK
          BY <2>1 DEF ConfigurationInv
        <4>2. /\ call'[d].pc = call[d].pc /\ call'[d].kept = call[d].kept /\ call'[d].bind = call[d].bind
              /\ \A v \in versions : \E w \in versions' : w.id = v.id /\ w.version = v.version
          BY <3>1, <3>3, <4>1, OthersStay
        <4>3. SUFFICES ASSUME call[d].pc = "expired", call[d].kept # 0
                       PROVE  call[d].bind /\ \E w \in versions' : w.id = d /\ w.version = call[d].kept
          BY <4>2 DEF ExpiredInv
        <4>4. ExpiredInv(d)
          BY <2>1
        <4>5. QED
          BY <4>2, <4>3, <4>4 DEF ExpiredInv
      <3>4. QED
        BY <3>2, <3>3
    <2>4. QED
      BY <2>1, <2>2, <2>3
  <1>3. QED
    BY <1>1, <1>2, ConfigurationInvariance, PTL DEF Spec

\* For any number of clients, names and references and whatever fails: no acknowledged update is
\* lost, a credential.store that ends as denied has stored nothing unless the context of its permitted
\* binding expired after custody and the metadata had kept the value, a name nobody raced for means one
\* thing, and the metadata of a reference that was stored undisturbed says what custody holds
\* (configuration/service.ts over updateIfVersion, storage/secrets.ts recordStored).
THEOREM ConfigurationSoundAlways == Spec => []ConfigurationSound
  <1>1. ConfigurationInv /\ (\A c \in Calls : ExpiredInv(c)) => ConfigurationSound
    <2>1. SUFFICES ASSUME ConfigurationInv, \A c \in Calls : ExpiredInv(c) PROVE ConfigurationSound
      OBVIOUS
    <2>2. TypeOK /\ NamePart /\ MetaPart
      BY <2>1 DEF ConfigurationInv
    <2>3. NoLostUpdate
      BY <2>2 DEF NamePart, RecordInv, NoLostUpdate
    <2>4. DeniedWasPermitted
      <3>1. \A c \in Calls : call[c].pc = "denied" => call[c].kept = 0
        BY <2>2 DEF MetaPart, MetaInv, Noting, Recorded, Over
      <3>2. QED
        BY <2>1, <3>1 DEF ExpiredInv, Denied, DeniedWasPermitted
    <2>5. UniqueUnlessRaced
      BY <2>2, OneRecord DEF NamePart, UniqueUnlessRaced
    <2>6. MetadataFollowsCustody
      BY <2>2 DEF MetaPart, SettledInv, MetadataFollowsCustody
    <2>7. QED
      BY <2>2, <2>3, <2>4, <2>5, <2>6 DEF ConfigurationSound
  <1>2. QED
    BY <1>1, ConfigurationInvariance, ExpiredInvariance, PTL

\* A step makes a record exist only as the insert of the call it is named for: an update that
\* comes after the deletion of its record is refused by updateIfVersion, and nothing else
\* writes a record back (configuration/service.ts update and delete).
THEOREM DeletedStaysDeletedAlways == Spec => [][DeletedStaysDeleted]_vars
  <1>1. ConfigurationInv /\ [Next]_vars => [DeletedStaysDeleted]_vars
    <2>1. SUFFICES ASSUME ConfigurationInv, NEW c \in Calls, Step(c) PROVE DeletedStaysDeleted
      BY DEF Next
    <2>2. /\ records \in [Kinds -> [Ids -> Record]] /\ call[c] \in Call /\ c \in Ids
      BY <2>1 DEF ConfigurationInv, TypeOK, Ids
    <2>3. SUFFICES ASSUME NEW k \in Kinds, NEW i \in Ids, records'[k][i].exists, ~records[k][i].exists
                   PROVE  i \in Calls /\ call[i].pc = "insert"
      BY DEF DeletedStaysDeleted
    <2>4. CASE Insert(c)
      <3>1. records' = [records EXCEPT ![call[c].kind] = [records[call[c].kind] EXCEPT ![c] =
              [exists |-> TRUE, name |-> call[c].name, ref |-> call[c].ref, version |-> 1]]]
        BY <2>4 DEF Insert
      <3>2. k = call[c].kind /\ i = c
        BY <2>2, <2>3, <3>1
      <3>3. QED
        BY <2>1, <2>4, <3>2 DEF Insert
    <2>5. CASE Save(c)
      <3>1. CASE VersionMatches(c)
        <4>1. records[call[c].kind][call[c].id].exists
          BY <3>1 DEF VersionMatches
        <4>2. records' = [records EXCEPT ![call[c].kind] = [records[call[c].kind] EXCEPT ![call[c].id] =
                [exists |-> TRUE, name |-> call[c].name, ref |-> call[c].ref, version |-> call[c].version + 1]]]
          BY <2>5, <3>1 DEF Save
        <4>3. ~(k = call[c].kind /\ i = call[c].id)
          BY <2>3, <4>1
        <4>4. records'[k][i] = records[k][i]
          BY <2>2, <4>2, <4>3
        <4>5. QED
          BY <2>3, <4>4
      <3>2. CASE ~VersionMatches(c)
        BY <2>3, <2>5, <3>2 DEF Save
      <3>3. QED
        BY <3>1, <3>2
    <2>6. CASE RemoveRecord(c)
      <3>1. records' = [records EXCEPT ![call[c].kind] = [records[call[c].kind] EXCEPT ![call[c].id] = Absent]]
        BY <2>6 DEF RemoveRecord
      <3>2. records'[k][i] = records[k][i] \/ records'[k][i] = Absent
        BY <2>2, <3>1
      <3>3. QED
        BY <2>3, <3>2 DEF Absent
    <2>7. CASE UNCHANGED records
      BY <2>3, <2>7
    <2>8. QED
      BY <2>1, <2>4, <2>5, <2>6, <2>7 DEF Step, Start, Authorize, CheckOwn, CheckOther, Read, Permit, Audit,
         Keep, KeepUnanswered, Find, Note, ListActive, Retire, InsertVersion, Throw, stored
  <1>2. QED
    BY <1>1, ConfigurationInvariance, PTL DEF Spec

-----------------------------------------------------------------------------
(* The inductive invariant of the import *)

Contents == {Present} \union UNION {{d[k] : k \in ItemKinds} : d \in Documents}
Entry == [id : Nat, content : Contents \union {NoItem}]
Disables == [op : {"disable"}, entry : Entry]
Reports == {NoItem, "conflict", "missing", "unchanged", "create", "update", "failed"}

ImportRec ==
  [pc : {"idle", "read", "plan", "apply", "done", "stopped"}, at : 1..4, dryRun : BOOLEAN, overwrite : BOOLEAN,
   document : Documents \union {[k \in ItemKinds |-> NoItem]}, snapshot : [ItemKinds -> SUBSET Entry],
   steps : Seq({Write} \union Disables), report : [ItemKinds -> Reports]]

TransferTypeOK ==
  /\ target \in [ItemKinds -> SUBSET Entry] /\ created \in Nat /\ edits \in Nat
  /\ imports \in [Imports -> ImportRec] /\ alone \subseteq Imports

\* Sets of entries are finite, and their identifiers were given out.
GivenOut(entries, last) == IsFiniteSet(entries) /\ \A e \in entries : e.id <= last

Kind(q) == ItemOrder[q.at]
Els(s) == {s[n] : n \in 1..Len(s)}
Distinct(s) == \A m, n \in 1..Len(s) : s[m] = s[n] => m = n

\* What an import is about to do: its write comes first, and it disables only what is older
\* than something the target has.
Steps(q) ==
  /\ q.pc = "apply" <=> q.steps # <<>>
  /\ Distinct(q.steps) /\ (Write \in Els(q.steps) => Head(q.steps) = Write)
  /\ q.pc = "read" => q.at <= 3
  /\ q.pc = "apply" =>
       /\ ~q.dryRun /\ Kind(q) # "secret" /\ q.document[Kind(q)] # NoItem
       /\ q.report[Kind(q)] \in {"create", "update"} /\ (q.report[Kind(q)] = "update" => q.overwrite)
  /\ \A s \in Els(q.steps) : s.op = "disable" =>
       /\ s.entry.id <= created /\ q.report[Kind(q)] = "update"
       /\ edits = 0 /\ Write \notin Els(q.steps) => \E e \in target[Kind(q)] : e.id > s.entry.id

ImportInv(q) == Steps(q) /\ \A k \in ItemKinds : GivenOut(q.snapshot[k], created)

KeepInv ==
  /\ TransferTypeOK
  /\ \A k \in ItemKinds : GivenOut(target[k], created)
  /\ \A i \in Imports : ImportInv(imports[i])

-----------------------------------------------------------------------------
(* Imports that met no other writer *)

\* The items that are behind, and the parts of the target that were read.
Past(q) ==
  IF q.pc = "done" THEN ItemKinds
  ELSE IF q.pc \in {"plan", "apply"} THEN {ItemOrder[n] : n \in 1..(q.at - 1)} ELSE {}
ReadBy(q) == IF q.pc = "read" THEN UNION {ReadOrder[n] : n \in 1..(q.at - 1)} ELSE ItemKinds
WasRead(q, k) == k \in ReadBy(q) /\ (k \in ReadOrder[1] \/ q.document[k] # NoItem)

\* No two endpoints have the URL.
Single(q) == \A e, f \in q.snapshot["endpoint"] : e = f

\* A plan of this item would write nothing.
NothingToDo(q, k) ==
  \/ q.document[k] = NoItem \/ k = "secret"
  \/ k = "variable" /\ target["secret"] # {}
  \/ /\ target[k] # {}
     /\ \/ ~q.overwrite
        \/ k # "endpoint" /\ AlreadyThere(target[k], q.document[k])
        \/ \A e \in target[k] : e.content = q.document[k]

Pending(q) == {e \in target[Kind(q)] : Disable(e) \in Els(q.steps)}

\* The item that is being written: the target is as it was read, or it has the new entry and
\* what is still to be disabled.
Underway(q) ==
  LET k == Kind(q) IN
  IF Write \in Els(q.steps)
    THEN /\ target[k] = q.snapshot[k]
         /\ k # "variable" /\ Single(q) => Pending(q) = target[k]
    ELSE Single(q) => \E e \in target[k] : e.content = q.document[k] /\ target[k] \ Pending(q) = {e}

Alone(q) ==
  /\ q.pc # "idle"
  /\ \A k \in ItemKinds : WasRead(q, k) /\ k \notin Past(q) /\ ~(q.pc = "apply" /\ k = Kind(q)) => target[k] = q.snapshot[k]
  /\ WasRead(q, "secret") => target["secret"] = q.snapshot["secret"]
  /\ q.pc = "apply" => Underway(q)
  /\ ~q.dryRun /\ Single(q) => \A k \in Past(q) : q.report[k] # "failed" => NothingToDo(q, k)

TransferInv == KeepInv /\ \A i \in alone : Alone(imports[i])

-----------------------------------------------------------------------------
(* Items, entries and steps *)

LEMMA Orders ==
  /\ Len(ItemOrder) = 4 /\ ItemOrder[1] = "variable" /\ ItemOrder[2] = "secret"
  /\ ItemOrder[3] = "endpoint" /\ ItemOrder[4] = "schedule"
  /\ ItemKinds = {"variable", "secret", "endpoint", "schedule"}
  /\ Len(ReadOrder) = 3 /\ ReadOrder[1] = {"variable", "secret"} /\ ReadOrder[2] = {"endpoint"}
  /\ ReadOrder[3] = {"schedule"}
  BY DEF ItemOrder, ItemKinds, Range, ReadOrder

LEMMA KindIs == ASSUME NEW q \in ImportRec PROVE Kind(q) \in ItemKinds
  <1>1. q.at \in {1, 2, 3, 4}
    BY DEF ImportRec
  <1>2. QED
    BY <1>1, Orders DEF Kind

LEMMA WriteIs ==
  /\ Write.op = "write" /\ Write \notin Disables
  /\ \A e \in Entry : Disable(e) \in Disables /\ Disable(e).op = "disable" /\ Disable(e).entry = e /\ Disable(e) # Write
  /\ \A s \in Disables : s.op = "disable" /\ s.entry \in Entry /\ s = Disable(s.entry)
  <1>1. Write.op = "write" /\ Write \notin Disables
    BY DEF Write, Disables
  <1>2. ASSUME NEW e \in Entry
        PROVE Disable(e) \in Disables /\ Disable(e).op = "disable" /\ Disable(e).entry = e
    BY DEF Disable, Disables
  <1>3. ASSUME NEW s \in Disables
        PROVE s.op = "disable" /\ s.entry \in Entry /\ s = Disable(s.entry)
    BY DEF Disables, Disable
  <1>4. QED
    BY <1>1, <1>2, <1>3

LEMMA ElsIs ==
  ASSUME NEW T, NEW s \in Seq(T)
  PROVE Els(s) \subseteq T /\ (s = <<>> <=> Els(s) = {}) /\ (s # <<>> => Head(s) \in Els(s))
  <1>1. Len(s) \in Nat /\ (s = <<>> <=> Len(s) = 0) /\ (\A n \in 1..Len(s) : s[n] \in T) /\ (s # <<>> => Head(s) = s[1])
    OBVIOUS
  <1>2. Els(s) \subseteq T
    BY <1>1 DEF Els
  <1>3. s # <<>> => Head(s) \in Els(s)
    <2>1. s # <<>> => 1 \in 1..Len(s)
      BY <1>1
    <2>2. QED
      BY <1>1, <2>1 DEF Els
  <1>4. s = <<>> => Els(s) = {}
    <2>1. s = <<>> => 1..Len(s) = {}
      BY <1>1
    <2>2. QED
      BY <2>1 DEF Els
  <1>5. QED
    BY <1>2, <1>3, <1>4

\* One step less.
LEMMA TailIs ==
  ASSUME NEW T, NEW s \in Seq(T), s # <<>>, Distinct(s)
  PROVE Tail(s) \in Seq(T) /\ Distinct(Tail(s)) /\ Els(Tail(s)) = Els(s) \ {Head(s)}
  <1>1. /\ Len(s) \in Nat /\ Len(s) >= 1 /\ Tail(s) \in Seq(T) /\ Len(Tail(s)) = Len(s) - 1 /\ Head(s) = s[1]
        /\ \A n \in 1..(Len(s) - 1) : Tail(s)[n] = s[n + 1]
    OBVIOUS
  <1>2. Distinct(Tail(s))
    BY <1>1 DEF Distinct
  <1>3. ASSUME NEW x \in Els(Tail(s))
        PROVE x \in Els(s) \ {Head(s)}
    <2>1. PICK n \in 1..(Len(s) - 1) : x = s[n + 1]
      BY <1>1 DEF Els
    <2>2. n + 1 \in 1..Len(s) /\ n + 1 # 1 /\ 1 \in 1..Len(s)
      BY <1>1
    <2>3. QED
      BY <1>1, <2>1, <2>2 DEF Els, Distinct
  <1>4. ASSUME NEW x \in Els(s) \ {Head(s)}
        PROVE x \in Els(Tail(s))
    <2>1. PICK n \in 1..Len(s) : x = s[n] /\ n # 1
      BY <1>1 DEF Els
    <2>2. n - 1 \in 1..(Len(s) - 1) /\ Tail(s)[n - 1] = x
      BY <1>1, <2>1
    <2>3. QED
      BY <1>1, <2>2 DEF Els
  <1>5. QED
    BY <1>1, <1>2, <1>3, <1>4

\* Every element of a finite set, once.
LEMMA SetToSeqIs ==
  ASSUME NEW S, IsFiniteSet(S)
  PROVE SetToSeq(S) \in Seq(S) /\ Distinct(SetToSeq(S)) /\ Els(SetToSeq(S)) = S
  <1>1. Cardinality(S) \in Nat /\ ExistsBijection(1..Cardinality(S), S)
    BY FS_CardinalityType
  <1>2. PICK f \in [1..Cardinality(S) -> S] : IsInjective(f)
    BY <1>1 DEF ExistsBijection, Bijection, Injection
  <1>3. SetToSeq(S) \in [1..Cardinality(S) -> S] /\ IsInjective(SetToSeq(S))
    BY <1>2 DEF SetToSeq
  <1>4. PICK g : g = SetToSeq(S)
    OBVIOUS
  <1>5. g \in Seq(S) /\ Len(g) = Cardinality(S) /\ DOMAIN g = 1..Cardinality(S)
    BY <1>1, <1>3, <1>4
  <1>6. Distinct(g)
    BY <1>3, <1>4, <1>5 DEF Distinct, IsInjective
  <1>7. IsFiniteSet(1..Cardinality(S)) /\ Cardinality(1..Cardinality(S)) = Cardinality(S)
    BY <1>1, FS_Interval
  <1>8. g \in Injection(1..Cardinality(S), S)
    BY <1>3, <1>4 DEF Injection
  <1>9. g \in Surjection(1..Cardinality(S), S)
    BY <1>7, <1>8, FS_Injection
  <1>10. Els(g) = S
    BY <1>1, <1>5, <1>9 DEF Els, Surjection
  <1>11. QED
    BY <1>4, <1>5, <1>6, <1>10

\* The steps of an item: the write, then each entry it replaces is disabled once.
LEMMA ItemStepsAre ==
  ASSUME NEW kind, NEW action, NEW found \in SUBSET Entry, IsFiniteSet(found)
  PROVE LET s == ItemSteps(kind, action, found) IN
        /\ s \in Seq({Write} \union Disables) /\ s # <<>> /\ Distinct(s) /\ Head(s) = Write
        /\ Els(s) = {Write} \union (IF action = "update" /\ kind # "variable" THEN {Disable(e) : e \in found} ELSE {})
  <1>1. CASE ~(action = "update" /\ kind # "variable")
    <2>1. ItemSteps(kind, action, found) = <<Write>>
      BY <1>1 DEF ItemSteps
    <2>2. QED
      BY <1>1, <2>1 DEF Els, Distinct
  <1>2. CASE action = "update" /\ kind # "variable"
    <2> DEFINE D == {Disable(e) : e \in found}
    <2>1. PICK t : t = SetToSeq(D)
      OBVIOUS
    <2>2. ItemSteps(kind, action, found) = <<Write>> \o t
      BY <1>2, <2>1 DEF ItemSteps
    <2>3. D \subseteq Disables
      BY WriteIs
    <2>4. IsFiniteSet(D)
      <3> DEFINE f == [e \in found |-> Disable(e)]
      <3>1. f \in Surjection(found, D)
        BY DEF Surjection
      <3>2. QED
        BY <3>1, FS_Surjection
    <2>5. t \in Seq(D) /\ Distinct(t) /\ Els(t) = D
      BY <2>1, <2>4, SetToSeqIs
    <2> HIDE DEF D
    <2>6. PICK s : s = <<Write>> \o t
      OBVIOUS
    <2>7. /\ s \in Seq({Write} \union Disables) /\ Len(s) = Len(t) + 1 /\ s # <<>> /\ Len(t) \in Nat /\ Head(s) = Write
          /\ s[1] = Write /\ \A n \in 1..Len(t) : s[n + 1] = t[n] /\ t[n] \in D
      <3>1. t \in Seq({Write} \union Disables) /\ <<Write>> \in Seq({Write} \union Disables)
        BY <2>3, <2>5
      <3>2. QED
        BY <2>5, <2>6, <3>1
    <2>7a. ASSUME NEW m \in 1..Len(s), m # 1
           PROVE m - 1 \in 1..Len(t) /\ s[m] = t[m - 1] /\ s[m] \in D
      <3>1. m - 1 \in 1..Len(t) /\ (m - 1) + 1 = m
        BY <2>7, <2>7a
      <3>2. s[(m - 1) + 1] = t[m - 1] /\ t[m - 1] \in D
        BY <2>7, <3>1
      <3>3. QED
        BY <3>1, <3>2
    <2>8. Write \notin D
      BY <2>3, WriteIs
    <2>9. Distinct(s)
      <3>1. ASSUME NEW m \in 1..Len(s), NEW n \in 1..Len(s), s[m] = s[n]
            PROVE m = n
        <4>1. m # 1 => m - 1 \in 1..Len(t) /\ s[m] = t[m - 1] /\ s[m] \in D
          BY <2>7a
        <4>2. n # 1 => n - 1 \in 1..Len(t) /\ s[n] = t[n - 1] /\ s[n] \in D
          BY <2>7a
        <4>3. CASE m = 1 \/ n = 1
          BY <2>7, <2>8, <3>1, <4>1, <4>2, <4>3
        <4>4. CASE m # 1 /\ n # 1
          <5>1. m - 1 = n - 1
            BY <2>5, <3>1, <4>1, <4>2, <4>4 DEF Distinct
          <5>2. QED
            BY <5>1
        <4>5. QED
          BY <4>3, <4>4
      <3>2. QED
        BY <3>1 DEF Distinct
    <2>10. Els(s) = {Write} \union D
      <3>1. ASSUME NEW x \in Els(s)
            PROVE x \in {Write} \union D
        <4>1. PICK n \in 1..Len(s) : x = s[n]
          BY DEF Els
        <4>2. n # 1 => n - 1 \in 1..Len(t) /\ s[n] \in D
          BY <2>7a
        <4>3. QED
          BY <2>7, <4>1, <4>2
      <3>2. Write \in Els(s)
        BY <2>7 DEF Els
      <3>3. ASSUME NEW x \in D
            PROVE x \in Els(s)
        <4>1. PICK n \in 1..Len(t) : x = t[n]
          BY <2>5 DEF Els
        <4>2. n + 1 \in 1..Len(s) /\ s[n + 1] = x
          BY <2>7, <4>1
        <4>3. QED
          BY <4>2 DEF Els
      <3>4. QED
        BY <3>1, <3>2, <3>3
    <2>11. QED
      BY <1>2, <2>2, <2>6, <2>7, <2>9, <2>10 DEF D
  <1>3. QED
    BY <1>1, <1>2

-----------------------------------------------------------------------------
(* Nothing is cut off: every step preserves KeepInv *)

\* The item is done: the next one, or the report.
LEMMA ContinueIs ==
  ASSUME NEW q \in ImportRec
  PROVE /\ Continue(q) \in ImportRec
        /\ q.steps # <<>> => Continue(q) = q
        /\ q.steps = <<>> =>
             /\ q.at = 4 => Continue(q).pc = "done" /\ Continue(q).at = 4
             /\ q.at # 4 => Continue(q).pc = "plan" /\ Continue(q).at = q.at + 1
        /\ Continue(q).dryRun = q.dryRun /\ Continue(q).overwrite = q.overwrite /\ Continue(q).document = q.document
        /\ Continue(q).snapshot = q.snapshot /\ Continue(q).steps = q.steps /\ Continue(q).report = q.report
  <1>1. CASE q.steps # <<>>
    BY <1>1 DEF Continue
  <1>2. CASE q.steps = <<>> /\ q.at = 4
    <2>1. Continue(q) = [q EXCEPT !.pc = "done"]
      BY <1>2, Orders DEF Continue
    <2>2. QED
      BY <1>2, <2>1 DEF ImportRec
  <1>3. CASE q.steps = <<>> /\ q.at # 4
    <2>1. Continue(q) = [q EXCEPT !.pc = "plan", !.at = @ + 1]
      BY <1>3, Orders DEF Continue
    <2>2. q.at + 1 \in 1..4
      BY <1>3 DEF ImportRec
    <2>3. QED
      BY <1>3, <2>1, <2>2 DEF ImportRec
  <1>4. QED
    BY <1>1, <1>2, <1>3

\* What an import may do remains so when the target keeps something as young as each of its entries.
LEMMA StillKeeps ==
  ASSUME KeepInv, created' \in Nat, created <= created', NEW j \in Imports, imports'[j] = imports[j],
         edits' = 0 => edits = 0 /\ \A k \in ItemKinds : \A e \in target[k] : \E f \in target'[k] : f.id >= e.id,
         target' \in [ItemKinds -> SUBSET Entry]
  PROVE ImportInv(imports[j])'
  <1>1. PICK q : q = imports[j] /\ q = imports'[j] /\ q \in ImportRec
    BY DEF KeepInv, TransferTypeOK
  <1>2. Steps(q) /\ \A k \in ItemKinds : GivenOut(q.snapshot[k], created)
    BY <1>1 DEF KeepInv, ImportInv
  <1>3. target \in [ItemKinds -> SUBSET Entry] /\ Kind(q) \in ItemKinds /\ created \in Nat
    BY <1>1, KindIs DEF KeepInv, TransferTypeOK
  <1>4. Els(q.steps) \subseteq {Write} \union Disables
    BY <1>1, ElsIs DEF ImportRec
  <1>5. ASSUME NEW s \in Els(q.steps), s.op = "disable"
        PROVE /\ s.entry.id <= created' /\ q.report[Kind(q)] = "update"
              /\ edits' = 0 /\ Write \notin Els(q.steps) => \E e \in target'[Kind(q)] : e.id > s.entry.id
    <2>1. /\ s.entry.id <= created /\ q.report[Kind(q)] = "update" /\ s.entry.id \in Nat
          /\ edits = 0 /\ Write \notin Els(q.steps) => \E e \in target[Kind(q)] : e.id > s.entry.id
      <3>1. s \in Disables
        BY <1>4, <1>5, WriteIs
      <3>2. s.entry.id \in Nat
        BY <3>1, WriteIs DEF Entry
      <3>3. QED
        BY <1>2, <1>5, <3>2 DEF Steps
    <2>2. ASSUME edits' = 0, Write \notin Els(q.steps)
          PROVE \E e \in target'[Kind(q)] : e.id > s.entry.id
      <3>1. PICK e \in target[Kind(q)] : e.id > s.entry.id
        BY <2>1, <2>2
      <3>2. PICK f \in target'[Kind(q)] : f.id >= e.id
        BY <1>3, <2>2
      <3>3. e.id \in Nat /\ f.id \in Nat
        BY <1>3 DEF Entry
      <3>4. f.id > s.entry.id
        BY <2>1, <3>1, <3>2, <3>3
      <3>5. QED
        BY <3>4
    <2>3. QED
      BY <1>3, <2>1, <2>2
  <1>6. \A k \in ItemKinds : GivenOut(q.snapshot[k], created')
    <2>1. ASSUME NEW k \in ItemKinds, NEW e \in q.snapshot[k]
          PROVE e.id \in Nat
      BY <1>1 DEF ImportRec, Entry
    <2>2. QED
      BY <1>2, <1>3, <2>1 DEF GivenOut
  <1>7. QED
    BY <1>1, <1>2, <1>5, <1>6 DEF ImportInv, Steps, Kind, GivenOut

\* An import between two items, or at its end, has nothing left to write.
LEMMA BetweenItems ==
  ASSUME NEW i \in Imports, imports'[i].steps = <<>>, imports'[i].pc # "apply",
         imports'[i].pc = "read" => imports'[i].at <= 3,
         \A k \in ItemKinds : GivenOut(imports'[i].snapshot[k], created')
  PROVE ImportInv(imports[i])'
  <1>1. PICK r : r = imports'[i]
    OBVIOUS
  <1>2. Len(r.steps) = 0 /\ Els(r.steps) = {} /\ Distinct(r.steps)
    BY <1>1 DEF Els, Distinct
  <1>3. QED
    BY <1>1, <1>2 DEF ImportInv, Steps, GivenOut

LEMMA OperatorKeeps == KeepInv /\ OperatorDisables => KeepInv'
  <1> SUFFICES ASSUME KeepInv, OperatorDisables PROVE KeepInv'
    OBVIOUS
  <1>1. PICK k \in ItemKinds : \E e \in target[k] : target' = [target EXCEPT ![k] = @ \ {e}]
    BY DEF OperatorDisables
  <1>2. /\ edits' = edits + 1 /\ alone' = {} /\ created' = created /\ imports' = imports
        /\ TransferTypeOK /\ edits \in Nat /\ created \in Nat
    BY DEF OperatorDisables, KeepInv, TransferTypeOK
  <1>3. \A m \in ItemKinds : target'[m] \subseteq target[m]
    BY <1>1, <1>2 DEF TransferTypeOK
  <1>4. target' \in [ItemKinds -> SUBSET Entry]
    BY <1>1, <1>2 DEF TransferTypeOK
  <1>5. \A m \in ItemKinds : GivenOut(target[m], created)'
    BY <1>2, <1>3, FS_Subset DEF KeepInv, GivenOut
  <1>6. TransferTypeOK'
    BY <1>2, <1>4 DEF TransferTypeOK
  <1>7. edits' # 0
    BY <1>2
  <1>8. \A j \in Imports : ImportInv(imports[j])'
    BY <1>2, <1>4, <1>7, StillKeeps
  <1>9. QED
    BY <1>5, <1>6, <1>8 DEF KeepInv

\* A step of an import that leaves the target alone.
LEMMA OnlyPlans ==
  ASSUME KeepInv, NEW i \in Imports, target' = target, created' = created, edits' = edits, alone' \subseteq Imports,
         NEW r \in ImportRec, imports' = [imports EXCEPT ![i] = r], ImportInv(imports[i])'
  PROVE KeepInv'
  <1>1. TransferTypeOK /\ created \in Nat /\ edits \in Nat /\ target \in [ItemKinds -> SUBSET Entry]
    BY DEF KeepInv, TransferTypeOK
  <1>2. TransferTypeOK'
    BY <1>1 DEF TransferTypeOK
  <1>3. \A k \in ItemKinds : \A e \in target[k] : e.id \in Nat
    BY <1>1 DEF Entry
  <1>4. ASSUME NEW j \in Imports, j # i
        PROVE ImportInv(imports[j])'
    <2>1. imports'[j] = imports[j]
      BY <1>1, <1>4 DEF TransferTypeOK
    <2>2. \A k \in ItemKinds : \A e \in target[k] : \E f \in target'[k] : f.id >= e.id
      BY <1>3
    <2>3. QED
      BY <1>1, <2>1, <2>2, StillKeeps
  <1>5. \A k \in ItemKinds : GivenOut(target[k], created)'
    BY DEF KeepInv, GivenOut
  <1>6. QED
    BY <1>2, <1>4, <1>5 DEF KeepInv

LEMMA BeginKeeps == ASSUME KeepInv, NEW i \in Imports, BeginImport(i) PROVE KeepInv'
  <1>1. PICK d \in Documents, dry \in BOOLEAN, over \in BOOLEAN :
          imports' = [imports EXCEPT ![i] = [IdleImport EXCEPT !.pc = "read", !.document = d,
                                               !.dryRun = dry, !.overwrite = over]]
    BY DEF BeginImport
  <1>2. PICK r : r = [IdleImport EXCEPT !.pc = "read", !.document = d, !.dryRun = dry, !.overwrite = over]
    OBVIOUS
  <1>3. /\ r = [pc |-> "read", at |-> 1, dryRun |-> dry, overwrite |-> over, document |-> d,
                snapshot |-> [k \in ItemKinds |-> {}], steps |-> <<>>, report |-> [k \in ItemKinds |-> NoItem]]
    BY <1>2 DEF IdleImport
  <1>4. r \in ImportRec
    <2>1. <<>> \in Seq({Write} \union Disables)
      OBVIOUS
    <2>2. [k \in ItemKinds |-> {}] \in [ItemKinds -> SUBSET Entry] /\ [k \in ItemKinds |-> NoItem] \in [ItemKinds -> Reports]
      BY DEF Reports
    <2>3. QED
      BY <1>3, <2>1, <2>2 DEF ImportRec
  <1>5. imports' = [imports EXCEPT ![i] = r] /\ imports'[i] = r /\ alone' \subseteq Imports
    BY <1>1, <1>2 DEF BeginImport, KeepInv, TransferTypeOK
  <1>6. target' = target /\ created' = created /\ edits' = edits
    BY DEF BeginImport
  <1>7. r.steps = <<>> /\ r.pc = "read" /\ r.at = 1 /\ \A k \in ItemKinds : GivenOut(r.snapshot[k], created')
    BY <1>3, FS_EmptySet DEF GivenOut
  <1>8. ImportInv(imports[i])'
    BY <1>5, <1>7, BetweenItems
  <1>9. QED
    BY <1>4, <1>5, <1>6, <1>8, OnlyPlans

\* What one read leaves in the import's record.
ReadNow(q) == {k \in ReadOrder[q.at] : k \in ReadOrder[1] \/ q.document[k] # NoItem}
SnapshotNow(q) == [k \in ItemKinds |-> IF k \in ReadNow(q) THEN target[k] ELSE q.snapshot[k]]
ReadsOn(q) ==
  [q EXCEPT !.snapshot = SnapshotNow(q), !.at = IF q.at = 3 THEN 1 ELSE q.at + 1,
            !.pc = IF q.at = 3 THEN "plan" ELSE "read"]

LEMMA ReadIs ==
  ASSUME KeepInv, NEW i \in Imports, ReadTarget(i)
  PROVE /\ imports[i].pc = "read" /\ imports[i].at \in 1..3
        /\ imports' = [imports EXCEPT ![i] = ReadsOn(imports[i])]
        /\ UNCHANGED <<target, created, edits, alone>>
  <1>1. imports[i] \in ImportRec /\ imports \in [Imports -> ImportRec] /\ Steps(imports[i])
    BY DEF KeepInv, TransferTypeOK, ImportInv
  <1>2. imports[i].pc = "read"
    BY DEF ReadTarget
  <1>3. imports[i].at \in 1..4 /\ imports[i].at <= 3
    BY <1>1, <1>2 DEF Steps, ImportRec
  <1>4. imports[i].at \in 1..3
    BY <1>3
  <1>5. QED
    BY <1>1, <1>2, <1>4, Orders DEF ReadTarget, ImportRec, ReadsOn, ReadNow, SnapshotNow

LEMMA ReadsOnIs ==
  ASSUME KeepInv, NEW q \in ImportRec, q.at \in 1..3, \A k \in ItemKinds : GivenOut(q.snapshot[k], created)
  PROVE LET r == ReadsOn(q) IN
        /\ r \in ImportRec /\ r.steps = q.steps /\ r.snapshot = SnapshotNow(q)
        /\ r.document = q.document /\ r.report = q.report /\ r.dryRun = q.dryRun /\ r.overwrite = q.overwrite
        /\ r.at = (IF q.at = 3 THEN 1 ELSE q.at + 1) /\ r.pc = (IF q.at = 3 THEN "plan" ELSE "read")
        /\ \A k \in ItemKinds : GivenOut(r.snapshot[k], created)
  <1>1. PICK n : n = (IF q.at = 3 THEN 1 ELSE q.at + 1)
    OBVIOUS
  <1>2. n \in 1..4
    BY <1>1
  <1>3. PICK c : c = (IF q.at = 3 THEN "plan" ELSE "read")
    OBVIOUS
  <1>4. c \in {"plan", "read"}
    BY <1>3
  <1>5. SnapshotNow(q) \in [ItemKinds -> SUBSET Entry] /\ \A k \in ItemKinds : GivenOut(SnapshotNow(q)[k], created)
    BY DEF SnapshotNow, ImportRec, KeepInv, TransferTypeOK
  <1>6. ReadsOn(q) = [q EXCEPT !.snapshot = SnapshotNow(q), !.at = n, !.pc = c]
    BY <1>1, <1>3 DEF ReadsOn
  <1>7. QED
    BY <1>1, <1>2, <1>3, <1>4, <1>5, <1>6 DEF ImportRec

LEMMA ReadKeeps == ASSUME KeepInv, NEW i \in Imports, ReadTarget(i) PROVE KeepInv'
  <1>1. PICK q : q = imports[i] /\ q \in ImportRec
    BY DEF KeepInv, TransferTypeOK
  <1>2. PICK r : r = ReadsOn(q)
    OBVIOUS
  <1>3. q.pc = "read" /\ q.at \in 1..3 /\ imports' = [imports EXCEPT ![i] = r] /\ UNCHANGED <<target, created, edits, alone>>
    BY <1>1, <1>2, ReadIs
  <1>4. Steps(q) /\ alone \subseteq Imports /\ \A k \in ItemKinds : GivenOut(q.snapshot[k], created)
    BY <1>1 DEF KeepInv, TransferTypeOK, ImportInv
  <1>5. /\ r \in ImportRec /\ r.steps = q.steps /\ \A k \in ItemKinds : GivenOut(r.snapshot[k], created)
        /\ r.at = (IF q.at = 3 THEN 1 ELSE q.at + 1) /\ r.pc = (IF q.at = 3 THEN "plan" ELSE "read")
    BY <1>1, <1>2, <1>3, <1>4, ReadsOnIs
  <1>6. q.steps = <<>>
    BY <1>3, <1>4 DEF Steps
  <1>7. imports'[i] = r
    BY <1>3 DEF KeepInv, TransferTypeOK
  <1>8. (r.pc = "read" => r.at <= 3) /\ r.pc # "apply"
    BY <1>3, <1>5
  <1>9. ImportInv(imports[i])'
    BY <1>3, <1>5, <1>6, <1>7, <1>8, BetweenItems
  <1>10. QED
    BY <1>3, <1>4, <1>5, <1>9, OnlyPlans

LEMMA FailKeeps == ASSUME KeepInv, NEW i \in Imports, FailItem(i) PROVE KeepInv'
  <1>1. PICK q : q = imports[i] /\ q \in ImportRec
    BY DEF KeepInv, TransferTypeOK
  <1>2. PICK p : p = [q EXCEPT !.report[Kind(q)] = "failed", !.steps = <<>>]
    OBVIOUS
  <1>3. imports' = [imports EXCEPT ![i] = Continue(p)] /\ UNCHANGED <<target, created, edits, alone>>
    BY <1>1, <1>2 DEF FailItem, Item, Kind
  <1>4. p \in ImportRec
    <2>1. [q.report EXCEPT ![Kind(q)] = "failed"] \in [ItemKinds -> Reports] /\ <<>> \in Seq({Write} \union Disables)
      BY <1>1, KindIs DEF ImportRec, Reports
    <2>2. p = [q EXCEPT !.report = [q.report EXCEPT ![Kind(q)] = "failed"], !.steps = <<>>]
      BY <1>1, <1>2 DEF ImportRec
    <2>3. QED
      BY <1>1, <2>1, <2>2 DEF ImportRec
  <1>5. p.steps = <<>> /\ p.snapshot = q.snapshot /\ imports'[i] = Continue(p) /\ alone \subseteq Imports
    BY <1>1, <1>2, <1>3 DEF ImportRec, KeepInv, TransferTypeOK
  <1>6. /\ Continue(p) \in ImportRec /\ Continue(p).steps = <<>> /\ Continue(p).pc \in {"done", "plan"}
        /\ Continue(p).snapshot = q.snapshot
    BY <1>4, <1>5, ContinueIs
  <1>7. \A k \in ItemKinds : GivenOut(q.snapshot[k], created)
    BY <1>1 DEF KeepInv, ImportInv
  <1>8. ImportInv(imports[i])'
    BY <1>3, <1>5, <1>6, <1>7, BetweenItems
  <1>9. QED
    BY <1>3, <1>5, <1>6, <1>8, OnlyPlans

\* The import stops: its record keeps its place and its report.
LEMMA StopIs ==
  ASSUME KeepInv, NEW i \in Imports, StopImport(i)
  PROVE /\ UNCHANGED <<target, created, edits, crossed>> /\ alone' = alone \ {i} /\ imports[i].pc = "apply"
        /\ \E p \in ImportRec : /\ imports' = [imports EXCEPT ![i] = p] /\ p.pc = "stopped" /\ p.steps = <<>>
                               /\ p.at = imports[i].at /\ p.report = imports[i].report
                               /\ p.snapshot = imports[i].snapshot
  <1>1. PICK q : q = imports[i] /\ q \in ImportRec
    BY DEF KeepInv, TransferTypeOK
  <1>2. PICK p : p = [q EXCEPT !.pc = "stopped", !.steps = <<>>]
    OBVIOUS
  <1>3. imports' = [imports EXCEPT ![i] = p]
    BY <1>1, <1>2 DEF StopImport, KeepInv, TransferTypeOK, ImportRec
  <1>4. <<>> \in Seq({Write} \union Disables)
    OBVIOUS
  <1>5. p \in ImportRec /\ p.pc = "stopped" /\ p.steps = <<>> /\ p.at = q.at /\ p.report = q.report
        /\ p.snapshot = q.snapshot
    BY <1>1, <1>2, <1>4 DEF ImportRec
  <1>6. QED
    BY <1>1, <1>3, <1>5 DEF StopImport

LEMMA StopKeeps == ASSUME KeepInv, NEW i \in Imports, StopImport(i) PROVE KeepInv'
  <1>1. PICK p \in ImportRec : /\ imports' = [imports EXCEPT ![i] = p] /\ p.pc = "stopped" /\ p.steps = <<>>
                             /\ p.snapshot = imports[i].snapshot
    BY StopIs
  <1>2. UNCHANGED <<target, created, edits>> /\ alone' = alone \ {i}
    BY StopIs
  <1>3. imports'[i] = p /\ alone' \subseteq Imports
    BY <1>1, <1>2 DEF KeepInv, TransferTypeOK
  <1>4. \A k \in ItemKinds : GivenOut(p.snapshot[k], created)
    BY <1>1 DEF KeepInv, ImportInv
  <1>5. ImportInv(imports[i])'
    BY <1>1, <1>2, <1>3, <1>4, BetweenItems DEF GivenOut
  <1>6. QED
    BY <1>1, <1>2, <1>3, <1>5, OnlyPlans

\* What a plan says of an item.
LEMMA PlannedIs ==
  ASSUME NEW kind, NEW content, NEW snapshot, NEW found, NEW over \in BOOLEAN
  PROVE LET a == Planned(kind, content, snapshot, found, over) IN
        /\ a \in Reports
        /\ a \in {"create", "update"} => content # NoItem /\ kind # "secret" /\ (a = "update" => over) /\ (a = "create" => found = {})
        /\ a = "update" => ~AlreadyThere(found, content)
        /\ a \notin {"create", "update"} =>
             \/ content = NoItem \/ OtherKind(kind, snapshot) \/ kind = "secret"
             \/ found # {} /\ (AlreadyThere(found, content) \/ ~over)
  <1>1. CASE content = NoItem
    <2>1. Planned(kind, content, snapshot, found, over) = NoItem
      BY <1>1 DEF Planned
    <2>2. QED
      BY <1>1, <2>1, TransferAssumption DEF Reports
  <1>2. CASE content # NoItem /\ OtherKind(kind, snapshot)
    <2>1. Planned(kind, content, snapshot, found, over) = "conflict"
      BY <1>2 DEF Planned
    <2>2. QED
      BY <1>2, <2>1 DEF Reports
  <1>3. CASE content # NoItem /\ ~OtherKind(kind, snapshot)
    <2>1. Planned(kind, content, snapshot, found, over) =
            IF kind = "secret" THEN (IF found = {} THEN "missing" ELSE "unchanged")
            ELSE IF found = {} THEN "create"
            ELSE IF AlreadyThere(found, content) THEN "unchanged" ELSE Differing(over)
      BY <1>3 DEF Planned
    <2>2. QED
      BY <1>3, <2>1 DEF Reports, Differing
  <1>4. QED
    BY <1>1, <1>2, <1>3

LEMMA CandidatesAre ==
  ASSUME NEW kind, NEW all, NEW found \in Candidates(kind, all)
  PROVE /\ found \subseteq all /\ (kind # "endpoint" => found = all) /\ (found = {} => all = {})
        /\ (\A e, f \in all : e = f) => found = all
  BY DEF Candidates

\* The import's record once an item is planned, before it goes on.
PlannedAs(q, p, found, action) ==
  /\ found \in Candidates(Kind(q), q.snapshot[Kind(q)])
  /\ action = Planned(Kind(q), q.document[Kind(q)], q.snapshot, found, q.overwrite)
  /\ p \in ImportRec /\ p.at = q.at /\ p.pc = "apply" /\ p.dryRun = q.dryRun /\ p.overwrite = q.overwrite
  /\ p.document = q.document /\ p.snapshot = q.snapshot /\ p.report = [q.report EXCEPT ![Kind(q)] = action]
  /\ p.steps = IF Writing(q, action) THEN ItemSteps(Kind(q), action, found) ELSE <<>>
  /\ found \in SUBSET Entry /\ IsFiniteSet(found) /\ \A e \in found : e.id <= created

LEMMA PlanIs ==
  ASSUME KeepInv, NEW i \in Imports, PlanItem(i)
  PROVE /\ imports[i].pc = "plan" /\ UNCHANGED <<target, created, edits, alone>>
        /\ \E p, found, action : PlannedAs(imports[i], p, found, action) /\ imports' = [imports EXCEPT ![i] = Continue(p)]
  <1>1. PICK q : q = imports[i] /\ q \in ImportRec
    BY DEF KeepInv, TransferTypeOK
  <1>2. Kind(q) \in ItemKinds /\ GivenOut(q.snapshot[Kind(q)], created) /\ q.snapshot[Kind(q)] \in SUBSET Entry
    BY <1>1, KindIs DEF KeepInv, ImportInv, ImportRec
  <1>3. PICK found \in Candidates(Kind(q), q.snapshot[Kind(q)]) :
          imports' = [imports EXCEPT ![i] = Continue([q EXCEPT
            !.report[Kind(q)] = Planned(Kind(q), q.document[Kind(q)], q.snapshot, found, q.overwrite),
            !.pc = "apply",
            !.steps = IF Writing(q, Planned(Kind(q), q.document[Kind(q)], q.snapshot, found, q.overwrite))
                      THEN ItemSteps(Kind(q), Planned(Kind(q), q.document[Kind(q)], q.snapshot, found, q.overwrite), found)
                      ELSE <<>>])]
    BY <1>1 DEF PlanItem, Item, Kind, Requested
  <1>4. PICK action : action = Planned(Kind(q), q.document[Kind(q)], q.snapshot, found, q.overwrite)
    OBVIOUS
  <1>5. PICK steps : steps = IF Writing(q, action) THEN ItemSteps(Kind(q), action, found) ELSE <<>>
    OBVIOUS
  <1>6. PICK p : p = [q EXCEPT !.report = [q.report EXCEPT ![Kind(q)] = action], !.pc = "apply", !.steps = steps]
    OBVIOUS
  <1>7. found \in SUBSET Entry /\ IsFiniteSet(found) /\ \A e \in found : e.id <= created
    BY <1>2, CandidatesAre, FS_Subset DEF GivenOut
  <1>8. action \in Reports
    <2>1. q.overwrite \in BOOLEAN
      BY <1>1 DEF ImportRec
    <2>2. QED
      BY <1>4, <2>1, PlannedIs
  <1>9. steps \in Seq({Write} \union Disables)
    BY <1>5, <1>7, ItemStepsAre
  <1>10. p \in ImportRec
    <2>1. [q.report EXCEPT ![Kind(q)] = action] \in [ItemKinds -> Reports]
      BY <1>1, <1>2, <1>8 DEF ImportRec
    <2>2. QED
      BY <1>1, <1>6, <1>9, <2>1 DEF ImportRec
  <1>11. imports' = [imports EXCEPT ![i] = Continue(p)]
    <2>1. p = [q EXCEPT !.report[Kind(q)] = action, !.pc = "apply", !.steps = steps]
      BY <1>1, <1>6 DEF ImportRec
    <2>2. QED
      BY <1>3, <1>4, <1>5, <2>1
  <1>12. PlannedAs(q, p, found, action)
    <2>1. /\ p.at = q.at /\ p.pc = "apply" /\ p.dryRun = q.dryRun /\ p.overwrite = q.overwrite
          /\ p.document = q.document /\ p.snapshot = q.snapshot /\ p.report = [q.report EXCEPT ![Kind(q)] = action]
          /\ p.steps = steps
      BY <1>1, <1>6 DEF ImportRec
    <2>2. QED
      BY <1>4, <1>5, <1>7, <1>10, <2>1 DEF PlannedAs
  <1>13. QED
    BY <1>1, <1>11, <1>12 DEF PlanItem

LEMMA PlanKeeps == ASSUME KeepInv, NEW i \in Imports, PlanItem(i) PROVE KeepInv'
  <1>1. PICK q : q = imports[i] /\ q \in ImportRec
    BY DEF KeepInv, TransferTypeOK
  <1>2. PICK p, found, action : PlannedAs(q, p, found, action) /\ imports' = [imports EXCEPT ![i] = Continue(p)]
    BY <1>1, PlanIs
  <1>3. UNCHANGED <<target, created, edits, alone>> /\ q.pc = "plan"
    BY <1>1, PlanIs
  <1>4. \A k \in ItemKinds : GivenOut(p.snapshot[k], created)
    BY <1>1, <1>2 DEF KeepInv, ImportInv, PlannedAs
  <1>5. imports'[i] = Continue(p) /\ p \in ImportRec /\ alone' \subseteq Imports /\ Kind(p) = Kind(q)
    BY <1>2, <1>3 DEF KeepInv, TransferTypeOK, PlannedAs, Kind
  <1>6. Continue(p) \in ImportRec
    BY <1>5, ContinueIs
  <1>7. CASE p.steps = <<>>
    <2>1. Continue(p).pc \in {"plan", "done"} /\ Continue(p).steps = <<>> /\ Continue(p).snapshot = p.snapshot
      BY <1>5, <1>7, ContinueIs
    <2>2. ImportInv(imports[i])'
      BY <1>3, <1>4, <1>5, <2>1, BetweenItems
    <2>3. QED
      BY <1>2, <1>3, <1>5, <1>6, <2>2, OnlyPlans
  <1>8. CASE p.steps # <<>>
    <2>1. Continue(p) = p
      BY <1>5, <1>8, ContinueIs
    <2>2. Writing(q, action) /\ p.steps = ItemSteps(Kind(q), action, found)
      BY <1>2, <1>8 DEF PlannedAs
    <2>3. /\ p.steps \in Seq({Write} \union Disables) /\ Distinct(p.steps) /\ Head(p.steps) = Write
          /\ Els(p.steps) = {Write} \union (IF action = "update" /\ Kind(q) # "variable" THEN {Disable(e) : e \in found} ELSE {})
      BY <1>2, <2>2, ItemStepsAre DEF PlannedAs
    <2>4. /\ ~p.dryRun /\ Kind(p) # "secret" /\ p.document[Kind(p)] # NoItem
          /\ p.report[Kind(p)] = action /\ action \in {"create", "update"} /\ (action = "update" => p.overwrite)
      <3>1. Kind(q) \in ItemKinds /\ q.overwrite \in BOOLEAN
        BY <1>1, KindIs DEF ImportRec
      <3>2. p.report[Kind(q)] = action
        BY <1>1, <1>2, <3>1 DEF PlannedAs, ImportRec
      <3>3. ~q.dryRun /\ action \in {"create", "update"}
        BY <2>2 DEF Writing
      <3>4. q.document[Kind(q)] # NoItem /\ Kind(q) # "secret" /\ (action = "update" => q.overwrite)
        BY <1>2, <3>1, <3>3, PlannedIs DEF PlannedAs
      <3>5. QED
        BY <1>2, <1>5, <3>2, <3>3, <3>4 DEF PlannedAs
    <2>5. ASSUME NEW s \in Els(p.steps), s.op = "disable"
          PROVE s.entry.id <= created /\ action = "update"
      <3>1. s # Write
        BY <2>5, WriteIs
      <3>2. PICK e \in found : s = Disable(e) /\ action = "update"
        BY <2>3, <3>1
      <3>3. e \in Entry /\ e.id <= created
        BY <1>2 DEF PlannedAs
      <3>4. QED
        BY <3>2, <3>3, WriteIs
    <2>6. Write \in Els(p.steps)
      BY <2>3
    <2>7. p.pc = "apply"
      BY <1>2 DEF PlannedAs
    <2>8. imports'[i] = p
      BY <1>5, <2>1
    <2>9. ImportInv(imports[i])'
      BY <1>3, <1>4, <1>8, <2>3, <2>4, <2>5, <2>6, <2>7, <2>8 DEF ImportInv, Steps, Kind, GivenOut
    <2>10. QED
      BY <1>2, <1>3, <1>5, <1>6, <2>9, OnlyPlans
  <1>9. QED
    BY <1>7, <1>8

\* One step less to take for the item.
AppliedAs(q, p) ==
  /\ q.pc = "apply" /\ q.steps # <<>> /\ p \in ImportRec /\ p.at = q.at /\ p.pc = "apply" /\ p.dryRun = q.dryRun
  /\ p.overwrite = q.overwrite /\ p.document = q.document /\ p.snapshot = q.snapshot /\ p.report = q.report
  /\ Distinct(p.steps) /\ Els(p.steps) = Els(q.steps) \ {Head(q.steps)} /\ (p.steps = <<>> <=> Els(p.steps) = {})

\* The step writes the item, or disables an entry that it replaces.
NewEntry(q) == [id |-> created + 1, content |-> q.document[Kind(q)]]
WritesItem(q) ==
  /\ Head(q.steps) = Write /\ created' = created + 1
  /\ target' = [target EXCEPT ![Kind(q)] = (IF Kind(q) = "variable" THEN {} ELSE target[Kind(q)]) \union {NewEntry(q)}]
Retires(q, e) ==
  /\ Head(q.steps) = Disable(e) /\ e \in Entry /\ Disable(e) \in Els(q.steps) /\ Write \notin Els(q.steps)
  /\ created' = created /\ target' = [target EXCEPT ![Kind(q)] = target[Kind(q)] \ {e}]

LEMMA ApplyIs ==
  ASSUME KeepInv, NEW i \in Imports, ApplyStep(i)
  PROVE /\ alone' = alone \intersect {i} /\ edits' = edits
        /\ \E p : AppliedAs(imports[i], p) /\ imports' = [imports EXCEPT ![i] = Continue(p)]
        /\ \/ WritesItem(imports[i]) /\ Accepted(i)
           \/ \E e : Retires(imports[i], e)
  <1>1. PICK q : q = imports[i] /\ q \in ImportRec
    BY DEF KeepInv, TransferTypeOK
  <1>2. q.pc = "apply" /\ Steps(q)
    BY <1>1 DEF ApplyStep, KeepInv, ImportInv
  <1>3. q.steps # <<>> /\ Distinct(q.steps) /\ q.steps \in Seq({Write} \union Disables)
    BY <1>1, <1>2 DEF Steps, ImportRec
  <1>4. PICK p : p = [q EXCEPT !.steps = Tail(q.steps)]
    OBVIOUS
  <1>5. imports' = [imports EXCEPT ![i] = Continue(p)]
    <2>1. p = [imports[i] EXCEPT !.steps = Tail(imports[i].steps)]
      BY <1>1, <1>4
    <2>2. imports' = [imports EXCEPT ![i] = Continue([imports[i] EXCEPT !.steps = Tail(imports[i].steps)])]
      BY DEF ApplyStep
    <2>3. QED
      BY <2>1, <2>2
  <1>6. AppliedAs(q, p)
    <2>1. Tail(q.steps) \in Seq({Write} \union Disables) /\ Distinct(Tail(q.steps)) /\ Els(Tail(q.steps)) = Els(q.steps) \ {Head(q.steps)}
      BY <1>3, TailIs
    <2>2. Tail(q.steps) = <<>> <=> Els(Tail(q.steps)) = {}
      BY <2>1, ElsIs
    <2>3. QED
      BY <1>1, <1>2, <1>3, <1>4, <2>1, <2>2 DEF AppliedAs, ImportRec
  <1>7. PICK step : step = Head(q.steps)
    OBVIOUS
  <1>8. step \in Els(q.steps) /\ step \in {Write} \union Disables
    BY <1>3, <1>7, ElsIs
  <1>9. /\ step.op = "write" => Accepted(i)
        /\ target' = [target EXCEPT ![Kind(q)] =
             IF step.op = "write" THEN (IF Kind(q) = "variable" THEN {} ELSE target[Kind(q)]) \union {NewEntry(q)}
             ELSE target[Kind(q)] \ {step.entry}]
        /\ created' = (IF step.op = "write" THEN created + 1 ELSE created)
    BY <1>1, <1>7 DEF ApplyStep, Item, Kind, Requested, NewEntry
  <1>10. step = Write => WritesItem(q) /\ Accepted(i)
    BY <1>7, <1>9, WriteIs DEF WritesItem
  <1>11. ASSUME step \in Disables
         PROVE Retires(q, step.entry)
    <2>1. step.op = "disable" /\ step = Disable(step.entry) /\ step.entry \in Entry /\ step # Write
      BY <1>11, WriteIs
    <2>2. Write \notin Els(q.steps)
      BY <1>2, <1>7, <2>1 DEF Steps
    <2>3. QED
      BY <1>7, <1>8, <1>9, <2>1, <2>2 DEF Retires
  <1>12. \/ WritesItem(q) /\ Accepted(i)
         \/ \E e : Retires(q, e)
    BY <1>8, <1>10, <1>11
  <1>13. alone' = alone \intersect {i} /\ edits' = edits
    BY DEF ApplyStep
  <1>14. QED
    BY <1>1, <1>5, <1>6, <1>12, <1>13

\* The target has an entry as young as each that it had.
LEMMA ApplyLeaves ==
  ASSUME KeepInv, NEW i \in Imports, ApplyStep(i)
  PROVE /\ created' \in Nat /\ created <= created' /\ target' \in [ItemKinds -> SUBSET Entry]
        /\ \A k \in ItemKinds : GivenOut(target'[k], created')
        /\ edits = 0 => \A k \in ItemKinds : \A e \in target[k] : \E f \in target'[k] : f.id >= e.id
  <1>1. PICK q : q = imports[i] /\ q \in ImportRec
    BY DEF KeepInv, TransferTypeOK
  <1>2. /\ created \in Nat /\ target \in [ItemKinds -> SUBSET Entry] /\ Kind(q) \in ItemKinds
        /\ \A k \in ItemKinds : GivenOut(target[k], created)
    BY <1>1, KindIs DEF KeepInv, TransferTypeOK
  <1>3. \A k \in ItemKinds : \A e \in target[k] : e \in Entry /\ e.id \in Nat /\ e.id <= created
    BY <1>2 DEF Entry, GivenOut
  <1>4. CASE WritesItem(q)
    <2>1. NewEntry(q) \in Entry /\ NewEntry(q).id = created + 1
      <3>1. q.document[Kind(q)] \in Contents \union {NoItem}
        BY <1>1, <1>2 DEF ImportRec, Contents
      <3>2. QED
        BY <1>2, <3>1 DEF NewEntry, Entry
    <2>2. target' = [target EXCEPT ![Kind(q)] = (IF Kind(q) = "variable" THEN {} ELSE target[Kind(q)]) \union {NewEntry(q)}]
      BY <1>4 DEF WritesItem
    <2>3. created' = created + 1
      BY <1>4 DEF WritesItem
    <2>4. target' \in [ItemKinds -> SUBSET Entry]
      BY <1>2, <2>1, <2>2
    <2>5. \A k \in ItemKinds : target'[k] \subseteq target[k] \union {NewEntry(q)}
      BY <1>2, <2>2
    <2>6. ASSUME NEW k \in ItemKinds
          PROVE GivenOut(target'[k], created')
      <3>1. IsFiniteSet(target[k] \union {NewEntry(q)})
        BY <1>2, FS_AddElement DEF GivenOut
      <3>2. IsFiniteSet(target'[k])
        BY <2>5, <3>1, FS_Subset
      <3>3. \A e \in target'[k] : e.id <= created'
        BY <1>2, <1>3, <2>1, <2>3, <2>5
      <3>4. QED
        BY <3>2, <3>3 DEF GivenOut
    <2>7. ASSUME NEW k \in ItemKinds, NEW e \in target[k]
          PROVE \E f \in target'[k] : f.id >= e.id
      <3>1. CASE k = Kind(q)
        <4>1. NewEntry(q) \in target'[k]
          BY <1>2, <2>2, <3>1
        <4>2. NewEntry(q).id >= e.id
          BY <1>2, <1>3, <2>1
        <4>3. QED
          BY <4>1, <4>2
      <3>2. CASE k # Kind(q)
        <4>1. e \in target'[k]
          BY <1>2, <2>2, <3>2
        <4>2. QED
          BY <1>3, <4>1
      <3>3. QED
        BY <3>1, <3>2
    <2>8. created' \in Nat /\ created <= created'
      BY <1>2, <2>3
    <2>9. QED
      BY <2>4, <2>6, <2>7, <2>8
  <1>5. ASSUME NEW e0, Retires(q, e0)
        PROVE /\ created' \in Nat /\ created <= created' /\ target' \in [ItemKinds -> SUBSET Entry]
              /\ \A k \in ItemKinds : GivenOut(target'[k], created')
              /\ edits = 0 => \A k \in ItemKinds : \A e \in target[k] : \E f \in target'[k] : f.id >= e.id
    <2>1. created' = created /\ target' = [target EXCEPT ![Kind(q)] = target[Kind(q)] \ {e0}] /\ e0 \in Entry
      BY <1>5 DEF Retires
    <2>2. target' \in [ItemKinds -> SUBSET Entry]
      BY <1>2, <2>1
    <2>3. \A k \in ItemKinds : target'[k] \subseteq target[k]
      BY <1>2, <2>1
    <2>4. \A k \in ItemKinds : GivenOut(target'[k], created')
      BY <1>2, <2>1, <2>3, FS_Subset DEF GivenOut
    <2>5. edits = 0 => \E g \in target[Kind(q)] : g.id > e0.id
      <3>1. Disable(e0) \in Els(q.steps) /\ Write \notin Els(q.steps) /\ Disable(e0).op = "disable" /\ Disable(e0).entry = e0
        BY <1>5, <2>1, WriteIs DEF Retires
      <3>2. Steps(q)
        BY <1>1 DEF KeepInv, ImportInv
      <3>3. QED
        BY <3>1, <3>2 DEF Steps
    <2>6. ASSUME edits = 0, NEW k \in ItemKinds, NEW e \in target[k]
          PROVE \E f \in target'[k] : f.id >= e.id
      <3>1. CASE k = Kind(q) /\ e = e0
        <4>1. PICK g \in target[k] : g.id > e0.id
          BY <2>5, <2>6, <3>1
        <4>2. g.id \in Nat /\ e0.id \in Nat
          BY <1>3, <3>1
        <4>3. g # e0 /\ g.id >= e.id
          BY <3>1, <4>1, <4>2
        <4>4. g \in target'[k]
          BY <1>2, <2>1, <3>1, <4>3
        <4>5. QED
          BY <4>3, <4>4
      <3>2. CASE ~(k = Kind(q) /\ e = e0)
        <4>1. e \in target'[k]
          BY <1>2, <2>1, <3>2
        <4>2. QED
          BY <1>3, <4>1
      <3>3. QED
        BY <3>1, <3>2
    <2>7. QED
      BY <1>2, <2>1, <2>2, <2>4, <2>6
  <1>6. QED
    BY <1>1, <1>4, <1>5, ApplyIs

LEMMA ApplyKeeps == ASSUME KeepInv, NEW i \in Imports, ApplyStep(i) PROVE KeepInv'
  <1>1. PICK q : q = imports[i] /\ q \in ImportRec
    BY DEF KeepInv, TransferTypeOK
  <1>2. PICK p : AppliedAs(q, p) /\ imports' = [imports EXCEPT ![i] = Continue(p)]
    BY <1>1, ApplyIs
  <1>3. /\ created' \in Nat /\ created <= created' /\ target' \in [ItemKinds -> SUBSET Entry]
        /\ \A k \in ItemKinds : GivenOut(target'[k], created')
        /\ edits = 0 => \A k \in ItemKinds : \A e \in target[k] : \E f \in target'[k] : f.id >= e.id
    BY ApplyLeaves
  <1>4. edits' = edits /\ edits \in Nat /\ alone' \subseteq Imports /\ created \in Nat
    BY ApplyIs DEF KeepInv, TransferTypeOK
  <1>5. p \in ImportRec /\ Continue(p) \in ImportRec /\ imports'[i] = Continue(p) /\ Kind(p) = Kind(q)
    BY <1>2, ContinueIs DEF AppliedAs, KeepInv, TransferTypeOK, Kind
  <1>6. TransferTypeOK'
    BY <1>2, <1>3, <1>4, <1>5 DEF KeepInv, TransferTypeOK
  <1>7. ASSUME NEW j \in Imports, j # i
        PROVE ImportInv(imports[j])'
    <2>1. imports'[j] = imports[j]
      BY <1>2, <1>7 DEF KeepInv, TransferTypeOK
    <2>2. QED
      BY <1>3, <1>4, <2>1, StillKeeps
  <1>8. \A k \in ItemKinds : GivenOut(q.snapshot[k], created')
    <2>1. ASSUME NEW k \in ItemKinds, NEW e \in q.snapshot[k]
          PROVE e.id \in Nat /\ e.id <= created
      BY <1>1 DEF KeepInv, ImportInv, GivenOut, ImportRec, Entry
    <2>2. \A k \in ItemKinds : IsFiniteSet(q.snapshot[k])
      BY <1>1 DEF KeepInv, ImportInv, GivenOut
    <2>3. QED
      BY <1>3, <1>4, <2>1, <2>2 DEF GivenOut
  <1>9. ImportInv(imports[i])'
    <2>1. CASE p.steps = <<>>
      <3>1. Continue(p).pc \in {"plan", "done"} /\ Continue(p).steps = <<>> /\ Continue(p).snapshot = q.snapshot
        BY <1>2, <1>5, <2>1, ContinueIs DEF AppliedAs
      <3>2. QED
        BY <1>5, <1>8, <3>1, BetweenItems
    <2>2. CASE p.steps # <<>>
      <3>1. imports'[i] = p
        BY <1>5, <2>2, ContinueIs
      <3>2. Steps(q) /\ q.pc = "apply"
        BY <1>1, <1>2 DEF KeepInv, ImportInv, AppliedAs
      <3>3. /\ ~p.dryRun /\ Kind(p) # "secret" /\ p.document[Kind(p)] # NoItem
            /\ p.report[Kind(p)] \in {"create", "update"} /\ (p.report[Kind(p)] = "update" => p.overwrite)
        BY <1>2, <1>5, <3>2 DEF Steps, AppliedAs
      <3>4. Write \notin Els(p.steps)
        BY <1>2, <3>2 DEF Steps, AppliedAs
      <3>5. ASSUME NEW s \in Els(p.steps), s.op = "disable"
            PROVE /\ s.entry.id <= created' /\ p.report[Kind(p)] = "update"
                  /\ edits' = 0 => \E e \in target'[Kind(p)] : e.id > s.entry.id
        <4>1. s \in Els(q.steps)
          BY <1>2 DEF AppliedAs
        <4>2. s \in Disables
          BY <1>1, <3>5, <4>1, ElsIs, WriteIs DEF ImportRec
        <4>3. s.entry.id \in Nat
          BY <4>2, WriteIs DEF Entry
        <4>4. /\ s.entry.id <= created /\ q.report[Kind(q)] = "update"
              /\ edits = 0 /\ Write \notin Els(q.steps) => \E e \in target[Kind(q)] : e.id > s.entry.id
          BY <3>2, <3>5, <4>1 DEF Steps
        <4>5. p.report[Kind(p)] = "update" /\ s.entry.id <= created'
          BY <1>2, <1>3, <1>4, <1>5, <4>3, <4>4 DEF AppliedAs
        <4>6. Kind(q) \in ItemKinds
          BY <1>1, KindIs
        <4>7. ASSUME edits' = 0
              PROVE \E e \in target'[Kind(q)] : e.id > s.entry.id
          <5>1. CASE WritesItem(q)
            <6>1. NewEntry(q) \in target'[Kind(q)] /\ NewEntry(q).id = created + 1
              BY <4>6, <5>1 DEF WritesItem, NewEntry, KeepInv, TransferTypeOK
            <6>2. NewEntry(q).id > s.entry.id
              BY <1>4, <4>3, <4>4, <6>1
            <6>3. QED
              BY <6>1, <6>2
          <5>2. CASE \E e : Retires(q, e)
            <6>1. Write \notin Els(q.steps)
              BY <5>2 DEF Retires
            <6>2. PICK e \in target[Kind(q)] : e.id > s.entry.id
              BY <1>4, <4>4, <4>7, <6>1
            <6>3. PICK f \in target'[Kind(q)] : f.id >= e.id
              BY <1>3, <1>4, <4>6, <4>7
            <6>4. e.id \in Nat /\ f.id \in Nat
              BY <1>3, <4>6 DEF KeepInv, TransferTypeOK, Entry
            <6>5. f.id > s.entry.id
              BY <4>3, <6>2, <6>3, <6>4
            <6>6. QED
              BY <6>5
          <5>3. QED
            BY <1>1, <5>1, <5>2, ApplyIs
        <4>8. QED
          BY <1>5, <4>5, <4>7
      <3>6. p.pc = "apply" /\ Distinct(p.steps) /\ p.snapshot = q.snapshot
        BY <1>2 DEF AppliedAs
      <3>7. QED
        BY <1>8, <2>2, <3>1, <3>3, <3>4, <3>5, <3>6 DEF ImportInv, Steps, Kind, GivenOut
    <2>3. QED
      BY <2>1, <2>2
  <1>10. QED
    BY <1>3, <1>6, <1>7, <1>9 DEF KeepInv, GivenOut

LEMMA KeepInit == TransferInit => KeepInv
  <1> SUFFICES ASSUME TransferInit PROVE KeepInv
    OBVIOUS
  <1>1. [id |-> 0, content |-> Present] \in Entry
    BY DEF Entry, Contents
  <1>2. IdleImport \in ImportRec
    <2>1. <<>> \in Seq({Write} \union Disables)
      OBVIOUS
    <2>2. [k \in ItemKinds |-> {}] \in [ItemKinds -> SUBSET Entry] /\ [k \in ItemKinds |-> NoItem] \in [ItemKinds -> Reports]
      BY DEF Reports
    <2>3. QED
      BY <2>1, <2>2 DEF ImportRec, IdleImport
  <1>3. TransferTypeOK
    BY <1>1, <1>2 DEF TransferInit, TransferTypeOK
  <1>4. ASSUME NEW k \in ItemKinds
        PROVE GivenOut(target[k], created)
    <2>1. target[k] = {} \/ target[k] = {[id |-> 0, content |-> Present]}
      BY DEF TransferInit
    <2>2. IsFiniteSet({}) /\ IsFiniteSet({[id |-> 0, content |-> Present]})
      BY FS_EmptySet, FS_Singleton
    <2>3. QED
      BY <2>1, <2>2 DEF GivenOut, TransferInit
  <1>5. ASSUME NEW i \in Imports
        PROVE ImportInv(imports[i])
    <2>1. imports[i] = IdleImport
      BY DEF TransferInit
    <2>2. /\ IdleImport.steps = <<>> /\ IdleImport.pc = "idle" /\ \A k \in ItemKinds : IdleImport.snapshot[k] = {}
      BY DEF IdleImport
    <2>3. Els(IdleImport.steps) = {} /\ Distinct(IdleImport.steps)
      BY <2>2 DEF Els, Distinct
    <2>4. QED
      BY <2>1, <2>2, <2>3, FS_EmptySet DEF ImportInv, Steps, GivenOut
  <1>6. QED
    BY <1>3, <1>4, <1>5 DEF KeepInv

LEMMA KeepStutters == KeepInv /\ UNCHANGED transferVars => KeepInv'
  BY DEF KeepInv, transferVars, TransferTypeOK, GivenOut, ImportInv, Steps, Kind

\* Induction step for KeepInv: no step of an import or of the operator breaks it.
LEMMA KeepNext == KeepInv /\ [TransferNext]_transferVars => KeepInv'
  <1> SUFFICES ASSUME KeepInv, [TransferNext]_transferVars PROVE KeepInv'
    OBVIOUS
  <1>1. CASE UNCHANGED transferVars
    BY <1>1, KeepStutters
  <1>2. CASE TransferNext
    BY <1>2, OperatorKeeps, BeginKeeps, ReadKeeps, PlanKeeps, ApplyKeeps, FailKeeps, StopKeeps DEF TransferNext
  <1>3. QED
    BY <1>1, <1>2

\* No import takes away what it should leave: only an operator leaves a kind without a live entry
\* where there was one, a dry run writes nothing and an import without overwrite replaces nothing,
\* whatever failed, stopped or overlapped since the target was read
\* (configuration/transfer.ts, importConfiguration: the new record is written before the old one is disabled).
THEOREM ImportKeepsAlways == TransferSpec => ImportKeeps
  <1>1. ASSUME KeepInv, TransferNext
        PROVE NeverCutOff /\ OnlyOverwriteReplaces
    <2>1. imports \in [Imports -> ImportRec] /\ target \in [ItemKinds -> SUBSET Entry] /\ edits \in Nat
      BY <1>1 DEF KeepInv, TransferTypeOK
    <2>2. CASE OperatorDisables
      <3>1. edits' # edits /\ imports' = imports
        BY <2>1, <2>2 DEF OperatorDisables
      <3>2. QED
        BY <3>1 DEF NeverCutOff, OnlyOverwriteReplaces
    <2>3. ASSUME NEW i \in Imports, BeginImport(i) \/ ReadTarget(i) \/ PlanItem(i) \/ FailItem(i) \/ StopImport(i)
          PROVE target' = target
      BY <2>3 DEF BeginImport, ReadTarget, PlanItem, FailItem, StopImport
    <2>4. target' = target => NeverCutOff /\ OnlyOverwriteReplaces
      BY DEF NeverCutOff, OnlyOverwriteReplaces
    <2>5. ASSUME NEW i \in Imports, ApplyStep(i)
          PROVE NeverCutOff /\ OnlyOverwriteReplaces
      <3>1. NeverCutOff
        BY <1>1, <2>5, ApplyLeaves DEF NeverCutOff
      <3>2. PICK q : q = imports[i] /\ q \in ImportRec
        BY <2>1
      <3>3. Steps(q) /\ q.pc = "apply" /\ q.steps # <<>>
        BY <1>1, <2>5, <3>2 DEF KeepInv, ImportInv, Steps, ApplyStep
      <3>4. Kind(q) \in ItemKinds
        BY <3>2, KindIs
      <3>5. ~q.dryRun /\ q.report[Kind(q)] \in {"create", "update"} /\ (q.report[Kind(q)] = "update" => q.overwrite)
        BY <3>3 DEF Steps
      <3>6. ASSUME ~q.overwrite, NEW k \in ItemKinds
            PROVE target[k] \subseteq target'[k]
        <4>1. q.report[Kind(q)] = "create"
          BY <3>5, <3>6
        <4>2. ASSUME NEW e, Retires(q, e)
              PROVE FALSE
          <5>1. Disable(e) \in Els(q.steps) /\ Disable(e).op = "disable"
            BY <4>2, WriteIs DEF Retires
          <5>2. QED
            BY <3>3, <4>1, <5>1 DEF Steps
        <4>3. WritesItem(q) /\ Accepted(i)
          BY <1>1, <2>5, <3>2, <4>2, ApplyIs
        <4>4. Kind(q) = "variable" => target["variable"] = {}
          BY <3>2, <4>1, <4>3 DEF Accepted, Item, Kind
        <4>5. target' = [target EXCEPT ![Kind(q)] = (IF Kind(q) = "variable" THEN {} ELSE target[Kind(q)]) \union {NewEntry(q)}]
          BY <4>3 DEF WritesItem
        <4>6. QED
          BY <2>1, <3>4, <4>4, <4>5
      <3>7. ASSUME NEW j \in Imports, imports'[j] # imports[j]
            PROVE j = i
        BY <1>1, <2>1, <2>5, <3>7, ApplyIs
      <3>8. OnlyOverwriteReplaces
        BY <3>2, <3>5, <3>6, <3>7 DEF OnlyOverwriteReplaces
      <3>9. QED
        BY <3>1, <3>8
    <2>6. QED
      BY <1>1, <2>2, <2>3, <2>4, <2>5 DEF TransferNext
  <1>2. KeepInv /\ [TransferNext]_transferVars => [NeverCutOff /\ OnlyOverwriteReplaces]_transferVars
    BY <1>1
  <1>3. QED
    BY <1>2, KeepInit, KeepNext, PTL DEF TransferSpec, ImportKeeps

-----------------------------------------------------------------------------
(* An import that met no other writer: every step preserves Alone *)

LEMMA AloneStays ==
  ASSUME NEW j \in Imports, imports'[j] = imports[j], target' = target, Alone(imports[j])
  PROVE Alone(imports[j])'
  BY DEF Alone, WasRead, ReadBy, Past, Kind, Underway, Single, Pending, NothingToDo, AlreadyThere

\* The items behind an import grow by the one it leaves.
LEMMA PastGrows ==
  ASSUME NEW q \in ImportRec, q.pc \in {"plan", "apply"}, NEW r \in ImportRec,
         q.at = 4 => r.pc = "done", q.at # 4 => r.pc = "plan" /\ r.at = q.at + 1
  PROVE /\ Past(r) = Past(q) \union {Kind(q)} /\ Kind(q) \notin Past(q) /\ Past(q) \subseteq ItemKinds
        /\ ReadBy(q) = ItemKinds /\ ReadBy(r) = ItemKinds
  <1>1. q.at \in {1, 2, 3, 4}
    BY DEF ImportRec
  <1>2. Past(q) = {ItemOrder[n] : n \in 1..(q.at - 1)} /\ Kind(q) = ItemOrder[q.at]
    BY DEF Past, Kind
  <1>3. ReadBy(q) = ItemKinds /\ ReadBy(r) = ItemKinds
    BY <1>1 DEF ReadBy
  <1>4. CASE q.at = 1
    <2>1. Past(q) = {} /\ Kind(q) = "variable"
      BY <1>2, <1>4, Orders
    <2>2. Past(r) = {ItemOrder[n] : n \in 1..1}
      BY <1>4 DEF Past
    <2>3. QED
      BY <1>3, <2>1, <2>2, Orders
  <1>5. CASE q.at = 2
    <2>1. Past(q) = {ItemOrder[n] : n \in {1}} /\ Kind(q) = "secret"
      BY <1>2, <1>5, Orders
    <2>2. Past(r) = {ItemOrder[n] : n \in {1, 2}}
      BY <1>5 DEF Past
    <2>3. QED
      BY <1>3, <2>1, <2>2, Orders
  <1>6. CASE q.at = 3
    <2>1. Past(q) = {ItemOrder[n] : n \in {1, 2}} /\ Kind(q) = "endpoint"
      BY <1>2, <1>6, Orders
    <2>2. Past(r) = {ItemOrder[n] : n \in {1, 2, 3}}
      BY <1>6 DEF Past
    <2>3. QED
      BY <1>3, <2>1, <2>2, Orders
  <1>7. CASE q.at = 4
    <2>1. Past(q) = {ItemOrder[n] : n \in {1, 2, 3}} /\ Kind(q) = "schedule"
      BY <1>2, <1>7, Orders
    <2>2. Past(r) = ItemKinds
      BY <1>7 DEF Past
    <2>3. QED
      BY <1>3, <2>1, <2>2, Orders
  <1>8. QED
    BY <1>1, <1>4, <1>5, <1>6, <1>7

\* The import leaves an item: the others are as they were, and the item needs nothing more.
LEMMA LeavesItem ==
  ASSUME NEW i \in Imports, NEW q \in ImportRec, q = imports[i], Alone(q), q.pc \in {"plan", "apply"},
         NEW r \in ImportRec, r = imports'[i],
         q.at = 4 => r.pc = "done", q.at # 4 => r.pc = "plan" /\ r.at = q.at + 1,
         r.dryRun = q.dryRun, r.overwrite = q.overwrite, r.document = q.document, r.snapshot = q.snapshot,
         \A k \in ItemKinds : k # Kind(q) => r.report[k] = q.report[k] /\ target'[k] = target[k],
         Kind(q) = "secret" => target'["secret"] = target["secret"],
         (~q.dryRun /\ Single(q) /\ r.report[Kind(q)] # "failed") => NothingToDo(imports[i], Kind(q))'
  PROVE Alone(imports[i])'
  <1>1. /\ Past(r) = Past(q) \union {Kind(q)} /\ Kind(q) \notin Past(q) /\ Past(q) \subseteq ItemKinds
        /\ ReadBy(q) = ItemKinds /\ ReadBy(r) = ItemKinds /\ "secret" \in ItemKinds /\ Kind(q) \in ItemKinds
    BY PastGrows, Orders, KindIs
  <1>2. r.pc # "idle" /\ r.pc # "apply"
    BY DEF ImportRec
  <1>3. target'["secret"] = target["secret"]
    BY <1>1
  <1>4. ASSUME NEW k \in ItemKinds, WasRead(r, k), k \notin Past(r)
        PROVE target'[k] = r.snapshot[k]
    BY <1>1, <1>4 DEF Alone, WasRead
  <1>5. WasRead(r, "secret") => target'["secret"] = r.snapshot["secret"]
    BY <1>1, <1>3 DEF Alone, WasRead
  <1>6. ASSUME ~r.dryRun, Single(r), NEW k \in Past(r), r.report[k] # "failed"
        PROVE NothingToDo(imports[i], k)'
    <2>1. Single(q) /\ ~q.dryRun
      BY <1>6 DEF Single
    <2>2. CASE k = Kind(q)
      BY <1>6, <2>1, <2>2
    <2>3. CASE k # Kind(q)
      <3>1. k \in Past(q) /\ k \in ItemKinds /\ target'[k] = target[k] /\ q.report[k] # "failed"
        BY <1>1, <1>6, <2>3
      <3>2. NothingToDo(q, k)
        BY <2>1, <3>1 DEF Alone
      <3>3. QED
        BY <1>3, <3>1, <3>2 DEF NothingToDo
    <2>4. QED
      BY <2>2, <2>3
  <1>7. QED
    BY <1>2, <1>4, <1>5, <1>6 DEF Alone, WasRead, ReadBy, Past, Kind, Single

LEMMA BeginAlone ==
  ASSUME TransferInv, NEW i \in Imports, BeginImport(i)
  PROVE \A j \in alone' : Alone(imports[j])'
  <1>1. PICK d \in Documents, dry \in BOOLEAN, over \in BOOLEAN :
          imports' = [imports EXCEPT ![i] = [IdleImport EXCEPT !.pc = "read", !.document = d,
                                               !.dryRun = dry, !.overwrite = over]]
    BY DEF BeginImport
  <1>2. PICK r : r = imports'[i]
    OBVIOUS
  <1>3. r.pc = "read" /\ r.at = 1 /\ imports \in [Imports -> ImportRec] /\ alone \subseteq Imports
    BY <1>1, <1>2 DEF IdleImport, TransferInv, KeepInv, TransferTypeOK
  <1>4. ReadBy(r) = {} /\ Past(r) = {}
    BY <1>3 DEF ReadBy, Past
  <1>5. Alone(imports[i])'
    BY <1>2, <1>3, <1>4 DEF Alone, WasRead, ReadBy, Past
  <1>6. ASSUME NEW j \in alone, j # i
        PROVE Alone(imports[j])'
    <2>1. imports'[j] = imports[j] /\ target' = target /\ Alone(imports[j])
      BY <1>1, <1>3, <1>6 DEF BeginImport, TransferInv
    <2>2. QED
      BY <1>3, <2>1, AloneStays
  <1>7. alone' \subseteq alone \union {i}
    BY DEF BeginImport
  <1>8. QED
    BY <1>5, <1>6, <1>7

\* A read adds its part of the target to what was read.
LEMMA ReadByGrows ==
  ASSUME NEW q, NEW r, q.pc = "read", q.at \in 1..3, r.at = (IF q.at = 3 THEN 1 ELSE q.at + 1),
         r.pc = (IF q.at = 3 THEN "plan" ELSE "read")
  PROVE ReadBy(r) \subseteq ReadBy(q) \union ReadOrder[q.at]
  <1>1. q.at \in {1, 2, 3}
    OBVIOUS
  <1>2. CASE q.at = 1
    <2>1. ReadBy(r) = UNION {ReadOrder[n] : n \in {1}}
      BY <1>2 DEF ReadBy
    <2>2. QED
      BY <1>2, <2>1
  <1>3. CASE q.at = 2
    <2>1. ReadBy(r) = UNION {ReadOrder[n] : n \in {1, 2}} /\ ReadBy(q) = UNION {ReadOrder[n] : n \in {1}}
      BY <1>3 DEF ReadBy
    <2>2. QED
      BY <1>3, <2>1
  <1>4. CASE q.at = 3
    <2>1. ReadBy(r) = ItemKinds /\ ReadBy(q) = UNION {ReadOrder[n] : n \in {1, 2}}
      BY <1>4 DEF ReadBy
    <2>2. ItemKinds = ReadOrder[1] \union ReadOrder[2] \union ReadOrder[3]
      BY Orders
    <2>3. QED
      BY <1>4, <2>1, <2>2
  <1>5. QED
    BY <1>1, <1>2, <1>3, <1>4

LEMMA ReadAlone ==
  ASSUME TransferInv, NEW i \in Imports, ReadTarget(i)
  PROVE \A j \in alone' : Alone(imports[j])'
  <1>1. KeepInv /\ imports \in [Imports -> ImportRec] /\ alone \subseteq Imports
    BY DEF TransferInv, KeepInv, TransferTypeOK
  <1>2. PICK q : q = imports[i] /\ q \in ImportRec
    BY <1>1
  <1>3. PICK r : r = ReadsOn(q)
    OBVIOUS
  <1>4. q.pc = "read" /\ q.at \in 1..3 /\ imports' = [imports EXCEPT ![i] = r] /\ UNCHANGED <<target, created, edits, alone>>
    BY <1>1, <1>2, <1>3, ReadIs
  <1>5. imports'[i] = r /\ \A j \in Imports : j # i => imports'[j] = imports[j]
    BY <1>1, <1>4
  <1>6. /\ r \in ImportRec /\ r.snapshot = SnapshotNow(q) /\ r.document = q.document
        /\ r.at = (IF q.at = 3 THEN 1 ELSE q.at + 1) /\ r.pc = (IF q.at = 3 THEN "plan" ELSE "read")
    <2>1. \A k \in ItemKinds : GivenOut(q.snapshot[k], created)
      BY <1>1, <1>2 DEF KeepInv, ImportInv
    <2>2. QED
      BY <1>1, <1>2, <1>3, <1>4, <2>1, ReadsOnIs
  <1>7. r.pc \in {"read", "plan"} /\ Past(r) = {}
    BY <1>4, <1>6 DEF Past
  <1>8. ReadBy(r) \subseteq ReadBy(q) \union ReadOrder[q.at]
    BY <1>4, <1>6, ReadByGrows
  <1>9. ASSUME Alone(q)
        PROVE Alone(imports[i])'
    <2>1. ASSUME NEW k \in ItemKinds, WasRead(r, k)
          PROVE target[k] = r.snapshot[k]
      <3>1. CASE k \in ReadNow(q)
        BY <1>6, <3>1 DEF SnapshotNow
      <3>2. CASE k \notin ReadNow(q)
        <4>1. k \notin ReadOrder[q.at]
          BY <1>6, <2>1, <3>2 DEF ReadNow, WasRead
        <4>2. WasRead(q, k) /\ k \notin Past(q)
          BY <1>4, <1>6, <1>8, <2>1, <4>1 DEF WasRead, Past
        <4>3. target[k] = q.snapshot[k]
          BY <1>4, <1>9, <4>2 DEF Alone
        <4>4. QED
          BY <1>6, <3>2, <4>3 DEF SnapshotNow
      <3>3. QED
        BY <3>1, <3>2
    <2>2. "secret" \in ItemKinds
      BY Orders
    <2>3. r.pc # "idle" /\ r.pc # "apply"
      BY <1>7
    <2>4. QED
      BY <1>4, <1>5, <1>7, <2>1, <2>2, <2>3 DEF Alone, WasRead, ReadBy, Past
  <1>10. ASSUME NEW j \in alone, j # i
         PROVE Alone(imports[j])'
    <2>1. Alone(imports[j])
      BY DEF TransferInv
    <2>2. QED
      BY <1>1, <1>4, <1>5, <1>10, <2>1, AloneStays
  <1>11. QED
    BY <1>2, <1>4, <1>9, <1>10 DEF TransferInv

LEMMA FailAlone ==
  ASSUME TransferInv, NEW i \in Imports, FailItem(i)
  PROVE \A j \in alone' : Alone(imports[j])'
  <1>1. KeepInv /\ imports \in [Imports -> ImportRec] /\ alone \subseteq Imports
    BY DEF TransferInv, KeepInv, TransferTypeOK
  <1>2. PICK q : q = imports[i] /\ q \in ImportRec
    BY <1>1
  <1>3. PICK p : p = [q EXCEPT !.report = [q.report EXCEPT ![Kind(q)] = "failed"], !.steps = <<>>]
    OBVIOUS
  <1>4. imports' = [imports EXCEPT ![i] = Continue(p)] /\ UNCHANGED <<target, created, edits, alone>> /\ q.pc = "apply"
    <2>1. p = [q EXCEPT !.report[Kind(q)] = "failed", !.steps = <<>>]
      BY <1>2, <1>3 DEF ImportRec
    <2>2. QED
      BY <1>2, <2>1 DEF FailItem, Item, Kind
  <1>5. Kind(q) \in ItemKinds
    BY <1>2, KindIs
  <1>6. p \in ImportRec
    <2>1. [q.report EXCEPT ![Kind(q)] = "failed"] \in [ItemKinds -> Reports] /\ <<>> \in Seq({Write} \union Disables)
      BY <1>2, <1>5 DEF ImportRec, Reports
    <2>2. QED
      BY <1>2, <1>3, <2>1 DEF ImportRec
  <1>7. /\ p.steps = <<>> /\ p.at = q.at /\ p.dryRun = q.dryRun /\ p.overwrite = q.overwrite /\ p.document = q.document
        /\ p.snapshot = q.snapshot /\ p.report = [q.report EXCEPT ![Kind(q)] = "failed"]
    BY <1>2, <1>3 DEF ImportRec
  <1>8. PICK r : r = Continue(p)
    OBVIOUS
  <1>9. /\ r \in ImportRec /\ (q.at = 4 => r.pc = "done") /\ (q.at # 4 => r.pc = "plan" /\ r.at = q.at + 1)
        /\ r.dryRun = q.dryRun /\ r.overwrite = q.overwrite /\ r.document = q.document /\ r.snapshot = q.snapshot
        /\ r.report = p.report
    BY <1>6, <1>7, <1>8, ContinueIs
  <1>10. \A k \in ItemKinds : k # Kind(q) => r.report[k] = q.report[k]
    BY <1>2, <1>7, <1>9 DEF ImportRec
  <1>11. r.report[Kind(q)] = "failed"
    BY <1>2, <1>5, <1>7, <1>9 DEF ImportRec
  <1>12. imports'[i] = r /\ \A j \in Imports : j # i => imports'[j] = imports[j]
    BY <1>1, <1>4, <1>8
  <1>13. ASSUME Alone(q)
         PROVE Alone(imports[i])'
    BY <1>2, <1>4, <1>9, <1>10, <1>11, <1>12, <1>13, LeavesItem
  <1>14. ASSUME NEW j \in alone, j # i
         PROVE Alone(imports[j])'
    <2>1. Alone(imports[j])
      BY DEF TransferInv
    <2>2. QED
      BY <1>1, <1>4, <1>12, <1>14, <2>1, AloneStays
  <1>15. QED
    BY <1>2, <1>4, <1>13, <1>14 DEF TransferInv

LEMMA PlanAlone ==
  ASSUME TransferInv, NEW i \in Imports, PlanItem(i)
  PROVE \A j \in alone' : Alone(imports[j])'
  <1>1. KeepInv /\ imports \in [Imports -> ImportRec] /\ alone \subseteq Imports
    BY DEF TransferInv, KeepInv, TransferTypeOK
  <1>2. PICK q : q = imports[i] /\ q \in ImportRec
    BY <1>1
  <1>3. PICK p, found, action : PlannedAs(q, p, found, action) /\ imports' = [imports EXCEPT ![i] = Continue(p)]
    BY <1>1, <1>2, PlanIs
  <1>4. UNCHANGED <<target, created, edits, alone>> /\ q.pc = "plan"
    BY <1>1, <1>2, PlanIs
  <1>5. Kind(q) \in ItemKinds /\ q.overwrite \in BOOLEAN /\ p \in ImportRec /\ Kind(p) = Kind(q)
    BY <1>2, <1>3, KindIs DEF ImportRec, PlannedAs, Kind
  <1>6. imports'[i] = Continue(p) /\ \A j \in Imports : j # i => imports'[j] = imports[j]
    BY <1>1, <1>3
  <1>7. /\ p.at = q.at /\ p.pc = "apply" /\ p.dryRun = q.dryRun /\ p.overwrite = q.overwrite
        /\ p.document = q.document /\ p.snapshot = q.snapshot
        /\ p.steps = IF Writing(q, action) THEN ItemSteps(Kind(q), action, found) ELSE <<>>
    BY <1>3 DEF PlannedAs
  <1>8. /\ \A k \in ItemKinds : k # Kind(q) => p.report[k] = q.report[k]
        /\ p.report[Kind(q)] = action
    BY <1>2, <1>3, <1>5 DEF PlannedAs, ImportRec
  <1>9. /\ found \subseteq q.snapshot[Kind(q)] /\ (Kind(q) # "endpoint" => found = q.snapshot[Kind(q)])
        /\ (found = {} => q.snapshot[Kind(q)] = {}) /\ (Kind(q) = "endpoint" /\ Single(q) => found = q.snapshot[Kind(q)])
    BY <1>3, CandidatesAre DEF PlannedAs, Single
  <1>10. /\ action \in {"create", "update"} =>
              q.document[Kind(q)] # NoItem /\ Kind(q) # "secret" /\ (action = "create" => found = {})
         /\ action \notin {"create", "update"} =>
              \/ q.document[Kind(q)] = NoItem \/ OtherKind(Kind(q), q.snapshot) \/ Kind(q) = "secret"
              \/ found # {} /\ (AlreadyThere(found, q.document[Kind(q)]) \/ ~q.overwrite)
    BY <1>3, <1>5, PlannedIs DEF PlannedAs
  <1>11. ASSUME Alone(q)
         PROVE Alone(imports[i])'
    <2>1. ReadBy(q) = ItemKinds /\ Kind(q) \notin Past(q)
      <3>1. PICK r : r = [q EXCEPT !.pc = IF q.at = 4 THEN "done" ELSE "plan", !.at = IF q.at = 4 THEN 4 ELSE q.at + 1]
        OBVIOUS
      <3>2. r \in ImportRec /\ (q.at = 4 => r.pc = "done") /\ (q.at # 4 => r.pc = "plan" /\ r.at = q.at + 1)
        <4>1. (IF q.at = 4 THEN 4 ELSE q.at + 1) \in 1..4 /\ (IF q.at = 4 THEN "done" ELSE "plan") \in {"done", "plan"}
          BY <1>2 DEF ImportRec
        <4>2. QED
          BY <1>2, <3>1, <4>1 DEF ImportRec
      <3>3. QED
        BY <1>2, <1>4, <3>2, PastGrows
    <2>2. q.document[Kind(q)] # NoItem => target[Kind(q)] = q.snapshot[Kind(q)]
      BY <1>4, <1>5, <1>11, <2>1 DEF Alone, WasRead
    <2>3. target["secret"] = q.snapshot["secret"]
      BY <1>11, <2>1, Orders DEF Alone, WasRead
    <2>4. CASE p.steps = <<>>
      <3>1. PICK r : r = Continue(p)
        OBVIOUS
      <3>2. /\ r \in ImportRec /\ (q.at = 4 => r.pc = "done") /\ (q.at # 4 => r.pc = "plan" /\ r.at = q.at + 1)
            /\ r.dryRun = q.dryRun /\ r.overwrite = q.overwrite /\ r.document = q.document /\ r.snapshot = q.snapshot
            /\ r.report = p.report
        BY <1>5, <1>7, <2>4, <3>1, ContinueIs
      <3>3. ASSUME ~q.dryRun, Single(q)
            PROVE NothingToDo(imports[i], Kind(q))'
        <4>1. action \notin {"create", "update"}
          <5>1. ItemSteps(Kind(q), action, found) # <<>>
            BY <1>3, ItemStepsAre DEF PlannedAs
          <5>2. QED
            BY <1>7, <2>4, <3>3, <5>1 DEF Writing
        <4>2. CASE q.document[Kind(q)] = NoItem \/ Kind(q) = "secret"
          BY <1>6, <3>1, <3>2, <4>2 DEF NothingToDo
        <4>3. CASE Kind(q) = "variable" /\ q.snapshot["secret"] # {}
          BY <1>4, <1>6, <2>3, <3>1, <3>2, <4>3 DEF NothingToDo
        <4>4. CASE /\ q.document[Kind(q)] # NoItem /\ Kind(q) # "secret" /\ found # {}
                   /\ AlreadyThere(found, q.document[Kind(q)]) \/ ~q.overwrite
          <5>1. target[Kind(q)] = q.snapshot[Kind(q)] /\ target[Kind(q)] # {} /\ found = target[Kind(q)]
            BY <1>9, <2>2, <3>3, <4>4
          <5>2. ASSUME q.overwrite
                PROVE \/ Kind(q) # "endpoint" /\ AlreadyThere(target[Kind(q)], q.document[Kind(q)])
                      \/ \A e \in target[Kind(q)] : e.content = q.document[Kind(q)]
            BY <3>3, <4>4, <5>1, <5>2 DEF AlreadyThere, Single
          <5>3. QED
            BY <1>4, <1>6, <3>1, <3>2, <5>1, <5>2 DEF NothingToDo, AlreadyThere
        <4>5. QED
          BY <1>10, <4>1, <4>2, <4>3, <4>4 DEF OtherKind
      <3>4. QED
        BY <1>2, <1>4, <1>6, <1>8, <1>11, <3>1, <3>2, <3>3, LeavesItem
    <2>5. CASE p.steps # <<>>
      <3>1. imports'[i] = p
        BY <1>5, <1>6, <2>5, ContinueIs
      <3>2. action \in {"create", "update"} /\ p.steps = ItemSteps(Kind(q), action, found)
        BY <1>7, <2>5 DEF Writing
      <3>3. Els(p.steps) = {Write} \union (IF action = "update" /\ Kind(q) # "variable" THEN {Disable(e) : e \in found} ELSE {})
        BY <1>3, <3>2, ItemStepsAre DEF PlannedAs
      <3>4. target[Kind(q)] = q.snapshot[Kind(q)]
        BY <1>10, <2>2, <3>2
      <3>5. ASSUME Kind(q) # "variable", Single(q)
            PROVE {e \in target[Kind(q)] : Disable(e) \in Els(p.steps)} = target[Kind(q)]
        <4>1. found = target[Kind(q)]
          BY <1>9, <3>4, <3>5
        <4>2. CASE action = "create"
          BY <1>10, <4>1, <4>2
        <4>3. CASE action = "update"
          BY <3>3, <3>5, <4>1, <4>3
        <4>4. QED
          BY <3>2, <4>2, <4>3
      <3>6. Past(p) = Past(q) /\ ReadBy(p) = ReadBy(q)
        BY <1>4, <1>7 DEF Past, ReadBy
      <3>7. Underway(imports[i])'
        BY <1>4, <1>5, <1>7, <3>1, <3>3, <3>4, <3>5 DEF Underway, Pending, Single, Kind
      <3>8. ASSUME NEW k \in ItemKinds, WasRead(p, k), k \notin Past(p), k # Kind(p)
            PROVE target[k] = p.snapshot[k]
        BY <1>4, <1>7, <1>11, <3>6, <3>8 DEF Alone, WasRead
      <3>9. ASSUME ~p.dryRun, Single(p), NEW k \in Past(p), p.report[k] # "failed"
            PROVE NothingToDo(imports[i], k)'
        <4>1. k \in Past(q) /\ Past(q) \subseteq ItemKinds /\ k # Kind(q) /\ Single(q)
          <5>1. Past(q) \subseteq ItemKinds
            BY <1>2, <1>4, Orders DEF Past, ImportRec
          <5>2. QED
            BY <1>7, <2>1, <3>6, <3>9, <5>1 DEF Single
        <4>2. NothingToDo(q, k)
          BY <1>7, <1>8, <1>11, <3>9, <4>1 DEF Alone
        <4>3. QED
          BY <1>4, <1>7, <3>1, <4>2 DEF NothingToDo, AlreadyThere
      <3>10. QED
        BY <1>4, <1>7, <2>3, <3>1, <3>7, <3>8, <3>9 DEF Alone, WasRead, ReadBy, Past, Kind, Single
    <2>6. QED
      BY <2>4, <2>5
  <1>12. ASSUME NEW j \in alone, j # i
         PROVE Alone(imports[j])'
    <2>1. Alone(imports[j])
      BY DEF TransferInv
    <2>2. QED
      BY <1>1, <1>4, <1>6, <1>12, <2>1, AloneStays
  <1>13. QED
    BY <1>2, <1>4, <1>11, <1>12 DEF TransferInv

LEMMA ApplyAlone ==
  ASSUME TransferInv, NEW i \in Imports, ApplyStep(i)
  PROVE \A j \in alone' : Alone(imports[j])'
  <1>1. /\ KeepInv /\ imports \in [Imports -> ImportRec] /\ alone \subseteq Imports
        /\ target \in [ItemKinds -> SUBSET Entry] /\ created \in Nat
    BY DEF TransferInv, KeepInv, TransferTypeOK
  <1>2. SUFFICES ASSUME i \in alone
                 PROVE Alone(imports[i])'
    BY <1>1, ApplyIs
  <1>3. PICK q : q = imports[i] /\ q \in ImportRec
    BY <1>1
  <1>4. PICK p : AppliedAs(q, p) /\ imports' = [imports EXCEPT ![i] = Continue(p)]
    BY <1>1, <1>3, ApplyIs
  <1>5. Steps(q) /\ Alone(q) /\ q.pc = "apply" /\ Underway(q)
    BY <1>2, <1>3, <1>4 DEF TransferInv, KeepInv, ImportInv, AppliedAs, Alone
  <1>6. Kind(q) \in ItemKinds /\ Kind(q) # "secret" /\ Kind(p) = Kind(q)
    BY <1>3, <1>4, <1>5, KindIs DEF Steps, AppliedAs, Kind
  <1>7. imports'[i] = Continue(p) /\ p \in ImportRec
    BY <1>1, <1>4 DEF AppliedAs
  <1>8. \A k \in ItemKinds : k # Kind(q) => target'[k] = target[k]
    BY <1>1, <1>3, <1>6, ApplyIs DEF WritesItem, Retires
  <1>9. \A e \in target[Kind(q)] : e \in Entry /\ e.id \in Nat /\ e.id <= created
    BY <1>1, <1>6 DEF KeepInv, GivenOut, Entry
  \* The entry with the requested content, and what is still to be disabled.
  <1>10. ASSUME Single(q)
         PROVE \E e \in target'[Kind(q)] : /\ e.content = q.document[Kind(q)]
                                           /\ target'[Kind(q)] \ {f \in target'[Kind(q)] : Disable(f) \in Els(p.steps)} = {e}
    <2>1. CASE WritesItem(q)
      <3>1. target'[Kind(q)] = (IF Kind(q) = "variable" THEN {} ELSE target[Kind(q)]) \union {NewEntry(q)}
        BY <1>1, <1>6, <2>1 DEF WritesItem
      <3>2. NewEntry(q).id = created + 1 /\ NewEntry(q).content = q.document[Kind(q)]
        BY DEF NewEntry
      <3>3. Head(q.steps) = Write /\ Els(p.steps) = Els(q.steps) \ {Write} /\ Write \in Els(q.steps)
        <4>1. q.steps # <<>> /\ q.steps \in Seq({Write} \union Disables) /\ Head(q.steps) = Write
          BY <1>3, <1>4, <2>1 DEF AppliedAs, WritesItem, ImportRec
        <4>2. QED
          BY <1>4, <4>1, ElsIs DEF AppliedAs
      <3>4. NewEntry(q) \in Entry
        <4>1. q.document[Kind(q)] \in Contents \union {NoItem}
          BY <1>3, <1>6 DEF ImportRec, Contents
        <4>2. QED
          BY <1>1, <4>1 DEF NewEntry, Entry
      <3>5. Disable(NewEntry(q)) \notin Els(p.steps)
        <4>1. Disable(NewEntry(q)).op = "disable" /\ Disable(NewEntry(q)).entry = NewEntry(q)
          BY <3>4, WriteIs
        <4>2. Disable(NewEntry(q)) \in Els(q.steps) => NewEntry(q).id <= created
          BY <1>5, <4>1 DEF Steps
        <4>3. QED
          BY <1>1, <3>2, <3>3, <4>2
      <3>6. Kind(q) # "variable" => \A f \in target[Kind(q)] : Disable(f) \in Els(p.steps)
        <4>1. Kind(q) # "variable" => \A f \in target[Kind(q)] : Disable(f) \in Els(q.steps)
          BY <1>5, <1>10, <3>3 DEF Underway, Pending
        <4>2. \A f \in target[Kind(q)] : Disable(f) # Write
          BY <1>9, WriteIs
        <4>3. QED
          BY <3>3, <4>1, <4>2
      <3>7. target'[Kind(q)] \ {f \in target'[Kind(q)] : Disable(f) \in Els(p.steps)} = {NewEntry(q)}
        BY <3>1, <3>5, <3>6
      <3>8. QED
        BY <3>1, <3>2, <3>7
    <2>2. ASSUME NEW e, Retires(q, e)
          PROVE \E g \in target'[Kind(q)] : /\ g.content = q.document[Kind(q)]
                                            /\ target'[Kind(q)] \ {f \in target'[Kind(q)] : Disable(f) \in Els(p.steps)} = {g}
      <3>1. /\ Disable(e) \in Els(q.steps) /\ Write \notin Els(q.steps) /\ e \in Entry
            /\ target'[Kind(q)] = target[Kind(q)] \ {e} /\ Els(p.steps) = Els(q.steps) \ {Disable(e)}
        BY <1>1, <1>4, <1>6, <2>2 DEF Retires, AppliedAs
      <3>2. PICK g \in target[Kind(q)] : g.content = q.document[Kind(q)] /\ target[Kind(q)] \ Pending(q) = {g}
        BY <1>5, <1>10, <3>1 DEF Underway
      <3>3. \A f \in target[Kind(q)] : Disable(f) = Disable(e) => f = e
        BY <1>9, <3>1, WriteIs
      <3>4. \A f \in target[Kind(q)] : f = g <=> Disable(f) \notin Els(q.steps)
        BY <3>2 DEF Pending
      <3>5. g # e /\ g \in target'[Kind(q)]
        BY <3>1, <3>2, <3>4
      <3>6. \A f \in target'[Kind(q)] : f = g <=> Disable(f) \notin Els(p.steps)
        BY <3>1, <3>3, <3>4
      <3>7. QED
        BY <3>2, <3>5, <3>6
    <2>3. QED
      BY <1>1, <1>3, <2>1, <2>2, ApplyIs
  <1>11. CASE p.steps = <<>>
    <2>1. PICK r : r = Continue(p)
      OBVIOUS
    <2>2. /\ r \in ImportRec /\ (q.at = 4 => r.pc = "done") /\ (q.at # 4 => r.pc = "plan" /\ r.at = q.at + 1)
          /\ r.dryRun = q.dryRun /\ r.overwrite = q.overwrite /\ r.document = q.document /\ r.snapshot = q.snapshot
          /\ r.report = q.report
      BY <1>4, <1>7, <1>11, <2>1, ContinueIs DEF AppliedAs
    <2>3. ASSUME Single(q)
          PROVE NothingToDo(imports[i], Kind(q))'
      <3>1. Els(p.steps) = {}
        BY <1>4, <1>11 DEF AppliedAs
      <3>2. PICK e \in target'[Kind(q)] : e.content = q.document[Kind(q)] /\ target'[Kind(q)] = {e}
        BY <1>10, <2>3, <3>1
      <3>3. QED
        BY <1>7, <2>1, <2>2, <3>2 DEF NothingToDo
    <2>4. QED
      BY <1>3, <1>5, <1>6, <1>7, <1>8, <2>1, <2>2, <2>3, LeavesItem
  <1>12. CASE p.steps # <<>>
    <2>1. imports'[i] = p
      BY <1>7, <1>12, ContinueIs
    <2>2. /\ p.pc = "apply" /\ p.at = q.at /\ p.dryRun = q.dryRun /\ p.overwrite = q.overwrite
          /\ p.document = q.document /\ p.snapshot = q.snapshot /\ p.report = q.report
      BY <1>4 DEF AppliedAs
    <2>3. Write \notin Els(p.steps)
      BY <1>4, <1>5 DEF AppliedAs, Steps
    <2>4. Underway(imports[i])'
      BY <1>6, <1>10, <2>1, <2>2, <2>3 DEF Underway, Pending, Single, Kind
    <2>5. Past(p) = Past(q) /\ ReadBy(p) = ReadBy(q) /\ Past(q) \subseteq ItemKinds /\ Kind(q) \notin Past(q)
      <3>1. q.at \in {1, 2, 3, 4}
        BY <1>3 DEF ImportRec
      <3>2. Past(q) = {ItemOrder[n] : n \in 1..(q.at - 1)}
        BY <1>5 DEF Past
      <3>3. Past(q) \subseteq ItemKinds
        BY <3>1, <3>2, Orders
      <3>4. Kind(q) \notin Past(q)
        BY <3>1, <3>2, Orders DEF Kind
      <3>5. QED
        BY <1>5, <2>2, <3>3, <3>4 DEF Past, ReadBy
    <2>6. ASSUME NEW k \in ItemKinds, WasRead(p, k), k \notin Past(p), k # Kind(p)
          PROVE target'[k] = p.snapshot[k]
      BY <1>5, <1>6, <1>8, <2>2, <2>5, <2>6 DEF Alone, WasRead
    <2>7. target'["secret"] = target["secret"]
      BY <1>6, <1>8, Orders
    <2>8. WasRead(p, "secret") => target'["secret"] = p.snapshot["secret"]
      BY <1>5, <2>2, <2>5, <2>7 DEF Alone, WasRead
    <2>9. ASSUME ~p.dryRun, Single(p), NEW k \in Past(p), p.report[k] # "failed"
          PROVE NothingToDo(imports[i], k)'
      <3>1. k \in Past(q) /\ k # Kind(q) /\ target'[k] = target[k] /\ Single(q)
        BY <1>8, <2>2, <2>5, <2>9 DEF Single
      <3>2. NothingToDo(q, k)
        BY <1>5, <2>2, <2>9, <3>1 DEF Alone
      <3>3. QED
        BY <2>1, <2>2, <2>7, <3>1, <3>2 DEF NothingToDo, AlreadyThere
    <2>10. QED
      BY <2>1, <2>2, <2>4, <2>6, <2>8, <2>9 DEF Alone, WasRead, ReadBy, Past, Kind, Single
  <1>13. QED
    BY <1>11, <1>12

LEMMA StopAlone ==
  ASSUME TransferInv, NEW i \in Imports, StopImport(i)
  PROVE \A j \in alone' : Alone(imports[j])'
  <1>1. KeepInv /\ imports \in [Imports -> ImportRec] /\ alone \subseteq Imports
    BY DEF TransferInv, KeepInv, TransferTypeOK
  <1>2. alone' = alone \ {i} /\ target' = target /\ \A j \in Imports : j # i => imports'[j] = imports[j]
    BY <1>1, StopIs
  <1>3. ASSUME NEW j \in alone, j # i
        PROVE Alone(imports[j])'
    <2>1. Alone(imports[j])
      BY DEF TransferInv
    <2>2. QED
      BY <1>1, <1>2, <1>3, <2>1, AloneStays
  <1>4. QED
    BY <1>2, <1>3

LEMMA TransferInvNext == TransferInv /\ [TransferNext]_transferVars => TransferInv'
  <1> SUFFICES ASSUME TransferInv, [TransferNext]_transferVars PROVE TransferInv'
    OBVIOUS
  <1>1. KeepInv'
    BY KeepNext DEF TransferInv
  <1>2. CASE UNCHANGED transferVars
    <2>1. target' = target /\ imports' = imports /\ alone' = alone /\ alone \subseteq Imports
      BY <1>2 DEF transferVars, TransferInv, KeepInv, TransferTypeOK
    <2>2. ASSUME NEW j \in alone
          PROVE Alone(imports[j])'
      <3>1. Alone(imports[j])
        BY DEF TransferInv
      <3>2. QED
        BY <2>1, <3>1, AloneStays
    <2>3. QED
      BY <1>1, <2>1, <2>2 DEF TransferInv
  <1>3. CASE OperatorDisables
    BY <1>1, <1>3 DEF TransferInv, OperatorDisables
  <1>4. CASE \E i \in Imports : BeginImport(i) \/ ReadTarget(i) \/ PlanItem(i) \/ ApplyStep(i) \/ FailItem(i) \/ StopImport(i)
    <2>1. \A j \in alone' : Alone(imports[j])'
      BY <1>4, BeginAlone, ReadAlone, PlanAlone, ApplyAlone, FailAlone, StopAlone
    <2>2. QED
      BY <1>1, <2>1 DEF TransferInv
  <1>5. QED
    BY <1>2, <1>3, <1>4 DEF TransferNext

\* The invariant of the imports: what each is about to write and disable, and, for one that met no
\* other writer, how far the target is from what it has read and what it has written
\* (configuration/transfer.ts, importConfiguration and the plan functions).
THEOREM TransferInvariance == TransferSpec => []TransferInv
  <1>1. TransferInit => TransferInv
    BY KeepInit DEF TransferInit, TransferInv
  <1>2. QED
    BY <1>1, TransferInvNext, PTL DEF TransferSpec

\* Importing the same document again writes nothing: after an import that met no other writer, found
\* no two endpoints of one URL and reported no failure, every item of it is planned as unchanged, conflicting,
\* missing or absent (configuration/transfer.ts, planVariable, planEndpoint, planSchedule).
THEOREM RerunIsUnchangedAlways == TransferSpec => []RerunIsUnchanged
  <1>1. ASSUME TransferInv
        PROVE RerunIsUnchanged
    <2> SUFFICES ASSUME NEW i \in alone, imports[i].pc = "done", ~imports[i].dryRun,
                        "failed" \notin Range(imports[i].report), Cardinality(imports[i].snapshot["endpoint"]) <= 1,
                        NEW k \in ItemKinds, NEW found \in Candidates(k, target[k])
                 PROVE Planned(k, imports[i].document[k], target, found, imports[i].overwrite) \notin {"create", "update"}
      BY DEF RerunIsUnchanged
    <2>1. PICK q : q = imports[i] /\ q \in ImportRec /\ Alone(q) /\ GivenOut(q.snapshot["endpoint"], created)
      BY <1>1, Orders DEF TransferInv, KeepInv, TransferTypeOK, ImportInv
    <2>2. Single(q)
      <3>1. IsFiniteSet(q.snapshot["endpoint"])
        BY <2>1 DEF GivenOut
      <3>2. Cardinality(q.snapshot["endpoint"]) \in Nat
        BY <3>1, FS_CardinalityType
      <3>3. CASE Cardinality(q.snapshot["endpoint"]) = 0
        BY <3>1, <3>3, FS_EmptySet DEF Single
      <3>4. CASE Cardinality(q.snapshot["endpoint"]) = 1
        BY <3>1, <3>4, FS_Singleton DEF Single
      <3>5. QED
        BY <2>1, <3>2, <3>3, <3>4
    <2>3. q.report[k] # "failed"
      BY <2>1 DEF Range, ImportRec
    <2>4. NothingToDo(q, k)
      BY <2>1, <2>2, <2>3 DEF Alone, Past
    <2>6. CASE q.document[k] = NoItem
      BY <2>1, <2>6, TransferAssumption DEF Planned
    <2>7. CASE k = "secret"
      <3>1. q.overwrite \in BOOLEAN
        BY <2>1 DEF ImportRec
      <3>2. QED
        BY <2>1, <2>7, <3>1, PlannedIs
    <2>8. CASE q.document[k] # NoItem /\ k = "variable" /\ target["secret"] # {}
      BY <2>1, <2>8 DEF Planned, OtherKind
    <2>9. CASE /\ q.document[k] # NoItem /\ k # "secret" /\ target[k] # {}
               /\ \/ ~q.overwrite
                  \/ k # "endpoint" /\ AlreadyThere(target[k], q.document[k])
                  \/ \A e \in target[k] : e.content = q.document[k]
      <3>1. found \subseteq target[k] /\ (k # "endpoint" => found = target[k]) /\ found # {}
        BY <2>9, CandidatesAre
      <3>2. q.overwrite => AlreadyThere(found, q.document[k])
        BY <2>9, <3>1 DEF AlreadyThere
      <3>3. CASE OtherKind(k, target)
        BY <2>1, <2>9, <3>3 DEF Planned
      <3>4. CASE ~OtherKind(k, target)
        <4>1. Planned(k, q.document[k], target, found, q.overwrite)
                = IF AlreadyThere(found, q.document[k]) THEN "unchanged" ELSE Differing(q.overwrite)
          BY <2>9, <3>1, <3>4 DEF Planned
        <4>2. QED
          BY <2>1, <3>2, <4>1 DEF Differing
      <3>5. QED
        BY <3>3, <3>4
    <2>10. QED
      BY <2>4, <2>6, <2>7, <2>8, <2>9 DEF NothingToDo
  <1>2. QED
    BY <1>1, TransferInvariance, PTL

-----------------------------------------------------------------------------
(* Imports that take turns *)

Going(q) == q.pc \in {"read", "plan", "apply"}
HalfwayOf(q) == q.report["endpoint"] = "failed" \/ (q.pc = "stopped" /\ Kind(q) = "endpoint")
SomeHalfway == \E i \in Imports : HalfwayOf(imports[i])

\* What the import has read of and has yet to come to; what it replaces, and what of the target
\* it will leave.
Ahead(q, k) == WasRead(q, k) /\ k \notin Past(q) /\ ~(q.pc = "apply" /\ k = Kind(q))
Replacing(q) == q.pc = "apply" /\ Kind(q) = "endpoint"
Left(q, entries) == {e \in entries[Kind(q)] : Disable(e) \notin Els(q.steps)}

\* What the one import in progress knows of the target: nothing has come to what it has read,
\* its own write is new to it, and of the endpoints one at most will be left.  Nothing is said of
\* endpoints once a replacement has ended halfway.
Knows(q, entries, half) ==
  /\ \A k \in ItemKinds : Ahead(q, k) => entries[k] \subseteq q.snapshot[k]
  /\ ~half /\ Ahead(q, "endpoint") => Single(q)
  /\ q.pc = "apply" /\ Write \in Els(q.steps) /\ Kind(q) # "variable" /\ ~(half /\ Kind(q) = "endpoint") =>
       \A e \in entries[Kind(q)] : e.content # q.document[Kind(q)]
  /\ ~half /\ Replacing(q) => /\ \A e, f \in Left(q, entries) : e = f
                              /\ Write \in Els(q.steps) => Left(q, entries) = {}
  /\ "endpoint" \notin Past(q) => q.report["endpoint"] # "failed"

Apart(entries, half) ==
  \A k \in ItemKinds : ~(half /\ k = "endpoint") => \A e, f \in entries[k] : e # f => e.content # f.content
OneEndpoint(entries) == \A e, f \in entries["endpoint"] : e = f

TurnsInv ==
  /\ crossed \in BOOLEAN
  /\ ~crossed =>
       /\ \A i, j \in Imports : Going(imports[i]) /\ Going(imports[j]) => i = j
       /\ \A i \in Imports : Going(imports[i]) => Knows(imports[i], target, SomeHalfway)
       /\ \A i \in Imports : imports[i].pc = "idle" => imports[i].report["endpoint"] # "failed"
       /\ Apart(target, SomeHalfway)
       /\ SomeHalfway \/ OneEndpoint(target) \/ \E i \in Imports : Replacing(imports[i])

\* The record of one import changes: what was halfway is still.
LEMMA HalfwayStays ==
  ASSUME KeepInv, NEW i \in Imports, NEW r, imports' = [imports EXCEPT ![i] = r],
         HalfwayOf(imports[i]) => HalfwayOf(r)
  PROVE /\ SomeHalfway => SomeHalfway'
        /\ HalfwayOf(r) => SomeHalfway'
  <1>1. imports'[i] = r /\ \A j \in Imports : j # i => imports'[j] = imports[j]
    BY DEF KeepInv, TransferTypeOK
  <1>2. \A j \in Imports : HalfwayOf(imports[j]) => HalfwayOf(imports'[j])
    BY <1>1
  <1>3. QED
    BY <1>1, <1>2 DEF SomeHalfway

\* The one import in progress takes a step.
LEMMA TurnMoves ==
  ASSUME KeepInv, TurnsInv, NEW i \in Imports, Going(imports[i]), NEW r, r.pc # "idle",
         imports' = [imports EXCEPT ![i] = r], crossed' = crossed,
         ~crossed => /\ Going(r) => Knows(r, target', SomeHalfway')
                     /\ Apart(target', SomeHalfway')
                     /\ SomeHalfway' \/ OneEndpoint(target') \/ Replacing(r)
  PROVE TurnsInv'
  <1>1. imports'[i] = r /\ \A j \in Imports : j # i => imports'[j] = imports[j]
    BY DEF KeepInv, TransferTypeOK
  <1>2. ASSUME ~crossed, NEW j \in Imports, j # i
        PROVE ~Going(imports'[j])
    BY <1>1, <1>2 DEF TurnsInv
  <1>3. ASSUME ~crossed
        PROVE /\ \A j, m \in Imports : Going(imports'[j]) /\ Going(imports'[m]) => j = m
              /\ \A j \in Imports : Going(imports'[j]) => Knows(imports'[j], target', SomeHalfway')
              /\ \A j \in Imports : imports'[j].pc = "idle" => imports'[j].report["endpoint"] # "failed"
              /\ Apart(target', SomeHalfway')
              /\ SomeHalfway' \/ OneEndpoint(target') \/ \E j \in Imports : Replacing(imports'[j])
    <2>1. \A j, m \in Imports : Going(imports'[j]) /\ Going(imports'[m]) => j = m
      BY <1>2, <1>3
    <2>2. \A j \in Imports : Going(imports'[j]) => Knows(imports'[j], target', SomeHalfway')
      BY <1>1, <1>2, <1>3
    <2>3. \A j \in Imports : imports'[j].pc = "idle" => imports'[j].report["endpoint"] # "failed"
      BY <1>1, <1>3 DEF TurnsInv
    <2>4. QED
      BY <1>1, <1>3, <2>1, <2>2, <2>3
  <1>4. crossed' \in BOOLEAN
    BY DEF TurnsInv
  <1>5. QED
    BY <1>3, <1>4 DEF TurnsInv

LEMMA BeginTurns == ASSUME KeepInv, TurnsInv, NEW i \in Imports, BeginImport(i) PROVE TurnsInv'
  <1>1. PICK r : r = imports'[i]
    OBVIOUS
  <1>2. /\ imports' = [imports EXCEPT ![i] = r] /\ r.pc = "read" /\ r.at = 1 /\ r.report = [k \in ItemKinds |-> NoItem]
        /\ \A j \in Imports : j # i => imports'[j] = imports[j]
    BY <1>1 DEF BeginImport, IdleImport, KeepInv, TransferTypeOK
  <1>3. imports[i].pc = "idle" /\ target' = target /\ crossed' = (crossed \/ \E j \in Imports : Open(j))
    BY DEF BeginImport
  <1>4. crossed' \in BOOLEAN
    BY <1>3
  <1>5. ReadBy(r) = {} /\ Past(r) = {}
    BY <1>2 DEF ReadBy, Past
  <1>6. ASSUME ~crossed'
        PROVE /\ \A j, m \in Imports : Going(imports'[j]) /\ Going(imports'[m]) => j = m
              /\ \A j \in Imports : Going(imports'[j]) => Knows(imports'[j], target', SomeHalfway')
              /\ \A j \in Imports : imports'[j].pc = "idle" => imports'[j].report["endpoint"] # "failed"
              /\ Apart(target', SomeHalfway')
              /\ SomeHalfway' \/ OneEndpoint(target') \/ \E j \in Imports : Replacing(imports'[j])
    <2>1. ~crossed /\ \A j \in Imports : ~Going(imports[j])
      BY <1>3, <1>6 DEF Open, Going
    <2>2. /\ \A j \in Imports : imports[j].pc = "idle" => imports[j].report["endpoint"] # "failed"
          /\ Apart(target, SomeHalfway)
          /\ SomeHalfway \/ OneEndpoint(target) \/ \E j \in Imports : Replacing(imports[j])
      BY <2>1 DEF TurnsInv
    <2>3. \A j \in Imports : ~Replacing(imports[j])
      BY <2>1 DEF Replacing, Going
    <2>4. ~HalfwayOf(imports[i])
      BY <1>3, <2>2 DEF HalfwayOf
    <2>5. SomeHalfway => SomeHalfway'
      BY <1>2, <2>4, HalfwayStays
    <2>6. r.report["endpoint"] # "failed"
      BY <1>2, Orders, TransferAssumption
    <2>7. Knows(r, target', SomeHalfway')
      BY <1>2, <1>5, <2>6 DEF Knows, Ahead, WasRead, Replacing
    <2>8. \A j \in Imports : j # i => ~Going(imports'[j])
      BY <1>2, <2>1
    <2>9. Apart(target', SomeHalfway')
      BY <1>3, <2>2, <2>5 DEF Apart
    <2>10. \A j, m \in Imports : Going(imports'[j]) /\ Going(imports'[m]) => j = m
      BY <2>8
    <2>11. \A j \in Imports : Going(imports'[j]) => Knows(imports'[j], target', SomeHalfway')
      BY <1>1, <2>7, <2>8
    <2>12. \A j \in Imports : imports'[j].pc = "idle" => imports'[j].report["endpoint"] # "failed"
      BY <1>1, <1>2, <2>2
    <2>13. SomeHalfway' \/ OneEndpoint(target')
      BY <1>3, <2>2, <2>3, <2>5
    <2>14. QED
      BY <2>9, <2>10, <2>11, <2>12, <2>13
  <1>7. QED
    BY <1>4, <1>6 DEF TurnsInv

LEMMA ReadTurns == ASSUME KeepInv, TurnsInv, NEW i \in Imports, ReadTarget(i) PROVE TurnsInv'
  <1>1. PICK q : q = imports[i] /\ q \in ImportRec
    BY DEF KeepInv, TransferTypeOK
  <1>2. PICK r : r = ReadsOn(q)
    OBVIOUS
  <1>3. q.pc = "read" /\ q.at \in 1..3 /\ imports' = [imports EXCEPT ![i] = r] /\ target' = target /\ crossed' = crossed
    BY <1>1, <1>2, ReadIs DEF ReadTarget
  <1>4. /\ r \in ImportRec /\ r.snapshot = SnapshotNow(q) /\ r.document = q.document /\ r.report = q.report
        /\ r.at = (IF q.at = 3 THEN 1 ELSE q.at + 1) /\ r.pc = (IF q.at = 3 THEN "plan" ELSE "read")
    <2>1. \A k \in ItemKinds : GivenOut(q.snapshot[k], created)
      BY <1>1 DEF KeepInv, ImportInv
    <2>2. QED
      BY <1>1, <1>2, <1>3, <2>1, ReadsOnIs
  <1>5. r.pc \in {"read", "plan"} /\ Past(r) = {} /\ Past(q) = {} /\ Going(q)
    BY <1>3, <1>4 DEF Past, Going
  <1>6. ReadBy(r) \subseteq ReadBy(q) \union ReadOrder[q.at]
    BY <1>3, <1>4, ReadByGrows
  <1>7. (HalfwayOf(q) <=> HalfwayOf(r)) /\ (SomeHalfway => SomeHalfway')
    <2>1. HalfwayOf(q) <=> HalfwayOf(r)
      BY <1>3, <1>4, <1>5 DEF HalfwayOf
    <2>2. QED
      BY <1>1, <1>3, <2>1, HalfwayStays
  <1>8. ASSUME ~crossed
        PROVE /\ Knows(r, target', SomeHalfway')
              /\ Apart(target', SomeHalfway')
              /\ SomeHalfway' \/ OneEndpoint(target')
    <2>1. /\ Knows(q, target, SomeHalfway) /\ Apart(target, SomeHalfway)
          /\ SomeHalfway \/ OneEndpoint(target) \/ \E j \in Imports : Replacing(imports[j])
          /\ \A j \in Imports : Going(imports[j]) => j = i
      BY <1>1, <1>5, <1>8 DEF TurnsInv
    <2>2. \A j \in Imports : ~Replacing(imports[j])
      BY <1>1, <1>3, <2>1 DEF Replacing, Going
    <2>3. ASSUME NEW k \in ItemKinds, Ahead(r, k), k \notin ReadNow(q)
          PROVE Ahead(q, k) /\ r.snapshot[k] = q.snapshot[k]
      <3>1. k \notin ReadOrder[q.at]
        BY <1>4, <2>3 DEF ReadNow, Ahead, WasRead
      <3>2. Ahead(q, k)
        BY <1>3, <1>4, <1>5, <1>6, <2>3, <3>1 DEF Ahead, WasRead
      <3>3. QED
        BY <1>4, <2>3, <3>2 DEF SnapshotNow
    <2>4. \A k \in ItemKinds : k \in ReadNow(q) => r.snapshot[k] = target[k]
      BY <1>4 DEF SnapshotNow
    <2>5. \A k \in ItemKinds : Ahead(r, k) => target[k] \subseteq r.snapshot[k]
      BY <2>1, <2>3, <2>4 DEF Knows
    <2>6. "endpoint" \in ItemKinds
      BY Orders
    <2>7. ASSUME ~SomeHalfway', Ahead(r, "endpoint")
          PROVE Single(r)
      <3>1. ~SomeHalfway /\ OneEndpoint(target)
        BY <1>7, <2>1, <2>2, <2>7
      <3>2. CASE "endpoint" \in ReadNow(q)
        BY <2>4, <2>6, <3>1, <3>2 DEF OneEndpoint, Single
      <3>3. CASE "endpoint" \notin ReadNow(q)
        BY <2>1, <2>3, <2>6, <2>7, <3>1, <3>3 DEF Knows, Single
      <3>4. QED
        BY <3>2, <3>3
    <2>8. r.report["endpoint"] # "failed"
      BY <1>4, <1>5, <2>1 DEF Knows
    <2>9. Knows(r, target', SomeHalfway')
      BY <1>3, <1>5, <2>5, <2>7, <2>8 DEF Knows, Replacing
    <2>10. Apart(target', SomeHalfway')
      BY <1>3, <1>7, <2>1 DEF Apart
    <2>11. QED
      BY <1>3, <1>7, <2>1, <2>2, <2>9, <2>10
  <1>9. r.pc # "idle"
    BY <1>5
  <1>10. QED
    BY <1>1, <1>3, <1>5, <1>8, <1>9, TurnMoves

\* The import has left an item: what is ahead of it was ahead before, and nothing is being
\* replaced any more.
LEMMA LeavesKnown ==
  ASSUME NEW q \in ImportRec, NEW r \in ImportRec, q.pc \in {"plan", "apply"},
         q.at = 4 => r.pc = "done", q.at # 4 => r.pc = "plan" /\ r.at = q.at + 1,
         r.document = q.document, r.snapshot = q.snapshot,
         Knows(q, target, SomeHalfway), SomeHalfway => SomeHalfway',
         \A k \in ItemKinds : k # Kind(q) => r.report[k] = q.report[k] /\ target'[k] = target[k]
  PROVE  /\ r.pc \in {"plan", "done"} /\ Knows(r, target', SomeHalfway')
         /\ Kind(q) # "endpoint" => (HalfwayOf(q) => HalfwayOf(r))
  <1>1. /\ Past(r) = Past(q) \union {Kind(q)} /\ Kind(q) \notin Past(q)
        /\ ReadBy(q) = ItemKinds /\ ReadBy(r) = ItemKinds /\ Kind(q) \in ItemKinds /\ "endpoint" \in ItemKinds
    BY PastGrows, Orders, KindIs
  <1>2. r.pc \in {"plan", "done"}
    BY DEF ImportRec
  <1>3. ASSUME NEW k \in ItemKinds, Ahead(r, k)
        PROVE Ahead(q, k) /\ k # Kind(q)
    BY <1>1, <1>3 DEF Ahead, WasRead
  <1>4. \A k \in ItemKinds : Ahead(r, k) => target'[k] \subseteq r.snapshot[k]
    BY <1>3 DEF Knows
  <1>5. ~SomeHalfway' /\ Ahead(r, "endpoint") => Single(r)
    BY <1>1, <1>3 DEF Knows, Single
  <1>6. "endpoint" \notin Past(r) => r.report["endpoint"] # "failed"
    BY <1>1 DEF Knows
  <1>7. Knows(r, target', SomeHalfway')
    BY <1>2, <1>4, <1>5, <1>6 DEF Knows, Replacing
  <1>8. Kind(q) # "endpoint" => (HalfwayOf(q) => HalfwayOf(r))
    BY <1>1 DEF HalfwayOf
  <1>9. QED
    BY <1>2, <1>7, <1>8

LEMMA PlanTurns == ASSUME KeepInv, TurnsInv, NEW i \in Imports, PlanItem(i) PROVE TurnsInv'
  <1>1. PICK q : q = imports[i] /\ q \in ImportRec
    BY DEF KeepInv, TransferTypeOK
  <1>2. PICK p, found, action : PlannedAs(q, p, found, action) /\ imports' = [imports EXCEPT ![i] = Continue(p)]
    BY <1>1, PlanIs
  <1>3. target' = target /\ q.pc = "plan" /\ crossed' = crossed
    BY <1>1, PlanIs DEF PlanItem
  <1>4. PICK r : r = Continue(p)
    OBVIOUS
  <1>5. /\ p \in ImportRec /\ r \in ImportRec /\ Kind(p) = Kind(q) /\ Kind(q) \in ItemKinds /\ "endpoint" \in ItemKinds
        /\ p.at = q.at /\ p.document = q.document /\ p.snapshot = q.snapshot
        /\ p.report = [q.report EXCEPT ![Kind(q)] = action] /\ p.pc = "apply"
        /\ r.report = p.report /\ r.document = p.document /\ r.snapshot = p.snapshot
    BY <1>1, <1>2, <1>4, ContinueIs, KindIs, Orders DEF PlannedAs, Kind
  <1>6. /\ \A k \in ItemKinds : k # Kind(q) => r.report[k] = q.report[k]
        /\ r.report[Kind(q)] = action
    BY <1>1, <1>5 DEF ImportRec
  <1>7. Going(q) /\ r.pc # "idle"
    <2>1. p.steps = <<>> => r.pc \in {"done", "plan"}
      BY <1>4, <1>5, ContinueIs DEF ImportRec
    <2>2. p.steps # <<>> => r = p
      BY <1>4, <1>5, ContinueIs
    <2>3. QED
      BY <1>3, <1>5, <2>1, <2>2 DEF Going
  <1>8. ASSUME ~crossed
        PROVE /\ Going(r) => Knows(r, target', SomeHalfway')
              /\ Apart(target', SomeHalfway')
              /\ SomeHalfway' \/ OneEndpoint(target')
    <2>1. /\ Knows(q, target, SomeHalfway) /\ Apart(target, SomeHalfway)
          /\ SomeHalfway \/ OneEndpoint(target) \/ \E j \in Imports : Replacing(imports[j])
          /\ \A j \in Imports : Going(imports[j]) => j = i
      BY <1>1, <1>7, <1>8 DEF TurnsInv
    <2>2. \A j \in Imports : ~Replacing(imports[j])
      BY <1>1, <1>3, <2>1 DEF Replacing, Going
    <2>3. HalfwayOf(q) => HalfwayOf(r)
      <3>1. q.report["endpoint"] = "failed" => "endpoint" \in Past(q)
        BY <2>1 DEF Knows
      <3>2. Kind(q) \notin Past(q)
        <4>1. q.at \in {1, 2, 3, 4} /\ Past(q) = {ItemOrder[n] : n \in 1..(q.at - 1)} /\ Kind(q) = ItemOrder[q.at]
          BY <1>1, <1>3 DEF Past, Kind, ImportRec
        <4>2. QED
          BY <4>1, Orders
      <3>3. QED
        BY <1>3, <1>5, <1>6, <3>1, <3>2 DEF HalfwayOf
    <2>4. SomeHalfway => SomeHalfway'
      BY <1>1, <1>2, <1>4, <2>3, HalfwayStays
    <2>5. Apart(target', SomeHalfway') /\ (SomeHalfway' \/ OneEndpoint(target'))
      BY <1>3, <2>1, <2>2, <2>4 DEF Apart
    <2>6. CASE p.steps = <<>>
      <3>1. (q.at = 4 => r.pc = "done") /\ (q.at # 4 => r.pc = "plan" /\ r.at = q.at + 1)
        BY <1>4, <1>5, <2>6, ContinueIs
      <3>2. Knows(r, target', SomeHalfway')
        <4>1. \A k \in ItemKinds : k # Kind(q) => r.report[k] = q.report[k] /\ target'[k] = target[k]
          BY <1>3, <1>6
        <4>2. r.document = q.document /\ r.snapshot = q.snapshot /\ q.pc \in {"plan", "apply"}
          BY <1>3, <1>5
        <4>3. Knows(q, target, SomeHalfway)
          BY <2>1
        <4>4. QED
          BY <1>1, <1>5, <2>4, <3>1, <4>1, <4>2, <4>3, LeavesKnown
      <3>3. QED
        BY <2>5, <3>2
    <2>7. CASE p.steps # <<>>
      <3>1. r = p /\ Writing(q, action) /\ p.steps = ItemSteps(Kind(q), action, found)
        BY <1>2, <1>4, <1>5, <2>7, ContinueIs DEF PlannedAs
      <3>2. Els(r.steps) = {Write} \union (IF action = "update" /\ Kind(q) # "variable" THEN {Disable(e) : e \in found} ELSE {})
        BY <1>2, <3>1, ItemStepsAre DEF PlannedAs
      <3>3. /\ q.document[Kind(q)] # NoItem /\ Kind(q) # "secret" /\ action \in {"create", "update"}
            /\ (action = "create" => found = {}) /\ (action = "update" => ~AlreadyThere(found, q.document[Kind(q)]))
        <4>1. q.overwrite \in BOOLEAN
          BY <1>1 DEF ImportRec
        <4>2. action \in {"create", "update"}
          BY <3>1 DEF Writing
        <4>3. QED
          BY <1>2, <1>5, <4>1, <4>2, PlannedIs DEF PlannedAs
      <3>4. /\ Past(r) = Past(q) /\ ReadBy(r) = ReadBy(q) /\ ReadBy(q) = ItemKinds /\ Kind(r) = Kind(q)
            /\ Kind(q) \notin Past(q)
        <4>1. q.at \in {1, 2, 3, 4} /\ Past(q) = {ItemOrder[n] : n \in 1..(q.at - 1)} /\ Kind(q) = ItemOrder[q.at]
          BY <1>1, <1>3 DEF Past, Kind, ImportRec
        <4>2. Kind(q) \notin Past(q)
          BY <4>1, Orders
        <4>3. Past(r) = {ItemOrder[n] : n \in 1..(r.at - 1)} /\ r.at = q.at
          BY <1>5, <3>1 DEF Past
        <4>4. ReadBy(r) = ItemKinds /\ ReadBy(q) = ItemKinds
          BY <1>3, <1>5, <3>1 DEF ReadBy
        <4>5. QED
          BY <1>5, <3>1, <4>1, <4>2, <4>3, <4>4
      <3>5. \A k \in ItemKinds : Ahead(r, k) => Ahead(q, k)
        BY <1>3, <1>5, <3>4 DEF Ahead, WasRead
      <3>6. Ahead(q, Kind(q))
        BY <1>3, <1>5, <3>3, <3>4 DEF Ahead, WasRead
      <3>7. target[Kind(q)] \subseteq q.snapshot[Kind(q)]
        BY <1>5, <2>1, <3>6 DEF Knows
      <3>8. ~(SomeHalfway /\ Kind(q) = "endpoint") => found = q.snapshot[Kind(q)]
        <4>1. found \in Candidates(Kind(q), q.snapshot[Kind(q)])
          BY <1>2 DEF PlannedAs
        <4>2. CASE Kind(q) # "endpoint"
          BY <4>1, <4>2, CandidatesAre
        <4>3. CASE Kind(q) = "endpoint" /\ ~SomeHalfway
          <5>1. \A e, f \in q.snapshot[Kind(q)] : e = f
            BY <2>1, <3>6, <4>3 DEF Knows, Single
          <5>2. QED
            BY <4>1, <5>1, CandidatesAre
        <4>4. QED
          BY <4>2, <4>3
      <3>9. ASSUME Kind(r) # "variable", ~(SomeHalfway' /\ Kind(r) = "endpoint"), NEW e \in target'[Kind(r)]
            PROVE e.content # r.document[Kind(r)]
        <4>1. e \in found
          BY <1>3, <2>4, <3>4, <3>7, <3>8, <3>9
        <4>2. action = "update" /\ ~AlreadyThere(found, q.document[Kind(q)])
          BY <3>3, <4>1
        <4>3. QED
          BY <1>5, <3>1, <3>4, <4>1, <4>2 DEF AlreadyThere
      <3>10. ASSUME ~SomeHalfway', Replacing(r)
             PROVE Left(r, target') = {}
        <4>1. target[Kind(q)] \subseteq found /\ Kind(q) # "variable"
          BY <2>4, <3>4, <3>7, <3>8, <3>10 DEF Replacing
        <4>2. \A e \in target[Kind(q)] : Disable(e) \in Els(r.steps)
          BY <3>2, <3>3, <4>1
        <4>3. QED
          BY <1>3, <3>4, <4>2 DEF Left
      <3>11. "endpoint" \notin Past(r) => r.report["endpoint"] # "failed"
        BY <1>5, <1>6, <2>1, <3>3, <3>4 DEF Knows
      <3>12. /\ \A k \in ItemKinds : Ahead(r, k) => target'[k] \subseteq r.snapshot[k]
             /\ ~SomeHalfway' /\ Ahead(r, "endpoint") => Single(r)
        <4>1. r.snapshot = q.snapshot
          BY <1>5
        <4>2. QED
          BY <1>3, <1>5, <2>1, <2>4, <3>5, <4>1 DEF Knows, Single
      <3>13. Knows(r, target', SomeHalfway')
        BY <3>9, <3>10, <3>11, <3>12 DEF Knows
      <3>14. QED
        BY <2>5, <3>13
    <2>8. QED
      BY <2>6, <2>7
  <1>9. QED
    BY <1>1, <1>2, <1>3, <1>4, <1>7, <1>8, TurnMoves

LEMMA FailTurns == ASSUME KeepInv, TurnsInv, NEW i \in Imports, FailItem(i) PROVE TurnsInv'
  <1>1. PICK q : q = imports[i] /\ q \in ImportRec
    BY DEF KeepInv, TransferTypeOK
  <1>2. PICK p : p = [q EXCEPT !.report = [q.report EXCEPT ![Kind(q)] = "failed"], !.steps = <<>>]
    OBVIOUS
  <1>3. /\ imports' = [imports EXCEPT ![i] = Continue(p)] /\ target' = target /\ crossed' = crossed
        /\ q.pc = "apply" /\ Going(q)
    <2>1. p = [q EXCEPT !.report[Kind(q)] = "failed", !.steps = <<>>]
      BY <1>1, <1>2 DEF ImportRec
    <2>2. QED
      BY <1>1, <2>1 DEF FailItem, Item, Kind, Going
  <1>4. Kind(q) \in ItemKinds /\ "endpoint" \in ItemKinds
    BY <1>1, KindIs, Orders
  <1>5. p \in ImportRec
    <2>1. [q.report EXCEPT ![Kind(q)] = "failed"] \in [ItemKinds -> Reports] /\ <<>> \in Seq({Write} \union Disables)
      BY <1>1, <1>4 DEF ImportRec, Reports
    <2>2. QED
      BY <1>1, <1>2, <2>1 DEF ImportRec
  <1>6. /\ p.steps = <<>> /\ p.at = q.at /\ p.document = q.document /\ p.snapshot = q.snapshot
        /\ p.report = [q.report EXCEPT ![Kind(q)] = "failed"]
    BY <1>1, <1>2 DEF ImportRec
  <1>7. PICK r : r = Continue(p)
    OBVIOUS
  <1>8. /\ r \in ImportRec /\ (q.at = 4 => r.pc = "done") /\ (q.at # 4 => r.pc = "plan" /\ r.at = q.at + 1)
        /\ r.document = q.document /\ r.snapshot = q.snapshot
        /\ r.report = [q.report EXCEPT ![Kind(q)] = "failed"]
    BY <1>5, <1>6, <1>7, ContinueIs
  <1>9. (\A k \in ItemKinds : k # Kind(q) => r.report[k] = q.report[k]) /\ r.report[Kind(q)] = "failed"
    BY <1>1, <1>4, <1>8 DEF ImportRec
  <1>10. r.pc # "idle"
    BY <1>8 DEF ImportRec
  <1>11. /\ HalfwayOf(q) => HalfwayOf(r)
         /\ Kind(q) = "endpoint" => HalfwayOf(r)
    BY <1>3, <1>4, <1>9 DEF HalfwayOf
  <1>12. /\ SomeHalfway => SomeHalfway'
         /\ Kind(q) = "endpoint" => SomeHalfway'
    BY <1>1, <1>3, <1>7, <1>11, HalfwayStays
  <1>13. ASSUME ~crossed
         PROVE /\ Knows(r, target', SomeHalfway') /\ Apart(target', SomeHalfway')
               /\ SomeHalfway' \/ OneEndpoint(target')
    <2>1. /\ Knows(q, target, SomeHalfway) /\ Apart(target, SomeHalfway)
          /\ SomeHalfway \/ OneEndpoint(target) \/ \E j \in Imports : Replacing(imports[j])
          /\ \A j \in Imports : Going(imports[j]) => j = i
      BY <1>1, <1>3, <1>13 DEF TurnsInv
    <2>2. SomeHalfway' \/ OneEndpoint(target')
      <3>1. \A j \in Imports : Replacing(imports[j]) => j = i
        BY <2>1 DEF Replacing, Going
      <3>2. CASE Kind(q) = "endpoint"
        BY <1>12, <3>2
      <3>3. CASE Kind(q) # "endpoint"
        BY <1>1, <1>3, <1>12, <2>1, <3>1, <3>3 DEF Replacing
      <3>4. QED
        BY <3>2, <3>3
    <2>3. Apart(target', SomeHalfway')
      BY <1>3, <1>12, <2>1 DEF Apart
    <2>4. Knows(r, target', SomeHalfway')
      <3>1. \A k \in ItemKinds : k # Kind(q) => r.report[k] = q.report[k] /\ target'[k] = target[k]
        BY <1>3, <1>9
      <3>2. q.pc \in {"plan", "apply"} /\ Knows(q, target, SomeHalfway)
        BY <1>3, <2>1
      <3>3. QED
        BY <1>1, <1>8, <1>12, <3>1, <3>2, LeavesKnown
    <2>5. QED
      BY <2>2, <2>3, <2>4
  <1>14. QED
    BY <1>1, <1>3, <1>7, <1>10, <1>13, TurnMoves

LEMMA StopTurns == ASSUME KeepInv, TurnsInv, NEW i \in Imports, StopImport(i) PROVE TurnsInv'
  <1>1. PICK q : q = imports[i] /\ q \in ImportRec
    BY DEF KeepInv, TransferTypeOK
  <1>2. PICK r \in ImportRec : /\ imports' = [imports EXCEPT ![i] = r] /\ r.pc = "stopped"
                               /\ r.at = q.at /\ r.report = q.report
    BY <1>1, StopIs
  <1>3. target' = target /\ crossed' = crossed /\ q.pc = "apply" /\ Going(q)
    BY <1>1, StopIs DEF Going
  <1>4. /\ HalfwayOf(q) => HalfwayOf(r)
        /\ Kind(q) = "endpoint" => HalfwayOf(r)
        /\ r.pc # "idle" /\ ~Going(r)
    BY <1>2, <1>3 DEF HalfwayOf, Kind, Going
  <1>5. /\ SomeHalfway => SomeHalfway'
        /\ Kind(q) = "endpoint" => SomeHalfway'
    BY <1>1, <1>2, <1>4, HalfwayStays
  <1>6. ASSUME ~crossed
        PROVE Apart(target', SomeHalfway') /\ (SomeHalfway' \/ OneEndpoint(target'))
    <2>1. /\ Apart(target, SomeHalfway)
          /\ SomeHalfway \/ OneEndpoint(target) \/ \E j \in Imports : Replacing(imports[j])
          /\ \A j \in Imports : Going(imports[j]) => j = i
      BY <1>1, <1>3, <1>6 DEF TurnsInv
    <2>2. \A j \in Imports : Replacing(imports[j]) => j = i
      BY <2>1 DEF Replacing, Going
    <2>3. SomeHalfway' \/ OneEndpoint(target')
      <3>1. CASE Kind(q) = "endpoint"
        BY <1>5, <3>1
      <3>2. CASE Kind(q) # "endpoint"
        BY <1>1, <1>3, <1>5, <2>1, <2>2, <3>2 DEF Replacing
      <3>3. QED
        BY <3>1, <3>2
    <2>4. Apart(target', SomeHalfway')
      BY <1>3, <1>5, <2>1 DEF Apart
    <2>5. QED
      BY <2>3, <2>4
  <1>7. QED
    BY <1>1, <1>2, <1>3, <1>4, <1>6, TurnMoves

LEMMA OperatorTurns == ASSUME KeepInv, TurnsInv, OperatorDisables PROVE TurnsInv'
  <1>1. imports' = imports /\ crossed' = crossed /\ \A k \in ItemKinds : target'[k] \subseteq target[k]
    BY DEF OperatorDisables, KeepInv, TransferTypeOK
  <1>2. SomeHalfway' <=> SomeHalfway
    BY <1>1 DEF SomeHalfway
  <1>3. \A i \in Imports : imports[i] \in ImportRec /\ Kind(imports[i]) \in ItemKinds
    BY KindIs DEF KeepInv, TransferTypeOK
  <1>4. "endpoint" \in ItemKinds
    BY Orders
  <1>5. ASSUME NEW i \in Imports, Knows(imports[i], target, SomeHalfway)
        PROVE Knows(imports[i], target', SomeHalfway')
    <2>1. target'[Kind(imports[i])] \subseteq target[Kind(imports[i])]
      BY <1>1, <1>3
    <2>2. Left(imports[i], target') \subseteq Left(imports[i], target)
      BY <2>1 DEF Left
    <2>3. QED
      BY <1>1, <1>2, <1>5, <2>1, <2>2 DEF Knows
  <1>6. Apart(target, SomeHalfway) => Apart(target', SomeHalfway')
    BY <1>1, <1>2 DEF Apart
  <1>7. OneEndpoint(target) => OneEndpoint(target')
    BY <1>1, <1>4 DEF OneEndpoint
  <1>8. QED
    BY <1>1, <1>2, <1>5, <1>6, <1>7 DEF TurnsInv

\* The import writes its item, or disables an entry that it replaces.
LEMMA ApplyTurns == ASSUME KeepInv, TurnsInv, NEW i \in Imports, ApplyStep(i) PROVE TurnsInv'
  <1>1. PICK q : q = imports[i] /\ q \in ImportRec
    BY DEF KeepInv, TransferTypeOK
  <1>2. PICK p : AppliedAs(q, p) /\ imports' = [imports EXCEPT ![i] = Continue(p)]
    BY <1>1, ApplyIs
  <1>3. WritesItem(q) \/ \E e : Retires(q, e)
    BY <1>1, ApplyIs
  <1>4. PICK r : r = Continue(p)
    OBVIOUS
  <1>5. /\ crossed' = crossed /\ Going(q) /\ q.pc = "apply" /\ Steps(q) /\ target \in [ItemKinds -> SUBSET Entry]
        /\ created \in Nat /\ \A k \in ItemKinds : GivenOut(target[k], created)
    BY <1>1 DEF ApplyStep, Going, KeepInv, ImportInv, TransferTypeOK
  <1>6. /\ p \in ImportRec /\ r \in ImportRec /\ Kind(p) = Kind(q) /\ Kind(q) \in ItemKinds /\ "endpoint" \in ItemKinds
        /\ p.at = q.at /\ p.document = q.document /\ p.snapshot = q.snapshot /\ p.report = q.report
        /\ r.document = q.document /\ r.snapshot = q.snapshot /\ r.report = q.report /\ p.pc = "apply"
        /\ Els(p.steps) = Els(q.steps) \ {Head(q.steps)}
    BY <1>1, <1>2, <1>4, ContinueIs, KindIs, Orders DEF AppliedAs, Kind
  <1>7. /\ p.steps # <<>> => r = p
        /\ p.steps = <<>> => /\ Els(p.steps) = {} /\ r.pc \in {"done", "plan"}
                             /\ q.at = 4 => r.pc = "done"
                             /\ q.at # 4 => r.pc = "plan" /\ r.at = q.at + 1
    <2>1. p.steps # <<>> => r = p
      BY <1>4, <1>6, ContinueIs
    <2>2. p.steps = <<>> => Els(p.steps) = {}
      BY <1>2 DEF AppliedAs
    <2>3. p.steps = <<>> => /\ q.at = 4 => r.pc = "done"
                            /\ q.at # 4 => r.pc = "plan" /\ r.at = q.at + 1
      BY <1>4, <1>6, ContinueIs
    <2>4. p.steps = <<>> => r.pc \in {"done", "plan"}
      BY <2>3
    <2>5. QED
      BY <2>1, <2>2, <2>3, <2>4
  <1>8. HalfwayOf(q) <=> HalfwayOf(r)
    BY <1>5, <1>6, <1>7 DEF HalfwayOf
  <1>9. SomeHalfway <=> SomeHalfway'
    <2>1. imports'[i] = r /\ \A j \in Imports : j # i => imports'[j] = imports[j]
      BY <1>2, <1>4 DEF KeepInv, TransferTypeOK
    <2>2. \A j \in Imports : HalfwayOf(imports'[j]) <=> HalfwayOf(imports[j])
      BY <1>1, <1>8, <2>1
    <2>3. QED
      BY <2>2 DEF SomeHalfway
  <1>10. r.pc # "idle"
    BY <1>6, <1>7
  <1>11. /\ \A k \in ItemKinds : k # Kind(q) => target'[k] = target[k]
         /\ q.document[Kind(q)] # NoItem
    BY <1>3, <1>5 DEF WritesItem, Retires, Steps
  <1>12. ASSUME ~crossed
         PROVE /\ Going(r) => Knows(r, target', SomeHalfway')
               /\ Apart(target', SomeHalfway')
               /\ SomeHalfway' \/ OneEndpoint(target') \/ Replacing(r)
    <2>1. /\ Knows(q, target, SomeHalfway) /\ Apart(target, SomeHalfway)
          /\ SomeHalfway \/ OneEndpoint(target) \/ \E j \in Imports : Replacing(imports[j])
          /\ \A j \in Imports : Going(imports[j]) => j = i
      BY <1>1, <1>5, <1>12 DEF TurnsInv
    <2>2. \A j \in Imports : Replacing(imports[j]) => j = i
      BY <2>1 DEF Replacing, Going
    <2>3. Apart(target', SomeHalfway')
      <3>1. CASE WritesItem(q)
        <4>1. target'[Kind(q)] = (IF Kind(q) = "variable" THEN {} ELSE target[Kind(q)]) \union {NewEntry(q)}
          BY <1>5, <1>6, <3>1 DEF WritesItem
        <4>2. Write \in Els(q.steps)
          <5>1. q.steps \in Seq({Write} \union Disables) /\ q.steps # <<>>
            BY <1>1, <1>2 DEF ImportRec, AppliedAs
          <5>2. 1 \in 1..Len(q.steps) /\ q.steps[1] = Write
            BY <3>1, <5>1 DEF WritesItem
          <5>3. QED
            BY <5>2 DEF Els
        <4>3. Kind(q) # "variable" /\ ~(SomeHalfway /\ Kind(q) = "endpoint") =>
                \A e \in target[Kind(q)] : e.content # q.document[Kind(q)]
          BY <1>5, <2>1, <4>2 DEF Knows
        <4>4. NewEntry(q).content = q.document[Kind(q)]
          BY DEF NewEntry
        <4>5. ASSUME ~(SomeHalfway' /\ Kind(q) = "endpoint"), NEW e \in target'[Kind(q)], NEW f \in target'[Kind(q)], e # f
              PROVE e.content # f.content
          <5>1. CASE Kind(q) = "variable"
            BY <4>1, <4>5, <5>1
          <5>2. CASE Kind(q) # "variable"
            <6>1. \A x, y \in target[Kind(q)] : x # y => x.content # y.content
              BY <1>6, <1>9, <2>1, <4>5 DEF Apart
            <6>2. \A x \in target[Kind(q)] : x.content # NewEntry(q).content
              BY <1>9, <4>3, <4>4, <4>5, <5>2
            <6>3. QED
              BY <4>1, <4>5, <5>2, <6>1, <6>2
          <5>3. QED
            BY <5>1, <5>2
        <4>6. QED
          BY <1>9, <1>11, <2>1, <4>5 DEF Apart
      <3>2. ASSUME NEW e, Retires(q, e)
            PROVE Apart(target', SomeHalfway')
        <4>1. target'[Kind(q)] \subseteq target[Kind(q)]
          BY <1>5, <1>6, <3>2 DEF Retires
        <4>2. QED
          BY <1>9, <1>11, <2>1, <4>1 DEF Apart
      <3>3. QED
        BY <1>3, <3>1, <3>2
    <2>4. ASSUME ~SomeHalfway', Kind(q) = "endpoint"
          PROVE \A e, f \in target'[Kind(q)] : Disable(e) \notin Els(p.steps) /\ Disable(f) \notin Els(p.steps) => e = f
      <3>1. (\A e, f \in Left(q, target) : e = f) /\ (Write \in Els(q.steps) => Left(q, target) = {})
        BY <1>5, <1>9, <2>1, <2>4 DEF Knows, Replacing
      <3>2. CASE WritesItem(q)
        <4>1. target'[Kind(q)] = target[Kind(q)] \union {NewEntry(q)}
          BY <1>5, <1>6, <2>4, <3>2 DEF WritesItem
        <4>2. Write \in Els(q.steps) /\ Els(p.steps) = Els(q.steps) \ {Write}
          <5>1. q.steps \in Seq({Write} \union Disables) /\ q.steps # <<>>
            BY <1>1, <1>2 DEF ImportRec, AppliedAs
          <5>2. 1 \in 1..Len(q.steps) /\ q.steps[1] = Write
            BY <3>2, <5>1 DEF WritesItem
          <5>3. QED
            BY <1>6, <3>2, <5>2 DEF Els, WritesItem
        <4>3. \A e \in target[Kind(q)] : Disable(e) \in Els(q.steps) /\ Disable(e) # Write
          BY <1>5, <1>6, <3>1, <4>2, WriteIs DEF Left
        <4>4. QED
          BY <4>1, <4>2, <4>3
      <3>3. ASSUME NEW x, Retires(q, x)
            PROVE \A e, f \in target'[Kind(q)] : Disable(e) \notin Els(p.steps) /\ Disable(f) \notin Els(p.steps) => e = f
        <4>1. /\ target'[Kind(q)] = target[Kind(q)] \ {x} /\ Els(p.steps) = Els(q.steps) \ {Disable(x)} /\ x \in Entry
          BY <1>5, <1>6, <3>3 DEF Retires
        <4>2. ASSUME NEW e \in target'[Kind(q)], Disable(e) \notin Els(p.steps)
              PROVE e \in Left(q, target)
          <5>1. e \in target[Kind(q)] /\ e # x /\ e \in Entry
            BY <1>5, <1>6, <4>1, <4>2
          <5>2. Disable(e) # Disable(x)
            BY <4>1, <5>1, WriteIs
          <5>3. QED
            BY <4>1, <4>2, <5>1, <5>2 DEF Left
        <4>3. QED
          BY <3>1, <4>2
      <3>4. QED
        BY <1>3, <3>2, <3>3
    <2>5. CASE p.steps # <<>>
      <3>1. r = p /\ r.pc = "apply" /\ Kind(r) = Kind(q)
        BY <1>6, <1>7, <2>5
      <3>2. Past(r) = Past(q) /\ ReadBy(r) = ReadBy(q)
        BY <1>5, <1>6, <3>1 DEF Past, ReadBy
      <3>3. Write \notin Els(r.steps)
        <4>1. CASE WritesItem(q)
          BY <1>6, <3>1, <4>1 DEF WritesItem
        <4>2. ASSUME NEW e, Retires(q, e)
              PROVE Write \notin Els(r.steps)
          BY <1>6, <3>1, <4>2 DEF Retires
        <4>3. QED
          BY <1>3, <4>1, <4>2
      <3>4. \A k \in ItemKinds : Ahead(r, k) => Ahead(q, k) /\ k # Kind(q)
        BY <1>5, <1>6, <3>1, <3>2 DEF Ahead, WasRead
      <3>5. \A k \in ItemKinds : Ahead(r, k) => target'[k] \subseteq r.snapshot[k]
        BY <1>6, <1>11, <2>1, <3>4 DEF Knows
      <3>6. ~SomeHalfway' /\ Ahead(r, "endpoint") => Single(r)
        BY <1>6, <1>9, <2>1, <3>4 DEF Knows, Single
      <3>7. ~SomeHalfway' /\ Replacing(r) => \A e, f \in Left(r, target') : e = f
        BY <2>4, <3>1 DEF Left, Replacing
      <3>8. "endpoint" \notin Past(r) => r.report["endpoint"] # "failed"
        BY <1>6, <2>1, <3>2 DEF Knows
      <3>9. Knows(r, target', SomeHalfway')
        BY <3>3, <3>5, <3>6, <3>7, <3>8 DEF Knows
      <3>10. SomeHalfway' \/ OneEndpoint(target') \/ Replacing(r)
        <4>1. CASE Kind(q) = "endpoint"
          BY <3>1, <4>1 DEF Replacing
        <4>2. CASE Kind(q) # "endpoint"
          BY <1>1, <1>6, <1>9, <1>11, <2>1, <2>2, <4>2 DEF Replacing, OneEndpoint
        <4>3. QED
          BY <4>1, <4>2
      <3>11. QED
        BY <2>3, <3>9, <3>10
    <2>6. CASE p.steps = <<>>
      <3>1. SomeHalfway' \/ OneEndpoint(target')
        <4>1. CASE Kind(q) = "endpoint"
          BY <1>7, <2>4, <2>6, <4>1 DEF OneEndpoint
        <4>2. CASE Kind(q) # "endpoint"
          BY <1>1, <1>6, <1>9, <1>11, <2>1, <2>2, <4>2 DEF Replacing, OneEndpoint
        <4>3. QED
          BY <4>1, <4>2
      <3>2. Knows(r, target', SomeHalfway')
        <4>1. \A k \in ItemKinds : k # Kind(q) => r.report[k] = q.report[k] /\ target'[k] = target[k]
          BY <1>6, <1>11
        <4>2. q.pc \in {"plan", "apply"} /\ Knows(q, target, SomeHalfway) /\ (SomeHalfway => SomeHalfway')
          BY <1>5, <1>9, <2>1
        <4>3. QED
          BY <1>1, <1>6, <1>7, <2>6, <4>1, <4>2, LeavesKnown
      <3>3. QED
        BY <2>3, <3>1, <3>2
    <2>7. QED
      BY <2>5, <2>6
  <1>13. QED
    BY <1>1, <1>2, <1>4, <1>5, <1>10, <1>12, TurnMoves

LEMMA TurnsInit == TransferInit => TurnsInv
  <1> SUFFICES ASSUME TransferInit PROVE TurnsInv
    OBVIOUS
  <1>1. \A i \in Imports : imports[i] = IdleImport
    BY DEF TransferInit
  <1>2. IdleImport.pc = "idle" /\ IdleImport.report["endpoint"] = NoItem /\ ~Going(IdleImport)
    BY Orders DEF IdleImport, Going
  <1>3. \A k \in ItemKinds : \A e, f \in target[k] : e = f
    <2>1. \A k \in ItemKinds : target[k] = {} \/ target[k] = {[id |-> 0, content |-> Present]}
      BY DEF TransferInit
    <2>2. QED
      BY <2>1
  <1>4. crossed = FALSE /\ OneEndpoint(target) /\ Apart(target, SomeHalfway)
    BY <1>3, Orders DEF TransferInit, OneEndpoint, Apart
  <1>5. QED
    BY <1>1, <1>2, <1>4, TransferAssumption DEF TurnsInv

LEMMA TurnsNext == KeepInv /\ TurnsInv /\ [TransferNext]_transferVars => TurnsInv'
  <1> SUFFICES ASSUME KeepInv, TurnsInv, [TransferNext]_transferVars PROVE TurnsInv'
    OBVIOUS
  <1>1. CASE UNCHANGED transferVars
    BY <1>1 DEF transferVars, TurnsInv, SomeHalfway
  <1>2. CASE TransferNext
    BY <1>2, OperatorTurns, BeginTurns, ReadTurns, PlanTurns, ApplyTurns, FailTurns, StopTurns DEF TransferNext
  <1>3. QED
    BY <1>1, <1>2

\* While imports take turns, however many items fail, wherever an import stops and whatever the operator
\* disables, no import creates what is there, except an endpoint whose replacement ended halfway
\* (configuration/transfer.ts, importConfiguration: each import compares the items with what it has read).
THEOREM NothingTwiceAlways == TransferSpec => []NothingTwice
  <1>1. ASSUME KeepInv, TurnsInv
        PROVE NothingTwice
    <2>1. \A i \in Imports : HalfwayOf(imports[i]) => Halfway(i)
      BY DEF HalfwayOf, Halfway, Item, Kind
    <2>2. SomeHalfway => \E i \in Imports : Halfway(i)
      BY <2>1 DEF SomeHalfway
    <2>3. QED
      BY <1>1, <2>2 DEF TurnsInv, Apart, NothingTwice
  <1>2. TransferInit => KeepInv /\ TurnsInv
    BY KeepInit, TurnsInit
  <1>3. KeepInv /\ TurnsInv /\ [TransferNext]_transferVars => KeepInv' /\ TurnsInv'
    BY KeepNext, TurnsNext
  <1>4. QED
    BY <1>1, <1>2, <1>3, PTL DEF TransferSpec

=============================================================================
