---------------------------- MODULE Configuration ---------------------------
(***************************************************************************)
(* ConfigurationService (src/configuration/service.ts) with its store      *)
(* (storage.ts), the custody tools of the gateway and the value-free       *)
(* metadata of stored credentials (src/storage/secrets.ts), in one tenant, *)
(* application and environment.                                            *)
(*                                                                         *)
(* A call is one operation of a client, cut at its awaits.  Variables and  *)
(* credential bindings share one space of names.  The value of a variable, *)
(* the required flag and the format of inputs are left out; the content of *)
(* a binding is its credential reference.  A record has the id of the call *)
(* that inserts it.                                                        *)
(***************************************************************************)
EXTENDS Naturals, FiniteSets

CONSTANTS
  Calls,      \* operations of clients
  Names,      \* configuration names
  Refs,       \* credential references
  Writable,   \* the references the host's custody can store
  Initial,    \* the id of the record that may exist at the start
  None,       \* an absent name, reference or id
  MaxFaults   \* bound: calls of the store or of custody that fail

ASSUME ConfigurationAssumption ==
  /\ Writable \subseteq Refs /\ Initial \notin Calls
  /\ None \notin Names \union Refs \union Calls \union {Initial}
  /\ MaxFaults \in Nat

Kinds == {"variable", "secret"}
Ids == Calls \union {Initial}

VARIABLES
  records,    \* kind -> id -> record of ConfigurationVariables, ConfigurationSecrets
  custody,    \* reference -> version of the value the host keeps, 0 for none
  secrets,    \* id -> row of Secrets
  versions,   \* rows of SecretVersions
  call,
  faults,
  written,    \* history: kind -> id -> updates of the record that were acknowledged
  raced,      \* history: names two calls were creating at the same time
  settled     \* history: references whose last value was recorded by a call that met no other

vars == <<records, custody, secrets, versions, call, faults, written, raced, settled>>

Record == [exists : BOOLEAN, name : Names \union {None}, ref : Refs \union {None}, version : Nat]
Absent == [exists |-> FALSE, name |-> None, ref |-> None, version |-> 0]

Call ==
  [op : {"none", "create", "update", "delete", "store"}, kind : Kinds,
   name : Names \union {None}, ref : Refs \union {None},
   pc : {"new", "authorize", "own", "other", "insert", "read", "save", "remove", "permit", "keep",
         "find", "note", "list", "retire", "version", "audit", "ok", "denied", "expired", "error"},
   id : Ids \union {None}, version : Nat,   \* the record it has read
   bind : BOOLEAN,                          \* credential.store has a binding to write
   kept : Nat, row : Calls \union {None},   \* the version custody gave, the row of Secrets
   olds : SUBSET Calls,                     \* the versions it has found active
   alone : BOOLEAN]                         \* history: no other call recorded a value of ref meanwhile

NoCall ==
  [op |-> "none", kind |-> "variable", name |-> None, ref |-> None, pc |-> "new", id |-> None,
   version |-> 0, bind |-> FALSE, kept |-> 0, row |-> None, olds |-> {}, alone |-> TRUE]

TypeOK ==
  /\ records \in [Kinds -> [Ids -> Record]]
  /\ custody \in [Refs -> Nat]
  /\ secrets \in [Calls -> [ref : Refs \union {None}, current : Nat]]
  /\ versions \subseteq [id : Calls, row : Calls, version : Nat \ {0}, status : {"active", "retired"}]
  /\ call \in [Calls -> Call]
  /\ faults \in 0..MaxFaults
  /\ written \in [Kinds -> [Ids -> Nat]]
  /\ raced \subseteq Names
  /\ settled \subseteq Refs

\* An environment with nothing configured, or with one variable or one binding.
Init ==
  /\ \E kind \in Kinds \union {None}, n \in Names, r \in Refs :
       records = [k \in Kinds |-> [i \in Ids |-> IF k = kind /\ i = Initial
         THEN [exists |-> TRUE, name |-> n, ref |-> IF k = "secret" THEN r ELSE None, version |-> 1]
         ELSE Absent]]
  /\ custody = [r \in Refs |-> 0]
  /\ secrets = [c \in Calls |-> [ref |-> None, current |-> 0]]
  /\ versions = {}
  /\ call = [c \in Calls |-> NoCall]
  /\ faults = 0
  /\ written = [k \in Kinds |-> [i \in Ids |-> 0]]
  /\ raced = {} /\ settled = {}

-----------------------------------------------------------------------------
(* The start of a call *)

stored == <<records, custody, secrets, versions>>
history == <<written, raced, settled>>

Goto(c, pc) == call' = [call EXCEPT ![c].pc = pc]

\* getVariable and getSecret return the first of the records with the name, whichever that is.
Named(kind, name) == {i \in Ids : records[kind][i].exists /\ records[kind][i].name = name}

Other(kind) == IF kind = "variable" THEN "secret" ELSE "variable"

Inputs ==
  [op : {"create", "update"}, kind : {"variable"}, name : Names, ref : {None}]
    \union [op : {"create", "update"}, kind : {"secret"}, name : Names, ref : Refs]
    \union [op : {"delete"}, kind : Kinds, name : Names, ref : {None}]
    \union [op : {"store"}, kind : {"secret"}, name : Names \union {None}, ref : Refs]

Start(c) ==
  /\ call[c].pc = "new"
  /\ \E i \in Inputs :
       call' = [call EXCEPT ![c] = [NoCall EXCEPT !.op = i.op, !.kind = i.kind, !.name = i.name,
                                                  !.ref = i.ref, !.pc = "authorize"]]
  /\ UNCHANGED <<stored, faults, history>>

\* The first read of the effect: create looks for a record of its own kind, storeCredential for
\* a variable of the name (when it binds one), update and delete for the record to change.
FirstRead(c) ==
  CASE call[c].op = "create" -> "own"
    [] call[c].op = "store" -> IF call[c].name = None THEN "keep" ELSE "other"
    [] OTHER -> "read"

Authorize(c) ==
  /\ call[c].pc = "authorize"
  /\ Goto(c, FirstRead(c)) \/ Goto(c, "denied")
  /\ UNCHANGED <<stored, faults, history>>

\* A read or a write of the store, or custody, throws: the call ends, what it wrote stays.
Throw(c) ==
  /\ call[c].pc \notin {"new", "authorize", "permit", "ok", "denied", "expired", "error"}
  /\ faults < MaxFaults /\ faults' = faults + 1
  /\ Goto(c, "error")
  /\ UNCHANGED <<stored, history>>

-----------------------------------------------------------------------------
(* Reads *)

\* createVariable, createSecret: a record of the same kind with the name.
CheckOwn(c) ==
  /\ call[c].pc = "own"
  /\ Goto(c, IF Named(call[c].kind, call[c].name) = {} THEN "other" ELSE "error")
  /\ UNCHANGED <<stored, faults, history>>

\* A record of the other kind with the name; storeCredential goes on to read its binding.
CheckOther(c) ==
  /\ call[c].pc = "other"
  /\ Goto(c, IF Named(Other(call[c].kind), call[c].name) # {} THEN "error"
             ELSE IF call[c].op = "create" THEN "insert" ELSE "read")
  /\ UNCHANGED <<stored, faults, history>>

\* What storeCredential does after reading its binding: a new binding (attach) or one that
\* points elsewhere (rotate) is authorized before the value reaches custody.
BindingStep(c, found) ==
  IF found # None /\ records["secret"][found].ref = call[c].ref THEN "keep" ELSE "permit"

\* update, delete and storeCredential read the record of their kind.
Read(c) ==
  /\ call[c].pc = "read"
  /\ LET k == call[c].kind
         name == call[c].name
     IN \/ \E i \in Named(k, name) :
             call' = [call EXCEPT ![c].id = i, ![c].version = records[k][i].version,
               ![c].pc = CASE call[c].op = "update" -> "save" [] call[c].op = "delete" -> "remove"
                           [] OTHER -> BindingStep(c, i)]
        \/ /\ Named(k, name) = {}
           /\ Goto(c, CASE call[c].op = "update" -> "error" [] call[c].op = "delete" -> "ok"
                        [] OTHER -> BindingStep(c, None))
  /\ UNCHANGED <<stored, faults, history>>

\* credential.attach or credential.rotate, inside the effect of credential.store.
Permit(c) ==
  /\ call[c].pc = "permit"
  /\ \/ call' = [call EXCEPT ![c].pc = "keep", ![c].bind = TRUE]
     \/ Goto(c, "denied")
  /\ UNCHANGED <<stored, faults, history>>

-----------------------------------------------------------------------------
(* Writes of configuration *)

\* The calls that have found the name free, and have yet to insert it.
Creating(name) ==
  {c \in Calls : call[c].name = name /\ call[c].id = None
                 /\ \/ call[c].op = "create" /\ call[c].pc \in {"other", "insert"}
                    \/ call[c].op = "store" /\ call[c].pc \in {"read", "permit", "keep", "find", "note",
                                                              "list", "retire", "version", "insert"}}

\* saveVariable, saveSecret of a new record: an insert, whatever the name.
Insert(c) ==
  /\ call[c].pc = "insert"
  /\ records' = [records EXCEPT ![call[c].kind][c] =
       [exists |-> TRUE, name |-> call[c].name, ref |-> call[c].ref, version |-> 1]]
  /\ raced' = IF Creating(call[c].name) # {c} THEN raced \union {call[c].name} ELSE raced
  /\ Goto(c, "audit")
  /\ UNCHANGED <<custody, secrets, versions, faults, written, settled>>

VersionMatches(c) == LET r == records[call[c].kind][call[c].id] IN r.exists /\ r.version = call[c].version

\* updateVariable, rotateSecret and bind: the record as it was read, with the next version.
Save(c) ==
  /\ call[c].pc = "save"
  /\ LET k == call[c].kind
         i == call[c].id
     IN IF VersionMatches(c)
        THEN /\ records' = [records EXCEPT ![k][i] =
                  [exists |-> TRUE, name |-> call[c].name, ref |-> call[c].ref, version |-> call[c].version + 1]]
             /\ written' = [written EXCEPT ![k][i] = @ + 1]
             /\ Goto(c, "audit")
        ELSE Goto(c, "error") /\ UNCHANGED <<records, written>>
  /\ UNCHANGED <<custody, secrets, versions, faults, raced, settled>>

\* deleteVariable, deleteSecret: by id, whatever its version.
RemoveRecord(c) ==
  /\ call[c].pc = "remove"
  /\ records' = [records EXCEPT ![call[c].kind][call[c].id] = Absent]
  /\ Goto(c, "audit")
  /\ UNCHANGED <<custody, secrets, versions, faults, history>>

-----------------------------------------------------------------------------
(* Custody and its metadata *)

Recording(ref) == {c \in Calls : call[c].ref = ref /\ call[c].pc \in {"find", "note", "list", "retire", "version"}}

\* c becomes new; the calls that record a value of ref are no longer alone.
Met(ref, c, new) ==
  [d \in Calls |-> IF d = c THEN new ELSE IF d \in Recording(ref) THEN [call[d] EXCEPT !.alone = FALSE] ELSE call[d]]

\* The version custody answers with is the one it has just assigned.
Answer(r) == custody[r] + 1

\* gateway.storeCredential: custody keeps the next version, says it cannot write it, or refuses
\* before it stores anything.  The context of the call is asserted first, and may have expired.
Keep(c) ==
  /\ call[c].pc = "keep"
  /\ LET r == call[c].ref
     IN \/ /\ r \in Writable
           /\ custody' = [custody EXCEPT ![r] = @ + 1]
           /\ call' = Met(r, c, [call[c] EXCEPT !.pc = "find", !.kept = Answer(r), !.alone = Recording(r) = {}])
           /\ settled' = settled \ {r}
        \/ r \notin Writable /\ Goto(c, "error") /\ UNCHANGED <<custody, settled>>
        \/ (Goto(c, "denied") \/ Goto(c, "expired")) /\ UNCHANGED <<custody, settled>>
  /\ UNCHANGED <<records, secrets, versions, faults, written, raced>>

\* Custody keeps the value, but its answer is lost or is not a version.
KeepUnanswered(c) ==
  /\ call[c].pc = "keep" /\ call[c].ref \in Writable
  /\ faults < MaxFaults /\ faults' = faults + 1
  /\ custody' = [custody EXCEPT ![call[c].ref] = @ + 1]
  /\ settled' = settled \ {call[c].ref}
  /\ call' = Met(call[c].ref, c, [call[c] EXCEPT !.pc = "error"])
  /\ UNCHANGED <<records, secrets, versions, written, raced>>

\* recordStored: the row of the reference.
Find(c) ==
  /\ call[c].pc = "find"
  /\ LET rows == {d \in Calls : secrets[d].ref = call[c].ref}
     IN \/ \E d \in rows : call' = [call EXCEPT ![c].pc = "note", ![c].row = d]
        \/ rows = {} /\ Goto(c, "note")
  /\ UNCHANGED <<stored, faults, history>>

\* recordStored: the row is updated, with no version to match, or inserted.
Note(c) ==
  /\ call[c].pc = "note"
  /\ LET new == call[c].row = None
         row == IF new THEN c ELSE call[c].row
     IN /\ secrets' = [secrets EXCEPT ![row] = [ref |-> call[c].ref, current |-> call[c].kept]]
        /\ call' = [call EXCEPT ![c].row = row, ![c].pc = IF new THEN "version" ELSE "list"]
  /\ UNCHANGED <<records, custody, versions, faults, history>>

NoneActive(row) == {}   \* mutant of Active

Active(row) == {v.id : v \in {u \in versions : u.row = row /\ u.status = "active"}}

ListActive(c) ==
  /\ call[c].pc = "list"
  /\ call' = [call EXCEPT ![c].olds = Active(call[c].row), ![c].pc = "retire"]
  /\ UNCHANGED <<stored, faults, history>>

\* recordStored: the versions found active are retired one by one.
Retire(c) ==
  /\ call[c].pc = "retire"
  /\ \/ \E d \in call[c].olds :
          /\ versions' = {IF v.id = d THEN [v EXCEPT !.status = "retired"] ELSE v : v \in versions}
          /\ call' = [call EXCEPT ![c].olds = @ \ {d}]
     \/ call[c].olds = {} /\ Goto(c, "version") /\ UNCHANGED versions
  /\ UNCHANGED <<records, custody, secrets, faults, history>>

\* After the metadata, storeCredential writes the binding under the context it got before custody:
\* contexts live for CONTEXT_TTL_MS, custody and the metadata have no timeout, and gateway.run
\* denies a context that has expired.
AfterRecording(c) ==
  IF call[c].bind THEN {IF call[c].id = None THEN "insert" ELSE "save", "expired"} ELSE {"audit"}

\* recordStored: the row of the version.
InsertVersion(c) ==
  /\ call[c].pc = "version"
  /\ versions' = versions \union {[id |-> c, row |-> call[c].row, version |-> call[c].kept, status |-> "active"]}
  /\ settled' = IF call[c].alone THEN settled \union {call[c].ref} ELSE settled
  /\ \E next \in AfterRecording(c) : Goto(c, next)
  /\ UNCHANGED <<records, custody, secrets, faults, written, raced>>

\* The audit event follows the write.
Audit(c) ==
  /\ call[c].pc = "audit"
  /\ Goto(c, "ok")
  /\ UNCHANGED <<stored, faults, history>>

Step(c) ==
  \/ Start(c) \/ Authorize(c) \/ CheckOwn(c) \/ CheckOther(c) \/ Read(c) \/ Permit(c)
  \/ Insert(c) \/ Save(c) \/ RemoveRecord(c) \/ Audit(c)
  \/ Keep(c) \/ KeepUnanswered(c) \/ Find(c) \/ Note(c) \/ ListActive(c) \/ Retire(c) \/ InsertVersion(c)
  \/ Throw(c)

Next == \E c \in Calls : Step(c)

Spec == Init /\ [][Next]_vars

-----------------------------------------------------------------------------
(* Properties *)

\* Two updates based on the same version are never both acknowledged: the version of a variable or
\* a binding counts every update written to it (updateIfVersion of saveVariable and saveSecret).
NoLostUpdate ==
  \A k \in Kinds : \A i \in Ids : records[k][i].exists => records[k][i].version = 1 + written[k][i]

\* The caller is told DENIED: by the authority, by custody, or because a context has expired.
Denied(c) == call[c].pc \in {"denied", "expired"}

\* What a denied call left in custody had been permitted, with the change of its binding, and is
\* recorded in the metadata: no refusal of the authority or of custody comes after the value is
\* stored, only the expiry of the binding's context does (storeCredential, gateway.run).
DeniedWasPermitted ==
  \A c \in Calls : Denied(c) /\ call[c].kept # 0 =>
    call[c].bind /\ \E v \in versions : v.id = c /\ v.version = call[c].kept

\* A name means one thing, a variable or a binding, unless two calls were creating it at the same
\* time: the checks of createVariable, createSecret and storeCredential leave no other gap.
UniqueUnlessRaced ==
  \A n \in Names \ raced : Cardinality(Named("variable", n)) + Cardinality(Named("secret", n)) <= 1

\* After a credential.store that met no other of its reference, whatever failed before it, some row
\* of Secrets has the version custody holds and that version alone is active.
MetadataFollowsCustody ==
  \A r \in settled : \E row \in Calls :
    /\ secrets[row] = [ref |-> r, current |-> custody[r]]
    /\ \A v \in versions : v.row = row => (v.status = "active" <=> v.version = custody[r])

\* A variable or binding that was deleted does not come back: only the call that creates a record
\* makes it exist, a late update of a deleted record is refused.
DeletedStaysDeleted ==
  \A k \in Kinds : \A i \in Ids :
       records'[k][i].exists /\ ~records[k][i].exists => i \in Calls /\ call[i].pc = "insert"

\* The configuration and the metadata of its credentials survive overlapping calls, denials and
\* failures between their writes.
ConfigurationSound ==
  TypeOK /\ NoLostUpdate /\ DeniedWasPermitted /\ UniqueUnlessRaced /\ MetadataFollowsCustody
=============================================================================
