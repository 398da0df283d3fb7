-------------------------------- MODULE Files --------------------------------
(***************************************************************************)
(* File metadata records: FileService (src/src/files/service.ts) over      *)
(* FeltDbFileStore (src/src/storage/files.ts).  A call is cut at each of   *)
(* its awaits; other calls, of this process or of another one, run in      *)
(* between.  A record keeps the version FeltDB compares when it writes; a  *)
(* deleted record stays in the collection with deletedAt set.  The names   *)
(* carry the prefix "file" so that the small services can be extended      *)
(* together.                                                               *)
(***************************************************************************)
EXTENDS Naturals

CONSTANTS FileIds,        \* record identifiers (randomUUID)
          FileCalls,      \* calls of the service
          FileFields,     \* the mutable metadata fields
          FileValues      \* what a field can hold

ASSUME FilesAssumption == FileIds # {} /\ FileValues # {}

VARIABLES files,          \* the collection: identifier -> record or NoFile
          fileCalls,      \* the calls in progress and their answers
          fileIntent      \* history: the fields each record should hold

fileVars == <<files, fileCalls, fileIntent>>

NoFile == [version |-> 0]
NoChange == [f \in {} |-> 0]

FileData == [FileFields -> FileValues]
FileChanges == UNION {[s -> FileValues] : s \in (SUBSET FileFields) \ {{}}}

\* mutableFields: the fields given replace the stored ones, the others stay.
FileApplied(changes, data) == [f \in FileFields |-> IF f \in DOMAIN changes THEN changes[f] ELSE data[f]]

FileMerged(record, changes) == [record EXCEPT !.data = FileApplied(changes, @)]

FileExists(f) == files[f] # NoFile

\* get, update and delete treat these records as not found.
FileHidden(record) == record = NoFile \/ record.deleted \/ ~record.owned

IdleFileCall == [op |-> "none", pc |-> "idle", id |-> CHOOSE f \in FileIds : TRUE,
                 changes |-> NoChange, seen |-> NoFile, next |-> NoFile]

FileInit ==
    /\ files \in [FileIds -> {NoFile} \union
                    [version : {1}, owned : {FALSE}, deleted : {FALSE}, data : {CHOOSE d \in FileData : TRUE}]]
    /\ fileCalls = [c \in FileCalls |-> IdleFileCall]
    /\ fileIntent = [f \in FileIds |-> IF files[f] = NoFile THEN NoChange ELSE files[f].data]

FileGoto(c, pc) == fileCalls' = [fileCalls EXCEPT ![c].pc = pc]

\* The principal, the tenant and the input are valid: anything else throws
\* before the first await.
FileStart(c) ==
    /\ fileCalls[c].pc = "idle"
    /\ \E f \in FileIds, op \in {"create", "get", "update", "delete"},
          ch \in FileChanges \union {NoChange} :
        /\ op = "create" <=> ~FileExists(f)
        /\ (op = "create") => (DOMAIN ch = FileFields /\ \A d \in FileCalls :
                                  fileCalls[d].op # "create" \/ fileCalls[d].id # f)
        /\ (op = "update") => ch # NoChange
        /\ (op \in {"get", "delete"}) => ch = NoChange
        /\ fileCalls' = [fileCalls EXCEPT ![c] =
              [IdleFileCall EXCEPT !.op = op, !.id = f, !.changes = ch,
                                   !.pc = IF op = "create" THEN "authorize" ELSE "read"]]
    /\ UNCHANGED <<files, fileIntent>>

\* A record that is not there ends the call: get and update throw
\* FileNotFoundError, delete returns as if it had deleted it.
FileRead(c) ==
    LET call == fileCalls[c]
        found == files[call.id]
    IN  /\ call.pc = "read"
        /\ fileCalls' = [fileCalls EXCEPT ![c].seen = found, ![c].pc =
              IF ~FileHidden(found) THEN "authorize"
              ELSE IF call.op = "delete" THEN "answered" ELSE "failed"]
        /\ UNCHANGED <<files, fileIntent>>

\* gateway.execute: a denial or an unreachable authority throws; get answers
\* with the record it read before asking.
FileAuthorize(c) ==
    /\ fileCalls[c].pc = "authorize"
    /\ \/ FileGoto(c, "failed")
       \/ FileGoto(c, CASE fileCalls[c].op = "create" -> "insert"
                        [] fileCalls[c].op = "get" -> "answered"
                        [] OTHER -> "reread")
    /\ UNCHANGED <<files, fileIntent>>

FileInserted(c) == [version |-> 1, owned |-> TRUE, deleted |-> FALSE, data |-> fileCalls[c].changes]

FileInsert(c) ==
    LET f == fileCalls[c].id
    IN  /\ fileCalls[c].pc = "insert"
        /\ files' = [files EXCEPT ![f] = FileInserted(c)]
        /\ fileIntent' = [fileIntent EXCEPT ![f] = fileCalls[c].changes]
        /\ FileGoto(c, "audit")

\* FeltDbFileStore.update reads the record again to merge the changes into it.
FileReread(c) ==
    LET call == fileCalls[c]
        current == files[call.id]
    IN  /\ call.pc = "reread"
        /\ fileCalls' = [fileCalls EXCEPT ![c].pc = "write", ![c].next =
              IF call.op = "delete" THEN [current EXCEPT !.deleted = TRUE]
                                    ELSE FileMerged(current, call.changes)]
        /\ UNCHANGED <<files, fileIntent>>

\* Mutant: the write is unconditional.
FileWriteAnyway(call) == TRUE

FileVersionMatches(call) == files[call.id].version = call.seen.version

\* update returns null: FileValidationError 'File was modified concurrently'.
FileConflict == "failed"

\* updateIfVersion with the version read before the authority was asked.
FileWrite(c) ==
    LET call == fileCalls[c]
        f == call.id
    IN  /\ call.pc = "write"
        /\ IF FileVersionMatches(call)
           THEN /\ files' = [files EXCEPT ![f] = [call.next EXCEPT !.version = files[f].version + 1]]
                /\ fileIntent' = [fileIntent EXCEPT ![f] = FileApplied(call.changes, @)]
                /\ FileGoto(c, "audit")
           ELSE /\ FileGoto(c, FileConflict)
                /\ UNCHANGED <<files, fileIntent>>

\* The audit event is written last; when it fails the caller sees a failure
\* although the record was written.
FileAudit(c) ==
    /\ fileCalls[c].pc = "audit"
    /\ FileGoto(c, "answered") \/ FileGoto(c, "failed")
    /\ UNCHANGED <<files, fileIntent>>

FileNext == \E c \in FileCalls : FileStart(c) \/ FileRead(c) \/ FileAuthorize(c) \/ FileInsert(c)
                                   \/ FileReread(c) \/ FileWrite(c) \/ FileAudit(c)

FileSpec == FileInit /\ [][FileNext]_fileVars

-----------------------------------------------------------------------------
FileRecord == {NoFile} \union [version : Nat \ {0}, owned : BOOLEAN, deleted : BOOLEAN, data : FileData]

\* Every record and every copy a call holds is a complete file record: a
\* partial update never leaves a field out (mutableFields, store.update).
FileTypeOK ==
    /\ files \in [FileIds -> FileRecord]
    /\ \A c \in FileCalls : /\ fileCalls[c].seen \in FileRecord
                            /\ fileCalls[c].next \in FileRecord
                            /\ fileCalls[c].pc \in {"idle", "read", "authorize", "insert", "reread",
                                                    "write", "audit", "answered", "failed"}

\* A record holds exactly what the applied updates, one after the other, gave
\* its fields: no update, however calls overlap, undoes one to another field.
FileNothingLost == \A f \in FileIds : FileExists(f) => files[f].data = fileIntent[f]

\* A caller told that its file was deleted never sees it again, whoever else
\* was updating it, and no file of another application is deleted for it.
FileDeleteAnswered == \A c \in FileCalls :
    (fileCalls[c].op = "delete" /\ fileCalls[c].pc = "answered") => FileHidden(files[fileCalls[c].id])

\* Nothing writes a deleted record, or a record of another application.
FileHiddenUntouched == \A f \in FileIds :
    (FileExists(f) /\ FileHidden(files[f])) => files'[f] = files[f]

\* File records survive overlapping calls: complete, with every update, and
\* hidden from whoever was told that they are gone.
FilesSound == FileTypeOK /\ FileNothingLost /\ FileDeleteAnswered
=============================================================================
