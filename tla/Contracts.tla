------------------------------ MODULE Contracts ------------------------------
(***************************************************************************)
(* The contract files of an application directory, as `init` and `config   *)
(* migrate` of the command line write them (cli.ts): several runs at once, *)
(* beside a user who writes the files, and stopped in the middle.  A       *)
(* writeFile first empties its file and then fills it.                     *)
(***************************************************************************)
EXTENDS Naturals, Sequences, FiniteSets

CONSTANTS Runs,           \* runs of the command line
          Selections      \* the sets of capabilities a contract may select

ASSUME ContractsAssumption == IsFiniteSet(Runs)

VARIABLES documents,      \* appport.toml, its backup and feltdb.flow
          original,       \* history: the contract the user wrote
          runs            \* where each run of the command line stands

contractVars == <<documents, original, runs>>

DocumentNames == {"contract", "backup", "flow"}
Text(by, selected) == [by |-> by, selected |-> selected]
NoDocument == Text("nobody", {})
Emptied == Text("emptied", {})

\* The text canonicalConfig and writeFlowContract derive from a selection.
Canonical(selected) == Text("cli", selected)

\* handleConfigMigrate, await by await.
MigrateSteps == <<<<"parse">>, <<"empty", "backup">>, <<"copy", "backup">>, <<"empty", "contract">>, <<"fill", "contract">>, <<"probe">>,
                  <<"empty", "flow">>, <<"fill", "flow">>>>
\* handleInitCommand: both files are looked for before either is created.
InitSteps == <<<<"look", "contract">>, <<"look", "flow">>, <<"create", "contract">>, <<"fill", "contract">>,
               <<"create", "flow">>, <<"fill", "flow">>>>
StepsOf(op) == IF op = "init" THEN InitSteps ELSE MigrateSteps

IdleRun == [op |-> "none", at |-> 0, selected |-> {}]

ContractsInit ==
    /\ documents = [d \in DocumentNames |-> NoDocument]
    /\ original = NoDocument
    /\ runs = [r \in Runs |-> IdleRun]

StepAt(r) == IF runs[r].at = 0 THEN <<>> ELSE StepsOf(runs[r].op)[runs[r].at]
Ended(r) == runs' = [runs EXCEPT ![r] = [IdleRun EXCEPT !.op = runs[r].op]]
Goes(r) == IF runs[r].at = Len(StepsOf(runs[r].op)) THEN Ended(r) ELSE runs' = [runs EXCEPT ![r].at = @ + 1]

\* The user writes a contract, or a flow contract, of their own.
UserWrites(d) ==
    /\ documents[d] = NoDocument /\ d # "backup" /\ original = NoDocument
    /\ \E selected \in Selections : documents' = [documents EXCEPT ![d] = Text("user", selected)]
    /\ original' = IF d = "contract" THEN documents'[d] ELSE original
    /\ UNCHANGED runs

\* `init` with the capabilities of --use or of the answers, `config migrate`.
RunInit(r) ==
    /\ runs[r] = IdleRun
    /\ \E selected \in Selections : runs' = [runs EXCEPT ![r] = [op |-> "init", at |-> 1, selected |-> selected]]
    /\ UNCHANGED <<documents, original>>

RunMigrate(r) ==
    /\ runs[r] = IdleRun
    /\ runs' = [runs EXCEPT ![r] = [op |-> "migrate", at |-> 1, selected |-> {}]]
    /\ UNCHANGED <<documents, original>>

\* assertFilesDoNotExist: a file that is there ends the command.
Look(r, d) ==
    /\ StepAt(r) = <<"look", d>>
    /\ IF documents[d] = NoDocument THEN Goes(r) ELSE Ended(r)
    /\ UNCHANGED <<documents, original>>

\* Mutant: the file is written whether or not it is there by now.
CreateAnyway(d) == TRUE
\* writeFile with the flag wx.
CanCreate(d) == documents[d] = NoDocument

CreateDocument(r, d) ==
    /\ StepAt(r) = <<"create", d>>
    /\ IF CanCreate(d)
       THEN documents' = [documents EXCEPT ![d] = Emptied] /\ Goes(r)
       ELSE Ended(r) /\ UNCHANGED documents
    /\ UNCHANGED original

\* parseAppPortConfig: every section is optional, so an empty file is a
\* contract that selects nothing.
ParseContract(r) ==
    /\ StepAt(r) = <<"parse">>
    /\ IF documents["contract"] = NoDocument THEN Ended(r)
       ELSE runs' = [runs EXCEPT ![r] = [op |-> @.op, at |-> @.at + 1, selected |-> documents["contract"].selected]]
    /\ UNCHANGED <<documents, original>>

EmptyDocument(r, d) ==
    /\ StepAt(r) = <<"empty", d>>
    /\ documents' = [documents EXCEPT ![d] = Emptied]
    /\ Goes(r)
    /\ UNCHANGED original

FillDocument(r, d) ==
    /\ StepAt(r) = <<"fill", d>>
    /\ documents' = [documents EXCEPT ![d] = Canonical(runs[r].selected)]
    /\ Goes(r)
    /\ UNCHANGED original

CopyBackup(r) ==
    /\ StepAt(r) = <<"copy", "backup">>
    /\ documents' = [documents EXCEPT !["backup"] = documents["contract"]]
    /\ Goes(r)
    /\ UNCHANGED original

\* A flow contract that is there is left alone.
Probe(r) ==
    /\ StepAt(r) = <<"probe">>
    /\ IF documents["flow"] = NoDocument THEN Goes(r) ELSE Ended(r)
    /\ UNCHANGED <<documents, original>>

\* The process is stopped between two steps.
StopRun(r) ==
    /\ runs[r].at > 0
    /\ Ended(r)
    /\ UNCHANGED <<documents, original>>

ContractsNext ==
    \/ \E d \in DocumentNames : UserWrites(d)
    \/ \E r \in Runs : \/ RunInit(r) \/ RunMigrate(r) \/ ParseContract(r) \/ CopyBackup(r) \/ Probe(r) \/ StopRun(r)
                       \/ \E d \in DocumentNames : \/ Look(r, d) \/ CreateDocument(r, d)
                                                   \/ EmptyDocument(r, d) \/ FillDocument(r, d)

ContractsSpec == ContractsInit /\ [][ContractsNext]_contractVars

(***************************************************************************)
(* Properties                                                              *)
(***************************************************************************)
\* The contract the user wrote is in appport.toml or in its backup while a
\* migration runs and wherever it is stopped.  It speaks of one migration: a
\* second one backs up what the first one left, also when that is the file it
\* had just emptied.
OriginalKept ==
    (original # NoDocument /\ Cardinality({r \in Runs : runs[r].op = "migrate"}) <= 1)
        => original \in {documents["contract"], documents["backup"]}

\* Inits that run at once, or beside a user who writes the files, never mix:
\* the contract and the flow contract are those of one selection, and what the
\* user wrote is not replaced.  init looks for both files before it creates
\* the first one, so the looking alone does not settle who creates them.
OneContract ==
    (\A r \in Runs : runs[r].op # "migrate") =>
        /\ (documents["contract"].by = "cli" /\ documents["flow"].by = "cli")
              => documents["contract"].selected = documents["flow"].selected
        /\ original # NoDocument => documents["contract"] = original

\* The contract files survive overlapping and interrupted runs.
ContractSound == OriginalKept /\ OneContract
=============================================================================
