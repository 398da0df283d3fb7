----------------------------- MODULE MCServices ------------------------------
(***************************************************************************)
(* The services that share no record and call one another nowhere, checked *)
(* side by side: one behaviour exercises one of them (focus), the others   *)
(* stay as they are.                                                       *)
(***************************************************************************)
EXTENDS Configuration, Transfer, Intelligence, Files, Inbound, Application, Health, Console,
        Contracts, Host, TLC

CONSTANT Fresh            \* a content the target of an import does not have

VARIABLE focus            \* the service this behaviour exercises

Services == {"configuration", "transfer", "intelligence", "files", "inbound", "application", "health", "console",
             "contracts", "host"}

libraryVars == <<vars, transferVars, intelligenceVars, fileVars, inboundVars, appVars, healthVars, consoleVars>>
operatorVars == <<contractVars, hostVars>>
servicesVars == <<libraryVars, operatorVars, focus>>

\* Two exported documents: one replaces what the target has, one adds to it.
Document(variable, secret, endpoint, schedule) ==
    [k \in ItemKinds |-> CASE k = "variable" -> variable [] k = "secret" -> secret
                           [] k = "endpoint" -> endpoint [] OTHER -> schedule]
Exports == {Document(Fresh, NoItem, NoItem, Fresh), Document(NoItem, Present, Fresh, NoItem)}

\* Only the service in focus starts in all of its initial states.
ServicesInit ==
    /\ focus \in Services
    /\ Init /\ TransferInit /\ IntelligenceInit /\ FileInit /\ InboundInit /\ AppInit /\ HealthInit /\ ConsoleInit
    /\ ContractsInit /\ HostInit
    /\ focus # "configuration" => \A k \in Kinds : records[k][Initial] = Absent
    /\ focus # "transfer" => \A k \in ItemKinds : target[k] = {}
    /\ focus # "files" => \A f \in FileIds : files[f] = NoFile
    /\ focus # "health" => \A given \in DOMAIN sources : ~sources[given]
    /\ focus # "console" => page = "jobs" /\ record = "pending"

ServicesNext ==
    \/ focus = "configuration" /\ Next
       /\ UNCHANGED <<focus, transferVars, intelligenceVars, fileVars, inboundVars, appVars, healthVars, consoleVars, operatorVars>>
    \/ focus = "transfer" /\ TransferNext
       /\ UNCHANGED <<focus, vars, intelligenceVars, fileVars, inboundVars, appVars, healthVars, consoleVars, operatorVars>>
    \/ focus = "intelligence" /\ IntelligenceNext
       /\ UNCHANGED <<focus, vars, transferVars, fileVars, inboundVars, appVars, healthVars, consoleVars, operatorVars>>
    \/ focus = "files" /\ FileNext
       /\ UNCHANGED <<focus, vars, transferVars, intelligenceVars, inboundVars, appVars, healthVars, consoleVars, operatorVars>>
    \/ focus = "inbound" /\ InboundNext
       /\ UNCHANGED <<focus, vars, transferVars, intelligenceVars, fileVars, appVars, healthVars, consoleVars, operatorVars>>
    \/ focus = "application" /\ AppNext
       /\ UNCHANGED <<focus, vars, transferVars, intelligenceVars, fileVars, inboundVars, healthVars, consoleVars, operatorVars>>
    \/ focus = "health" /\ HealthNext
       /\ UNCHANGED <<focus, vars, transferVars, intelligenceVars, fileVars, inboundVars, appVars, consoleVars, operatorVars>>
    \/ focus = "console" /\ ConsoleNext
       /\ UNCHANGED <<focus, vars, transferVars, intelligenceVars, fileVars, inboundVars, appVars, healthVars, operatorVars>>
    \/ focus = "contracts" /\ ContractsNext
       /\ UNCHANGED <<focus, libraryVars, hostVars>>
    \/ focus = "host" /\ HostNext
       /\ UNCHANGED <<focus, libraryVars, contractVars>>

ServicesSpec == ServicesInit /\ [][ServicesNext]_servicesVars

\* What comes late undoes nothing newer: no update brings a deleted variable, binding
\* or file back, no selection replaces one it has not read, and no answer that was
\* overtaken is drawn.
LateNeverUndoes ==
    [][DeletedStaysDeleted /\ FileHiddenUntouched /\ SelectionByVersion /\ NeverBackInTime]_servicesVars

\* The calls of a service are interchangeable, and no liveness is checked.
Symmetry == Permutations(Calls)
=============================================================================
