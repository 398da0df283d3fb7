-------------------------------- MODULE Host ---------------------------------
(***************************************************************************)
(* `serve`: the standalone management host (runtime/management-host.ts)    *)
(* under the command line that starts it, waits for a signal and closes it *)
(* (cli.ts).  The host's own signal handlers close it as well, connections *)
(* are kept alive between requests, and a client may go away in the middle *)
(* of one.                                                                 *)
(***************************************************************************)
EXTENDS Naturals

CONSTANT Clients          \* the connections to the host

VARIABLES host,           \* the process, its server, its database and its flag `closed`
          handlers,       \* who handles each signal
          clients         \* each connection: connected, and what its request is at

hostVars == <<host, handlers, clients>>

Signals == {"SIGINT", "SIGTERM"}

HostInit ==
    /\ host = [pc |-> "down", server |-> "off", db |-> "unopened", closed |-> FALSE]
    /\ handlers = [s \in Signals |-> {}]
    /\ clients = [q \in Clients |-> [connected |-> FALSE, at |-> "none"]]

HostRuns == host.pc \notin {"down", "ended", "killed"}

\* createServices opens the database, the router is mounted, the server is
\* asked to listen.
StartHost ==
    /\ host.pc = "down"
    /\ host' = [host EXCEPT !.pc = "starting", !.db = "open"]
    /\ UNCHANGED <<handlers, clients>>

\* The host installs its handlers, then serve its own.
HostListens ==
    /\ host.pc = "starting"
    /\ host' = [host EXCEPT !.pc = "serving", !.server = "open"]
    /\ handlers' = [s \in Signals |-> {"host", "serve"}]
    /\ UNCHANGED clients

\* The port is taken, or may not be bound: serve throws.
ListenFails ==
    /\ host.pc = "starting"
    /\ host' = [host EXCEPT !.pc = "threw"]
    /\ UNCHANGED <<handlers, clients>>

\* runtime.close() until its first await.
BeginClose(h) == [h EXCEPT !.closed = TRUE, !.server = "closing"]

\* closeIdleConnections.
WithoutIdle == [q \in Clients |-> IF clients[q].at = "idle" THEN [clients[q] EXCEPT !.connected = FALSE, !.at = "none"] ELSE clients[q]]

\* A signal.  The handlers are `once`; the host's are removed for both signals
\* by close(), so a signal that comes again kills the process.
Signal(s) ==
    /\ HostRuns
    /\ IF handlers[s] = {}
       THEN /\ host' = [host EXCEPT !.pc = "killed"]
            /\ UNCHANGED <<handlers, clients>>
       ELSE /\ handlers' = [t \in Signals |-> IF t = s THEN {} ELSE handlers[t] \ {"host"}]
            /\ IF "host" \in handlers[s]
               THEN host' = [BeginClose(host) EXCEPT !.pc = "stopping"] /\ clients' = WithoutIdle
               ELSE UNCHANGED <<host, clients>>

\* serve closes the runtime as well: it is closed already, so close() returns
\* although the connections are not drained, and serve returns 0.
ServeReturns ==
    /\ host.pc = "stopping" /\ host.closed
    /\ host' = [host EXCEPT !.pc = "returned"]
    /\ UNCHANGED <<handlers, clients>>

\* server.close calls back once the last connection is gone.
Drained ==
    /\ host.server = "closing" /\ HostRuns
    /\ \A q \in Clients : ~clients[q].connected
    /\ host' = [host EXCEPT !.server = "closed"]
    /\ UNCHANGED <<handlers, clients>>

CloseServices ==
    /\ host.server = "closed" /\ host.db = "open" /\ HostRuns
    /\ host' = [host EXCEPT !.db = "closed"]
    /\ UNCHANGED <<handlers, clients>>

\* Mutant: the process ends as soon as serve has returned.
EndsAtOnce == TRUE
\* The entry point sets the exit code only: the process ends when nothing is
\* left to wait for.
EndsWhen ==
    /\ host.server \in {"off", "closed"}
    /\ host.server = "closed" => host.db = "closed"
    /\ \A q \in Clients : clients[q].at \notin {"authenticate", "work"}

ProcessEnds ==
    /\ host.pc \in {"returned", "threw"}
    /\ EndsWhen
    /\ host' = [host EXCEPT !.pc = "ended"]
    /\ UNCHANGED <<handlers, clients>>

(***************************************************************************)
(* Requests                                                                *)
(***************************************************************************)
Request(q) ==
    /\ HostRuns
    /\ \/ host.server = "open" /\ clients[q].at = "none"
       \/ clients[q].connected /\ clients[q].at = "idle"
    /\ clients' = [clients EXCEPT ![q] = [connected |-> TRUE, at |-> "authenticate"]]
    /\ UNCHANGED <<host, handlers>>

\* A valid API key, or else whoever the operator adapter names.
HostIdentity(header, operator) == IF header = "valid key" THEN "key" ELSE operator

AfterRequest(q) == IF clients[q].connected THEN "idle" ELSE "none"

\* The router answers 401 to a request without an identity.
Authenticate(q) ==
    /\ HostRuns /\ clients[q].at = "authenticate"
    /\ \E header \in {"none", "invalid", "valid key"}, operator \in {"operator", "nobody"} :
          clients' = [clients EXCEPT ![q].at =
                        IF HostIdentity(header, operator) = "nobody" THEN AfterRequest(q) ELSE "work"]
    /\ UNCHANGED <<host, handlers>>

\* The operation is done, or fails, and is answered.
FinishRequest(q) ==
    /\ HostRuns /\ clients[q].at = "work"
    /\ clients' = [clients EXCEPT ![q].at = AfterRequest(q)]
    /\ UNCHANGED <<host, handlers>>

\* The client closes the connection, or it has been idle for too long.  A
\* request it had sent is worked on all the same.
ClientLeaves(q) ==
    /\ HostRuns /\ clients[q].connected
    /\ clients' = [clients EXCEPT ![q] = [connected |-> FALSE, at |-> IF @.at = "idle" THEN "none" ELSE @.at]]
    /\ UNCHANGED <<host, handlers>>

HostNext ==
    \/ StartHost \/ HostListens \/ ListenFails \/ ServeReturns \/ Drained \/ CloseServices \/ ProcessEnds
    \/ \E s \in Signals : Signal(s)
    \/ \E q \in Clients : Request(q) \/ Authenticate(q) \/ FinishRequest(q) \/ ClientLeaves(q)

\* The host on its own; MCServices runs it beside the other components.
HostSpec == HostInit /\ [][HostNext]_hostVars

(***************************************************************************)
(* Properties                                                              *)
(***************************************************************************)
\* "Drain connections first so an in-flight management write can finish": the
\* database is open under every request whose client still waits, although two
\* close the host and serve returns while it drains.  A request whose client
\* has gone is not waited for.
WritesFinish ==
    \A q \in Clients : (HostRuns /\ clients[q].connected /\ clients[q].at \in {"authenticate", "work"}) => host.db = "open"

\* A process that served and ended by itself, not killed by a second signal,
\* has drained its connections and closed its database, although the close()
\* that serve awaits returns at once.
EndedIsClosed ==
    (host.pc = "ended" /\ host.server # "off")
        => host.server = "closed" /\ host.db = "closed" /\ \A q \in Clients : ~clients[q].connected

\* The host stops in order, whoever closes it and whatever is in flight.
HostSound == WritesFinish /\ EndedIsClosed
=============================================================================
