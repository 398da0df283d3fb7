--------------------------- MODULE ServicesProofs ---------------------------
(***************************************************************************)
(* Proofs about the services that share no record, one part for each: the  *)
(* management host, for any set of connections; inbound webhooks, for any  *)
(* events, requests and clock; the application's start and close, for any  *)
(* calls; the contract files, for any finite set of runs; intelligence     *)
(* settings, for any callers; files, for any records, calls, fields and    *)
(* values; the management page, for any clicks and other writers; the      *)
(* event stream, for any clients; the health report, for any records and   *)
(* any limit.                                                              *)
(***************************************************************************)
EXTENDS Host, Inbound, Application, Contracts, Intelligence, Files, Console, Health,
        FiniteSetTheorems, WellFoundedInduction, TLAPS

-----------------------------------------------------------------------------
(* The management host: the inductive invariant *)

\* What the process, its server, its database and its connections may be.
HostTypeOK ==
    /\ host \in [pc : {"down", "starting", "serving", "stopping", "returned", "threw", "ended", "killed"},
                 server : {"off", "open", "closing", "closed"},
                 db : {"unopened", "open", "closed"},
                 closed : BOOLEAN]
    /\ handlers \in [Signals -> SUBSET {"host", "serve"}]
    /\ clients \in [Clients -> [connected : BOOLEAN, at : {"none", "authenticate", "work", "idle"}]]

\* The server is there only on an open database, which is closed after it.
DatabaseOutlives ==
    /\ host.server \in {"open", "closing"} => host.db = "open"
    /\ host.server = "off" => host.db # "closed"

\* A connection is counted only while the server is there to answer it.
ConnectedToServer ==
    \A q \in Clients : clients[q].connected => host.server \in {"open", "closing"}

\* Where the process stands: the host's own handlers are installed once it
\* listens, and gone, both of them, once it closes.
StandsAt ==
    /\ host.pc \in {"down", "starting", "threw"} => host.server = "off"
    /\ host.pc = "starting" => host.db = "open"
    /\ (\E s \in Signals : "host" \in handlers[s]) => host.server = "open" /\ host.pc = "serving"
    /\ \A s, t \in Signals : "host" \in handlers[s] => "host" \in handlers[t]
    /\ host.pc = "ended" => host.server = "off" \/ (host.server = "closed" /\ host.db = "closed")

HostInv == HostTypeOK /\ DatabaseOutlives /\ ConnectedToServer /\ StandsAt

-----------------------------------------------------------------------------
(* Steps *)

\* A process that has not been started serves nobody.
LEMMA HostInitInv == HostInit => HostInv
  BY DEF HostInit, HostInv, HostTypeOK, DatabaseOutlives, ConnectedToServer, StandsAt, Signals

\* Closing the idle connections connects nobody.
LEMMA WithoutIdleFields ==
  ASSUME HostTypeOK
  PROVE  /\ WithoutIdle \in [Clients -> [connected : BOOLEAN, at : {"none", "authenticate", "work", "idle"}]]
         /\ \A q \in Clients : WithoutIdle[q].connected => clients[q].connected
  BY DEF HostTypeOK, WithoutIdle

\* The start, up to listening or failing to, keeps the invariant.
LEMMA StartKeepsInv ==
  ASSUME HostInv, StartHost \/ HostListens \/ ListenFails
  PROVE  HostInv'
  <1>1. CASE StartHost
    BY <1>1 DEF HostInv, HostTypeOK, DatabaseOutlives, ConnectedToServer, StandsAt, StartHost, Signals
  <1>2. CASE HostListens
    BY <1>2 DEF HostInv, HostTypeOK, DatabaseOutlives, ConnectedToServer, StandsAt, HostListens, Signals
  <1>3. CASE ListenFails
    BY <1>3 DEF HostInv, HostTypeOK, DatabaseOutlives, ConnectedToServer, StandsAt, ListenFails, Signals
  <1>4. QED
    BY <1>1, <1>2, <1>3

\* A signal, whichever it is and whoever handles it, keeps the invariant.
LEMMA SignalKeepsInv ==
  ASSUME HostInv, NEW s \in Signals, Signal(s)
  PROVE  HostInv'
  <1>1. CASE handlers[s] = {}
    <2>1. host' = [host EXCEPT !.pc = "killed"] /\ UNCHANGED <<handlers, clients>>
      BY <1>1 DEF Signal
    <2>2. \A t \in Signals : "host" \notin handlers[t]
      BY <1>1 DEF HostInv, StandsAt, Signals
    <2>3. QED
      BY <2>1, <2>2 DEF HostInv, HostTypeOK, DatabaseOutlives, ConnectedToServer, StandsAt
  <1>2. CASE handlers[s] # {} /\ "host" \in handlers[s]
    <2>1. /\ handlers' = [t \in Signals |-> IF t = s THEN {} ELSE handlers[t] \ {"host"}]
          /\ host' = [BeginClose(host) EXCEPT !.pc = "stopping"]
          /\ clients' = WithoutIdle
      BY <1>2 DEF Signal
    <2>2. host.server = "open" /\ host.db = "open"
      BY <1>2 DEF HostInv, StandsAt, DatabaseOutlives
    <2>3. /\ host' = [host EXCEPT !.closed = TRUE, !.server = "closing", !.pc = "stopping"]
          /\ host'.server = "closing" /\ host'.pc = "stopping" /\ host'.db = "open"
      BY <2>1, <2>2 DEF BeginClose, HostInv, HostTypeOK
    <2>4. HostTypeOK'
      BY <2>1, <2>3, WithoutIdleFields DEF HostInv, HostTypeOK
    <2>5. ConnectedToServer'
      BY <2>3 DEF ConnectedToServer
    <2>6. \A t \in Signals : "host" \notin handlers'[t]
      BY <2>1
    <2>7. QED
      BY <2>3, <2>4, <2>5, <2>6 DEF HostInv, DatabaseOutlives, StandsAt
  <1>3. CASE handlers[s] # {} /\ "host" \notin handlers[s]
    BY <1>3 DEF HostInv, HostTypeOK, DatabaseOutlives, ConnectedToServer, StandsAt, Signal, Signals
  <1>4. QED
    BY <1>1, <1>2, <1>3

\* Closing in order keeps the invariant.
LEMMA CloseKeepsInv ==
  ASSUME HostInv, ServeReturns \/ Drained \/ CloseServices \/ ProcessEnds
  PROVE  HostInv'
  <1>1. CASE ServeReturns
    BY <1>1 DEF HostInv, HostTypeOK, DatabaseOutlives, ConnectedToServer, StandsAt, ServeReturns
  <1>2. CASE Drained
    BY <1>2 DEF HostInv, HostTypeOK, DatabaseOutlives, ConnectedToServer, StandsAt, Drained, HostRuns
  <1>3. CASE CloseServices
    BY <1>3 DEF HostInv, HostTypeOK, DatabaseOutlives, ConnectedToServer, StandsAt, CloseServices, HostRuns
  <1>4. CASE ProcessEnds
    BY <1>4 DEF HostInv, HostTypeOK, DatabaseOutlives, ConnectedToServer, StandsAt, ProcessEnds, EndsWhen
  <1>5. QED
    BY <1>1, <1>2, <1>3, <1>4

\* A client changes nothing but its own connection, and gets one only from an
\* open server.
LEMMA ClientKeepsInv ==
  ASSUME HostInv, NEW q \in Clients,
         Request(q) \/ Authenticate(q) \/ FinishRequest(q) \/ ClientLeaves(q)
  PROVE  HostInv'
  <1> DEFINE Places == {"none", "authenticate", "work", "idle"}
  <1>1. UNCHANGED <<host, handlers>>
    BY DEF Request, Authenticate, FinishRequest, ClientLeaves
  <1>2. AfterRequest(q) \in Places
    BY DEF AfterRequest
  <1>3. PICK c \in [connected : BOOLEAN, at : Places] :
          /\ clients' = [clients EXCEPT ![q] = c]
          /\ c.connected => clients[q].connected \/ host.server = "open"
    <2>1. CASE Request(q)
      BY <2>1 DEF Request, HostInv, HostTypeOK
    <2>2. CASE Authenticate(q)
      <3>1. PICK header \in {"none", "invalid", "valid key"}, operator \in {"operator", "nobody"} :
              clients' = [clients EXCEPT ![q].at =
                            IF HostIdentity(header, operator) = "nobody" THEN AfterRequest(q) ELSE "work"]
        BY <2>2 DEF Authenticate
      <3>2. PICK a \in Places : clients' = [clients EXCEPT ![q].at = a]
        BY <1>2, <3>1
      <3>3. [clients[q] EXCEPT !.at = a] \in [connected : BOOLEAN, at : Places]
            /\ [clients[q] EXCEPT !.at = a].connected = clients[q].connected
        BY <3>2 DEF HostInv, HostTypeOK
      <3>4. QED
        BY <3>2, <3>3
    <2>3. CASE FinishRequest(q)
      <3>1. PICK a \in Places : clients' = [clients EXCEPT ![q].at = a]
        BY <1>2, <2>3 DEF FinishRequest
      <3>2. [clients[q] EXCEPT !.at = a] \in [connected : BOOLEAN, at : Places]
            /\ [clients[q] EXCEPT !.at = a].connected = clients[q].connected
        BY <3>1 DEF HostInv, HostTypeOK
      <3>3. QED
        BY <3>1, <3>2
    <2>4. CASE ClientLeaves(q)
      BY <2>4 DEF ClientLeaves, HostInv, HostTypeOK
    <2>5. QED
      BY <2>1, <2>2, <2>3, <2>4
  <1>4. HostTypeOK'
    BY <1>1, <1>3 DEF HostInv, HostTypeOK
  <1>5. ConnectedToServer'
    BY <1>1, <1>3 DEF HostInv, HostTypeOK, ConnectedToServer
  <1>6. QED
    BY <1>1, <1>4, <1>5 DEF HostInv, DatabaseOutlives, StandsAt

-----------------------------------------------------------------------------
(* Theorems *)

\* The database outlives the server and the server its connections, in every
\* reachable state, for any number of connections.
THEOREM HostInvariance == HostSpec => []HostInv
  <1>1. HostInit => HostInv
    BY HostInitInv
  <1>2. HostInv /\ [HostNext]_hostVars => HostInv'
    <2> SUFFICES ASSUME HostInv, [HostNext]_hostVars
                 PROVE  HostInv'
      OBVIOUS
    <2>1. CASE StartHost \/ HostListens \/ ListenFails
      BY <2>1, StartKeepsInv
    <2>2. CASE ServeReturns \/ Drained \/ CloseServices \/ ProcessEnds
      BY <2>2, CloseKeepsInv
    <2>3. CASE \E s \in Signals : Signal(s)
      BY <2>3, SignalKeepsInv
    <2>4. CASE \E q \in Clients : Request(q) \/ Authenticate(q) \/ FinishRequest(q) \/ ClientLeaves(q)
      BY <2>4, ClientKeepsInv
    <2>5. CASE UNCHANGED hostVars
      BY <2>5 DEF hostVars, HostInv, HostTypeOK, DatabaseOutlives, ConnectedToServer, StandsAt
    <2>6. QED
      BY <2>1, <2>2, <2>3, <2>4, <2>5 DEF HostNext
  <1>3. QED
    BY <1>1, <1>2, PTL DEF HostSpec

\* "Drain connections first so an in-flight management write can finish", and
\* a process that ends by itself ends closed, although two parties close the
\* host and the second close() returns at once: for any number of connections.
THEOREM HostSoundAlways == HostSpec => []HostSound
  <1>1. HostInv => WritesFinish
    BY DEF HostInv, HostTypeOK, DatabaseOutlives, ConnectedToServer, WritesFinish
  <1>2. HostInv => EndedIsClosed
    BY DEF HostInv, HostTypeOK, ConnectedToServer, StandsAt, EndedIsClosed
  <1>3. HostInv => HostSound
    BY <1>1, <1>2 DEF HostSound
  <1>4. QED
    BY <1>3, HostInvariance, PTL

-----------------------------------------------------------------------------
(* Inbound webhooks *)

Requests ==
    [pc : {"idle", "window", "authorize", "verify", "accept", "accepted", "handling", "audit", "answered", "refused"},
     event : Events, sentAt : 0..MaxInboundTime, signed : BOOLEAN, json : BOOLEAN]

InboundTypeOK ==
    /\ registered \in BOOLEAN
    /\ replay \subseteq Events
    /\ receipts \in [Receipts -> Requests]
    /\ inboundClock \in Nat
    /\ handled \in [Events -> Nat]
    /\ lost \subseteq Events

\* The request has used up its event id, and goes on with it.
Holds(r) == receipts[r].pc \in {"accepted", "handling", "audit", "answered"}

\* Two requests never go on with one event.
HolderAlone ==
    \A r, s \in Receipts : Holds(r) /\ Holds(s) /\ receipts[r].event = receipts[s].event => r = s

\* An event that is being handled was accepted, is not lost, and its handler was called
\* as often as the request that holds it says.
HolderKnows ==
    \A r \in Receipts : Holds(r) =>
        /\ receipts[r].event \in replay \ lost
        /\ handled[receipts[r].event] = IF receipts[r].pc = "accepted" THEN 0 ELSE 1

\* No handler is called for an event that was not accepted, none twice.
CalledForAccepted ==
    /\ lost \subseteq replay
    /\ \A e \in Events : handled[e] <= 1 /\ (e \notin replay => handled[e] = 0)

\* What a request has passed.
PassedChecks ==
    \A r \in Receipts :
        /\ receipts[r].pc \in {"authorize", "verify", "accept"} => receipts[r].sentAt <= inboundClock + Tolerance
        /\ receipts[r].pc = "accept" => receipts[r].signed

\* An accepted event has a genuine request, which is not answered by a later one.
GenuineRequest ==
    \A e \in replay : \E r \in Receipts :
        /\ receipts[r].event = e /\ receipts[r].signed /\ receipts[r].sentAt <= inboundClock + Tolerance
        /\ Holds(r) \/ receipts[r].pc = "refused"

InboundInv ==
    InboundTypeOK /\ HolderAlone /\ HolderKnows /\ CalledForAccepted /\ PassedChecks /\ GenuineRequest

LEMMA InboundInitInv == InboundInit => InboundInv
  <1>1. SUFFICES ASSUME InboundInit PROVE InboundInv
    OBVIOUS
  <1>2. PICK e \in Events : e = CHOOSE x \in Events : TRUE
    BY InboundAssumption
  <1>3. NoReceipt = [pc |-> "idle", event |-> e, sentAt |-> 0, signed |-> FALSE, json |-> FALSE]
    BY <1>2 DEF NoReceipt
  <1>4. NoReceipt \in Requests /\ NoReceipt.pc = "idle"
    BY <1>3, InboundAssumption DEF Requests
  <1>5. InboundTypeOK
    BY <1>1, <1>4 DEF InboundInit, InboundTypeOK
  <1>6. QED
    BY <1>1, <1>4, <1>5 DEF InboundInit, InboundInv, HolderAlone, HolderKnows, CalledForAccepted, PassedChecks,
                            GenuineRequest, Holds

\* A request that goes elsewhere keeps what was sent.
LEMMA GotoFields ==
  ASSUME InboundTypeOK, NEW r \in Receipts, NEW pc, ReceiptGoto(r, pc),
         pc \in {"authorize", "verify", "accept", "accepted", "handling", "audit", "answered", "refused"}
  PROVE  /\ receipts' \in [Receipts -> Requests] /\ receipts'[r].pc = pc
         /\ receipts'[r].event = receipts[r].event /\ receipts'[r].sentAt = receipts[r].sentAt
         /\ receipts'[r].signed = receipts[r].signed
         /\ \A s \in Receipts : s # r => receipts'[s] = receipts[s]
  BY DEF InboundTypeOK, ReceiptGoto, Requests

\* A step of a request that neither accepts its event nor hands it to the handler, and
\* loses it when it gives it up.
LEMMA RequestMoves ==
  ASSUME InboundInv, NEW r \in Receipts, NEW pc, ReceiptGoto(r, pc),
         pc \in {"authorize", "verify", "accept", "audit", "answered", "refused"},
         receipts[r].pc \notin {"idle", "answered", "refused"},
         pc \in {"audit", "answered"} => Holds(r) /\ receipts[r].pc # "accepted",
         pc \in {"authorize", "verify", "accept"} => ~Holds(r) /\ receipts[r].sentAt <= inboundClock + Tolerance,
         pc = "accept" => receipts[r].signed,
         lost' = lost \/ (pc = "refused" /\ Holds(r) /\ lost' = lost \union {receipts[r].event}),
         UNCHANGED <<registered, replay, inboundClock, handled>>
  PROVE  InboundInv'
  <1>1. InboundTypeOK
    BY DEF InboundInv
  <1>2. /\ receipts' \in [Receipts -> Requests] /\ receipts'[r].pc = pc
        /\ receipts'[r].event = receipts[r].event /\ receipts'[r].sentAt = receipts[r].sentAt
        /\ receipts'[r].signed = receipts[r].signed
        /\ \A s \in Receipts : s # r => receipts'[s] = receipts[s]
    BY <1>1, GotoFields
  <1>3. receipts[r].event \in Events
    BY <1>1 DEF InboundTypeOK, Requests
  <1>4. InboundTypeOK'
    BY <1>1, <1>2, <1>3 DEF InboundTypeOK
  <1>5. \A s \in Receipts : Holds(s)' => Holds(s) /\ receipts'[s].event = receipts[s].event
    BY <1>2 DEF Holds
  <1>6. HolderAlone'
    BY <1>2, <1>5 DEF InboundInv, HolderAlone
  <1>7. lost' \subseteq replay /\ \A s \in Receipts : Holds(s)' => receipts[s].event \notin lost'
    BY <1>2, <1>5 DEF InboundInv, HolderAlone, HolderKnows, CalledForAccepted, Holds
  <1>8. HolderKnows'
    BY <1>2, <1>5, <1>7 DEF InboundInv, HolderKnows, Holds
  <1>9. CalledForAccepted'
    BY <1>7 DEF InboundInv, CalledForAccepted
  <1>10. PassedChecks'
    BY <1>2 DEF InboundInv, PassedChecks, Holds
  <1>11. GenuineRequest'
    <2>1. SUFFICES ASSUME NEW e \in replay
                   PROVE  \E s \in Receipts :
                            /\ receipts'[s].event = e /\ receipts'[s].signed
                            /\ receipts'[s].sentAt <= inboundClock + Tolerance
                            /\ Holds(s)' \/ receipts'[s].pc = "refused"
      BY DEF GenuineRequest
    <2>2. PICK s \in Receipts : /\ receipts[s].event = e /\ receipts[s].signed
                                /\ receipts[s].sentAt <= inboundClock + Tolerance
                                /\ Holds(s) \/ receipts[s].pc = "refused"
      BY DEF InboundInv, GenuineRequest
    <2>3. Holds(s)' \/ receipts'[s].pc = "refused"
      BY <1>2, <2>2 DEF Holds
    <2>4. QED
      BY <1>2, <2>2, <2>3
  <1>12. QED
    BY <1>4, <1>6, <1>8, <1>9, <1>10, <1>11 DEF InboundInv

\* A new request holds nothing, and no request waits for its answer through it.
LEMMA ReceiveKeepsInv ==
  ASSUME InboundInv, NEW r \in Receipts, Receive(r)
  PROVE  InboundInv'
  <1>1. InboundTypeOK
    BY DEF InboundInv
  <1>2. PICK e \in Events, t \in 0..MaxInboundTime, s \in BOOLEAN, j \in BOOLEAN :
          receipts' = [receipts EXCEPT ![r] =
            [pc |-> IF registered THEN "window" ELSE "refused", event |-> e, sentAt |-> t, signed |-> s, json |-> j]]
    BY DEF Receive
  <1>3. PICK q : q = [pc |-> IF registered THEN "window" ELSE "refused", event |-> e, sentAt |-> t, signed |-> s,
                      json |-> j]
    OBVIOUS
  <1>4. q \in Requests /\ q.pc \in {"window", "refused"}
    BY <1>2, <1>3 DEF Requests
  <1>5. /\ receipts' \in [Receipts -> Requests] /\ receipts'[r].pc \in {"window", "refused"}
        /\ \A x \in Receipts : x # r => receipts'[x] = receipts[x]
    BY <1>1, <1>2, <1>3, <1>4 DEF InboundTypeOK
  <1>6. receipts[r].pc = "idle" /\ UNCHANGED <<registered, replay, inboundClock, handled, lost>>
    BY DEF Receive
  <1>7. InboundTypeOK'
    BY <1>1, <1>5, <1>6 DEF InboundTypeOK
  <1>8. \A x \in Receipts : Holds(x)' => x # r /\ Holds(x) /\ receipts'[x] = receipts[x]
    BY <1>5 DEF Holds
  <1>9. HolderAlone' /\ HolderKnows'
    BY <1>6, <1>8 DEF InboundInv, HolderAlone, HolderKnows
  <1>10. CalledForAccepted' /\ PassedChecks'
    BY <1>5, <1>6 DEF InboundInv, CalledForAccepted, PassedChecks
  <1>11. \A x \in Receipts : Holds(x) \/ receipts[x].pc = "refused" => x # r /\ receipts'[x] = receipts[x]
    BY <1>5, <1>6 DEF Holds
  <1>12. GenuineRequest'
    BY <1>6, <1>11 DEF InboundInv, GenuineRequest, Holds
  <1>13. QED
    BY <1>7, <1>9, <1>10, <1>12 DEF InboundInv

\* The event is accepted by a request that passed every check, and by no other.
LEMMA AcceptKeepsInv ==
  ASSUME InboundInv, NEW r \in Receipts, Accept(r)
  PROVE  InboundInv'
  <1>1. InboundTypeOK
    BY DEF InboundInv
  <1>2. receipts[r].pc = "accept" /\ UNCHANGED <<registered, inboundClock, handled, lost>>
    BY DEF Accept
  <1>3. CASE receipts[r].event \in replay
    <2>1. ReceiptGoto(r, "refused") /\ UNCHANGED replay
      BY <1>3 DEF Accept, NotSeen
    <2>2. QED
      BY <1>2, <2>1, RequestMoves
  <1>4. CASE receipts[r].event \notin replay
    <2>1. PICK e : e = receipts[r].event
      OBVIOUS
    <2>2. replay' = replay \union {e} /\ ReceiptGoto(r, "accepted")
      BY <1>4, <2>1 DEF Accept, NotSeen
    <2>3. /\ receipts' \in [Receipts -> Requests] /\ receipts'[r].pc = "accepted"
          /\ receipts'[r].event = e /\ receipts'[r].sentAt = receipts[r].sentAt
          /\ receipts'[r].signed = receipts[r].signed
          /\ \A s \in Receipts : s # r => receipts'[s] = receipts[s]
      BY <1>1, <2>1, <2>2, GotoFields
    <2>4. e \in Events /\ e \notin lost /\ handled[e] = 0
      BY <1>1, <1>4, <2>1 DEF InboundTypeOK, Requests, InboundInv, CalledForAccepted
    <2>5. \A s \in Receipts : Holds(s) => receipts[s].event # e
      BY <1>4, <2>1 DEF InboundInv, HolderKnows
    <2>6. InboundTypeOK'
      BY <1>1, <1>2, <2>2, <2>3, <2>4 DEF InboundTypeOK
    <2>7. HolderAlone'
      BY <2>3, <2>5 DEF InboundInv, HolderAlone, Holds
    <2>8. HolderKnows'
      BY <1>2, <2>2, <2>3, <2>4 DEF InboundInv, HolderKnows, Holds
    <2>9. CalledForAccepted'
      BY <1>2, <2>2 DEF InboundInv, CalledForAccepted
    <2>10. PassedChecks'
      BY <1>2, <2>3 DEF InboundInv, PassedChecks
    <2>11. receipts'[r].signed /\ receipts'[r].sentAt <= inboundClock + Tolerance
      BY <1>2, <2>3 DEF InboundInv, PassedChecks
    <2>12. \A s \in Receipts : Holds(s) \/ receipts[s].pc = "refused" => receipts'[s] = receipts[s]
      BY <1>2, <2>3 DEF Holds
    <2>13. GenuineRequest'
      BY <1>2, <2>2, <2>3, <2>11, <2>12 DEF InboundInv, GenuineRequest, Holds
    <2>14. QED
      BY <2>6, <2>7, <2>8, <2>9, <2>10, <2>13 DEF InboundInv
  <1>5. QED
    BY <1>3, <1>4

\* The handler is called by the one request that holds the event, which has not called it.
LEMMA ParseKeepsInv ==
  ASSUME InboundInv, NEW r \in Receipts, Parse(r)
  PROVE  InboundInv'
  <1>1. InboundTypeOK
    BY DEF InboundInv
  <1>2. receipts[r].pc = "accepted" /\ Holds(r) /\ UNCHANGED <<registered, replay, inboundClock>>
    BY DEF Parse, Holds
  <1>3. CASE ~receipts[r].json
    <2>1. ReceiptGoto(r, "refused") /\ lost' = lost \union {receipts[r].event} /\ UNCHANGED handled
      BY <1>3 DEF Parse
    <2>2. QED
      BY <1>2, <2>1, RequestMoves
  <1>4. CASE receipts[r].json
    <2>1. PICK e : e = receipts[r].event
      OBVIOUS
    <2>2. handled' = [handled EXCEPT ![e] = @ + 1] /\ ReceiptGoto(r, "handling") /\ UNCHANGED lost
      BY <1>4, <2>1 DEF Parse
    <2>3. /\ receipts' \in [Receipts -> Requests] /\ receipts'[r].pc = "handling"
          /\ receipts'[r].event = e /\ receipts'[r].sentAt = receipts[r].sentAt
          /\ receipts'[r].signed = receipts[r].signed
          /\ \A s \in Receipts : s # r => receipts'[s] = receipts[s]
      BY <1>1, <2>1, <2>2, GotoFields
    <2>4. e \in Events /\ e \in replay /\ e \notin lost /\ handled[e] = 0
      BY <1>1, <1>2, <2>1 DEF InboundTypeOK, Requests, InboundInv, HolderKnows
    <2>5. handled' \in [Events -> Nat] /\ handled'[e] = 1 /\ \A x \in Events : x # e => handled'[x] = handled[x]
      BY <1>1, <2>2, <2>4 DEF InboundTypeOK
    <2>6. InboundTypeOK'
      BY <1>1, <1>2, <2>2, <2>3, <2>5 DEF InboundTypeOK
    <2>7. \A s \in Receipts : Holds(s)' <=> Holds(s)
      BY <1>2, <2>3 DEF Holds
    <2>8. HolderAlone'
      BY <2>1, <2>3, <2>7 DEF InboundInv, HolderAlone
    <2>9. \A s \in Receipts : Holds(s) /\ s # r => receipts[s].event # e /\ receipts[s].event \in Events
      BY <1>1, <1>2, <2>1 DEF InboundInv, HolderAlone, InboundTypeOK, Requests
    <2>10. HolderKnows'
      BY <1>2, <2>2, <2>3, <2>4, <2>5, <2>7, <2>9 DEF InboundInv, HolderKnows
    <2>11. CalledForAccepted'
      BY <1>2, <2>2, <2>4, <2>5 DEF InboundInv, CalledForAccepted
    <2>12. PassedChecks'
      BY <1>2, <2>3 DEF InboundInv, PassedChecks
    <2>13. GenuineRequest'
      <3>1. \A s \in Receipts : /\ receipts'[s].event = receipts[s].event /\ receipts'[s].sentAt = receipts[s].sentAt
                                /\ receipts'[s].signed = receipts[s].signed
                                /\ receipts[s].pc = "refused" => receipts'[s].pc = "refused"
        BY <1>2, <2>1, <2>3
      <3>2. QED
        BY <1>2, <2>7, <3>1 DEF InboundInv, GenuineRequest
    <2>14. QED
      BY <2>6, <2>8, <2>10, <2>11, <2>12, <2>13 DEF InboundInv
  <1>5. QED
    BY <1>3, <1>4

\* The other steps of a request: it passes a check, ends, or is given up.
LEMMA RequestKeepsInv ==
  ASSUME InboundInv, NEW r \in Receipts,
         CheckWindow(r) \/ AuthorizeReceipt(r) \/ VerifySignature(r) \/ Handle(r) \/ AuditReceipt(r) \/ StopReceipt(r)
  PROVE  InboundInv'
  <1>1. UNCHANGED <<registered, replay, inboundClock, handled>>
    BY DEF CheckWindow, AuthorizeReceipt, VerifySignature, Handle, AuditReceipt, StopReceipt
  <1>2. CASE CheckWindow(r)
    <2>1. receipts[r].pc = "window" /\ ~Holds(r) /\ UNCHANGED lost
      BY <1>2 DEF CheckWindow, Holds
    <2>2. CASE InWindow(r)
      <3>1. ReceiptGoto(r, "authorize") /\ receipts[r].sentAt <= inboundClock + Tolerance
        BY <1>2, <2>2 DEF CheckWindow, InWindow
      <3>2. QED
        BY <1>1, <2>1, <3>1, RequestMoves
    <2>3. CASE ~InWindow(r)
      <3>1. ReceiptGoto(r, "refused")
        BY <1>2, <2>3 DEF CheckWindow
      <3>2. QED
        BY <1>1, <2>1, <3>1, RequestMoves
    <2>4. QED
      BY <2>2, <2>3
  <1>3. CASE AuthorizeReceipt(r)
    <2>1. receipts[r].pc = "authorize" /\ ~Holds(r) /\ UNCHANGED lost
      BY <1>3 DEF AuthorizeReceipt, Holds
    <2>2. receipts[r].sentAt <= inboundClock + Tolerance
      BY <2>1 DEF InboundInv, PassedChecks
    <2>3. ReceiptGoto(r, "verify") \/ ReceiptGoto(r, "refused")
      BY <1>3 DEF AuthorizeReceipt
    <2>4. QED
      BY <1>1, <2>1, <2>2, <2>3, RequestMoves
  <1>4. CASE VerifySignature(r)
    <2>1. receipts[r].pc = "verify" /\ ~Holds(r) /\ UNCHANGED lost
      BY <1>4 DEF VerifySignature, Holds
    <2>2. receipts[r].sentAt <= inboundClock + Tolerance
      BY <2>1 DEF InboundInv, PassedChecks
    <2>3. (receipts[r].signed /\ ReceiptGoto(r, "accept")) \/ ReceiptGoto(r, "refused")
      BY <1>4 DEF VerifySignature, AfterVerify
    <2>4. QED
      BY <1>1, <2>1, <2>2, <2>3, RequestMoves
  <1>5. CASE Handle(r)
    <2>1. receipts[r].pc = "handling" /\ Holds(r)
      BY <1>5 DEF Handle, Holds
    <2>2. \/ ReceiptGoto(r, "audit") /\ UNCHANGED lost
          \/ ReceiptGoto(r, "refused") /\ lost' = lost \union {receipts[r].event}
      BY <1>5 DEF Handle, HandlerFailed
    <2>3. QED
      BY <1>1, <2>1, <2>2, RequestMoves
  <1>6. CASE AuditReceipt(r)
    <2>1. receipts[r].pc = "audit" /\ Holds(r) /\ UNCHANGED lost
      BY <1>6 DEF AuditReceipt, Holds
    <2>2. ReceiptGoto(r, "answered") \/ ReceiptGoto(r, "refused")
      BY <1>6 DEF AuditReceipt
    <2>3. QED
      BY <1>1, <2>1, <2>2, RequestMoves
  <1>7. CASE StopReceipt(r)
    <2>1. receipts[r].pc \notin {"idle", "answered", "refused"} /\ ReceiptGoto(r, "refused")
      BY <1>7 DEF StopReceipt
    <2>2. lost' = lost \/ (Holds(r) /\ lost' = lost \union {receipts[r].event})
      BY <1>7 DEF StopReceipt, Holds
    <2>3. QED
      BY <1>1, <2>1, <2>2, RequestMoves
  <1>8. QED
    BY <1>2, <1>3, <1>4, <1>5, <1>6, <1>7

\* Time only widens what has been lived through, and the registration is read once.
LEMMA InboundRestKeepsInv ==
  ASSUME InboundInv, RegisterIntegration \/ InboundTick \/ UNCHANGED inboundVars
  PROVE  InboundInv'
  <1>1. UNCHANGED <<replay, receipts, handled, lost>>
    BY DEF RegisterIntegration, InboundTick, inboundVars
  <1>2. InboundTypeOK' /\ inboundClock' >= inboundClock
    <2>1. inboundClock' \in Nat /\ inboundClock' >= inboundClock
      BY DEF InboundInv, InboundTypeOK, RegisterIntegration, InboundTick, inboundVars
    <2>2. registered' \in BOOLEAN
      BY DEF InboundInv, InboundTypeOK, RegisterIntegration, InboundTick, inboundVars
    <2>3. QED
      BY <1>1, <2>1, <2>2 DEF InboundInv, InboundTypeOK
  <1>3. HolderAlone' /\ HolderKnows' /\ CalledForAccepted'
    BY <1>1 DEF InboundInv, HolderAlone, HolderKnows, CalledForAccepted, Holds
  <1>4. \A r \in Receipts : receipts[r].sentAt <= inboundClock + Tolerance => receipts[r].sentAt <= inboundClock' + Tolerance
    <2>1. SUFFICES ASSUME NEW r \in Receipts, receipts[r].sentAt <= inboundClock + Tolerance
                   PROVE  receipts[r].sentAt <= inboundClock' + Tolerance
      OBVIOUS
    <2>2. receipts[r].sentAt \in Nat /\ inboundClock \in Nat /\ inboundClock' \in Nat /\ Tolerance \in Nat
      BY <1>2, InboundAssumption DEF InboundInv, InboundTypeOK, Requests
    <2>3. QED
      BY <1>2, <2>1, <2>2
  <1>5. PassedChecks' /\ GenuineRequest'
    BY <1>1, <1>4 DEF InboundInv, PassedChecks, GenuineRequest, Holds
  <1>6. QED
    BY <1>2, <1>3, <1>5 DEF InboundInv

\* An accepted event is held by at most one request, which knows how often its handler was
\* called: for any number of events, requests and processes, and any tolerance.
THEOREM InboundInvariance == InboundSpec => []InboundInv
  <1>1. InboundInit => InboundInv
    BY InboundInitInv
  <1>2. InboundInv /\ [InboundNext]_inboundVars => InboundInv'
    <2> SUFFICES ASSUME InboundInv, [InboundNext]_inboundVars
                 PROVE  InboundInv'
      OBVIOUS
    <2>1. CASE RegisterIntegration \/ InboundTick \/ UNCHANGED inboundVars
      BY <2>1, InboundRestKeepsInv
    <2>2. ASSUME NEW r \in Receipts,
                 Receive(r) \/ CheckWindow(r) \/ AuthorizeReceipt(r) \/ VerifySignature(r) \/ Accept(r)
                   \/ Parse(r) \/ Handle(r) \/ AuditReceipt(r) \/ StopReceipt(r)
          PROVE  InboundInv'
      BY <2>2, ReceiveKeepsInv, AcceptKeepsInv, ParseKeepsInv, RequestKeepsInv
    <2>3. QED
      BY <2>1, <2>2 DEF InboundNext
  <1>3. QED
    BY <1>1, <1>2, PTL DEF InboundSpec

\* The handler of an inbound event runs at most once, only for a signed request sent within
\* the tolerance, and success is answered only for an event handled and not lost.
THEOREM InboundSoundAlways == InboundSpec => []InboundSound
  <1>1. InboundInv => HandledOnce
    BY DEF InboundInv, CalledForAccepted, HandledOnce
  <1>2. InboundInv => AcceptedWasGenuine
    BY DEF InboundInv, GenuineRequest, AcceptedWasGenuine
  <1>3. InboundInv => AnsweredWasHandled
    BY DEF InboundInv, HolderKnows, Holds, AnsweredWasHandled
  <1>4. InboundInv => InboundSound
    BY <1>1, <1>2, <1>3 DEF InboundSound
  <1>5. QED
    BY <1>4, InboundInvariance, PTL

-----------------------------------------------------------------------------
(* The start and the close of the application *)

AppTypeOK ==
    /\ app \in [closed : BOOLEAN, started : BOOLEAN, http : BOOLEAN, servers : {0, 1}, timers : {0, 1},
                signals : BOOLEAN, working : BOOLEAN, db : BOOLEAN]
    /\ appCalls \in [AppCalls -> {"idle", "listening", "recovering", "closing", "closed", "done", "threw"}]
    /\ closeRaced \in BOOLEAN

\* The call of close() that releases what the application holds.
Releasing(c) == appCalls[c] \in {"closing", "closed"}

\* One call starts the application, and it finds nothing started.
OneStart ==
    /\ \A c, d \in AppCalls : Starting(c) /\ Starting(d) => c = d
    /\ (\E c \in AppCalls : Starting(c)) => app.started
    /\ (~app.started \/ \E c \in AppCalls : appCalls[c] = "listening")
          => app.servers = 0 /\ app.timers = 0 /\ ~app.http
    /\ app.servers = 1 => app.http
    /\ app.http /\ ~app.closed => app.servers = 1

\* One call closes it, and the server is there until that call has closed it.
OneClose ==
    /\ \A c, d \in AppCalls : Releasing(c) /\ Releasing(d) => c = d
    /\ \A c \in AppCalls : Releasing(c) => app.closed
    /\ \A c \in AppCalls : appCalls[c] = "closing" => app.http /\ (app.servers = 1)
    /\ ~app.db => app.closed /\ \A c \in AppCalls : ~Releasing(c)

\* A close() that overtook no start() finds everything that will ever be started.
Released ==
    (app.closed /\ ~closeRaced) =>
        /\ \A c \in AppCalls : ~Starting(c)
        /\ app.timers = 0 /\ ~app.signals
        /\ (\A c \in AppCalls : appCalls[c] # "closing") => app.servers = 0

LifecycleInv == AppTypeOK /\ OneStart /\ OneClose /\ Released

LEMMA LifecycleInitInv == AppInit => LifecycleInv
  <1>1. SUFFICES ASSUME AppInit PROVE LifecycleInv
    OBVIOUS
  <1>2. /\ ~app.closed /\ ~app.started /\ ~app.http /\ app.servers = 0 /\ app.timers = 0 /\ app.db
        /\ \A c \in AppCalls : appCalls[c] = "idle"
    BY <1>1 DEF AppInit
  <1>3. AppTypeOK
    BY <1>1 DEF AppInit, AppTypeOK
  <1>4. QED
    BY <1>2, <1>3 DEF LifecycleInv, OneStart, OneClose, Released, Starting, Releasing

\* The call that starts the application: no other has, and it is marked at once.
LEMMA StartedKeepsInv ==
  ASSUME LifecycleInv, NEW c \in AppCalls, Started(c)
  PROVE  LifecycleInv'
  <1>1. AppTypeOK /\ appCalls[c] = "idle" /\ UNCHANGED closeRaced
    BY DEF LifecycleInv, Started
  <1>2. CASE app.closed \/ app.started
    <2>1. PICK next \in {"threw", "done"} : appCalls' = [appCalls EXCEPT ![c] = next]
      BY <1>2 DEF Started
    <2>2. UNCHANGED app
      BY <1>2 DEF Started
    <2>3. QED
      BY <1>1, <2>1, <2>2 DEF LifecycleInv, AppTypeOK, OneStart, OneClose, Released, Starting, Releasing
  <1>3. CASE ~(app.closed \/ app.started)
    <2>1. appCalls' = [appCalls EXCEPT ![c] = "listening"] /\ app' = [app EXCEPT !.started = TRUE]
      BY <1>3 DEF Started, MarkStarted
    <2>2. AppTypeOK'
      BY <1>1, <2>1 DEF AppTypeOK
    <2>3. /\ app'.started /\ app'.servers = app.servers /\ app'.timers = app.timers
          /\ app'.closed = app.closed /\ app'.http = app.http /\ app'.db = app.db /\ app'.signals = app.signals
      BY <1>1, <2>1 DEF AppTypeOK
    <2>4. appCalls'[c] = "listening" /\ \A d \in AppCalls : d # c => appCalls'[d] = appCalls[d]
      BY <1>1, <2>1 DEF AppTypeOK
    <2>5. app.servers = 0 /\ app.timers = 0 /\ ~app.http /\ \A d \in AppCalls : ~Starting(d)
      BY <1>3 DEF LifecycleInv, OneStart
    <2>6. OneStart'
      BY <2>3, <2>4, <2>5 DEF OneStart, Starting
    <2>7. \A d \in AppCalls : ~Releasing(d)
      BY <1>3 DEF LifecycleInv, OneClose
    <2>8. OneClose' /\ Released'
      BY <1>3, <2>3, <2>4, <2>7 DEF LifecycleInv, OneClose, Released, Releasing
    <2>9. QED
      BY <2>2, <2>6, <2>8 DEF LifecycleInv
  <1>4. QED
    BY <1>2, <1>3

\* The rest of start().
LEMMA StartingKeepsInv ==
  ASSUME LifecycleInv, NEW c \in AppCalls, Listening(c) \/ StartFails(c) \/ Recovered(c)
  PROVE  LifecycleInv'
  <1> USE DEF LifecycleInv, AppTypeOK, OneStart, OneClose, Released, Starting, Releasing
  <1>1. CASE Listening(c)
    <2>1. app.servers = 0 /\ app.timers = 0 /\ app.started /\ appCalls[c] = "listening"
      BY <1>1 DEF Listening
    <2>2. app' = [app EXCEPT !.http = TRUE, !.servers = 1, !.timers = 1] /\ UNCHANGED closeRaced
      BY <1>1, <2>1 DEF Listening
    <2>3. appCalls' = [appCalls EXCEPT ![c] = "recovering"]
      BY <1>1 DEF Listening
    <2>4. /\ app'.http /\ app'.servers = 1 /\ app'.timers = 1 /\ app'.started = app.started
          /\ app'.closed = app.closed /\ app'.db = app.db /\ app'.signals = app.signals
      BY <2>2
    <2>5. AppTypeOK'
      BY <2>2, <2>3
    <2>6. appCalls'[c] = "recovering" /\ \A d \in AppCalls : d # c => appCalls'[d] = appCalls[d]
      BY <2>3
    <2>7. OneStart'
      BY <2>1, <2>4, <2>6
    <2>8. OneClose' /\ Released'
      BY <2>1, <2>2, <2>4, <2>6
    <2>9. QED
      BY <2>5, <2>7, <2>8
  <1>2. CASE StartFails(c)
    BY <1>2 DEF StartFails
  <1>3. CASE Recovered(c)
    BY <1>3 DEF Recovered
  <1>4. QED
    BY <1>1, <1>2, <1>3

\* The call that closes the application, the first one of close().
LEMMA CloseKeepsLifecycle ==
  ASSUME LifecycleInv, NEW c \in AppCalls, Close(c)
  PROVE  LifecycleInv'
  <1>1. AppTypeOK /\ appCalls[c] = "idle"
    BY DEF LifecycleInv, Close
  <1>2. CASE app.closed
    <2>1. appCalls' = [appCalls EXCEPT ![c] = "done"] /\ UNCHANGED <<app, closeRaced>>
      BY <1>2 DEF Close
    <2>2. QED
      BY <1>1, <2>1 DEF LifecycleInv, AppTypeOK, OneStart, OneClose, Released, Starting, Releasing
  <1>3. CASE ~app.closed
    <2>1. PICK next \in {"closing", "closed"} : next = IF app.http THEN "closing" ELSE "closed"
      OBVIOUS
    <2>2. /\ appCalls' = [appCalls EXCEPT ![c] = next]
          /\ app' = [app EXCEPT !.closed = TRUE, !.signals = FALSE, !.timers = 0]
          /\ closeRaced' = (closeRaced \/ \E d \in AppCalls : Starting(d))
      BY <1>3, <2>1 DEF Close, ClearTimers
    <2>3. /\ app'.closed /\ ~app'.signals /\ app'.timers = 0 /\ app'.servers = app.servers
          /\ app'.http = app.http /\ app'.db = app.db /\ app'.started = app.started
      BY <1>1, <2>2 DEF AppTypeOK
    <2>4. app' \in [closed : BOOLEAN, started : BOOLEAN, http : BOOLEAN, servers : {0, 1}, timers : {0, 1},
                    signals : BOOLEAN, working : BOOLEAN, db : BOOLEAN]
      BY <1>1, <2>2 DEF AppTypeOK
    <2>5. closeRaced' \in BOOLEAN
      BY <2>2
    <2>6. AppTypeOK'
      BY <1>1, <2>1, <2>2, <2>4, <2>5 DEF AppTypeOK
    <2>7. \A d \in AppCalls : ~Releasing(d)
      BY <1>3 DEF LifecycleInv, OneClose
    <2>8. appCalls'[c] = next /\ \A d \in AppCalls : d # c => appCalls'[d] = appCalls[d]
      BY <1>1, <2>2 DEF AppTypeOK
    <2>9. \A d \in AppCalls : Starting(d)' => Starting(d) /\ d # c /\ appCalls'[d] = appCalls[d]
      BY <2>1, <2>8 DEF Starting
    <2>10. OneStart'
      BY <2>1, <2>3, <2>8, <2>9 DEF LifecycleInv, OneStart
    <2>11. app.http => app.servers = 1
      BY <1>3 DEF LifecycleInv, OneStart
    <2>12. OneClose'
      BY <1>3, <2>1, <2>3, <2>7, <2>8, <2>11 DEF LifecycleInv, OneClose, Releasing
    <2>13. Released'
      BY <1>1, <2>1, <2>2, <2>3, <2>8, <2>9 DEF LifecycleInv, OneStart, Released, AppTypeOK
    <2>14. QED
      BY <2>6, <2>10, <2>12, <2>13 DEF LifecycleInv
  <1>4. QED
    BY <1>2, <1>3

\* The rest of close().
LEMMA ClosingKeepsInv ==
  ASSUME LifecycleInv, NEW c \in AppCalls, ServerClosed(c) \/ DbClosed(c)
  PROVE  LifecycleInv'
  <1> USE DEF LifecycleInv, AppTypeOK, OneStart, OneClose, Released, Starting, Releasing
  <1>1. CASE ServerClosed(c)
    BY <1>1 DEF ServerClosed
  <1>2. CASE DbClosed(c)
    BY <1>2 DEF DbClosed
  <1>3. QED
    BY <1>1, <1>2

\* The loops and the streams start and close nothing.
LEMMA RunningKeepsInv ==
  ASSUME LifecycleInv,
         \/ LoopTick \/ LoopDone \/ UNCHANGED appVars
         \/ \E tenant \in {"own", "other"} : Publish(tenant)
         \/ \E s \in Streams : Connect(s) \/ StreamReceive(s) \/ Disconnect(s)
  PROVE  LifecycleInv'
  <1> USE DEF LifecycleInv, AppTypeOK, OneStart, OneClose, Released, Starting, Releasing
  <1>1. CASE LoopTick
    BY <1>1 DEF LoopTick
  <1>11. CASE LoopDone
    BY <1>11 DEF LoopDone
  <1>2. CASE UNCHANGED <<app, appCalls, closeRaced>>
    BY <1>2
  <1>3. QED
    BY <1>1, <1>11, <1>2 DEF Publish, Connect, StreamReceive, Disconnect, appVars

\* One call starts the application and one releases it, however many there are.
THEOREM LifecycleInvariance == AppSpec => []LifecycleInv
  <1>1. AppInit => LifecycleInv
    BY LifecycleInitInv
  <1>2. LifecycleInv /\ [AppNext]_appVars => LifecycleInv'
    BY StartedKeepsInv, StartingKeepsInv, CloseKeepsLifecycle, ClosingKeepsInv, RunningKeepsInv DEF AppNext
  <1>3. QED
    BY <1>1, <1>2, PTL DEF AppSpec

\* However many calls of start() and close() overlap, one server listens and one set of loops
\* runs; and a close() that overtook no start() lets no further round of a loop begin, keeps no
\* signal handler, and closes the database only when no server listens.  The round in progress is
\* not waited for (runtime/appport.ts start and close).
THEOREM LifecycleSoundAlways == AppSpec => []LifecycleSound
  <1>1. LifecycleInv => StartedOnce
    BY DEF LifecycleInv, AppTypeOK, StartedOnce
  <1>2. LifecycleInv => ClosedReleases
    BY DEF LifecycleInv, OneClose, Released, Releasing, ClosedReleases, Starting
  <1>3. LifecycleInv => LifecycleSound
    BY <1>1, <1>2 DEF LifecycleSound
  <1>4. QED
    BY <1>3, LifecycleInvariance, PTL

-----------------------------------------------------------------------------
(* The contract files *)

Texts == [by : {"nobody", "emptied", "cli", "user"}, selected : Selections \union {{}}]
RunStates == [op : {"none", "init", "migrate"}, at : 0..8, selected : Selections \union {{}}]

ContractTypeOK ==
    /\ documents \in [DocumentNames -> Texts]
    /\ original \in Texts
    /\ runs \in [Runs -> RunStates]

Inits(r, from) == runs[r].op = "init" /\ runs[r].at >= from
Migrates(r, from) == runs[r].op = "migrate" /\ runs[r].at >= from
NoMigration == \A r \in Runs : runs[r].op # "migrate"
OneMigration == \A r, s \in Runs : runs[r].op = "migrate" /\ runs[s].op = "migrate" => r = s

\* The contract is there from the step that creates or parses it; the init that
\* created it knows that the user has written none.
ContractThere ==
    /\ original # NoDocument => documents["contract"] # NoDocument
    /\ \A r \in Runs : /\ runs[r].op = "none" => runs[r].at = 0
                       /\ runs[r].op = "init" => runs[r].at <= 6
                       /\ Inits(r, 4) => documents["contract"] # NoDocument /\ original = NoDocument
                       /\ Migrates(r, 2) => documents["contract"] # NoDocument
    /\ \A r, s \in Runs : Inits(r, 4) /\ Inits(s, 4) => r = s

\* Without a migration both files come from the one init that created the contract.
CreatedByOne ==
    NoMigration =>
        /\ original # NoDocument => documents["contract"] = original
        /\ \A r \in Runs : Inits(r, 5) => documents["contract"] = Canonical(runs[r].selected)
        /\ \A r \in Runs : Inits(r, 6) => documents["flow"] = Emptied
        /\ documents["flow"].by = "cli" =>
             /\ documents["contract"].by = "cli" /\ documents["contract"].selected = documents["flow"].selected
             /\ \A r \in Runs : ~Inits(r, 4)

\* Where the one migration stands says which of the two files is the user's.
BackedUp ==
    (OneMigration /\ original # NoDocument) =>
        /\ original \in {documents["contract"], documents["backup"]}
        /\ NoMigration => documents["contract"] = original
        /\ \A r \in Runs : /\ Migrates(r, 1) /\ runs[r].at <= 4 => documents["contract"] = original
                           /\ Migrates(r, 4) => documents["backup"] = original

ContractsInv == ContractTypeOK /\ ContractThere /\ CreatedByOne /\ BackedUp

\* The texts are told apart by who wrote them.
LEMMA TextsDiffer ==
  ASSUME NEW s \in Selections \union {{}}
  PROVE  /\ Emptied \in Texts /\ NoDocument \in Texts /\ Canonical(s) \in Texts /\ Text("user", s) \in Texts
         /\ Emptied # NoDocument /\ Canonical(s) # NoDocument /\ Text("user", s) # NoDocument
         /\ Emptied.by = "emptied" /\ Text("user", s).by = "user" /\ NoDocument.by = "nobody"
         /\ Canonical(s).by = "cli" /\ Canonical(s).selected = s
  BY DEF Emptied, NoDocument, Canonical, Text, Texts

\* Where a run stands when it takes a step.
LEMMA StepPlaces ==
  ASSUME ContractTypeOK, ContractThere, NEW r \in Runs, NEW d \in DocumentNames
  PROVE  /\ StepAt(r) = <<"look", d>> => runs[r].op = "init" /\ runs[r].at \in {1, 2}
         /\ StepAt(r) = <<"create", d>> => /\ runs[r].op = "init"
                                           /\ (runs[r].at = 3 /\ d = "contract") \/ (runs[r].at = 5 /\ d = "flow")
         /\ StepAt(r) = <<"parse">> => runs[r].op = "migrate" /\ runs[r].at = 1
         /\ StepAt(r) = <<"empty", d>> =>
              /\ runs[r].op = "migrate"
              /\ \/ runs[r].at = 2 /\ d = "backup"
                 \/ runs[r].at = 4 /\ d = "contract"
                 \/ runs[r].at = 7 /\ d = "flow"
         /\ StepAt(r) = <<"fill", d>> =>
              \/ runs[r].op = "migrate" /\ runs[r].at = 5 /\ d = "contract"
              \/ runs[r].op = "migrate" /\ runs[r].at = 8 /\ d = "flow"
              \/ runs[r].op = "init" /\ runs[r].at = 4 /\ d = "contract"
              \/ runs[r].op = "init" /\ runs[r].at = 6 /\ d = "flow"
         /\ StepAt(r) = <<"copy", "backup">> => runs[r].op = "migrate" /\ runs[r].at = 3
         /\ StepAt(r) = <<"probe">> => runs[r].op = "migrate" /\ runs[r].at = 6
  <1>1. runs[r].op \in {"none", "init", "migrate"} /\ runs[r].at \in 0..8
        /\ (runs[r].op = "none" => runs[r].at = 0) /\ (runs[r].op = "init" => runs[r].at <= 6)
    BY DEF ContractTypeOK, RunStates, ContractThere
  <1>2. CASE runs[r].at = 0
    BY <1>2 DEF StepAt
  <1>3. CASE runs[r].op = "init" /\ runs[r].at # 0
    <2>1. StepAt(r) = InitSteps[runs[r].at] /\ runs[r].at \in 1..6
      BY <1>1, <1>3 DEF StepAt, StepsOf
    <2>2. QED
      BY <1>3, <2>1 DEF InitSteps, DocumentNames
  <1>4. CASE runs[r].op = "migrate" /\ runs[r].at # 0
    <2>1. StepAt(r) = MigrateSteps[runs[r].at] /\ runs[r].at \in 1..8
      BY <1>1, <1>4 DEF StepAt, StepsOf
    <2>2. QED
      BY <1>4, <2>1 DEF MigrateSteps, DocumentNames
  <1>5. QED
    BY <1>1, <1>2, <1>3, <1>4

\* What a run that goes on, or ends, keeps.
LEMMA GoesFields ==
  ASSUME ContractTypeOK, ContractThere, NEW r \in Runs, Goes(r) \/ Ended(r), runs[r].at > 0
  PROVE  /\ runs' \in [Runs -> RunStates] /\ runs'[r].op = runs[r].op
         /\ Ended(r) => runs'[r].at = 0
         /\ runs'[r].at = 0 \/ (runs'[r].at = runs[r].at + 1 /\ runs'[r].selected = runs[r].selected)
         /\ runs[r].op = "init" => runs'[r].at <= 6
         /\ (runs[r].op = "init" /\ runs[r].at = 6) => runs'[r].at = 0
         /\ \A s \in Runs : s # r => runs'[s] = runs[s]
  <1>1. runs[r] \in RunStates /\ runs[r].op \in {"init", "migrate"} /\ (runs[r].op = "init" => runs[r].at <= 6)
    BY DEF ContractTypeOK, RunStates, ContractThere
  <1>2. Len(InitSteps) = 6 /\ Len(MigrateSteps) = 8
    BY DEF InitSteps, MigrateSteps
  <1>3. Len(StepsOf(runs[r].op)) = IF runs[r].op = "init" THEN 6 ELSE 8
    BY <1>2 DEF StepsOf
  <1>4. CASE Ended(r)
    <2>1. PICK q : q = [IdleRun EXCEPT !.op = runs[r].op]
      OBVIOUS
    <2>2. q \in RunStates /\ q.op = runs[r].op /\ q.at = 0
      BY <1>1, <2>1 DEF IdleRun, RunStates
    <2>3. runs' = [runs EXCEPT ![r] = q]
      BY <1>4, <2>1 DEF Ended
    <2>4. QED
      BY <1>1, <2>2, <2>3 DEF ContractTypeOK
  <1>5. CASE Goes(r) /\ ~Ended(r)
    <2>1. PICK q : q = [runs[r] EXCEPT !.at = @ + 1]
      OBVIOUS
    <2>2. runs' = [runs EXCEPT ![r] = q] /\ runs[r].at # IF runs[r].op = "init" THEN 6 ELSE 8
      BY <1>3, <1>5, <2>1 DEF Goes
    <2>3. runs[r].at \in 1..7 /\ (runs[r].op = "init" => runs[r].at < 6)
      BY <1>1, <2>2 DEF RunStates
    <2>4. q \in RunStates /\ q.op = runs[r].op /\ q.at = runs[r].at + 1 /\ q.selected = runs[r].selected
      BY <1>1, <2>1, <2>3 DEF RunStates
    <2>5. QED
      BY <1>1, <1>5, <2>2, <2>3, <2>4 DEF ContractTypeOK
  <1>6. QED
    BY <1>4, <1>5

LEMMA ContractsInitInv == ContractsInit => ContractsInv
  <1>1. SUFFICES ASSUME ContractsInit PROVE ContractsInv
    OBVIOUS
  <1>2. \A r \in Runs : runs[r] = [op |-> "none", at |-> 0, selected |-> {}]
    BY <1>1 DEF ContractsInit, IdleRun
  <1>3. ContractTypeOK
    BY <1>1, TextsDiffer DEF ContractsInit, ContractTypeOK, IdleRun, RunStates
  <1>4. documents["flow"] = NoDocument /\ original = NoDocument
    BY <1>1 DEF ContractsInit, DocumentNames
  <1>5. QED
    BY <1>2, <1>3, <1>4, TextsDiffer DEF ContractsInv, ContractThere, CreatedByOne, BackedUp, Inits, Migrates

\* A step of one run leaves the others, and who migrates, as they are.
LEMMA OthersKept ==
  ASSUME NEW r \in Runs, runs'[r].op = runs[r].op, \A s \in Runs : s # r => runs'[s] = runs[s]
  PROVE  /\ NoMigration' <=> NoMigration
         /\ OneMigration' <=> OneMigration
         /\ \A s \in Runs, k \in Nat : s # r => (Inits(s, k)' <=> Inits(s, k)) /\ (Migrates(s, k)' <=> Migrates(s, k))
  BY DEF NoMigration, OneMigration, Inits, Migrates

\* A run that goes on without writing, before it creates anything or after it backed up.
LEMMA MovesOnKeepsInv ==
  ASSUME ContractsInv, NEW r \in Runs, Goes(r) \/ Ended(r), runs[r].at > 0, UNCHANGED <<documents, original>>,
         Ended(r) \/ (runs[r].op = "init" /\ runs[r].at <= 2) \/ (runs[r].op = "migrate" /\ runs[r].at >= 6)
  PROVE  ContractsInv'
  <1>1. ContractTypeOK /\ ContractThere /\ runs[r] \in RunStates
    BY DEF ContractsInv, ContractTypeOK
  <1>2. /\ runs' \in [Runs -> RunStates] /\ runs'[r].op = runs[r].op
        /\ Ended(r) => runs'[r].at = 0
        /\ runs'[r].at = 0 \/ (runs'[r].at = runs[r].at + 1 /\ runs'[r].selected = runs[r].selected)
        /\ runs[r].op = "init" => runs'[r].at <= 6
        /\ \A s \in Runs : s # r => runs'[s] = runs[s]
    BY <1>1, GoesFields
  <1>3. /\ NoMigration' <=> NoMigration
        /\ OneMigration' <=> OneMigration
        /\ \A s \in Runs, k \in Nat : s # r => (Inits(s, k)' <=> Inits(s, k)) /\ (Migrates(s, k)' <=> Migrates(s, k))
    BY <1>2, OthersKept
  <1>4. ContractTypeOK'
    BY <1>1, <1>2 DEF ContractTypeOK
  <1>5. /\ ~Inits(r, 4)' /\ ~Inits(r, 5)' /\ ~Inits(r, 6)'
        /\ Migrates(r, 1)' => Migrates(r, 6) /\ runs'[r].at > 4
        /\ Migrates(r, 2)' => Migrates(r, 2)
        /\ Migrates(r, 4)' => Migrates(r, 4)
    BY <1>1, <1>2 DEF Inits, Migrates, RunStates
  <1>6. ContractThere'
    BY <1>1, <1>2, <1>3, <1>5 DEF ContractThere
  <1>7. CreatedByOne'
    BY <1>2, <1>3, <1>5 DEF ContractsInv, CreatedByOne
  <1>8. BackedUp'
    <2>1. \A s \in Runs : /\ Migrates(s, 1)' /\ runs'[s].at <= 4 => Migrates(s, 1) /\ runs[s].at <= 4
                          /\ Migrates(s, 4)' => Migrates(s, 4)
      BY <1>2, <1>3, <1>4, <1>5 DEF ContractTypeOK, RunStates
    <2>2. SUFFICES ASSUME OneMigration, original # NoDocument
                   PROVE  /\ original \in {documents["contract"], documents["backup"]}
                          /\ NoMigration => documents["contract"] = original
                          /\ \A s \in Runs : /\ Migrates(s, 1)' /\ runs'[s].at <= 4 => documents["contract"] = original
                                             /\ Migrates(s, 4)' => documents["backup"] = original
      BY <1>3 DEF BackedUp
    <2>3. QED
      BY <2>1, <2>2 DEF ContractsInv, BackedUp
  <1>9. QED
    BY <1>4, <1>6, <1>7, <1>8 DEF ContractsInv

\* A migration writes: the backup before it touches the contract, and never nothing.
LEMMA MigrationWritesKeepsInv ==
  ASSUME ContractsInv, NEW r \in Runs, Goes(r) \/ Ended(r), runs[r].op = "migrate", runs[r].at >= 2,
         NEW d \in DocumentNames, NEW t \in Texts, documents' = [documents EXCEPT ![d] = t], t # NoDocument,
         UNCHANGED original,
         d = "contract" => runs[r].at \in {4, 5},
         d = "backup" => runs[r].at \in {2, 3},
         runs[r].at = 3 => d = "backup" /\ t = documents["contract"]
  PROVE  ContractsInv'
  <1>1. ContractTypeOK /\ ContractThere /\ runs[r] \in RunStates
    BY DEF ContractsInv, ContractTypeOK
  <1>2. /\ runs' \in [Runs -> RunStates] /\ runs'[r].op = runs[r].op
        /\ runs'[r].at = 0 \/ runs'[r].at = runs[r].at + 1
        /\ \A s \in Runs : s # r => runs'[s] = runs[s]
    BY <1>1, GoesFields DEF RunStates
  <1>3. /\ NoMigration' <=> NoMigration
        /\ OneMigration' <=> OneMigration
        /\ \A s \in Runs, k \in Nat : s # r => (Inits(s, k)' <=> Inits(s, k)) /\ (Migrates(s, k)' <=> Migrates(s, k))
    BY <1>2, OthersKept
  <1>4. documents' \in [DocumentNames -> Texts] /\ documents'[d] = t
        /\ \A x \in DocumentNames : x # d => documents'[x] = documents[x]
    BY <1>1 DEF ContractTypeOK
  <1>5. ContractTypeOK'
    BY <1>1, <1>2, <1>4 DEF ContractTypeOK
  <1>6. "contract" \in DocumentNames /\ "backup" \in DocumentNames
    BY DEF DocumentNames
  <1>7. documents["contract"] # NoDocument => documents'["contract"] # NoDocument
    BY <1>4, <1>6
  <1>8. documents["contract"] # NoDocument /\ \A k \in Nat : ~Inits(r, k) /\ ~Inits(r, k)'
    BY <1>1, <1>2 DEF ContractThere, Migrates, Inits, RunStates
  <1>9. ContractThere'
    BY <1>1, <1>2, <1>3, <1>7, <1>8 DEF ContractThere
  <1>10. CreatedByOne'
    BY <1>3 DEF CreatedByOne, NoMigration
  <1>11. BackedUp'
    <2>1. SUFFICES ASSUME OneMigration, original # NoDocument
                   PROVE  /\ original \in {documents'["contract"], documents'["backup"]}
                          /\ \A s \in Runs : /\ Migrates(s, 1)' /\ runs'[s].at <= 4 => documents'["contract"] = original
                                             /\ Migrates(s, 4)' => documents'["backup"] = original
      BY <1>3 DEF BackedUp, NoMigration
    <2>2. \A s \in Runs : Migrates(s, 1)' \/ Migrates(s, 4)' => s = r
      BY <1>2, <2>1 DEF OneMigration, Migrates
    <2>3. /\ runs[r].at <= 4 => documents["contract"] = original
          /\ runs[r].at >= 4 => documents["backup"] = original
      BY <1>1, <2>1 DEF ContractsInv, BackedUp, Migrates, RunStates
    <2>4. CASE runs[r].at \in {2, 3}
      <3>1. documents'["contract"] = original
        BY <1>4, <1>6, <2>3, <2>4
      <3>2. runs[r].at = 3 => documents'["backup"] = original
        BY <1>4, <2>3
      <3>3. Migrates(r, 4)' => runs[r].at = 3
        BY <1>1, <1>2, <2>4 DEF Migrates
      <3>4. QED
        BY <2>2, <3>1, <3>2, <3>3
    <2>5. CASE runs[r].at \notin {2, 3}
      <3>1. runs[r].at >= 4
        BY <1>1, <2>5 DEF RunStates
      <3>2. documents'["backup"] = original
        BY <1>4, <1>6, <2>3, <2>5, <3>1
      <3>3. ~(Migrates(r, 1)' /\ runs'[r].at <= 4)
        BY <1>1, <1>2, <3>1 DEF Migrates, RunStates
      <3>4. QED
        BY <2>2, <3>2, <3>3
    <2>6. QED
      BY <2>4, <2>5
  <1>12. QED
    BY <1>5, <1>9, <1>10, <1>11 DEF ContractsInv

\* The migration reads a contract that is there.
LEMMA ParseContractKeepsInv ==
  ASSUME ContractsInv, NEW r \in Runs, ParseContract(r)
  PROVE  ContractsInv'
  <1>1. ContractTypeOK /\ ContractThere /\ runs[r] \in RunStates /\ "contract" \in DocumentNames
    BY DEF ContractsInv, ContractTypeOK, DocumentNames
  <1>2. runs[r].op = "migrate" /\ runs[r].at = 1 /\ UNCHANGED <<documents, original>>
    BY <1>1, StepPlaces DEF ParseContract
  <1>3. CASE documents["contract"] = NoDocument
    BY <1>2, <1>3, MovesOnKeepsInv DEF ParseContract
  <1>4. CASE documents["contract"] # NoDocument
    <2>1. PICK sel \in Selections \union {{}} : sel = documents["contract"].selected
      BY <1>1 DEF ContractTypeOK, Texts
    <2>2. PICK q : q = [op |-> runs[r].op, at |-> runs[r].at + 1, selected |-> sel]
      OBVIOUS
    <2>3. runs' = [runs EXCEPT ![r] = q]
      BY <1>4, <2>1, <2>2 DEF ParseContract
    <2>4. q \in RunStates /\ q.op = "migrate" /\ q.at = 2
      BY <1>1, <1>2, <2>1, <2>2 DEF RunStates
    <2>5. runs' \in [Runs -> RunStates] /\ runs'[r] = q /\ \A s \in Runs : s # r => runs'[s] = runs[s]
      BY <1>1, <2>3, <2>4 DEF ContractTypeOK
    <2>6. /\ NoMigration' <=> NoMigration
          /\ OneMigration' <=> OneMigration
          /\ \A s \in Runs, k \in Nat : s # r => (Inits(s, k)' <=> Inits(s, k)) /\ (Migrates(s, k)' <=> Migrates(s, k))
      BY <1>2, <2>4, <2>5, OthersKept
    <2>7. ContractTypeOK'
      BY <1>1, <1>2, <2>5 DEF ContractTypeOK
    <2>8. /\ Migrates(r, 1) /\ runs[r].at <= 4 /\ ~Migrates(r, 4)' /\ runs'[r].op = "migrate"
          /\ \A k \in Nat : ~Inits(r, k)'
      BY <1>2, <2>4, <2>5 DEF Migrates, Inits
    <2>9. ContractThere'
      BY <1>1, <1>2, <1>4, <2>5, <2>6, <2>8 DEF ContractThere
    <2>10. CreatedByOne'
      BY <1>2, <2>6 DEF CreatedByOne, NoMigration
    <2>11. BackedUp'
      BY <1>2, <2>5, <2>6, <2>8 DEF ContractsInv, BackedUp
    <2>12. QED
      BY <2>7, <2>9, <2>10, <2>11 DEF ContractsInv
  <1>5. QED
    BY <1>3, <1>4

\* An init writes its files: the contract first, which nobody else has created.
LEMMA InitWritesKeepsInv ==
  ASSUME ContractsInv, NEW r \in Runs, Goes(r), runs[r].op = "init", UNCHANGED original,
         NEW d \in DocumentNames, NEW t \in Texts, documents' = [documents EXCEPT ![d] = t],
         \/ runs[r].at = 3 /\ d = "contract" /\ documents[d] = NoDocument /\ t = Emptied
         \/ runs[r].at = 4 /\ d = "contract" /\ t = Canonical(runs[r].selected)
         \/ runs[r].at = 5 /\ d = "flow" /\ t = Emptied
         \/ runs[r].at = 6 /\ d = "flow" /\ t = Canonical(runs[r].selected)
  PROVE  ContractsInv'
  <1>1. ContractTypeOK /\ ContractThere /\ runs[r] \in RunStates
    BY DEF ContractsInv, ContractTypeOK
  <1>2. /\ runs' \in [Runs -> RunStates] /\ runs'[r].op = runs[r].op
        /\ runs'[r].at = 0 \/ (runs'[r].at = runs[r].at + 1 /\ runs'[r].selected = runs[r].selected)
        /\ runs'[r].at <= 6
        /\ runs[r].at = 6 => runs'[r].at = 0
        /\ \A s \in Runs : s # r => runs'[s] = runs[s]
    BY <1>1, GoesFields DEF RunStates
  <1>3. /\ NoMigration' <=> NoMigration
        /\ OneMigration' <=> OneMigration
        /\ \A s \in Runs, k \in Nat : s # r => (Inits(s, k)' <=> Inits(s, k)) /\ (Migrates(s, k)' <=> Migrates(s, k))
    BY <1>2, OthersKept
  <1>4. documents' \in [DocumentNames -> Texts] /\ documents'[d] = t
        /\ \A x \in DocumentNames : x # d => documents'[x] = documents[x]
    BY <1>1 DEF ContractTypeOK
  <1>5. "contract" \in DocumentNames /\ "backup" \in DocumentNames /\ "flow" \in DocumentNames
    BY DEF DocumentNames
  <1>6. ContractTypeOK'
    BY <1>1, <1>2, <1>4 DEF ContractTypeOK
  <1>7. PICK sel \in Selections \union {{}} : sel = runs[r].selected
    BY <1>1 DEF RunStates
  <1>8. /\ t # NoDocument
        /\ runs[r].at \in {3, 5} => t = Emptied /\ t.by = "emptied"
        /\ runs[r].at \in {4, 6} => t = Canonical(sel) /\ t.by = "cli" /\ t.selected = sel
    BY <1>7, TextsDiffer
  <1>9. ~Migrates(r, 1)' /\ ~Migrates(r, 2)' /\ ~Migrates(r, 4)' /\ runs'[r].op = "init"
    BY <1>2 DEF Migrates
  <1>10. original = NoDocument
    <2>1. CASE runs[r].at = 3
      BY <1>1, <2>1 DEF ContractThere
    <2>2. CASE runs[r].at # 3
      <3>1. Inits(r, 4)
        BY <1>1, <2>2 DEF Inits, RunStates
      <3>2. QED
        BY <1>1, <3>1 DEF ContractThere
    <2>3. QED
      BY <2>1, <2>2
  <1>11. documents'["contract"] # NoDocument
    <2>1. CASE d = "contract"
      BY <1>4, <1>8, <2>1
    <2>2. CASE d # "contract"
      <3>1. Inits(r, 4) /\ documents'["contract"] = documents["contract"]
        BY <1>1, <1>4, <1>5, <2>2 DEF Inits, RunStates
      <3>2. QED
        BY <1>1, <3>1 DEF ContractThere
    <2>3. QED
      BY <2>1, <2>2
  <1>12. \A s \in Runs : s # r => ~Inits(s, 4) /\ ~Inits(s, 4)'
    <2>1. CASE runs[r].at = 3
      BY <1>1, <1>3, <2>1 DEF ContractThere
    <2>2. CASE runs[r].at # 3
      <3>1. Inits(r, 4)
        BY <1>1, <2>2 DEF Inits, RunStates
      <3>2. QED
        BY <1>1, <1>3, <3>1 DEF ContractThere
    <2>3. QED
      BY <2>1, <2>2
  <1>13. \A s \in Runs : s # r => ~Inits(s, 5)' /\ ~Inits(s, 6)'
    BY <1>2, <1>12 DEF Inits, RunStates
  <1>14. ContractThere'
    BY <1>1, <1>2, <1>3, <1>9, <1>10, <1>11, <1>12 DEF ContractThere
  <1>15. BackedUp'
    BY <1>10 DEF BackedUp
  <1>16. CreatedByOne'
    <2>1. SUFFICES ASSUME NoMigration
                   PROVE  /\ Inits(r, 5)' => documents'["contract"] = Canonical(runs'[r].selected)
                          /\ Inits(r, 6)' => documents'["flow"] = Emptied
                          /\ documents'["flow"].by = "cli" =>
                               /\ documents'["contract"].by = "cli"
                               /\ documents'["contract"].selected = documents'["flow"].selected
                               /\ \A s \in Runs : ~Inits(s, 4)'
      BY <1>3, <1>10, <1>13 DEF CreatedByOne
    <2>2. CreatedByOne
      BY DEF ContractsInv
    <2>3. CASE runs[r].at = 3
      <3>1. ~Inits(r, 5)' /\ ~Inits(r, 6)'
        BY <1>2, <2>3 DEF Inits
      <3>2. documents["flow"].by # "cli"
        <4>1. documents["contract"].by = "nobody"
          BY <2>3, TextsDiffer
        <4>2. QED
          BY <2>1, <2>2, <4>1 DEF CreatedByOne
      <3>3. documents'["flow"].by # "cli"
        BY <1>4, <1>5, <2>3, <3>2
      <3>4. QED
        BY <3>1, <3>3
    <2>4. CASE runs[r].at = 4
      <3>1. ~Inits(r, 6)' /\ Inits(r, 4)
        BY <1>2, <2>4 DEF Inits
      <3>2. documents'["flow"].by # "cli"
        BY <1>4, <1>5, <2>1, <2>2, <2>4, <3>1 DEF CreatedByOne
      <3>3. Inits(r, 5)' => documents'["contract"] = Canonical(runs'[r].selected)
        BY <1>2, <1>4, <2>4 DEF Inits
      <3>4. QED
        BY <3>1, <3>2, <3>3
    <2>5. CASE runs[r].at = 5
      <3>1. documents["contract"] = Canonical(runs[r].selected)
        BY <2>1, <2>2, <2>5 DEF CreatedByOne, Inits
      <3>2. documents'["contract"] = documents["contract"] /\ documents'["flow"] = Emptied
        BY <1>4, <1>5, <2>5
      <3>3. Inits(r, 5)' => documents'["contract"] = Canonical(runs'[r].selected)
        BY <1>2, <2>5, <3>1, <3>2 DEF Inits
      <3>4. documents'["flow"].by # "cli"
        BY <3>2, TextsDiffer
      <3>5. QED
        BY <3>2, <3>3, <3>4
    <2>6. CASE runs[r].at = 6
      <3>1. documents["contract"] = Canonical(sel)
        BY <1>7, <2>1, <2>2, <2>6 DEF CreatedByOne, Inits
      <3>2. documents'["contract"] = Canonical(sel) /\ documents'["flow"] = Canonical(sel)
        BY <1>4, <1>5, <1>8, <2>6, <3>1
      <3>3. ~Inits(r, 4)' /\ ~Inits(r, 5)' /\ ~Inits(r, 6)'
        BY <1>2, <2>6 DEF Inits
      <3>4. documents'["contract"].by = "cli"
        BY <3>2, TextsDiffer
      <3>5. QED
        BY <1>12, <3>2, <3>3, <3>4
    <2>7. QED
      BY <2>3, <2>4, <2>5, <2>6
  <1>17. QED
    BY <1>6, <1>14, <1>15, <1>16 DEF ContractsInv

\* The user writes a file that is not there.
LEMMA UserWritesKeepsInv ==
  ASSUME ContractsInv, NEW d \in DocumentNames, UserWrites(d)
  PROVE  ContractsInv'
  <1>1. ContractTypeOK /\ ContractThere /\ CreatedByOne
    BY DEF ContractsInv
  <1>2. PICK s \in Selections : documents' = [documents EXCEPT ![d] = Text("user", s)]
    BY DEF UserWrites
  <1>3. PICK t \in Texts : t = Text("user", s) /\ t # NoDocument /\ t.by = "user"
    BY <1>2, TextsDiffer
  <1>4. documents' \in [DocumentNames -> Texts] /\ documents'[d] = t
        /\ \A x \in DocumentNames : x # d => documents'[x] = documents[x]
    BY <1>1, <1>2, <1>3 DEF ContractTypeOK
  <1>5. /\ documents[d] = NoDocument /\ d \in {"contract", "flow"} /\ original = NoDocument /\ UNCHANGED runs
        /\ original' = IF d = "contract" THEN t ELSE original
    BY <1>4 DEF UserWrites, DocumentNames
  <1>6. "contract" \in DocumentNames /\ "backup" \in DocumentNames /\ "flow" \in DocumentNames
    BY DEF DocumentNames
  <1>7. ContractTypeOK'
    BY <1>1, <1>3, <1>4, <1>5 DEF ContractTypeOK
  <1>8. /\ NoMigration' <=> NoMigration
        /\ OneMigration' <=> OneMigration
        /\ \A r \in Runs, k \in Nat : (Inits(r, k)' <=> Inits(r, k)) /\ (Migrates(r, k)' <=> Migrates(r, k))
    BY <1>5 DEF NoMigration, OneMigration, Inits, Migrates
  <1>9. CASE d = "contract"
    <2>1. /\ original' = t /\ documents'["contract"] = t /\ documents'["flow"] = documents["flow"]
          /\ documents["contract"] = NoDocument /\ documents["contract"].by = "nobody"
      BY <1>4, <1>5, <1>6, <1>9, TextsDiffer
    <2>2. \A r \in Runs : ~Inits(r, 4) /\ ~Migrates(r, 2)
      BY <1>1, <2>1 DEF ContractThere
    <2>3. \A r \in Runs : ~Inits(r, 5) /\ ~Inits(r, 6) /\ ~Migrates(r, 4)
      BY <1>1, <2>2 DEF ContractTypeOK, RunStates, Inits, Migrates
    <2>4. ContractThere'
      BY <1>1, <1>3, <1>5, <1>8, <2>1, <2>2 DEF ContractThere
    <2>5. CreatedByOne'
      BY <1>1, <1>8, <2>1, <2>3 DEF CreatedByOne
    <2>6. BackedUp'
      BY <1>8, <2>1, <2>3 DEF BackedUp
    <2>7. QED
      BY <1>7, <2>4, <2>5, <2>6 DEF ContractsInv
  <1>10. CASE d = "flow"
    <2>1. /\ original' = NoDocument /\ documents'["contract"] = documents["contract"] /\ documents'["flow"].by = "user"
          /\ documents["flow"] # Emptied
      BY <1>3, <1>4, <1>5, <1>6, <1>10, TextsDiffer
    <2>2. ContractThere'
      BY <1>1, <1>5, <1>8, <2>1 DEF ContractThere
    <2>3. CreatedByOne'
      BY <1>1, <1>5, <1>8, <2>1 DEF CreatedByOne
    <2>4. BackedUp'
      BY <2>1 DEF BackedUp
    <2>5. QED
      BY <1>7, <2>2, <2>3, <2>4 DEF ContractsInv
  <1>11. QED
    BY <1>5, <1>9, <1>10

\* A run begins: no other begins with it, and a migration only beside none, or as a second one.
LEMMA RunBeginsKeepsInv ==
  ASSUME ContractsInv, NEW r \in Runs, RunInit(r) \/ RunMigrate(r)
  PROVE  ContractsInv'
  <1>1. ContractTypeOK /\ ContractThere /\ CreatedByOne /\ BackedUp /\ UNCHANGED <<documents, original>>
    BY DEF ContractsInv, RunInit, RunMigrate
  <1>2. runs[r].op = "none" /\ runs[r].at = 0
    BY DEF RunInit, RunMigrate, IdleRun
  <1>3. PICK q \in RunStates : /\ runs' = [runs EXCEPT ![r] = q] /\ q.at = 1
                               /\ q.op = "init" \/ q.op = "migrate"
    <2>1. CASE RunInit(r)
      <3>1. PICK sel \in Selections : runs' = [runs EXCEPT ![r] = [op |-> "init", at |-> 1, selected |-> sel]]
        BY <2>1 DEF RunInit
      <3>2. [op |-> "init", at |-> 1, selected |-> sel] \in RunStates
        BY <3>1 DEF RunStates
      <3>3. QED
        BY <3>1, <3>2
    <2>2. CASE RunMigrate(r)
      <3>1. [op |-> "migrate", at |-> 1, selected |-> {}] \in RunStates
        BY DEF RunStates
      <3>2. QED
        BY <2>2, <3>1 DEF RunMigrate
    <2>3. QED
      BY <2>1, <2>2
  <1>4. runs' \in [Runs -> RunStates] /\ runs'[r] = q /\ \A s \in Runs : s # r => runs'[s] = runs[s]
    BY <1>1, <1>3 DEF ContractTypeOK
  <1>5. ContractTypeOK'
    BY <1>1, <1>4 DEF ContractTypeOK
  <1>6. /\ NoMigration' => NoMigration
        /\ OneMigration' => OneMigration
        /\ OneMigration' /\ q.op = "migrate" => NoMigration
        /\ \A s \in Runs, k \in Nat : s # r => (Inits(s, k)' <=> Inits(s, k)) /\ (Migrates(s, k)' <=> Migrates(s, k))
    BY <1>2, <1>3, <1>4 DEF NoMigration, OneMigration, Inits, Migrates
  <1>7. /\ ~Inits(r, 4)' /\ ~Inits(r, 5)' /\ ~Inits(r, 6)' /\ ~Migrates(r, 2)' /\ ~Migrates(r, 4)'
        /\ Migrates(r, 1)' => q.op = "migrate"
    BY <1>3, <1>4 DEF Inits, Migrates
  <1>8. ContractThere'
    BY <1>1, <1>3, <1>4, <1>6, <1>7 DEF ContractThere
  <1>9. CreatedByOne'
    BY <1>1, <1>4, <1>6, <1>7 DEF CreatedByOne
  <1>10. BackedUp'
    <2>1. SUFFICES ASSUME OneMigration', original # NoDocument
                   PROVE  /\ original \in {documents["contract"], documents["backup"]}
                          /\ NoMigration' => documents["contract"] = original
                          /\ \A s \in Runs : /\ Migrates(s, 1)' /\ runs'[s].at <= 4 => documents["contract"] = original
                                             /\ Migrates(s, 4)' => documents["backup"] = original
      BY <1>1 DEF BackedUp
    <2>2. QED
      BY <1>1, <1>4, <1>6, <1>7, <2>1 DEF BackedUp
  <1>11. QED
    BY <1>5, <1>8, <1>9, <1>10 DEF ContractsInv

\* The steps that look, probe or end a run.
LEMMA RunLooksKeepsInv ==
  ASSUME ContractsInv, NEW r \in Runs, Probe(r) \/ StopRun(r) \/ \E d \in DocumentNames : Look(r, d)
  PROVE  ContractsInv'
  <1>1. ContractTypeOK /\ ContractThere
    BY DEF ContractsInv
  <1>2. CASE Probe(r)
    <2>1. "flow" \in DocumentNames
      BY DEF DocumentNames
    <2>2. runs[r].op = "migrate" /\ runs[r].at = 6
      BY <1>1, <1>2, <2>1, StepPlaces DEF Probe
    <2>3. (Goes(r) \/ Ended(r)) /\ UNCHANGED <<documents, original>>
      BY <1>2 DEF Probe
    <2>4. QED
      BY <2>2, <2>3, MovesOnKeepsInv
  <1>3. CASE StopRun(r)
    BY <1>3, MovesOnKeepsInv DEF StopRun
  <1>4. ASSUME NEW d \in DocumentNames, Look(r, d)
        PROVE  ContractsInv'
    <2>1. runs[r].op = "init" /\ runs[r].at \in {1, 2}
      BY <1>1, <1>4, StepPlaces DEF Look
    <2>2. (Goes(r) \/ Ended(r)) /\ UNCHANGED <<documents, original>>
      BY <1>4 DEF Look
    <2>3. QED
      BY <2>1, <2>2, MovesOnKeepsInv
  <1>5. QED
    BY <1>2, <1>3, <1>4

\* The steps that write a file.
LEMMA RunWritesKeepsInv ==
  ASSUME ContractsInv, NEW r \in Runs, NEW d \in DocumentNames,
         CreateDocument(r, d) \/ EmptyDocument(r, d) \/ FillDocument(r, d) \/ CopyBackup(r)
  PROVE  ContractsInv'
  <1>1. ContractTypeOK /\ ContractThere /\ runs[r] \in RunStates
    BY DEF ContractsInv, ContractTypeOK
  <1>2. PICK sel \in Selections \union {{}} : sel = runs[r].selected
    BY <1>1 DEF RunStates
  <1>3. /\ Emptied \in Texts /\ Emptied # NoDocument
        /\ Canonical(runs[r].selected) \in Texts /\ Canonical(runs[r].selected) # NoDocument
    BY <1>2, TextsDiffer
  <1>4. CASE CreateDocument(r, d)
    <2>1. runs[r].op = "init" /\ ((runs[r].at = 3 /\ d = "contract") \/ (runs[r].at = 5 /\ d = "flow"))
          /\ UNCHANGED original
      BY <1>1, <1>4, StepPlaces DEF CreateDocument
    <2>2. CASE documents[d] = NoDocument
      <3>1. documents' = [documents EXCEPT ![d] = Emptied] /\ Goes(r)
        BY <1>4, <2>2 DEF CreateDocument, CanCreate
      <3>2. QED
        BY <1>3, <2>1, <2>2, <3>1, InitWritesKeepsInv
    <2>3. CASE documents[d] # NoDocument
      <3>1. Ended(r) /\ UNCHANGED documents
        BY <1>4, <2>3 DEF CreateDocument, CanCreate
      <3>2. QED
        BY <2>1, <3>1, MovesOnKeepsInv
    <2>4. QED
      BY <2>2, <2>3
  <1>5. CASE EmptyDocument(r, d)
    <2>1. /\ runs[r].op = "migrate"
          /\ (runs[r].at = 2 /\ d = "backup") \/ (runs[r].at = 4 /\ d = "contract") \/ (runs[r].at = 7 /\ d = "flow")
      BY <1>1, <1>5, StepPlaces DEF EmptyDocument
    <2>2. documents' = [documents EXCEPT ![d] = Emptied] /\ Goes(r) /\ UNCHANGED original
      BY <1>5 DEF EmptyDocument
    <2>3. /\ runs[r].at >= 2
          /\ d = "contract" => runs[r].at \in {4, 5}
          /\ d = "backup" => runs[r].at \in {2, 3}
          /\ runs[r].at = 3 => d = "backup" /\ Emptied = documents["contract"]
      BY <2>1
    <2>4. QED
      BY <1>3, <2>1, <2>2, <2>3, MigrationWritesKeepsInv
  <1>6. CASE FillDocument(r, d)
    <2>1. \/ runs[r].op = "migrate" /\ runs[r].at = 5 /\ d = "contract"
          \/ runs[r].op = "migrate" /\ runs[r].at = 8 /\ d = "flow"
          \/ runs[r].op = "init" /\ runs[r].at = 4 /\ d = "contract"
          \/ runs[r].op = "init" /\ runs[r].at = 6 /\ d = "flow"
      BY <1>1, <1>6, StepPlaces DEF FillDocument
    <2>2. documents' = [documents EXCEPT ![d] = Canonical(runs[r].selected)] /\ Goes(r) /\ UNCHANGED original
      BY <1>6 DEF FillDocument
    <2>3. CASE runs[r].op = "migrate"
      <3>1. /\ runs[r].at >= 2
            /\ d = "contract" => runs[r].at \in {4, 5}
            /\ d = "backup" => runs[r].at \in {2, 3}
            /\ runs[r].at = 3 => d = "backup" /\ Canonical(runs[r].selected) = documents["contract"]
        BY <2>1, <2>3
      <3>2. QED
        BY <1>3, <2>2, <2>3, <3>1, MigrationWritesKeepsInv
    <2>4. CASE runs[r].op = "init"
      BY <1>3, <2>1, <2>2, <2>4, InitWritesKeepsInv
    <2>5. QED
      BY <2>1, <2>3, <2>4
  <1>7. CASE CopyBackup(r)
    <2>1. runs[r].op = "migrate" /\ runs[r].at = 3
      BY <1>1, <1>7, StepPlaces DEF CopyBackup
    <2>2. documents' = [documents EXCEPT !["backup"] = documents["contract"]] /\ Goes(r) /\ UNCHANGED original
      BY <1>7 DEF CopyBackup
    <2>3. documents["contract"] \in Texts /\ documents["contract"] # NoDocument /\ "backup" \in DocumentNames
      BY <1>1, <2>1 DEF ContractTypeOK, ContractThere, Migrates, DocumentNames
    <2>4. PICK t \in Texts, b \in DocumentNames : t = documents["contract"] /\ b = "backup"
      BY <2>3
    <2>5. documents' = [documents EXCEPT ![b] = t] /\ t # NoDocument
      BY <2>2, <2>3, <2>4
    <2>6. /\ runs[r].at >= 2
          /\ b = "contract" => runs[r].at \in {4, 5}
          /\ b = "backup" => runs[r].at \in {2, 3}
          /\ runs[r].at = 3 => b = "backup" /\ t = documents["contract"]
      BY <2>1, <2>4
    <2>7. (Goes(r) \/ Ended(r)) /\ UNCHANGED original /\ runs[r].op = "migrate"
      BY <2>1, <2>2
    <2>8. t \in Texts /\ b \in DocumentNames
      BY <2>4
    <2>9. QED
      BY <2>5, <2>6, <2>7, <2>8, MigrationWritesKeepsInv
  <1>8. QED
    BY <1>4, <1>5, <1>6, <1>7

\* Where the one migration stands, and which init created the contract, for any number of runs.
THEOREM ContractsInvariance == ContractsSpec => []ContractsInv
  <1>1. ContractsInit => ContractsInv
    BY ContractsInitInv
  <1>2. ContractsInv /\ [ContractsNext]_contractVars => ContractsInv'
    <2> SUFFICES ASSUME ContractsInv, [ContractsNext]_contractVars
                 PROVE  ContractsInv'
      OBVIOUS
    <2>1. CASE \E d \in DocumentNames : UserWrites(d)
      BY <2>1, UserWritesKeepsInv
    <2>2. ASSUME NEW r \in Runs,
                 \/ RunInit(r) \/ RunMigrate(r) \/ ParseContract(r) \/ CopyBackup(r) \/ Probe(r) \/ StopRun(r)
                 \/ \E d \in DocumentNames : \/ Look(r, d) \/ CreateDocument(r, d)
                                             \/ EmptyDocument(r, d) \/ FillDocument(r, d)
          PROVE  ContractsInv'
      <3>1. \E d : d \in DocumentNames
        BY DEF DocumentNames
      <3>2. QED
        BY <2>2, <3>1, RunBeginsKeepsInv, ParseContractKeepsInv, RunLooksKeepsInv, RunWritesKeepsInv
    <2>3. CASE UNCHANGED contractVars
      BY <2>3 DEF contractVars, ContractsInv, ContractTypeOK, ContractThere, CreatedByOne, BackedUp, NoMigration,
                  OneMigration, Inits, Migrates
    <2>4. QED
      BY <2>1, <2>2, <2>3 DEF ContractsNext
  <1>3. QED
    BY <1>1, <1>2, PTL DEF ContractsSpec

\* At most one member.
LEMMA AtMostOne ==
  ASSUME NEW S, IsFiniteSet(S), Cardinality(S) <= 1, NEW x \in S, NEW y \in S
  PROVE  x = y
  <1>1. SUFFICES ASSUME x # y PROVE FALSE
    OBVIOUS
  <1>2. IsFiniteSet(S \ {x}) /\ Cardinality(S \ {x}) = Cardinality(S) - 1
    BY FS_RemoveElement
  <1>3. Cardinality(S) \in Nat /\ Cardinality(S \ {x}) \in Nat
    BY <1>2, FS_CardinalityType
  <1>4. Cardinality(S \ {x}) = 0
    BY <1>2, <1>3
  <1>5. S \ {x} = {}
    BY <1>2, <1>4, FS_EmptySet
  <1>6. QED
    BY <1>1, <1>5

\* While one migration runs, and wherever it is stopped, the contract the user wrote is in
\* appport.toml or in its backup; inits that overlap leave the files of one selection and what
\* the user wrote: for any number of runs and any selections.
THEOREM ContractSoundAlways == ContractsSpec => []ContractSound
  <1>1. ContractsInv => OriginalKept
    <2>1. SUFFICES ASSUME ContractsInv, original # NoDocument, Cardinality({r \in Runs : runs[r].op = "migrate"}) <= 1
                   PROVE  original \in {documents["contract"], documents["backup"]}
      BY DEF OriginalKept
    <2>2. IsFiniteSet({r \in Runs : runs[r].op = "migrate"})
      BY ContractsAssumption, FS_Subset
    <2>3. OneMigration
      BY <2>1, <2>2, AtMostOne DEF OneMigration
    <2>4. QED
      BY <2>1, <2>3 DEF ContractsInv, BackedUp
  <1>2. ContractsInv => OneContract
    BY DEF ContractsInv, CreatedByOne, NoMigration, OneContract
  <1>3. ContractsInv => ContractSound
    BY <1>1, <1>2 DEF ContractSound
  <1>4. QED
    BY <1>3, ContractsInvariance, PTL

-----------------------------------------------------------------------------
(* The intelligence selection and its credential *)

EditorStates ==
    [op : {"none", "set", "setCredential", "removeCredential", "resolveRuntime"},
     pc : {"idle", "load", "detach", "bind", "save", "done", "failed"},
     dest : Destinations \union {Nothing}, ref : Credentials \union {Nothing},
     selection : SelectionRows \union {Nothing}, binding : BindingRows \union {Nothing},
     read : SUBSET {"selection", "binding"}]

\* A call that reached a write has what it writes.
WellFormed(q) ==
    /\ q.pc \in {"detach", "bind", "save"} => Writes(q.op)
    /\ q.pc = "bind" => q.ref # Nothing /\ q.op # "removeCredential"
    /\ q.pc = "save" => q.op = "set"
    /\ q.op = "setCredential" => q.ref # Nothing
    /\ q.op = "set" => q.dest # Nothing

IntelligenceTypeOK ==
    /\ selections \subseteq SelectionRows
    /\ bindings \subseteq BindingRows
    /\ editors \in [Editors -> EditorStates]
    /\ overlapped \in BOOLEAN
    /\ \A e \in Editors : WellFormed(editors[e])

Single(S) == \A x, y \in S : x = y
InProgress(q) == Writes(q.op) /\ q.pc \notin {"idle", "done", "failed"}

\* What the one call that writes knows: the records it has read are still the records of
\* the store, and before it saves its selection no credential is left that was bound for
\* another destination.
EditorInv(q, sel, bound, asked) ==
    InProgress(q) =>
        /\ "selection" \in q.read => q.selection \in Row(sel)
        /\ "binding" \in q.read /\ q.pc # "save" => q.binding \in Row(bound)
        /\ q.pc # "load" => q.read = {"selection", "binding"}
        /\ q.pc = "detach" => q.binding # Nothing
        /\ q.op = "set" /\ q.ref # Nothing => <<q.ref, q.dest>> \in asked
        /\ q.op = "setCredential" /\ q.pc = "bind" => <<q.ref, q.selection.dest>> \in asked
        /\ q.pc = "save" => \/ bound = {}
                            \/ q.ref # Nothing /\ \A b \in bound : b.ref = q.ref
                            \/ q.selection # Nothing /\ q.selection.dest = q.dest

\* Why a credential and a destination stand together.
Stand(b, s) ==
    \/ <<b.ref, s.dest>> \in paired
    \/ \E e \in Editors : Unsaved(e) /\ editors[e].ref = b.ref /\ <<e, b.ref, s.dest>> \in beside

\* As long as the callers take turns there is one record of each kind.
TakingTurns ==
    /\ \A e, f \in Editors : Busy(e) /\ Busy(f) => e = f
    /\ Single(selections) /\ Single(bindings)
    /\ \A b \in bindings, s \in selections : Stand(b, s)
    /\ \A e \in Editors : EditorInv(editors[e], selections, bindings, paired)

IntelligenceInv == IntelligenceTypeOK /\ (~overlapped => TakingTurns)

LEMMA IntelligenceInitInv == IntelligenceInit => IntelligenceInv
  <1>1. IdleEditor \in EditorStates /\ ~InProgress(IdleEditor) /\ IdleEditor.pc = "idle" /\ WellFormed(IdleEditor)
    BY DEF IdleEditor, EditorStates, InProgress, WellFormed
  <1>2. QED
    BY <1>1 DEF IntelligenceInit, IntelligenceInv, IntelligenceTypeOK, TakingTurns, EditorInv, Single, Busy, InProgress

\* A step of one call: the others see the same records, because the call is the one that
\* writes or it writes nothing.
LEMMA EditorMoves ==
  ASSUME IntelligenceInv, NEW e \in Editors, NEW q \in EditorStates, editors' = [editors EXCEPT ![e] = q],
         WellFormed(q),
         selections' \subseteq SelectionRows, bindings' \subseteq BindingRows, UNCHANGED overlapped,
         paired \subseteq paired',
         InProgress(q) => InProgress(editors[e]),
         InProgress(editors[e]) \/ UNCHANGED <<selections, bindings>>,
         ~overlapped => /\ Single(selections') /\ Single(bindings')
                        /\ \A b \in bindings', s \in selections' : Stand(b, s)'
                        /\ EditorInv(q, selections', bindings', paired')
  PROVE  IntelligenceInv'
  <1>1. IntelligenceTypeOK
    BY DEF IntelligenceInv
  <1>2. editors' \in [Editors -> EditorStates] /\ editors'[e] = q /\ \A f \in Editors : f # e => editors'[f] = editors[f]
    BY <1>1 DEF IntelligenceTypeOK
  <1>3. IntelligenceTypeOK'
    BY <1>1, <1>2 DEF IntelligenceTypeOK
  <1>4. ASSUME ~overlapped
        PROVE  TakingTurns'
    <2>1. TakingTurns
      BY <1>4 DEF IntelligenceInv
    <2>2. \A f \in Editors : /\ Busy(f) <=> InProgress(editors[f])
                             /\ Busy(f)' <=> InProgress(editors'[f])
      BY DEF Busy, InProgress, Writes
    <2>3. \A f \in Editors : Busy(f)' => Busy(f)
      BY <1>2, <2>2
    <2>4. ASSUME NEW f \in Editors, f # e
          PROVE  EditorInv(editors'[f], selections', bindings', paired')
      <3>1. EditorInv(editors[f], selections, bindings, paired) /\ editors'[f] = editors[f]
        BY <1>2, <2>1, <2>4 DEF TakingTurns
      <3>2. CASE InProgress(editors[f])
        <4>1. UNCHANGED <<selections, bindings>>
          BY <2>1, <2>2, <2>4, <3>2 DEF TakingTurns
        <4>2. QED
          BY <3>1, <4>1 DEF EditorInv
      <3>3. CASE ~InProgress(editors[f])
        BY <3>1, <3>3 DEF EditorInv
      <3>4. QED
        BY <3>2, <3>3
    <2>5. \A f \in Editors : EditorInv(editors'[f], selections', bindings', paired')
      BY <1>2, <1>4, <2>4
    <2>6. \A f, g \in Editors : Busy(f)' /\ Busy(g)' => f = g
      BY <2>1, <2>3 DEF TakingTurns
    <2>7. QED
      BY <1>4, <2>5, <2>6 DEF TakingTurns
  <1>5. QED
    BY <1>3, <1>4 DEF IntelligenceInv

\* What stands together still does after a step of a call that does not end its save.
LEMMA StandStays ==
  ASSUME NEW e \in Editors, NEW q, editors \in [Editors -> EditorStates], editors' = [editors EXCEPT ![e] = q],
         paired \subseteq paired', beside \subseteq beside',
         Unsaved(e) => q.op = "set" /\ q.pc = "failed" /\ q.ref = editors[e].ref,
         NEW b, NEW s, Stand(b, s)
  PROVE  Stand(b, s)'
  <1>1. \A f \in Editors : f # e => editors'[f] = editors[f]
    OBVIOUS
  <1>2. editors'[e] = q
    OBVIOUS
  <1>3. CASE <<b.ref, s.dest>> \in paired
    BY <1>3 DEF Stand
  <1>4. ASSUME NEW f \in Editors, Unsaved(f), editors[f].ref = b.ref, <<f, b.ref, s.dest>> \in beside
        PROVE  Stand(b, s)'
    <2>1. Unsaved(f)' /\ editors'[f].ref = b.ref
      BY <1>1, <1>2, <1>4 DEF Unsaved
    <2>2. QED
      BY <1>4, <2>1 DEF Stand
  <1>5. QED
    BY <1>3, <1>4 DEF Stand

\* A call begins: when it writes, no other is writing, or the turns are over.
LEMMA EditKeepsInv ==
  ASSUME IntelligenceInv, NEW e \in Editors, Edit(e)
  PROVE  IntelligenceInv'
  <1>1. IntelligenceTypeOK /\ editors[e].pc = "idle" /\ UNCHANGED <<selections, bindings, beside>>
    BY DEF IntelligenceInv, Edit
  <1>2. PICK op \in {"set", "setCredential", "removeCredential", "resolveRuntime"},
             d \in Destinations \union {Nothing}, r \in Credentials \union {Nothing} :
          /\ (op = "set") <=> (d # Nothing)
          /\ (op = "setCredential") => (r # Nothing)
          /\ editors' = [editors EXCEPT ![e] = [IdleEditor EXCEPT !.op = op, !.dest = d, !.ref = r, !.pc = "load"]]
          /\ paired' = IF op = "set" /\ r # Nothing THEN paired \union {<<r, d>>} ELSE paired
          /\ overlapped' = (overlapped \/ (Writes(op) /\ \E f \in Editors : Busy(f)))
    BY DEF Edit
  <1>3. PICK q : q = [IdleEditor EXCEPT !.op = op, !.dest = d, !.ref = r, !.pc = "load"]
    OBVIOUS
  <1>4. q = [op |-> op, pc |-> "load", dest |-> d, ref |-> r, selection |-> Nothing, binding |-> Nothing, read |-> {}]
    BY <1>3 DEF IdleEditor
  <1>5. q \in EditorStates
    BY <1>2, <1>4 DEF EditorStates
  <1>6. editors' \in [Editors -> EditorStates] /\ editors'[e] = q /\ \A f \in Editors : f # e => editors'[f] = editors[f]
    BY <1>1, <1>2, <1>3, <1>5 DEF IntelligenceTypeOK
  <1>7. q.pc = "load" /\ q.op = op /\ q.read = {} /\ q.dest = d /\ q.ref = r
    BY <1>4
  <1>8. overlapped' \in BOOLEAN
    BY <1>2
  <1>9. WellFormed(q)
    BY <1>2, <1>7 DEF WellFormed
  <1>10. IntelligenceTypeOK'
    BY <1>1, <1>6, <1>8, <1>9 DEF IntelligenceTypeOK
  <1>11. ASSUME ~overlapped'
         PROVE  TakingTurns'
    <2>1. ~overlapped /\ (Writes(op) => \A f \in Editors : ~Busy(f))
      BY <1>2, <1>11
    <2>2. TakingTurns /\ paired \subseteq paired'
      BY <1>2, <2>1 DEF IntelligenceInv
    <2>3. \A f \in Editors : /\ Busy(f) <=> InProgress(editors[f])
                             /\ Busy(f)' <=> InProgress(editors'[f])
      BY DEF Busy, InProgress, Writes
    <2>4. ~InProgress(editors[e])
      BY <1>1 DEF InProgress
    <2>5. InProgress(q) => Writes(op)
      BY <1>7 DEF InProgress
    <2>6. \A f, g \in Editors : Busy(f)' /\ Busy(g)' => f = g
      BY <1>6, <2>1, <2>2, <2>3, <2>5 DEF TakingTurns
    <2>7. EditorInv(q, selections, bindings, paired')
      BY <1>2, <1>7 DEF EditorInv
    <2>8. ASSUME NEW f \in Editors, f # e
          PROVE  EditorInv(editors'[f], selections, bindings, paired')
      <3>1. EditorInv(editors[f], selections, bindings, paired) /\ editors'[f] = editors[f]
        BY <1>6, <2>2, <2>8 DEF TakingTurns
      <3>2. QED
        BY <2>2, <3>1 DEF EditorInv
    <2>9. \A f \in Editors : EditorInv(editors'[f], selections, bindings, paired')
      BY <1>6, <2>7, <2>8
    <2>10. ~Unsaved(e)
      BY <1>1 DEF Unsaved
    <2>11. ASSUME NEW b \in bindings, NEW s \in selections
           PROVE  Stand(b, s)'
      <3>1. Stand(b, s) /\ editors \in [Editors -> EditorStates] /\ beside \subseteq beside'
        BY <1>1, <2>2, <2>11 DEF TakingTurns, IntelligenceTypeOK
      <3>2. editors' = [editors EXCEPT ![e] = q]
        BY <1>2, <1>3
      <3>3. QED
        BY <2>2, <2>10, <3>1, <3>2, StandStays
    <2>12. QED
      BY <1>1, <2>2, <2>6, <2>9, <2>11 DEF TakingTurns
  <1>12. QED
    BY <1>10, <1>11 DEF IntelligenceInv

\* A call fails, or reads one of the two records.
LEMMA LoadKeepsInv ==
  ASSUME IntelligenceInv, NEW e \in Editors, EditFails(e) \/ LoadSelection(e) \/ LoadBinding(e)
  PROVE  IntelligenceInv'
  <1>1. /\ IntelligenceTypeOK /\ editors[e] \in EditorStates
        /\ UNCHANGED <<selections, bindings, paired, beside, overlapped>>
    BY DEF IntelligenceInv, IntelligenceTypeOK, EditFails, LoadSelection, LoadBinding
  <1>2. selections \subseteq SelectionRows /\ bindings \subseteq BindingRows
    BY <1>1 DEF IntelligenceTypeOK
  <1>3. ~overlapped => /\ Single(selections) /\ Single(bindings)
                       /\ \A b \in bindings, s \in selections : Stand(b, s)
                       /\ EditorInv(editors[e], selections, bindings, paired)
    BY DEF IntelligenceInv, TakingTurns
  <1>31. ASSUME ~overlapped, NEW q, editors' = [editors EXCEPT ![e] = q],
                Unsaved(e) => q.op = "set" /\ q.pc = "failed" /\ q.ref = editors[e].ref
         PROVE  \A b \in bindings, s \in selections : Stand(b, s)'
    <2>1. editors \in [Editors -> EditorStates] /\ paired \subseteq paired' /\ beside \subseteq beside'
      BY <1>1 DEF IntelligenceTypeOK
    <2>2. QED
      BY <1>3, <1>31, <2>1, StandStays
  <1>4. CASE EditFails(e)
    <2>1. PICK q : q = [editors[e] EXCEPT !.pc = "failed"]
      OBVIOUS
    <2>2. q \in EditorStates /\ q.pc = "failed"
      BY <1>1, <2>1 DEF EditorStates
    <2>3. editors' = [editors EXCEPT ![e] = q]
      BY <1>4, <2>1 DEF EditFails, EditorAt
    <2>4. ~InProgress(q) /\ EditorInv(q, selections, bindings, paired)
      BY <2>2 DEF InProgress, EditorInv
    <2>5. WellFormed(q)
      BY <1>1, <2>1, <2>2 DEF WellFormed, IntelligenceTypeOK, EditorStates
    <2>6. q.op = editors[e].op /\ q.ref = editors[e].ref
      BY <1>1, <2>1 DEF EditorStates
    <2>7. ~overlapped => \A b \in bindings, s \in selections : Stand(b, s)'
      BY <1>31, <2>2, <2>3, <2>6 DEF Unsaved
    <2>8. ~overlapped => /\ Single(selections') /\ Single(bindings')
                         /\ \A b \in bindings', s \in selections' : Stand(b, s)'
                         /\ EditorInv(q, selections', bindings', paired')
      BY <1>1, <1>3, <2>4, <2>7
    <2>9. QED
      BY <1>1, <1>2, <2>2, <2>3, <2>4, <2>5, <2>8, EditorMoves
  <1>5. CASE LoadSelection(e)
    <2>1. PICK s \in Row(selections) :
            editors' = [editors EXCEPT ![e].selection = s, ![e].read = @ \union {"selection"}]
      BY <1>5 DEF LoadSelection
    <2>2. s \in SelectionRows \union {Nothing}
      BY <1>2, <2>1 DEF Row
    <2>3. PICK q : q = [editors[e] EXCEPT !.selection = s, !.read = editors[e].read \union {"selection"}]
      OBVIOUS
    <2>4. editors' = [editors EXCEPT ![e] = q]
      BY <1>1, <2>1, <2>3 DEF IntelligenceTypeOK, EditorStates
    <2>5. editors[e].read \union {"selection"} \in SUBSET {"selection", "binding"}
      BY <1>1 DEF EditorStates
    <2>6. /\ q \in EditorStates /\ q.pc = editors[e].pc /\ q.op = editors[e].op /\ q.dest = editors[e].dest
          /\ q.ref = editors[e].ref /\ q.binding = editors[e].binding /\ q.selection = s
          /\ q.read = editors[e].read \union {"selection"}
      BY <1>1, <2>2, <2>3, <2>5 DEF EditorStates
    <2>7. editors[e].pc = "load"
      BY <1>5 DEF LoadSelection
    <2>8. InProgress(q) => InProgress(editors[e])
      BY <2>6 DEF InProgress
    <2>9. ~overlapped => EditorInv(q, selections, bindings, paired)
      BY <1>3, <2>1, <2>6, <2>7, <2>8 DEF EditorInv
    <2>10. WellFormed(q)
      BY <1>1, <2>6 DEF WellFormed, IntelligenceTypeOK
    <2>11. ~Unsaved(e)
      BY <2>7 DEF Unsaved
    <2>12. ~overlapped => \A b_1 \in bindings, s_1 \in selections : Stand(b_1, s_1)'
      BY <1>31, <2>4, <2>11
    <2>13. ~overlapped => /\ Single(selections') /\ Single(bindings')
                          /\ \A b_1 \in bindings', s_1 \in selections' : Stand(b_1, s_1)'
                          /\ EditorInv(q, selections', bindings', paired')
      BY <1>1, <1>3, <2>9, <2>12
    <2>14. QED
      BY <1>1, <1>2, <2>4, <2>6, <2>8, <2>10, <2>13, EditorMoves
  <1>6. CASE LoadBinding(e)
    <2>1. PICK b \in Row(bindings) :
            editors' = [editors EXCEPT ![e].binding = b, ![e].read = @ \union {"binding"}]
      BY <1>6 DEF LoadBinding
    <2>2. b \in BindingRows \union {Nothing}
      BY <1>2, <2>1 DEF Row
    <2>3. PICK q : q = [editors[e] EXCEPT !.binding = b, !.read = editors[e].read \union {"binding"}]
      OBVIOUS
    <2>4. editors' = [editors EXCEPT ![e] = q]
      BY <1>1, <2>1, <2>3 DEF IntelligenceTypeOK, EditorStates
    <2>5. editors[e].read \union {"binding"} \in SUBSET {"selection", "binding"}
      BY <1>1 DEF EditorStates
    <2>6. /\ q \in EditorStates /\ q.pc = editors[e].pc /\ q.op = editors[e].op /\ q.dest = editors[e].dest
          /\ q.ref = editors[e].ref /\ q.binding = b /\ q.selection = editors[e].selection
          /\ q.read = editors[e].read \union {"binding"}
      BY <1>1, <2>2, <2>3, <2>5 DEF EditorStates
    <2>7. editors[e].pc = "load"
      BY <1>6 DEF LoadBinding
    <2>8. InProgress(q) => InProgress(editors[e])
      BY <2>6 DEF InProgress
    <2>9. ~overlapped => EditorInv(q, selections, bindings, paired)
      BY <1>3, <2>1, <2>6, <2>7, <2>8 DEF EditorInv
    <2>10. WellFormed(q)
      BY <1>1, <2>6 DEF WellFormed, IntelligenceTypeOK
    <2>11. ~Unsaved(e)
      BY <2>7 DEF Unsaved
    <2>12. ~overlapped => \A b_1 \in bindings, s_1 \in selections : Stand(b_1, s_1)'
      BY <1>31, <2>4, <2>11
    <2>13. ~overlapped => /\ Single(selections') /\ Single(bindings')
                          /\ \A b_1 \in bindings', s_1 \in selections' : Stand(b_1, s_1)'
                          /\ EditorInv(q, selections', bindings', paired')
      BY <1>1, <1>3, <2>9, <2>12
    <2>14. QED
      BY <1>1, <1>2, <2>4, <2>6, <2>8, <2>10, <2>13, EditorMoves
  <1>7. QED
    BY <1>4, <1>5, <1>6

\* What is decided to be written first, and on which ground.
LEMMA DecidedStep ==
  ASSUME IntelligenceTypeOK, NEW e \in Editors, NEW step, editors[e].op # "none",
         step = CASE editors[e].op = "set" -> SetStep(e)
                  [] editors[e].op = "setCredential" -> SetCredentialStep(e)
                  [] editors[e].op = "removeCredential" -> RemoveCredentialStep(e)
                  [] OTHER -> "done"
  PROVE  /\ step \in {"failed", "detach", "bind", "save", "done"}
         /\ step = "detach" => editors[e].binding # Nothing
         /\ step \in {"detach", "bind", "save"} => Writes(editors[e].op)
         /\ step = "bind" => editors[e].ref # Nothing /\ editors[e].op # "removeCredential"
         /\ step = "save" =>
              /\ editors[e].op = "set"
              /\ \/ editors[e].binding = Nothing
                 \/ editors[e].selection # Nothing /\ editors[e].selection.dest = editors[e].dest
  <1>1. editors[e].op \in {"set", "setCredential", "removeCredential", "resolveRuntime"}
    BY DEF IntelligenceTypeOK, EditorStates
  <1>2. CASE editors[e].op = "set"
    BY <1>2 DEF SetStep, KeepCredential, DestinationChanged, Writes
  <1>3. CASE editors[e].op = "setCredential"
    BY <1>3 DEF SetCredentialStep, Writes, IntelligenceTypeOK, WellFormed
  <1>4. CASE editors[e].op = "removeCredential"
    BY <1>4 DEF RemoveCredentialStep, Writes
  <1>5. CASE editors[e].op = "resolveRuntime"
    BY <1>5
  <1>6. QED
    BY <1>1, <1>2, <1>3, <1>4, <1>5

\* The call has read both records and decides.
LEMMA DecideKeepsInv ==
  ASSUME IntelligenceInv, NEW e \in Editors, Decide(e)
  PROVE  IntelligenceInv'
  <1>1. /\ IntelligenceTypeOK /\ editors[e] \in EditorStates
        /\ selections \subseteq SelectionRows /\ bindings \subseteq BindingRows
        /\ UNCHANGED <<selections, bindings, beside, overlapped>>
    BY DEF IntelligenceInv, IntelligenceTypeOK, Decide
  <1>2. editors[e].pc = "load" /\ editors[e].read = {"selection", "binding"}
    BY DEF Decide
  <1>3. PICK step : step = CASE editors[e].op = "set" -> SetStep(e)
                             [] editors[e].op = "setCredential" -> SetCredentialStep(e)
                             [] editors[e].op = "removeCredential" -> RemoveCredentialStep(e)
                             [] OTHER -> "done"
    OBVIOUS
  <1>4. /\ EditorAt(e, step)
        /\ paired' = IF editors[e].op = "setCredential" /\ step = "bind"
                     THEN paired \union {<<editors[e].ref, editors[e].selection.dest>>} ELSE paired
    BY <1>3 DEF Decide
  <1>5. paired \subseteq paired'
    BY <1>4
  <1>51. ~Unsaved(e) /\ editors \in [Editors -> EditorStates] /\ beside \subseteq beside'
    BY <1>1, <1>2 DEF Unsaved, IntelligenceTypeOK
  <1>52. ASSUME ~overlapped, NEW q, editors' = [editors EXCEPT ![e] = q]
         PROVE  \A b \in bindings, s \in selections : Stand(b, s)'
    <2>1. \A b \in bindings, s \in selections : Stand(b, s)
      BY <1>52 DEF IntelligenceInv, TakingTurns
    <2>2. QED
      BY <1>5, <1>51, <1>52, <2>1, StandStays
  <1>6. CASE editors[e].op = "none"
    <2>1. step = "done"
      BY <1>3, <1>6
    <2>2. PICK q : q = [editors[e] EXCEPT !.pc = "done"]
      OBVIOUS
    <2>3. q \in EditorStates /\ q.pc = "done" /\ q.op = "none" /\ editors' = [editors EXCEPT ![e] = q]
      BY <1>1, <1>4, <1>6, <2>1, <2>2 DEF EditorStates, EditorAt
    <2>4. ~InProgress(q) /\ EditorInv(q, selections, bindings, paired') /\ WellFormed(q)
      BY <2>3 DEF InProgress, EditorInv, WellFormed
    <2>5. ~overlapped => /\ Single(selections) /\ Single(bindings)
                         /\ \A b \in bindings, s \in selections : Stand(b, s)'
      BY <1>52, <2>3 DEF IntelligenceInv, TakingTurns
    <2>6. QED
      BY <1>1, <1>5, <2>3, <2>4, <2>5, EditorMoves
  <1>7. CASE editors[e].op # "none"
    <2>1. /\ step \in {"failed", "detach", "bind", "save", "done"}
          /\ step = "detach" => editors[e].binding # Nothing
          /\ step \in {"detach", "bind", "save"} => Writes(editors[e].op)
          /\ step = "bind" => editors[e].ref # Nothing /\ editors[e].op # "removeCredential"
          /\ step = "save" =>
               /\ editors[e].op = "set"
               /\ \/ editors[e].binding = Nothing
                  \/ editors[e].selection # Nothing /\ editors[e].selection.dest = editors[e].dest
      BY <1>1, <1>3, <1>7, DecidedStep
    <2>2. PICK q : q = [editors[e] EXCEPT !.pc = step]
      OBVIOUS
    <2>3. /\ q \in EditorStates /\ q.pc = step /\ q.op = editors[e].op /\ q.dest = editors[e].dest
          /\ q.ref = editors[e].ref /\ q.binding = editors[e].binding /\ q.selection = editors[e].selection
          /\ q.read = editors[e].read
      BY <1>1, <2>1, <2>2 DEF EditorStates
    <2>4. editors' = [editors EXCEPT ![e] = q]
      BY <1>4, <2>2 DEF EditorAt
    <2>5. InProgress(q) => InProgress(editors[e])
      BY <1>2, <2>3 DEF InProgress
    <2>6. ASSUME ~overlapped
          PROVE  /\ Single(selections) /\ Single(bindings)
                 /\ \A b \in bindings, s \in selections : Stand(b, s)'
                 /\ EditorInv(q, selections, bindings, paired')
      <3>1. TakingTurns /\ EditorInv(editors[e], selections, bindings, paired)
        BY <2>6 DEF IntelligenceInv, TakingTurns
      <3>2. EditorInv(q, selections, bindings, paired')
        <4>1. SUFFICES ASSUME InProgress(q)
                       PROVE  EditorInv(q, selections, bindings, paired')
          BY DEF EditorInv
        <4>2. /\ editors[e].selection \in Row(selections) /\ editors[e].binding \in Row(bindings)
              /\ q.op = "set" /\ q.ref # Nothing => <<q.ref, q.dest>> \in paired
          BY <1>2, <2>3, <2>5, <3>1, <4>1 DEF EditorInv
        <4>3. q.binding = Nothing => bindings = {}
          BY <1>1, <2>3, <4>2, IntelligenceAssumption DEF Row
        <4>4. q.op = "setCredential" /\ q.pc = "bind" => <<q.ref, q.selection.dest>> \in paired'
          BY <1>4, <2>3
        <4>5. QED
          BY <1>2, <1>5, <2>1, <2>3, <4>2, <4>3, <4>4 DEF EditorInv
      <3>3. QED
        BY <1>52, <2>4, <2>6, <3>1, <3>2 DEF TakingTurns
    <2>7. WellFormed(q)
      BY <1>1, <2>1, <2>3 DEF WellFormed, IntelligenceTypeOK
    <2>8. QED
      BY <1>1, <1>5, <2>3, <2>4, <2>5, <2>6, <2>7, EditorMoves
  <1>8. QED
    BY <1>6, <1>7

\* Where a call goes after its credential: the record keeps everything but its place.
LEMMA AfterCredentialFields ==
  ASSUME IntelligenceTypeOK, NEW e \in Editors, NEW q, q = [editors[e] EXCEPT !.pc = AfterCredential(e)]
  PROVE  /\ q \in EditorStates /\ q.op = editors[e].op /\ q.dest = editors[e].dest
         /\ q.ref = editors[e].ref /\ q.binding = editors[e].binding /\ q.selection = editors[e].selection
         /\ q.read = editors[e].read
         /\ (q.pc = "save" /\ q.op = "set") \/ q.pc = "done"
         /\ WellFormed(q)
  <1>1. editors[e] \in EditorStates
    BY DEF IntelligenceTypeOK
  <1>2. PICK p : p = AfterCredential(e)
    OBVIOUS
  <1>3. (p = "save" /\ editors[e].op = "set") \/ p = "done"
    BY <1>2 DEF AfterCredential
  <1>4. /\ q \in EditorStates /\ q.op = editors[e].op /\ q.dest = editors[e].dest
        /\ q.ref = editors[e].ref /\ q.binding = editors[e].binding /\ q.selection = editors[e].selection
        /\ q.read = editors[e].read
        /\ (q.pc = "save" /\ q.op = "set") \/ q.pc = "done"
    BY <1>1, <1>2, <1>3 DEF EditorStates
  <1>5. WellFormed(q)
    BY <1>4 DEF IntelligenceTypeOK, WellFormed, Writes
  <1>6. QED
    BY <1>4, <1>5

\* The one credential is detached: none is left.
LEMMA DetachKeepsInv ==
  ASSUME IntelligenceInv, NEW e \in Editors, Detach(e)
  PROVE  IntelligenceInv'
  <1>1. /\ IntelligenceTypeOK /\ editors[e] \in EditorStates /\ editors[e].pc = "detach"
        /\ selections \subseteq SelectionRows /\ bindings \subseteq BindingRows
        /\ UNCHANGED <<selections, paired, beside, overlapped>>
    BY DEF IntelligenceInv, IntelligenceTypeOK, Detach
  <1>2. InProgress(editors[e])
    BY <1>1 DEF IntelligenceTypeOK, InProgress, WellFormed
  <1>3. PICK q : q = [editors[e] EXCEPT !.pc = AfterCredential(e)]
    OBVIOUS
  <1>31. IntelligenceTypeOK
    BY <1>1
  <1>4. /\ q \in EditorStates /\ q.op = editors[e].op /\ q.dest = editors[e].dest
        /\ q.ref = editors[e].ref /\ q.binding = editors[e].binding /\ q.selection = editors[e].selection
        /\ q.read = editors[e].read
        /\ (q.pc = "save" /\ q.op = "set") \/ q.pc = "done"
    BY <1>3, <1>31, AfterCredentialFields
  <1>5. /\ editors' = [editors EXCEPT ![e] = q] /\ bindings' \subseteq BindingRows
        /\ bindings' = {b \in bindings : b.id # editors[e].binding.id}
    BY <1>1, <1>3 DEF Detach, EditorAt
  <1>6. WellFormed(q)
    BY <1>3, <1>31, AfterCredentialFields
  <1>7. ASSUME ~overlapped
        PROVE  /\ Single(selections) /\ Single(bindings')
               /\ \A b \in bindings', s \in selections : Stand(b, s)'
               /\ EditorInv(q, selections, bindings', paired)
    <2>1. TakingTurns /\ EditorInv(editors[e], selections, bindings, paired)
      BY <1>7 DEF IntelligenceInv, TakingTurns
    <2>2. editors[e].binding # Nothing /\ editors[e].read = {"selection", "binding"}
          /\ editors[e].binding \in Row(bindings)
      BY <1>1, <1>2, <2>1 DEF EditorInv
    <2>3. editors[e].binding \in bindings
      BY <2>2 DEF Row
    <2>4. bindings' = {}
      BY <1>5, <2>1, <2>3 DEF TakingTurns, Single
    <2>5. EditorInv(q, selections, bindings', paired)
      <3>1. CASE q.pc = "done"
        BY <3>1 DEF EditorInv, InProgress
      <3>2. CASE q.pc = "save" /\ q.op = "set"
        <4>1. /\ editors[e].selection \in Row(selections)
              /\ editors[e].ref # Nothing => <<editors[e].ref, editors[e].dest>> \in paired
          BY <1>2, <1>4, <2>1, <2>2, <3>2 DEF EditorInv
        <4>2. QED
          BY <1>4, <2>2, <2>4, <3>2, <4>1 DEF EditorInv
      <3>3. QED
        BY <1>4, <3>1, <3>2
    <2>6. QED
      BY <2>1, <2>4, <2>5 DEF TakingTurns, Single
  <1>8. QED
    BY <1>1, <1>2, <1>4, <1>5, <1>6, <1>7, EditorMoves

\* The credential is bound: it is the only one, and it is the call's.
LEMMA BindKeepsInv ==
  ASSUME IntelligenceInv, NEW e \in Editors, Bind(e)
  PROVE  IntelligenceInv'
  <1>1. /\ IntelligenceTypeOK /\ editors[e] \in EditorStates /\ editors[e].pc = "bind"
        /\ selections \subseteq SelectionRows /\ bindings \subseteq BindingRows
        /\ UNCHANGED <<selections, paired, overlapped>>
    BY DEF IntelligenceInv, IntelligenceTypeOK, Bind
  <1>2. InProgress(editors[e])
    BY <1>1 DEF IntelligenceTypeOK, InProgress, WellFormed
  <1>3. PICK old : old = editors[e].binding
    OBVIOUS
  <1>4. PICK row : row = IF old = Nothing THEN [id |-> e, ref |-> editors[e].ref, version |-> 1]
                                          ELSE [old EXCEPT !.ref = editors[e].ref, !.version = @ + 1]
    OBVIOUS
  <1>5. old \in BindingRows \union {Nothing} /\ editors[e].ref \in Credentials \union {Nothing}
    BY <1>1, <1>3 DEF EditorStates
  <1>6. row.ref = editors[e].ref /\ (editors[e].ref # Nothing => row \in BindingRows)
    <2>1. CASE old = Nothing
      BY <1>4, <1>5, <2>1 DEF BindingRows
    <2>2. CASE old # Nothing
      <3>1. row = [id |-> old.id, ref |-> editors[e].ref, version |-> old.version + 1]
        BY <1>4, <1>5, <2>2 DEF BindingRows
      <3>2. QED
        BY <1>5, <2>2, <3>1 DEF BindingRows
    <2>3. QED
      BY <2>1, <2>2
  <1>7. CASE old = Nothing \/ old \in bindings
    <2>1. /\ bindings' = (bindings \ {old}) \union {row}
          /\ beside' = beside \union {<<e, row.ref, s.dest>> : s \in selections}
          /\ EditorAt(e, AfterCredential(e))
      BY <1>3, <1>4, <1>7 DEF Bind
    <2>2. PICK q : q = [editors[e] EXCEPT !.pc = AfterCredential(e)]
      OBVIOUS
    <2>21. IntelligenceTypeOK
      BY <1>1
    <2>3. /\ q \in EditorStates /\ q.op = editors[e].op /\ q.dest = editors[e].dest
          /\ q.ref = editors[e].ref /\ q.binding = editors[e].binding /\ q.selection = editors[e].selection
          /\ q.read = editors[e].read
          /\ (q.pc = "save" /\ q.op = "set") \/ q.pc = "done"
      BY <2>2, <2>21, AfterCredentialFields
    <2>4. editors' = [editors EXCEPT ![e] = q]
      BY <2>1, <2>2 DEF EditorAt
    <2>5. WellFormed(q)
      BY <2>2, <2>21, AfterCredentialFields
    <2>6. bindings' \subseteq BindingRows
      <3>1. editors[e].ref # Nothing
        BY <1>1 DEF IntelligenceTypeOK, WellFormed
      <3>2. QED
        BY <1>1, <1>6, <2>1, <3>1
    <2>7. ASSUME ~overlapped
          PROVE  /\ Single(selections) /\ Single(bindings')
                 /\ \A b \in bindings', s \in selections : Stand(b, s)'
                 /\ EditorInv(q, selections, bindings', paired)
      <3>1. TakingTurns /\ EditorInv(editors[e], selections, bindings, paired)
        BY <2>7 DEF IntelligenceInv, TakingTurns
      <3>2. editors[e].ref # Nothing /\ editors[e].read = {"selection", "binding"} /\ old \in Row(bindings)
        BY <1>1, <1>2, <1>3, <3>1 DEF EditorInv, IntelligenceTypeOK, WellFormed
      <3>3. bindings \ {old} = {}
        <4>1. CASE bindings = {}
          BY <4>1
        <4>2. CASE bindings # {}
          BY <3>1, <3>2, <4>2 DEF Row, TakingTurns, Single
        <4>3. QED
          BY <4>1, <4>2
      <3>4. bindings' = {row}
        BY <2>1, <3>3
      <3>5. EditorInv(q, selections, bindings', paired)
        <4>1. CASE q.pc = "done"
          BY <4>1 DEF EditorInv, InProgress
        <4>2. CASE q.pc = "save" /\ q.op = "set"
          <5>1. /\ editors[e].selection \in Row(selections)
                /\ editors[e].ref # Nothing => <<editors[e].ref, editors[e].dest>> \in paired
            BY <1>2, <2>3, <3>1, <3>2, <4>2 DEF EditorInv
          <5>2. \A b \in bindings' : b.ref = q.ref
            BY <1>6, <2>3, <3>4
          <5>3. QED
            BY <2>3, <3>2, <4>2, <5>1, <5>2 DEF EditorInv
        <4>3. QED
          BY <2>3, <4>1, <4>2
      <3>6. ASSUME NEW b \in bindings', NEW s \in selections
            PROVE  Stand(b, s)'
        <4>1. b.ref = editors[e].ref
          BY <1>6, <3>4, <3>6
        <4>2. CASE editors[e].op = "set"
          <5>1. <<e, b.ref, s.dest>> \in beside'
            BY <2>1, <3>4, <3>6
          <5>2. editors'[e] = q /\ q.op = "set" /\ q.pc = "save"
            BY <1>1, <2>2, <2>3, <2>4, <4>2 DEF AfterCredential, IntelligenceTypeOK, EditorStates
          <5>3. QED
            BY <2>3, <4>1, <5>1, <5>2 DEF Stand, Unsaved
        <4>3. CASE editors[e].op = "setCredential"
          <5>1. editors[e].selection \in Row(selections) /\ <<editors[e].ref, editors[e].selection.dest>> \in paired
            BY <1>1, <1>2, <3>1, <3>2, <4>3 DEF EditorInv
          <5>2. editors[e].selection = s
            BY <3>1, <3>6, <5>1 DEF Row, TakingTurns, Single
          <5>3. QED
            BY <1>1, <4>1, <5>1, <5>2 DEF Stand
        <4>4. QED
          BY <1>1, <4>2, <4>3 DEF IntelligenceTypeOK, WellFormed, Writes
      <3>7. QED
        BY <3>1, <3>4, <3>5, <3>6 DEF TakingTurns, Single
    <2>8. QED
      BY <1>1, <1>2, <2>3, <2>4, <2>5, <2>6, <2>7, EditorMoves
  <1>8. CASE ~(old = Nothing \/ old \in bindings)
    <2>1. EditorAt(e, "failed") /\ UNCHANGED <<bindings, beside>>
      BY <1>3, <1>8 DEF Bind
    <2>2. PICK q : q = [editors[e] EXCEPT !.pc = "failed"]
      OBVIOUS
    <2>3. q \in EditorStates /\ q.pc = "failed" /\ editors' = [editors EXCEPT ![e] = q]
      BY <1>1, <2>1, <2>2 DEF EditorStates, EditorAt
    <2>4. ~InProgress(q) /\ EditorInv(q, selections, bindings, paired) /\ WellFormed(q)
      <3>1. q.op = editors[e].op /\ q.ref = editors[e].ref /\ q.dest = editors[e].dest
        BY <1>1, <2>2 DEF EditorStates
      <3>2. QED
        BY <1>1, <2>3, <3>1 DEF InProgress, EditorInv, WellFormed, IntelligenceTypeOK
    <2>5. ~Unsaved(e) /\ editors \in [Editors -> EditorStates]
      BY <1>1 DEF Unsaved, IntelligenceTypeOK
    <2>6. ASSUME ~overlapped
          PROVE  /\ Single(selections) /\ Single(bindings)
                 /\ \A b \in bindings, s \in selections : Stand(b, s)'
      <3>1. TakingTurns
        BY <2>6 DEF IntelligenceInv
      <3>2. \A b \in bindings, s \in selections : Stand(b, s)'
        BY <1>1, <2>1, <2>3, <2>5, <3>1, StandStays DEF TakingTurns
      <3>3. QED
        BY <3>1, <3>2 DEF TakingTurns
    <2>7. QED
      BY <1>1, <2>1, <2>3, <2>4, <2>6, EditorMoves
  <1>9. QED
    BY <1>7, <1>8

\* The selection is saved: the credential that is left was asked for it, or there is none.
LEMMA SaveSelectionKeepsInv ==
  ASSUME IntelligenceInv, NEW e \in Editors, SaveSelection(e)
  PROVE  IntelligenceInv'
  <1>1. /\ IntelligenceTypeOK /\ editors[e] \in EditorStates /\ editors[e].pc = "save"
        /\ selections \subseteq SelectionRows /\ bindings \subseteq BindingRows
        /\ UNCHANGED <<bindings, paired, beside, overlapped>>
    BY DEF IntelligenceInv, IntelligenceTypeOK, SaveSelection
  <1>2. InProgress(editors[e]) /\ editors[e].dest \in Destinations /\ editors[e].op = "set"
    BY <1>1 DEF IntelligenceTypeOK, InProgress, WellFormed, EditorStates
  <1>3. PICK q \in EditorStates : /\ editors' = [editors EXCEPT ![e] = q] /\ q.pc \in {"done", "failed"}
                                  /\ q.op = editors[e].op /\ q.ref = editors[e].ref /\ q.dest = editors[e].dest
    <2>1. PICK p \in {"done", "failed"} : EditorAt(e, p)
      BY DEF SaveSelection
    <2>2. PICK x : x = [editors[e] EXCEPT !.pc = p]
      OBVIOUS
    <2>3. /\ x \in EditorStates /\ x.pc = p /\ x.op = editors[e].op /\ x.ref = editors[e].ref
          /\ x.dest = editors[e].dest
      BY <1>1, <2>1, <2>2 DEF EditorStates
    <2>4. editors' = [editors EXCEPT ![e] = x]
      BY <2>1, <2>2 DEF EditorAt
    <2>5. QED
      BY <2>1, <2>3, <2>4
  <1>4. WellFormed(q) /\ ~InProgress(q)
    BY <1>1, <1>3 DEF WellFormed, IntelligenceTypeOK, InProgress
  <1>5. PICK old : old = editors[e].selection
    OBVIOUS
  <1>6. PICK row : row = IF old = Nothing THEN [id |-> e, dest |-> editors[e].dest, version |-> 1]
                                          ELSE [old EXCEPT !.dest = editors[e].dest, !.version = @ + 1]
    OBVIOUS
  <1>7. /\ row.dest = editors[e].dest /\ row \in SelectionRows
        /\ old # Nothing => row.id = old.id /\ row.version = old.version + 1
    <2>1. old \in SelectionRows \union {Nothing}
      BY <1>1, <1>5 DEF EditorStates
    <2>2. CASE old = Nothing
      BY <1>2, <1>6, <2>2 DEF SelectionRows
    <2>3. CASE old # Nothing
      <3>1. row = [id |-> old.id, dest |-> editors[e].dest, version |-> old.version + 1]
        BY <1>6, <2>1, <2>3 DEF SelectionRows
      <3>2. QED
        BY <1>2, <2>1, <2>3, <3>1 DEF SelectionRows
    <2>4. QED
      BY <2>2, <2>3
  <1>8. \/ EditorAt(e, "failed") /\ UNCHANGED selections
        \/ /\ old = Nothing \/ old \in selections
           /\ selections' = {s \in selections : s.id # row.id} \union {row}
    BY <1>5, <1>6 DEF SaveSelection, SelectionUnchanged
  <1>9. selections' \subseteq SelectionRows
    BY <1>1, <1>7, <1>8
  <1>10. ASSUME ~overlapped
         PROVE  /\ Single(selections')
                /\ \A b \in bindings, s \in selections' : Stand(b, s)'
    <2>1. TakingTurns /\ EditorInv(editors[e], selections, bindings, paired)
      BY <1>10 DEF IntelligenceInv, TakingTurns
    <2>2. /\ old \in Row(selections)
          /\ editors[e].ref # Nothing => <<editors[e].ref, editors[e].dest>> \in paired
          /\ \/ bindings = {}
             \/ editors[e].ref # Nothing /\ \A b \in bindings : b.ref = editors[e].ref
             \/ old # Nothing /\ old.dest = editors[e].dest
      BY <1>1, <1>2, <1>5, <2>1 DEF EditorInv
    <2>3. CASE EditorAt(e, "failed") /\ UNCHANGED selections
      <3>1. editors' = [editors EXCEPT ![e] = [editors[e] EXCEPT !.pc = "failed"]]
        BY <2>3 DEF EditorAt
      <3>2. PICK x : x = [editors[e] EXCEPT !.pc = "failed"]
        OBVIOUS
      <3>3. x.op = "set" /\ x.pc = "failed" /\ x.ref = editors[e].ref /\ editors' = [editors EXCEPT ![e] = x]
        BY <1>1, <1>2, <3>1, <3>2 DEF EditorStates
      <3>4. editors \in [Editors -> EditorStates]
        BY <1>1 DEF IntelligenceTypeOK
      <3>5. \A b \in bindings, s \in selections : Stand(b, s)'
        BY <1>1, <2>1, <3>3, <3>4, StandStays DEF TakingTurns
      <3>6. QED
        BY <2>1, <2>3, <3>5 DEF TakingTurns
    <2>4. CASE /\ old = Nothing \/ old \in selections
               /\ selections' = {s \in selections : s.id # row.id} \union {row}
      <3>1. old \in selections \/ (old = Nothing /\ selections = {})
        BY <1>1, <2>2, IntelligenceAssumption DEF Row
      <3>2. old \in selections => old # Nothing
        BY <1>1, IntelligenceAssumption
      <3>3. {s \in selections : s.id # row.id} = {}
        BY <1>7, <2>1, <3>1, <3>2 DEF TakingTurns, Single
      <3>4. selections' = {row}
        BY <2>4, <3>3
      <3>5. ASSUME NEW b \in bindings
            PROVE  Stand(b, row)'
        <4>1. b.ref # Nothing
          BY <1>1, <3>5, IntelligenceAssumption DEF BindingRows
        <4>2. CASE editors[e].ref = b.ref
          BY <1>1, <1>7, <2>2, <4>1, <4>2 DEF Stand
        <4>3. CASE editors[e].ref # b.ref
          <5>1. old \in selections /\ old.dest = row.dest
            BY <1>7, <2>2, <3>1, <3>5, <4>3
          <5>2. Stand(b, old)
            BY <2>1, <3>5, <5>1 DEF TakingTurns
          <5>3. CASE <<b.ref, old.dest>> \in paired
            BY <1>1, <5>1, <5>3 DEF Stand
          <5>4. ASSUME NEW f \in Editors, Unsaved(f), editors[f].ref = b.ref, <<f, b.ref, old.dest>> \in beside
                PROVE  Stand(b, row)'
            <6>1. editors'[f] = editors[f]
              BY <1>1, <1>3, <4>3, <5>4 DEF IntelligenceTypeOK
            <6>2. QED
              BY <1>1, <5>1, <5>4, <6>1 DEF Stand, Unsaved
          <5>5. QED
            BY <5>2, <5>3, <5>4 DEF Stand
        <4>4. QED
          BY <4>2, <4>3
      <3>6. QED
        BY <3>4, <3>5 DEF Single
    <2>5. QED
      BY <1>8, <2>3, <2>4
  <1>11. ~overlapped => /\ Single(bindings)
                        /\ EditorInv(q, selections', bindings, paired)
    BY <1>4 DEF IntelligenceInv, TakingTurns, EditorInv
  <1>12. QED
    BY <1>1, <1>2, <1>3, <1>4, <1>9, <1>10, <1>11, EditorMoves

\* As long as the calls that write take turns there is one selection and one credential, and
\* the call in progress knows them: for any number of calls, destinations and credentials.
THEOREM IntelligenceInvariance == IntelligenceSpec => []IntelligenceInv
  <1>1. IntelligenceInit => IntelligenceInv
    BY IntelligenceInitInv
  <1>2. IntelligenceInv /\ [IntelligenceNext]_intelligenceVars => IntelligenceInv'
    <2> SUFFICES ASSUME IntelligenceInv, [IntelligenceNext]_intelligenceVars
                 PROVE  IntelligenceInv'
      OBVIOUS
    <2>1. CASE IntelligenceNext
      BY <2>1, EditKeepsInv, LoadKeepsInv, DecideKeepsInv, DetachKeepsInv, BindKeepsInv, SaveSelectionKeepsInv
         DEF IntelligenceNext
    <2>2. CASE UNCHANGED intelligenceVars
      BY <2>2 DEF intelligenceVars, IntelligenceInv, IntelligenceTypeOK, TakingTurns, Busy, Stand, Unsaved
    <2>3. QED
      BY <2>1, <2>2
  <1>3. QED
    BY <1>1, <1>2, PTL DEF IntelligenceSpec

\* While the callers take turns, a credential and a destination stand together only because a
\* caller asked for the two, or because a `set` bound the credential and has not saved its own
\* destination: it is about to, or it failed in between.
THEOREM NotCarriedOverAlways == IntelligenceSpec => []NotCarriedOver
  <1>1. IntelligenceInv => NotCarriedOver
    BY DEF IntelligenceInv, TakingTurns, NotCarriedOver, Stand
  <1>2. QED
    BY <1>1, IntelligenceInvariance, PTL

\* One record for an identifier, which is that of a call that is over.
RecordPerCall ==
    /\ \A s, t \in selections : s.id = t.id => s = t
    /\ \A s \in selections : editors[s.id].pc \in {"done", "failed"}

\* A step that saves no selection moves one call that is not over.
LEMMA OthersSaveNothing ==
  ASSUME IntelligenceInv, NEW e \in Editors,
         Edit(e) \/ EditFails(e) \/ LoadSelection(e) \/ LoadBinding(e) \/ Decide(e) \/ Detach(e) \/ Bind(e)
  PROVE /\ selections' = selections /\ editors[e].pc \notin {"done", "failed"}
        /\ \A f \in Editors : f # e => editors'[f] = editors[f]
  <1>1. editors \in [Editors -> EditorStates]
    BY DEF IntelligenceInv, IntelligenceTypeOK
  <1>2. CASE Edit(e)
    BY <1>1, <1>2 DEF Edit
  <1>3. CASE EditFails(e)
    BY <1>1, <1>3 DEF EditFails, EditorAt
  <1>4. CASE LoadSelection(e)
    BY <1>1, <1>4 DEF LoadSelection
  <1>5. CASE LoadBinding(e)
    BY <1>1, <1>5 DEF LoadBinding
  <1>6. CASE Decide(e)
    <2>1. editors[e].pc = "load" /\ selections' = selections /\ \E step : EditorAt(e, step)
      BY <1>6 DEF Decide
    <2>2. QED
      BY <1>1, <2>1 DEF EditorAt
  <1>7. CASE Detach(e)
    BY <1>1, <1>7 DEF Detach, EditorAt
  <1>8. CASE Bind(e)
    <2>1. editors[e].pc = "bind" /\ selections' = selections /\ \E step : EditorAt(e, step)
      BY <1>8 DEF Bind
    <2>2. QED
      BY <1>1, <2>1 DEF EditorAt
  <1>9. QED
    BY <1>2, <1>3, <1>4, <1>5, <1>6, <1>7, <1>8

\* A selection is saved over the version that was read, or as a new record.
LEMMA SavesByVersion ==
  ASSUME IntelligenceInv, RecordPerCall, NEW e \in Editors, SaveSelection(e)
  PROVE RecordPerCall' /\ SelectionByVersion
  <1>1. editors \in [Editors -> EditorStates] /\ selections \subseteq SelectionRows
    BY DEF IntelligenceInv, IntelligenceTypeOK
  <1>2. PICK old : old = editors[e].selection
    OBVIOUS
  <1>3. PICK row : row = IF old = Nothing THEN [id |-> e, dest |-> editors[e].dest, version |-> 1]
                                          ELSE [old EXCEPT !.dest = editors[e].dest, !.version = @ + 1]
    OBVIOUS
  <1>4. /\ editors[e].pc = "save"
        /\ \/ /\ old = Nothing \/ old \in selections
              /\ selections' = {s \in selections : s.id # row.id} \union {row} /\ EditorAt(e, "done")
           \/ selections' = selections /\ EditorAt(e, "failed")
    BY <1>2, <1>3 DEF SaveSelection, SelectionUnchanged
  <1>5. \A s \in selections : s.id # e /\ s.id \in Editors
    BY <1>1, <1>4 DEF RecordPerCall, SelectionRows
  <1>6. \A f \in Editors : f # e => editors'[f] = editors[f]
    BY <1>1, <1>4 DEF EditorAt
  <1>7. editors'[e].pc \in {"done", "failed"}
    BY <1>1, <1>4 DEF EditorAt, EditorStates
  <1>8. CASE selections' = selections
    BY <1>5, <1>6, <1>8 DEF RecordPerCall, SelectionByVersion
  <1>9. CASE /\ old = Nothing \/ old \in selections
             /\ selections' = {s \in selections : s.id # row.id} \union {row}
    <2>1. CASE old = Nothing
      <3>1. row.id = e
        BY <1>3, <2>1
      <3>2. QED
        BY <1>5, <1>6, <1>7, <1>9, <3>1 DEF RecordPerCall, SelectionByVersion
    <2>2. CASE old # Nothing
      <3>1. old \in selections /\ old \in SelectionRows
        BY <1>1, <1>9, <2>2
      <3>2. row.id = old.id /\ row.version = old.version + 1
        BY <1>3, <2>2, <3>1 DEF SelectionRows
      <3>3. RecordPerCall'
        BY <1>5, <1>6, <1>9, <3>1, <3>2 DEF RecordPerCall
      <3>4. SelectionByVersion
        BY <1>9, <3>1, <3>2 DEF RecordPerCall, SelectionByVersion
      <3>5. QED
        BY <3>3, <3>4
    <2>3. QED
      BY <2>1, <2>2
  <1>10. QED
    BY <1>4, <1>8, <1>9

\* Of any number of calls that read the same selection only one replaces it: a record of the
\* selection is changed one version at a time, whoever else writes (intelligence/service.ts, saveVariable
\* with the version that was read).
THEOREM SelectionByVersionAlways == IntelligenceSpec => [][SelectionByVersion]_intelligenceVars
  <1>1. IntelligenceInit => RecordPerCall
    BY DEF IntelligenceInit, RecordPerCall
  <1>2. ASSUME IntelligenceInv, RecordPerCall, [IntelligenceNext]_intelligenceVars
        PROVE RecordPerCall' /\ SelectionByVersion
    <2>1. selections \subseteq SelectionRows
      BY <1>2 DEF IntelligenceInv, IntelligenceTypeOK
    <2>2. \A s \in selections : s.id \in Editors
      BY <2>1 DEF SelectionRows
    <2>3. CASE UNCHANGED intelligenceVars
      BY <1>2, <2>3 DEF intelligenceVars, RecordPerCall, SelectionByVersion
    <2>4. ASSUME NEW e \in Editors,
                 Edit(e) \/ EditFails(e) \/ LoadSelection(e) \/ LoadBinding(e) \/ Decide(e) \/ Detach(e) \/ Bind(e)
          PROVE RecordPerCall' /\ SelectionByVersion
      <3>1. /\ selections' = selections /\ editors[e].pc \notin {"done", "failed"}
            /\ \A f \in Editors : f # e => editors'[f] = editors[f]
        BY <1>2, <2>4, OthersSaveNothing
      <3>2. QED
        BY <1>2, <2>2, <3>1 DEF RecordPerCall, SelectionByVersion
    <2>5. ASSUME NEW e \in Editors, SaveSelection(e)
          PROVE RecordPerCall' /\ SelectionByVersion
      BY <1>2, <2>5, SavesByVersion
    <2>6. QED
      BY <1>2, <2>3, <2>4, <2>5 DEF IntelligenceNext
  <1>3. IntelligenceInv /\ RecordPerCall /\ [IntelligenceNext]_intelligenceVars
          => RecordPerCall' /\ [SelectionByVersion]_intelligenceVars
    BY <1>2
  <1>4. QED
    BY <1>1, <1>3, IntelligenceInvariance, PTL DEF IntelligenceSpec


-----------------------------------------------------------------------------
(* Files: the inductive invariant *)

FileStored == [version : Nat \ {0}, owned : BOOLEAN, deleted : BOOLEAN, data : FileData]

FileCall == [op : {"none", "create", "get", "update", "delete"},
             pc : {"idle", "read", "authorize", "insert", "reread", "write", "audit", "answered", "failed"},
             id : FileIds, changes : FileChanges \union {NoChange},
             seen : FileRecord, next : FileRecord]

\* A creation holds a complete record and comes before there is one; every
\* other call began on a record that was there.
BeganRight(call) ==
    /\ call.op = "create" => call.changes \in FileData
    /\ call.pc = "insert" => call.op = "create"
    /\ call.op = "create" /\ call.pc \in {"authorize", "insert"} => ~FileExists(call.id)
    /\ call.op \in {"get", "update", "delete"} => FileExists(call.id)
    /\ call.op = "delete" => call.changes = NoChange
    /\ call.pc \in {"reread", "write"} => call.op \in {"update", "delete"}
    /\ call.pc = "read" => call.op # "create"
    /\ call.pc # "idle" => call.op # "none"

\* A call that goes on has seen a record it may write, and unless the version
\* has moved on the record is still the one it has seen.
SeenHolds(call) ==
    call.op # "create" /\ call.pc \in {"authorize", "reread", "write"} =>
      /\ ~FileHidden(call.seen)
      /\ call.seen.version <= files[call.id].version
      /\ call.seen.version = files[call.id].version => files[call.id] = call.seen

\* A record with the changes of a call.
FilePlanned(op, file, changes) ==
    IF op = "delete" THEN [file EXCEPT !.deleted = TRUE] ELSE FileMerged(file, changes)

\* The record a write of the call leaves.
FileWritten(op, file, changes, v) == [FilePlanned(op, file, changes) EXCEPT !.version = v]

\* What a call is about to write is what it has seen with its changes, unless
\* the version has moved on.
NextFollows(call) ==
    call.pc = "write" /\ call.seen.version = files[call.id].version =>
      call.next = FilePlanned(call.op, call.seen, call.changes)

\* A deletion that was written, or that found nothing to write, is visible.
DeletionHolds(call) ==
    call.op = "delete" /\ call.pc \in {"audit", "answered"} => FileHidden(files[call.id])

FileCallSound(call) == BeganRight(call) /\ SeenHolds(call) /\ NextFollows(call) /\ DeletionHolds(call)

\* An identifier is given to one creation.
OneCreator ==
    \A c, d \in FileCalls : fileCalls[c].op = "create" /\ fileCalls[d].op = "create" /\ c # d
                              => fileCalls[c].id # fileCalls[d].id

FilesInv ==
    /\ files \in [FileIds -> FileRecord]
    /\ fileCalls \in [FileCalls -> FileCall]
    /\ fileIntent \in [FileIds -> FileData \union {NoChange}]
    /\ FileNothingLost
    /\ OneCreator
    /\ \A c \in FileCalls : FileCallSound(fileCalls[c])

-----------------------------------------------------------------------------
(* Records *)

\* A record is stored or is none.
LEMMA FileKinds ==
  /\ FileRecord = {NoFile} \union FileStored
  /\ \A r \in FileStored : r # NoFile /\ r.version \in Nat /\ r.version > 0
  /\ NoFile.version = 0
  BY DEF FileRecord, FileStored, NoFile

\* A partial update of a complete record is a complete record.
LEMMA AppliedType ==
  ASSUME NEW ch \in FileChanges \union {NoChange}, NEW d \in FileData
  PROVE  FileApplied(ch, d) \in FileData
  <1>1. \A f \in DOMAIN ch : f \in FileFields => ch[f] \in FileValues
    BY DEF FileChanges, NoChange
  <1>2. QED
    BY <1>1 DEF FileApplied, FileData

\* No changes, no difference: a deletion leaves the data alone.
LEMMA AppliedNone ==
  ASSUME NEW d \in FileData
  PROVE  FileApplied(NoChange, d) = d
  BY DEF FileApplied, FileData, NoChange

\* What a call writes is a complete record, with the data it saw and its
\* changes; a deletion hides it.
LEMMA FileWrittenFields ==
  ASSUME NEW r \in FileStored, NEW ch \in FileChanges \union {NoChange}, NEW op, NEW v \in Nat \ {0},
         op = "delete" => ch = NoChange
  PROVE  /\ FilePlanned(op, r, ch) \in FileStored
         /\ FileWritten(op, r, ch, v) \in FileStored
         /\ FileWritten(op, r, ch, v).version = v
         /\ FileWritten(op, r, ch, v).data = FileApplied(ch, r.data)
         /\ op = "delete" => FileHidden(FileWritten(op, r, ch, v))
  <1>1. PICK d \in FileData : d = FileApplied(ch, r.data) /\ (op = "delete" => d = r.data)
    BY AppliedType, AppliedNone DEF FileStored
  <1>2. CASE op = "delete"
    <2>1. /\ FilePlanned(op, r, ch) \in FileStored /\ FileWritten(op, r, ch, v) \in FileStored
          /\ FileWritten(op, r, ch, v).version = v /\ FileWritten(op, r, ch, v).data = FileApplied(ch, r.data)
      BY <1>1, <1>2 DEF FileStored, FilePlanned, FileWritten
    <2>2. FileWritten(op, r, ch, v).deleted = TRUE
      BY <1>2 DEF FileStored, FilePlanned, FileWritten
    <2>3. FileHidden(FileWritten(op, r, ch, v))
      BY <2>2, Zenon DEF FileHidden
    <2>4. QED
      BY <2>1, <2>3
  <1>3. CASE op # "delete"
    <2>1. FilePlanned(op, r, ch) = [r EXCEPT !.data = d]
      BY <1>1, <1>3 DEF FileMerged, FilePlanned
    <2>2. QED
      BY <1>1, <1>3, <2>1 DEF FileStored, FileWritten
  <1>4. QED
    BY <1>2, <1>3

-----------------------------------------------------------------------------
(* Steps *)

\* A call moves and writes nothing.
LEMMA FileCallMoves ==
  ASSUME FilesInv, NEW c \in FileCalls, NEW k \in FileCall,
         fileCalls' = [fileCalls EXCEPT ![c] = k],
         UNCHANGED <<files, fileIntent>>,
         FileCallSound(k),
         k.op = "create" => \A d \in FileCalls : d # c /\ fileCalls[d].op = "create" => fileCalls[d].id # k.id
  PROVE  FilesInv'
  <1>1. /\ fileCalls' \in [FileCalls -> FileCall] /\ FileNothingLost' /\ (files \in [FileIds -> FileRecord])'
        /\ (fileIntent \in [FileIds -> FileData \union {NoChange}])'
    BY DEF FilesInv, FileNothingLost, FileExists
  <1>2. OneCreator'
    BY DEF FilesInv, OneCreator
  <1>3. ASSUME NEW d \in FileCalls
        PROVE  FileCallSound(fileCalls[d])'
    <2>1. CASE d = c
      <3>1. fileCalls'[d] = k
        BY <2>1 DEF FilesInv
      <3>2. QED
        BY <3>1 DEF FileCallSound, BeganRight, SeenHolds, NextFollows, DeletionHolds, FileExists
    <2>2. CASE d # c
      <3>1. fileCalls'[d] = fileCalls[d] /\ FileCallSound(fileCalls[d])
        BY <2>2 DEF FilesInv
      <3>2. QED
        BY <3>1 DEF FileCallSound, BeganRight, SeenHolds, NextFollows, DeletionHolds, FileExists
    <2>3. QED
      BY <2>1, <2>2
  <1>4. QED
    BY <1>1, <1>2, <1>3 DEF FilesInv

\* A record is written, by whoever: a sound call stays sound, for what it has
\* seen is out of date, and nothing hidden was written.
LEMMA FileMoves ==
  ASSUME files \in [FileIds -> FileRecord], NEW f \in FileIds, NEW new \in FileStored,
         files' = [files EXCEPT ![f] = new],
         new.version > files[f].version,
         FileExists(f) => ~FileHidden(files[f]),
         NEW k \in FileCall, FileCallSound(k),
         k.op = "create" /\ k.pc \in {"authorize", "insert"} => k.id # f
  PROVE  FileCallSound(k)'
  <1>1. CASE k.id = f
    <2>1. files'[k.id] = new /\ FileExists(k.id)'
      BY <1>1, FileKinds DEF FileExists, FileCall
    <2>2. BeganRight(k)'
      BY <1>1, <2>1 DEF FileCallSound, BeganRight
    <2>3. /\ k.seen.version \in Nat /\ new.version \in Nat /\ files[f].version \in Nat
      BY FileKinds DEF FileCall
    <2>4. k.op # "create" /\ k.pc \in {"authorize", "reread", "write"} =>
            k.seen.version < new.version /\ ~FileHidden(k.seen)
      BY <1>1, <2>3 DEF FileCallSound, SeenHolds
    <2>5. SeenHolds(k)'
      BY <2>1, <2>3, <2>4 DEF SeenHolds, FileHidden
    <2>6. NextFollows(k)'
      <3>1. k.pc = "write" => k.op # "create" /\ k.pc \in {"authorize", "reread", "write"}
        BY DEF FileCallSound, BeganRight
      <3>2. k.pc = "write" => k.seen.version # new.version
        BY <2>3, <2>4, <3>1
      <3>3. QED
        BY <2>1, <3>2 DEF NextFollows
    <2>7. DeletionHolds(k)'
      BY <1>1 DEF FileCallSound, BeganRight, DeletionHolds
    <2>8. QED
      BY <2>2, <2>5, <2>6, <2>7 DEF FileCallSound
  <1>2. CASE k.id # f
    <2>1. files'[k.id] = files[k.id]
      BY <1>2 DEF FileCall
    <2>2. QED
      BY <2>1 DEF FileCallSound, BeganRight, SeenHolds, NextFollows, DeletionHolds, FileExists, FileHidden
  <1>3. QED
    BY <1>1, <1>2

\* Another creation has another identifier.
LEMMA OtherCreator ==
  ASSUME FilesInv, NEW c \in FileCalls, NEW d \in FileCalls, d # c,
         fileCalls[c].op = "create", fileCalls[d].op = "create"
  PROVE  fileCalls[d].id # fileCalls[c].id
  BY DEF FilesInv, OneCreator

LEMMA IdleIsSound == IdleFileCall \in FileCall /\ FileCallSound(IdleFileCall)
  <1>1. (CHOOSE f \in FileIds : TRUE) \in FileIds
    BY FilesAssumption
  <1>2. IdleFileCall \in FileCall
    BY <1>1, FileKinds DEF IdleFileCall, FileCall
  <1>3. FileCallSound(IdleFileCall)
    BY DEF IdleFileCall, FileCallSound, BeganRight, SeenHolds, NextFollows, DeletionHolds
  <1>4. QED
    BY <1>2, <1>3

LEMMA FilesInitInv == FileInit => FilesInv
  <1> SUFFICES ASSUME FileInit PROVE FilesInv
    OBVIOUS
  <1>1. PICK v : v \in FileValues
    BY FilesAssumption
  <1>2. [f \in FileFields |-> v] \in FileData
    BY <1>1 DEF FileData
  <1>3. (CHOOSE d \in FileData : TRUE) \in FileData
    BY <1>2
  <1>4. files \in [FileIds -> FileRecord]
    <2> DEFINE d0 == CHOOSE d \in FileData : TRUE
    <2>1. d0 \in FileData
      BY <1>3
    <2>2. files \in [FileIds -> {NoFile} \union [version : {1}, owned : {FALSE}, deleted : {FALSE}, data : {d0}]]
      BY DEF FileInit
    <2> HIDE DEF d0
    <2>3. ASSUME NEW f \in FileIds
          PROVE  files[f] \in FileRecord
      <3>1. CASE files[f] = NoFile
        BY <3>1, FileKinds
      <3>2. CASE files[f] # NoFile
        <4>1. PICK r \in [version : {1}, owned : {FALSE}, deleted : {FALSE}, data : {d0}] : r = files[f]
          BY <2>2, <3>2
        <4>2. r.version \in Nat \ {0} /\ r.data \in FileData
          BY <2>1
        <4>3. r.owned \in BOOLEAN /\ r.deleted \in BOOLEAN
          BY Zenon
        <4>4. r = [version |-> r.version, owned |-> r.owned, deleted |-> r.deleted, data |-> r.data]
          OBVIOUS
        <4>5. r \in FileStored
          BY <4>2, <4>3, <4>4, Zenon DEF FileStored
        <4>6. QED
          BY <4>1, <4>5, FileKinds
      <3>3. QED
        BY <3>1, <3>2
    <2>4. QED
      BY <2>2, <2>3
  <1>5. fileCalls \in [FileCalls -> FileCall] /\ \A c \in FileCalls : fileCalls[c] = IdleFileCall
    BY IdleIsSound DEF FileInit
  <1>6. FileNothingLost /\ fileIntent \in [FileIds -> FileData \union {NoChange}]
    <2>1. \A f \in FileIds : FileExists(f) => files[f].data \in FileData
      BY <1>4, FileKinds DEF FileExists, FileStored
    <2>2. QED
      BY <2>1 DEF FileInit, FileNothingLost, FileExists
  <1>7. OneCreator
    BY <1>5 DEF OneCreator, IdleFileCall
  <1>8. \A c \in FileCalls : FileCallSound(fileCalls[c])
    BY <1>5, IdleIsSound
  <1>9. QED
    BY <1>4, <1>5, <1>6, <1>7, <1>8 DEF FilesInv

LEMMA FileStartStep == ASSUME FilesInv, NEW c \in FileCalls, FileStart(c) PROVE FilesInv'
  <1>1. PICK f \in FileIds, op \in {"create", "get", "update", "delete"}, ch \in FileChanges \union {NoChange} :
          /\ op = "create" <=> ~FileExists(f)
          /\ (op = "create") => (DOMAIN ch = FileFields /\ \A d \in FileCalls :
                                    fileCalls[d].op # "create" \/ fileCalls[d].id # f)
          /\ (op \in {"get", "delete"}) => ch = NoChange
          /\ fileCalls' = [fileCalls EXCEPT ![c] =
                [IdleFileCall EXCEPT !.op = op, !.id = f, !.changes = ch,
                                     !.pc = IF op = "create" THEN "authorize" ELSE "read"]]
    BY DEF FileStart
  <1> DEFINE k == [IdleFileCall EXCEPT !.op = op, !.id = f, !.changes = ch,
                                       !.pc = IF op = "create" THEN "authorize" ELSE "read"]
  <1>2. /\ k \in FileCall
        /\ k.op = op /\ k.id = f /\ k.changes = ch
        /\ k.pc = IF op = "create" THEN "authorize" ELSE "read"
    BY IdleIsSound DEF FileCall
  <1>3. op = "create" => ch \in FileData
    BY <1>1 DEF FileChanges, FileData, NoChange
  <1>4. BeganRight(k)
    <2> HIDE DEF k
    <2>1. QED
      BY <1>1, <1>2, <1>3 DEF BeganRight
  <1>5. FileCallSound(k)
    <2> HIDE DEF k
    <2>1. QED
      BY <1>2, <1>4 DEF FileCallSound, SeenHolds, NextFollows, DeletionHolds
  <1>6. UNCHANGED <<files, fileIntent>>
    BY DEF FileStart
  <1>7. fileCalls' = [fileCalls EXCEPT ![c] = k]
    BY <1>1
  <1>8. k.op = "create" => \A d \in FileCalls : d # c /\ fileCalls[d].op = "create" => fileCalls[d].id # k.id
    BY <1>1, <1>2
  <1>9. QED
    <2> HIDE DEF k
    <2>1. QED
      BY <1>2, <1>5, <1>6, <1>7, <1>8, FileCallMoves

LEMMA FileReadStep == ASSUME FilesInv, NEW c \in FileCalls, FileRead(c) PROVE FilesInv'
  <1> DEFINE call == fileCalls[c]
             found == files[call.id]
             to == IF ~FileHidden(found) THEN "authorize"
                   ELSE IF call.op = "delete" THEN "answered" ELSE "failed"
             k == [call EXCEPT !.seen = found, !.pc = to]
  <1>1. call \in FileCall /\ FileCallSound(call) /\ call.pc = "read" /\ found \in FileRecord
    BY DEF FilesInv, FileRead, FileCall
  <1>2. to \in {"authorize", "answered", "failed"}
    OBVIOUS
  <1>3. /\ k \in FileCall
        /\ k.op = call.op /\ k.id = call.id /\ k.changes = call.changes /\ k.seen = found /\ k.pc = to
    <2> HIDE DEF to, found
    <2>1. QED
      BY <1>1, <1>2 DEF FileCall
  <1>4. fileCalls' = [fileCalls EXCEPT ![c] = k]
    BY <1>1 DEF FileRead, FilesInv, FileCall
  <1>5. /\ to = "authorize" => ~FileHidden(found)
        /\ to = "answered" => FileHidden(found)
    OBVIOUS
  <1>6. BeganRight(k)
    <2>1. to = "authorize" => FileExists(call.id)
      BY DEF FileHidden, FileExists
    <2> HIDE DEF k, to, found
    <2>2. QED
      BY <1>1, <1>2, <1>3, <2>1 DEF FileCallSound, BeganRight
  <1>7. found.version \in Nat
    <2> HIDE DEF found
    <2>1. QED
      BY <1>1, FileKinds
  <1>8. SeenHolds(k) /\ NextFollows(k) /\ DeletionHolds(k)
    <2>1. files[call.id] = found
      OBVIOUS
    <2> HIDE DEF k, to, found
    <2>2. QED
      BY <1>2, <1>3, <1>5, <1>7, <2>1 DEF SeenHolds, NextFollows, DeletionHolds
  <1>9. UNCHANGED <<files, fileIntent>>
    BY DEF FileRead
  <1>10. k.op = "create" => \A d \in FileCalls : d # c /\ fileCalls[d].op = "create" => fileCalls[d].id # k.id
    BY <1>3, OtherCreator
  <1>11. QED
    <2> HIDE DEF k
    <2>1. QED
      BY <1>3, <1>4, <1>6, <1>8, <1>9, <1>10, FileCallMoves DEF FileCallSound

LEMMA FileAuthorizeStep == ASSUME FilesInv, NEW c \in FileCalls, FileAuthorize(c) PROVE FilesInv'
  <1> DEFINE call == fileCalls[c]
  <1>1. call \in FileCall /\ FileCallSound(call) /\ call.pc = "authorize"
    BY DEF FilesInv, FileAuthorize
  <1>2. PICK to \in {"failed", "insert", "answered", "reread"} :
          /\ FileGoto(c, to)
          /\ to = "insert" => call.op = "create"
          /\ to = "answered" => call.op = "get"
          /\ to = "reread" => call.op \notin {"create", "get"}
    BY DEF FileAuthorize
  <1> DEFINE k == [call EXCEPT !.pc = to]
  <1>3. /\ k \in FileCall /\ fileCalls' = [fileCalls EXCEPT ![c] = k]
        /\ k.pc = to /\ k.op = call.op /\ k.id = call.id /\ k.changes = call.changes /\ k.seen = call.seen
    BY <1>1, <1>2 DEF FilesInv, FileCall, FileGoto
  <1> HIDE DEF k
  <1>4. call.op \in {"none", "create", "get", "update", "delete"}
    BY <1>1 DEF FileCall
  <1>5. BeganRight(k)
    BY <1>1, <1>2, <1>3, <1>4 DEF FileCallSound, BeganRight
  <1>6. SeenHolds(k) /\ NextFollows(k) /\ DeletionHolds(k)
    BY <1>1, <1>2, <1>3 DEF FileCallSound, SeenHolds, NextFollows, DeletionHolds
  <1>7. UNCHANGED <<files, fileIntent>>
    BY DEF FileAuthorize
  <1>8. k.op = "create" => \A d \in FileCalls : d # c /\ fileCalls[d].op = "create" => fileCalls[d].id # k.id
    BY <1>3, OtherCreator
  <1>9. QED
    BY <1>3, <1>5, <1>6, <1>7, <1>8, FileCallMoves DEF FileCallSound

LEMMA FileRereadStep == ASSUME FilesInv, NEW c \in FileCalls, FileReread(c) PROVE FilesInv'
  <1> DEFINE call == fileCalls[c]
             current == files[call.id]
             next == FilePlanned(call.op, current, call.changes)
             k == [call EXCEPT !.pc = "write", !.next = next]
  <1>1. call \in FileCall /\ FileCallSound(call) /\ call.pc = "reread" /\ current \in FileRecord
    BY DEF FilesInv, FileReread, FileCall
  <1>2. call.op \in {"update", "delete"} /\ FileExists(call.id)
    BY <1>1 DEF FileCallSound, BeganRight
  <1>3. current \in FileStored
    BY <1>1, <1>2, FileKinds DEF FileExists
  <1>4. next \in FileRecord
    <2>1. call.changes \in FileChanges \union {NoChange} /\ (call.op = "delete" => call.changes = NoChange)
      BY <1>1 DEF FileCall, FileCallSound, BeganRight
    <2>2. 1 \in Nat \ {0}
      OBVIOUS
    <2>3. next \in FileStored
      BY <1>3, <2>1, <2>2, FileWrittenFields
    <2>4. QED
      BY <2>3, FileKinds
  <1>5. /\ k \in FileCall
        /\ k.op = call.op /\ k.id = call.id /\ k.changes = call.changes /\ k.seen = call.seen
        /\ k.pc = "write" /\ k.next = next
    <2> HIDE DEF next
    <2>1. QED
      BY <1>1, <1>4 DEF FileCall
  <1>6. fileCalls' = [fileCalls EXCEPT ![c] = k]
    BY <1>1 DEF FileReread, FilesInv, FileCall, FilePlanned
  <1>7. BeganRight(k)
    <2> HIDE DEF k, next
    <2>1. QED
      BY <1>1, <1>2, <1>5 DEF FileCallSound, BeganRight
  <1>8. SeenHolds(k) /\ DeletionHolds(k)
    <2> HIDE DEF k, next
    <2>1. QED
      BY <1>1, <1>2, <1>5 DEF FileCallSound, SeenHolds, DeletionHolds
  <1>9. NextFollows(k)
    <2>1. call.seen.version = files[call.id].version => current = call.seen
      BY <1>1, <1>2 DEF FileCallSound, SeenHolds
    <2>2. call.seen.version = files[call.id].version =>
            next = FilePlanned(call.op, call.seen, call.changes)
      BY <2>1
    <2> HIDE DEF k, next
    <2>3. QED
      BY <1>5, <2>2 DEF NextFollows
  <1>10. UNCHANGED <<files, fileIntent>>
    BY DEF FileReread
  <1>11. k.op # "create"
    BY <1>2, <1>5
  <1>12. QED
    <2> HIDE DEF k
    <2>1. QED
      BY <1>5, <1>6, <1>7, <1>8, <1>9, <1>10, <1>11, FileCallMoves DEF FileCallSound

LEMMA FileAuditStep == ASSUME FilesInv, NEW c \in FileCalls, FileAudit(c) PROVE FilesInv'
  <1> DEFINE call == fileCalls[c]
  <1>1. call \in FileCall /\ FileCallSound(call) /\ call.pc = "audit"
    BY DEF FilesInv, FileAudit
  <1>2. PICK to \in {"answered", "failed"} : FileGoto(c, to)
    BY DEF FileAudit
  <1> DEFINE k == [call EXCEPT !.pc = to]
  <1>3. /\ k \in FileCall /\ fileCalls' = [fileCalls EXCEPT ![c] = k]
        /\ k.pc = to /\ k.op = call.op /\ k.id = call.id /\ k.changes = call.changes
    BY <1>1, <1>2 DEF FilesInv, FileCall, FileGoto
  <1> HIDE DEF k
  <1>4. FileCallSound(k)
    BY <1>1, <1>2, <1>3 DEF FileCallSound, BeganRight, SeenHolds, NextFollows, DeletionHolds
  <1>5. UNCHANGED <<files, fileIntent>>
    BY DEF FileAudit
  <1>6. k.op = "create" => \A d \in FileCalls : d # c /\ fileCalls[d].op = "create" => fileCalls[d].id # k.id
    BY <1>3, OtherCreator
  <1>7. QED
    BY <1>3, <1>4, <1>5, <1>6, FileCallMoves

\* A call at another place of its course, the rest as it was.
LEMMA FileTurned ==
  ASSUME NEW call \in FileCall, NEW pc \in {"audit", "failed"}
  PROVE  \E k \in FileCall : /\ k = [call EXCEPT !.pc = pc]
                              /\ k.pc = pc /\ k.op = call.op /\ k.id = call.id /\ k.changes = call.changes
  <1> DEFINE k == [call EXCEPT !.pc = pc]
  <1>1. k \in FileCall
    BY DEF FileCall
  <1>2. k.pc = pc /\ k.op = call.op /\ k.id = call.id /\ k.changes = call.changes
    BY DEF FileCall
  <1>3. QED
    BY <1>1, <1>2

\* A call writes a record, keeps its intent and goes on.
LEMMA FileRecordWritten ==
  ASSUME FilesInv, NEW c \in FileCalls, NEW f \in FileIds, NEW new \in FileStored, NEW k \in FileCall,
         files' = [files EXCEPT ![f] = new],
         fileIntent' = [fileIntent EXCEPT ![f] = new.data],
         fileCalls' = [fileCalls EXCEPT ![c] = k],
         new.version > files[f].version,
         FileExists(f) => ~FileHidden(files[f]),
         FileCallSound(k)',
         k.op = fileCalls[c].op, k.id = fileCalls[c].id,
         \A d \in FileCalls : d # c /\ fileCalls[d].op = "create" /\ fileCalls[d].pc \in {"authorize", "insert"}
                                => fileCalls[d].id # f
  PROVE  FilesInv'
  <1>1. ASSUME NEW d \in FileCalls
        PROVE  FileCallSound(fileCalls[d])'
    <2>1. PICK q \in FileCall : q = fileCalls'[d]
      BY DEF FilesInv
    <2>2. FileCallSound(q)'
      <3>1. CASE d = c
        BY <2>1, <3>1 DEF FilesInv
      <3>2. CASE d # c
        <4>1. q = fileCalls[d] /\ FileCallSound(q)
          BY <2>1, <3>2 DEF FilesInv
        <4>2. q.op = "create" /\ q.pc \in {"authorize", "insert"} => q.id # f
          BY <3>2, <4>1
        <4>3. files \in [FileIds -> FileRecord]
          BY DEF FilesInv
        <4>4. QED
          BY <4>1, <4>2, <4>3, FileMoves
      <3>3. QED
        BY <3>1, <3>2
    <2>3. QED
      BY <2>1, <2>2 DEF FileCallSound, BeganRight, SeenHolds, NextFollows, DeletionHolds, FileExists
  <1>2. (files \in [FileIds -> FileRecord])' /\ fileCalls' \in [FileCalls -> FileCall]
    BY FileKinds DEF FilesInv
  <1>3. (fileIntent \in [FileIds -> FileData \union {NoChange}])'
    BY DEF FilesInv, FileStored
  <1>4. FileNothingLost'
    BY DEF FilesInv, FileNothingLost, FileExists
  <1>5. OneCreator'
    BY DEF FilesInv, OneCreator
  <1>6. QED
    BY <1>1, <1>2, <1>3, <1>4, <1>5 DEF FilesInv

LEMMA FileInsertStep == ASSUME FilesInv, NEW c \in FileCalls, FileInsert(c) PROVE FilesInv'
  <1>1. PICK call \in FileCall : call = fileCalls[c]
    BY DEF FilesInv
  <1>2. PICK f \in FileIds : f = call.id
    BY DEF FileCall
  <1>3. FileCallSound(call) /\ call.pc = "insert" /\ files \in [FileIds -> FileRecord]
    BY <1>1 DEF FilesInv, FileInsert
  <1>4. call.op = "create" /\ ~FileExists(f) /\ call.changes \in FileData
    BY <1>2, <1>3 DEF FileCallSound, BeganRight
  <1>5. PICK new \in FileStored : /\ new = [version |-> 1, owned |-> TRUE, deleted |-> FALSE, data |-> call.changes]
                                  /\ new.version = 1 /\ new.data = call.changes
    <2> DEFINE n == [version |-> 1, owned |-> TRUE, deleted |-> FALSE, data |-> call.changes]
    <2>1. n \in FileStored
      BY <1>4 DEF FileStored
    <2>2. n.version = 1 /\ n.data = call.changes
      OBVIOUS
    <2>3. QED
      BY <2>1, <2>2
  <1>6. files' = [files EXCEPT ![f] = new] /\ fileIntent' = [fileIntent EXCEPT ![f] = new.data]
    BY <1>1, <1>2, <1>5 DEF FileInsert, FileInserted
  <1>7. new.version > files[f].version
    BY <1>4, <1>5, FileKinds DEF FileExists
  <1>8. PICK k \in FileCall : /\ k = [call EXCEPT !.pc = "audit"]
                              /\ k.pc = "audit" /\ k.op = call.op /\ k.id = call.id /\ k.changes = call.changes
    BY FileTurned
  <1>9. fileCalls' = [fileCalls EXCEPT ![c] = k]
    BY <1>1, <1>8 DEF FileInsert, FileGoto
  <1>10. FileCallSound(k)
    BY <1>3, <1>4, <1>8 DEF FileCallSound, BeganRight, SeenHolds, NextFollows, DeletionHolds
  <1>11. FileCallSound(k)'
    BY <1>3, <1>4, <1>6, <1>7, <1>8, <1>10, FileMoves
  <1>12. \A d \in FileCalls : d # c /\ fileCalls[d].op = "create" /\ fileCalls[d].pc \in {"authorize", "insert"}
                                 => fileCalls[d].id # f
    BY <1>1, <1>2, <1>4, OtherCreator
  <1>13. k.op = fileCalls[c].op /\ k.id = fileCalls[c].id
    BY <1>1, <1>8
  <1>14. FileExists(f) => ~FileHidden(files[f])
    BY <1>4
  <1>15. QED
    BY <1>6, <1>7, <1>9, <1>11, <1>12, <1>13, <1>14, FileRecordWritten, ZenonT(60)

LEMMA FileWriteStep == ASSUME FilesInv, NEW c \in FileCalls, FileWrite(c) PROVE FilesInv'
  <1>1. PICK call \in FileCall : call = fileCalls[c]
    BY DEF FilesInv
  <1>2. PICK f \in FileIds : f = call.id
    BY DEF FileCall
  <1>3. FileCallSound(call) /\ call.pc = "write" /\ files \in [FileIds -> FileRecord]
    BY <1>1 DEF FilesInv, FileWrite
  <1>4. call.op \in {"update", "delete"} /\ FileExists(f)
    BY <1>2, <1>3 DEF FileCallSound, BeganRight
  <1>5. CASE FileVersionMatches(call)
    <2>1. files[f] = call.seen /\ ~FileHidden(files[f])
      BY <1>2, <1>3, <1>4, <1>5 DEF FileCallSound, SeenHolds, FileVersionMatches
    <2>2. PICK r \in FileStored : r = files[f]
      BY <1>3, <1>4, FileKinds DEF FileExists
    <2>3. call.next = FilePlanned(call.op, r, call.changes)
      BY <1>2, <1>3, <1>5, <2>1, <2>2 DEF FileCallSound, NextFollows, FileVersionMatches
    <2>4. PICK v \in Nat \ {0} : v = r.version + 1 /\ r.version \in Nat
      BY FileKinds
    <2>5. call.changes \in FileChanges \union {NoChange} /\ (call.op = "delete" => call.changes = NoChange)
      BY <1>3 DEF FileCall, FileCallSound, BeganRight
    <2>6. PICK new \in FileStored : /\ new = [call.next EXCEPT !.version = v]
                                    /\ new.version = v
                                    /\ new.data = FileApplied(call.changes, r.data)
                                    /\ call.op = "delete" => FileHidden(new)
      <3> DEFINE n == FileWritten(call.op, r, call.changes, v)
      <3>1. /\ n \in FileStored /\ n.version = v /\ n.data = FileApplied(call.changes, r.data)
            /\ call.op = "delete" => FileHidden(n)
        BY <2>5, FileWrittenFields
      <3>2. n = [call.next EXCEPT !.version = v]
        BY <2>3, Zenon DEF FileWritten
      <3>3. QED
        BY <3>1, <3>2, Zenon
    <2>7. fileIntent[f] = r.data
      BY <1>4, <2>2 DEF FilesInv, FileNothingLost
    <2>8. files' = [files EXCEPT ![f] = new] /\ fileIntent' = [fileIntent EXCEPT ![f] = new.data]
      <3>1. /\ files' = [files EXCEPT ![f] = [call.next EXCEPT !.version = files[f].version + 1]]
            /\ fileIntent' = [fileIntent EXCEPT ![f] = FileApplied(call.changes, fileIntent[f])]
        BY <1>1, <1>2, <1>5, Zenon DEF FileWrite
      <3>2. [call.next EXCEPT !.version = files[f].version + 1] = new
        BY <2>2, <2>4, <2>6, Zenon
      <3>3. FileApplied(call.changes, fileIntent[f]) = new.data
        BY <2>6, <2>7
      <3>4. QED
        BY <3>1, <3>2, <3>3, Zenon
    <2>9. new.version > files[f].version
      <3>1. new.version = r.version + 1 /\ files[f].version = r.version
        BY <2>2, <2>4, <2>6, Zenon
      <3>2. QED
        BY <2>4, <3>1
    <2>10. PICK k \in FileCall : /\ k = [call EXCEPT !.pc = "audit"]
                                 /\ k.pc = "audit" /\ k.op = call.op /\ k.id = call.id /\ k.changes = call.changes
      BY FileTurned
    <2>11. fileCalls' = [fileCalls EXCEPT ![c] = k]
      BY <1>1, <1>5, <2>10 DEF FileWrite, FileGoto
    <2>12. files'[f] = new /\ FileExists(f)'
      BY <1>3, <2>8, FileKinds DEF FileExists
    <2>13. BeganRight(k)'
      BY <1>2, <1>4, <2>5, <2>10, <2>12 DEF BeganRight
    <2>14. DeletionHolds(k)'
      <3>1. call.op = "delete" => FileHidden(new)
        BY <2>6
      <3>2. k.id = f /\ k.op = call.op
        BY <1>2, <2>10
      <3>3. QED
        BY <2>12, <3>1, <3>2 DEF DeletionHolds, FileHidden
    <2>15. FileCallSound(k)'
      BY <2>10, <2>13, <2>14 DEF FileCallSound, SeenHolds, NextFollows
    <2>16. \A d \in FileCalls : d # c /\ fileCalls[d].op = "create" /\ fileCalls[d].pc \in {"authorize", "insert"}
                                   => fileCalls[d].id # f
      BY <1>4 DEF FilesInv, FileCallSound, BeganRight
    <2>17. k.op = fileCalls[c].op /\ k.id = fileCalls[c].id
      BY <1>1, <2>10
    <2>18. QED
      BY <2>1, <2>8, <2>9, <2>11, <2>15, <2>16, <2>17, FileRecordWritten, ZenonT(60)
  <1>6. CASE ~FileVersionMatches(call)
    <2>1. PICK k \in FileCall : /\ k = [call EXCEPT !.pc = "failed"]
                                /\ k.pc = "failed" /\ k.op = call.op /\ k.id = call.id /\ k.changes = call.changes
      BY FileTurned
    <2>2. fileCalls' = [fileCalls EXCEPT ![c] = k] /\ UNCHANGED <<files, fileIntent>>
      BY <1>1, <1>6, <2>1 DEF FileWrite, FileGoto, FileConflict
    <2>3. FileCallSound(k)
      BY <1>3, <1>4, <2>1 DEF FileCallSound, BeganRight, SeenHolds, NextFollows, DeletionHolds
    <2>4. k.op # "create"
      BY <1>4, <2>1
    <2>5. QED
      BY <2>2, <2>3, <2>4, FileCallMoves
  <1>7. QED
    BY <1>5, <1>6

-----------------------------------------------------------------------------
(* The theorems *)

LEMMA FilesNextInv == FilesInv /\ [FileNext]_fileVars => FilesInv'
  <1> SUFFICES ASSUME FilesInv, [FileNext]_fileVars PROVE FilesInv'
    OBVIOUS
  <1>1. ASSUME NEW c \in FileCalls, FileStart(c) PROVE FilesInv'
    BY <1>1, FileStartStep
  <1>2. ASSUME NEW c \in FileCalls, FileRead(c) PROVE FilesInv'
    BY <1>2, FileReadStep
  <1>3. ASSUME NEW c \in FileCalls, FileAuthorize(c) PROVE FilesInv'
    BY <1>3, FileAuthorizeStep
  <1>4. ASSUME NEW c \in FileCalls, FileInsert(c) PROVE FilesInv'
    BY <1>4, FileInsertStep
  <1>5. ASSUME NEW c \in FileCalls, FileReread(c) PROVE FilesInv'
    BY <1>5, FileRereadStep
  <1>6. ASSUME NEW c \in FileCalls, FileWrite(c) PROVE FilesInv'
    BY <1>6, FileWriteStep
  <1>7. ASSUME NEW c \in FileCalls, FileAudit(c) PROVE FilesInv'
    BY <1>7, FileAuditStep
  <1>8. CASE UNCHANGED fileVars
    BY <1>8 DEF fileVars, FilesInv, FileNothingLost, FileExists, OneCreator,
                FileCallSound, BeganRight, SeenHolds, NextFollows, DeletionHolds
  <1>9. QED
    BY <1>1, <1>2, <1>3, <1>4, <1>5, <1>6, <1>7, <1>8 DEF FileNext

\* FilesInv holds in every reachable state.
THEOREM FilesInvariance == FileSpec => []FilesInv
  <1>1. FileInit => FilesInv
    BY FilesInitInv
  <1>2. FilesInv /\ [FileNext]_fileVars => FilesInv'
    BY FilesNextInv
  <1>3. QED
    BY <1>1, <1>2, PTL DEF FileSpec

\* For any number of calls, records, fields and values: records stay complete,
\* no update undoes another one's fields, and a file answered as deleted is
\* not seen again (files/service.ts update and delete over updateIfVersion).
THEOREM FilesSoundAlways == FileSpec => []FilesSound
  <1>1. FilesInv => FilesSound
    <2> SUFFICES ASSUME FilesInv PROVE FilesSound
      OBVIOUS
    <2>1. FileTypeOK
      BY DEF FilesInv, FileTypeOK, FileCall
    <2>2. FileDeleteAnswered
      BY DEF FilesInv, FileCallSound, DeletionHolds, FileDeleteAnswered
    <2>3. QED
      BY <2>1, <2>2 DEF FilesInv, FilesSound
  <1>2. QED
    BY <1>1, FilesInvariance, PTL

\* No call writes a deleted record or one of another application, however
\* long ago it read it: what it saw was not hidden, and the version tells.
THEOREM HiddenUntouchedAlways == FileSpec => [][FileHiddenUntouched]_fileVars
  <1>1. FilesInv /\ [FileNext]_fileVars => [FileHiddenUntouched]_fileVars
    <2> SUFFICES ASSUME FilesInv, [FileNext]_fileVars PROVE FileHiddenUntouched
      OBVIOUS
    <2>1. CASE UNCHANGED files
      BY <2>1 DEF FileHiddenUntouched
    <2>2. ASSUME NEW c \in FileCalls, FileInsert(c) PROVE FileHiddenUntouched
      <3>1. ~FileExists(fileCalls[c].id)
        BY <2>2 DEF FilesInv, FileCallSound, BeganRight, FileInsert
      <3>2. QED
        BY <2>2, <3>1 DEF FileInsert, FileHiddenUntouched, FilesInv
    <2>3. ASSUME NEW c \in FileCalls, FileWrite(c) PROVE FileHiddenUntouched
      <3>1. CASE FileVersionMatches(fileCalls[c])
        <4>1. ~FileHidden(files[fileCalls[c].id])
          BY <2>3, <3>1 DEF FilesInv, FileCallSound, BeganRight, SeenHolds, FileWrite, FileVersionMatches
        <4>2. \A f \in FileIds : f # fileCalls[c].id => files'[f] = files[f]
          BY <2>3, <3>1 DEF FileWrite, FilesInv
        <4>3. QED
          BY <4>1, <4>2 DEF FileHiddenUntouched
      <3>2. CASE ~FileVersionMatches(fileCalls[c])
        BY <2>1, <2>3, <3>2 DEF FileWrite
      <3>3. QED
        BY <3>1, <3>2
    <2>4. QED
      BY <2>1, <2>2, <2>3 DEF FileNext, FileStart, FileRead, FileAuthorize, FileReread, FileAudit, fileVars
  <1>2. QED
    BY <1>1, FilesInvariance, PTL DEF FileSpec

-----------------------------------------------------------------------------
(* What the pages have in common *)

PageNames == {"apiKeys", "jobs", "schedules", "files", "webhooks", "notifications", "configuration", "secrets",
              "intelligence"}
RowActions == {"Edit", "Rotate", "Revoke", "RevokeAll", "Retry", "Disable", "Rename", "Delete", "MarkRead", "Dismiss",
               "Change", "Nothing", "Remove"}
RowStates == {"active", "replaced", "revoked", "pending", "failed", "completed", "enabled", "disabled", "live",
              "deleted", "unread", "read", "dismissed", "set", "configured", "bare"}

\* An action either leaves the record as it was or in one of the page's states.
\* If a null answer counts as a success, a record the action is not taken on is already as it
\* would leave it.
ActionFits(a, states, name) ==
  /\ a.to = "same" \/ a.to \in states
  /\ ~a.refusesNull /\ a.to # "same" => (\A s \in states : s \notin a.taken => s = a.to) /\ (a.races => name = "webhooks")
  /\ name = "webhooks" => a.to = "disabled"

PageFits(p, name) ==
  /\ p.states \subseteq RowStates
  /\ \A m \in p.others : m[2] \in p.states /\ (name = "webhooks" => m[2] = "disabled")
  /\ DOMAIN p.actions \subseteq RowActions
  /\ \A n \in DOMAIN p.actions : ActionFits(p.actions[n], p.states, name)
  /\ p.twoLists => p.guarded

LEMMA PagesFit == DOMAIN ConsolePages = PageNames /\ \A name \in PageNames : PageFits(ConsolePages[name], name)
  <1> USE DEF Page, Action
  <1>1. PageFits(ApiKeysPage, "apiKeys")
    BY DEF ApiKeysPage, PageFits, ActionFits, RowStates, RowActions
  <1>2. PageFits(JobsPage, "jobs")
    BY DEF JobsPage, PageFits, ActionFits, RowStates, RowActions
  <1>3. PageFits(SchedulesPage, "schedules")
    BY DEF SchedulesPage, PageFits, ActionFits, RowStates, RowActions
  <1>4. PageFits(FilesPage, "files")
    BY DEF FilesPage, PageFits, ActionFits, RowStates, RowActions
  <1>5. PageFits(WebhooksPage, "webhooks")
    BY DEF WebhooksPage, PageFits, ActionFits, RowStates, RowActions
  <1>6. PageFits(NotificationsPage, "notifications")
    BY DEF NotificationsPage, PageFits, ActionFits, RowStates, RowActions
  <1>7. PageFits(ConfigurationPage, "configuration")
    BY DEF ConfigurationPage, PageFits, ActionFits, RowStates, RowActions
  <1>8. PageFits(SecretsPage, "secrets")
    BY DEF SecretsPage, PageFits, ActionFits, RowStates, RowActions
  <1>9. PageFits(IntelligencePage, "intelligence")
    BY DEF IntelligencePage, PageFits, ActionFits, RowStates, RowActions
  <1>10. DOMAIN ConsolePages = PageNames
    BY DEF ConsolePages, PageNames
  <1>11. /\ ConsolePages["apiKeys"] = ApiKeysPage /\ ConsolePages["jobs"] = JobsPage
         /\ ConsolePages["schedules"] = SchedulesPage /\ ConsolePages["files"] = FilesPage
         /\ ConsolePages["webhooks"] = WebhooksPage /\ ConsolePages["notifications"] = NotificationsPage
         /\ ConsolePages["configuration"] = ConfigurationPage /\ ConsolePages["secrets"] = SecretsPage
         /\ ConsolePages["intelligence"] = IntelligencePage
    BY DEF ConsolePages
  <1> HIDE DEF Page, Action
  <1>12. QED
    BY <1>1, <1>2, <1>3, <1>4, <1>5, <1>6, <1>7, <1>8, <1>9, <1>10, <1>11 DEF PageNames

-----------------------------------------------------------------------------
(* The inductive invariant *)

ReadRec == [number : Nat, pc : {"none", "asked", "read", "done"}, at : Nat, row : RowStates \union {"none"}]
ClickRec ==
  [pc : {"idle", "dialog", "sent", "served", "done"}, action : RowActions \union {"none", "create"}, sentAt : Nat,
   answer : {"none", "record", "null", "error", "unknown"}, at : Nat, left : RowStates \union {"none"},
   said : {"none", "ok", "fail"}]

ConsoleTypeOK ==
  /\ page \in PageNames /\ record \in Shows.states
  /\ version \in Nat /\ moment \in Nat /\ latest \in Nat
  /\ reads \in [ConsoleReads -> ReadRec]
  /\ table \in [drawn : {"loading", "rows", "error"}, at : Nat, row : RowStates \union {"none"}]
  /\ secondTable \in [by : Nat, at : Nat]
  /\ clicks \in [Clicks -> ClickRec]

\* A refresh that is not answered yet.
Underway(r) == reads[r].pc \in {"asked", "read"}

\* The refresh whose answer is drawn, wherever only the newest one may.
Newest(r) == Underway(r) /\ reads[r].number = latest

\* Refreshes are numbered apart, and nothing is older than it will be.
Numbered ==
  /\ \A r \in ConsoleReads : Underway(r) => reads[r].number <= latest /\ reads[r].at <= moment
  /\ \A q, r \in ConsoleReads : Underway(q) /\ Underway(r) /\ reads[q].number = reads[r].number => q = r
  /\ table.at <= moment
  /\ \A c \in Clicks : clicks[c].at <= moment /\ clicks[c].sentAt <= version

\* What the newest refresh has read is not older than the rows that are shown and than
\* everything that was reported as done.
ReadInTime ==
  Shows.guarded => \A r \in ConsoleReads : Newest(r) /\ reads[r].pc = "read" =>
    /\ reads[r].at >= table.at
    /\ \A c \in Clicks : clicks[c].said = "ok" => reads[r].at >= clicks[c].at

\* An action that is under way is one of the page's.
Known(k) == k.pc \in {"dialog", "sent", "served"} => k.action \in DOMAIN Shows.actions \union {"create"}
KnownAction == \A c \in Clicks : Known(clicks[c])

\* An answer that the page takes for a success came with the record as the action leaves it.
Success(k) == k.answer = "record" \/ (k.answer = "null" /\ ~ActionOf(k.action).refusesNull)
AnswerTrue(k) ==
  k.pc = "served" /\ Success(k) /\ ActionOf(k.action).to # "same" => k.left = ActionOf(k.action).to
AnswersTrue == \A c \in Clicks : AnswerTrue(clicks[c])

\* Nothing is reported as done before its answer.
Unsaid == \A c \in Clicks : clicks[c].said = "ok" => clicks[c].pc = "done"

\* An endpoint that was changed is disabled: there is no way back.
DisabledForGood == page = "webhooks" /\ version > 0 => record = "disabled"

OneLine == \E line \in {"form", "list"} : secretsAt \subseteq {line}

ConsoleInv ==
  /\ ConsoleTypeOK /\ Numbered /\ ReadInTime /\ KnownAction /\ AnswersTrue /\ Unsaid /\ DisabledForGood /\ OneLine
  /\ ReadYourWrites /\ SuccessIsTrue /\ TablesAgree

-----------------------------------------------------------------------------
(* Steps *)

LEMMA ShowsFits == ASSUME ConsoleTypeOK PROVE PageFits(Shows, page) /\ Shows.states \subseteq RowStates
  BY PagesFit DEF ConsoleTypeOK, Shows, PageFits

LEMMA NoReadFields == NoRead \in ReadRec /\ NoRead.pc = "none"
  BY DEF NoRead, ReadRec

LEMMA NoClickFields ==
  NoClick \in ClickRec /\ NoClick.pc = "idle" /\ NoClick.said = "none" /\ NoClick.at = 0 /\ NoClick.sentAt = 0
  BY DEF NoClick, ClickRec

\* Nothing is clicked and nothing answered.
LEMMA ClicksStay ==
  ASSUME ConsoleInv, UNCHANGED <<page, clicks>>
  PROVE KnownAction' /\ AnswersTrue' /\ Unsaid' /\ SuccessIsTrue'
  <1>1. UNCHANGED Shows /\ \A n : ActionOf(n)' = ActionOf(n)
    BY DEF Shows, ActionOf
  <1>2. KnownAction'
    BY <1>1 DEF ConsoleInv, KnownAction, Known
  <1>3. AnswersTrue'
    BY <1>1 DEF ConsoleInv, AnswersTrue, AnswerTrue, Success
  <1>4. SuccessIsTrue' /\ Unsaid'
    BY <1>1 DEF ConsoleInv, SuccessIsTrue, Unsaid
  <1>5. QED
    BY <1>2, <1>3, <1>4

\* The lists stay as they are while one click goes on, and it is not reported as done.
LEMMA ClickMoves ==
  ASSUME ConsoleInv, NEW c \in Clicks, NEW k \in ClickRec, clicks' = [clicks EXCEPT ![c] = k],
         UNCHANGED <<page, latest, reads, table, secondTable>>, k.said # "ok",
         record' \in Shows.states, version' \in Nat, moment' \in Nat, version' >= version, moment' >= moment,
         k.at <= moment', k.sentAt <= version', Known(k), AnswerTrue(k), DisabledForGood', OneLine'
  PROVE ConsoleInv'
  <1>1. UNCHANGED Shows /\ \A n : ActionOf(n)' = ActionOf(n)
    BY DEF Shows, ActionOf
  <1>2. clicks'[c] = k /\ \A b \in Clicks : b # c => clicks'[b] = clicks[b]
    BY DEF ConsoleInv, ConsoleTypeOK
  <1>3. ConsoleTypeOK'
    BY <1>1 DEF ConsoleInv, ConsoleTypeOK
  <1>4. Numbered'
    <2>1. \A b \in Clicks : clicks'[b].at <= moment' /\ clicks'[b].sentAt <= version'
      <3>1. SUFFICES ASSUME NEW b \in Clicks, b # c
                     PROVE clicks'[b].at <= moment' /\ clicks'[b].sentAt <= version'
        BY <1>2
      <3>2. clicks'[b] \in ClickRec /\ clicks'[b].at <= moment /\ clicks'[b].sentAt <= version
        BY <1>2, <3>1 DEF ConsoleInv, ConsoleTypeOK, Numbered
      <3>3. QED
        BY <3>2 DEF ConsoleInv, ConsoleTypeOK, ClickRec
    <2>2. table'.at <= moment'
      BY DEF ConsoleInv, ConsoleTypeOK, Numbered
    <2>3. \A r \in ConsoleReads : Underway(r)' => reads'[r].at <= moment'
      <3>1. \A r \in ConsoleReads : reads[r].at \in Nat
        BY DEF ConsoleInv, ConsoleTypeOK, ReadRec
      <3>2. QED
        BY <3>1 DEF ConsoleInv, ConsoleTypeOK, Numbered, Underway
    <2>4. QED
      BY <2>1, <2>2, <2>3 DEF ConsoleInv, Numbered, Underway
  <1>5. ReadInTime'
    BY <1>1, <1>2 DEF ConsoleInv, ReadInTime, Newest, Underway
  <1>6. KnownAction'
    BY <1>1, <1>2 DEF ConsoleInv, KnownAction, Known
  <1>7. AnswersTrue'
    BY <1>1, <1>2 DEF ConsoleInv, AnswersTrue, AnswerTrue, Success
  <1>8. ReadYourWrites' /\ SuccessIsTrue' /\ Unsaid'
    BY <1>1, <1>2 DEF ConsoleInv, ReadYourWrites, SuccessIsTrue, Unsaid
  <1>9. TablesAgree'
    BY <1>1 DEF ConsoleInv, TablesAgree
  <1>10. QED
    BY <1>3, <1>4, <1>5, <1>6, <1>7, <1>8, <1>9 DEF ConsoleInv

LEMMA ElsewhereStep == ASSUME ConsoleInv, Elsewhere PROVE ConsoleInv'
  <1>1. UNCHANGED <<page, latest, reads, table, secondTable, clicks, secretsAt>> /\ UNCHANGED Shows
    BY DEF Elsewhere, Shows
  <1>2. PICK move \in Shows.others : record' = move[2]
    BY DEF Elsewhere
  <1>3. record' \in Shows.states /\ (page = "webhooks" => record' = "disabled")
    BY <1>2, ShowsFits DEF ConsoleInv, PageFits
  <1>4. version' \in Nat /\ moment' \in Nat /\ version' = version + 1 /\ moment' = moment + 1
    BY DEF ConsoleInv, ConsoleTypeOK, Elsewhere
  <1>5. ConsoleTypeOK'
    BY <1>1, <1>3, <1>4 DEF ConsoleInv, ConsoleTypeOK
  <1>6. Numbered'
    <2>1. \A b \in Clicks : clicks[b] \in ClickRec /\ clicks[b].at \in Nat /\ clicks[b].sentAt \in Nat
      BY DEF ConsoleInv, ConsoleTypeOK, ClickRec
    <2>2. table.at \in Nat /\ moment \in Nat /\ version \in Nat
      BY DEF ConsoleInv, ConsoleTypeOK
    <2>3. \A r \in ConsoleReads : reads[r].at \in Nat
      BY DEF ConsoleInv, ConsoleTypeOK, ReadRec
    <2>4. QED
      BY <1>1, <1>4, <2>1, <2>2, <2>3 DEF ConsoleInv, Numbered, Underway
  <1>7. ReadInTime' /\ ReadYourWrites' /\ TablesAgree' /\ OneLine'
    BY <1>1 DEF ConsoleInv, ReadInTime, Newest, Underway, ReadYourWrites, TablesAgree, OneLine
  <1>8. DisabledForGood'
    BY <1>1, <1>3 DEF DisabledForGood
  <1>9. QED
    BY <1>1, <1>5, <1>6, <1>7, <1>8, ClicksStay DEF ConsoleInv

\* A refresh is asked for: it is the newest one, and nothing is shown until it is answered.
LEMMA Refreshed ==
  ASSUME ConsoleInv, NEW r \in ConsoleReads, Refresh(r), page' = page, moment' = moment, version' = version,
         record' = record, secondTable' = secondTable, clicks' \in [Clicks -> ClickRec],
         \A c \in Clicks : clicks'[c].at <= moment /\ clicks'[c].sentAt <= version
  PROVE ConsoleTypeOK' /\ Numbered' /\ ReadInTime' /\ ReadYourWrites' /\ TablesAgree'
  <1>1. UNCHANGED Shows
    BY DEF Shows
  <1>2. latest \in Nat /\ latest' = latest + 1 /\ latest' \in Nat
    BY DEF ConsoleInv, ConsoleTypeOK, Refresh
  <1>3. PICK k \in ReadRec : k = [NoRead EXCEPT !.number = latest + 1, !.pc = "asked"] /\ k.number = latest + 1 /\ k.pc = "asked" /\ k.at = 0
    <2> DEFINE k == [NoRead EXCEPT !.number = latest + 1, !.pc = "asked"]
    <2>1. k \in ReadRec /\ k.number = latest + 1 /\ k.pc = "asked" /\ k.at = 0
      BY <1>2 DEF NoRead, ReadRec
    <2>2. QED
      BY <2>1
  <1>4. reads' \in [ConsoleReads -> ReadRec] /\ reads'[r] = k /\ \A q \in ConsoleReads : q # r => reads'[q] = reads[q]
    BY <1>3 DEF ConsoleInv, ConsoleTypeOK, Refresh
  <1>5. table' \in [drawn : {"loading", "rows", "error"}, at : Nat, row : RowStates \union {"none"}]
        /\ table'.drawn = "loading" /\ table'.at = table.at
    BY DEF ConsoleInv, ConsoleTypeOK, Refresh
  <1>6. ConsoleTypeOK'
    BY <1>1, <1>2, <1>4, <1>5 DEF ConsoleInv, ConsoleTypeOK
  <1>7. \A q \in ConsoleReads : q # r /\ Underway(q)' => reads'[q].number <= latest /\ Underway(q) /\ reads'[q].number = reads[q].number
    BY <1>4 DEF ConsoleInv, Numbered, Underway
  <1>8. \A q \in ConsoleReads : reads'[q].number \in Nat
    BY <1>4 DEF ReadRec
  <1>9. Numbered'
    <2>1. ASSUME NEW q \in ConsoleReads, Underway(q)'
          PROVE reads'[q].number <= latest' /\ reads'[q].at <= moment
      <3>1. CASE q = r
        <4>1. reads'[q].number = latest' /\ reads'[q].at = 0 /\ moment \in Nat
          BY <1>2, <1>3, <1>4, <3>1 DEF ConsoleInv, ConsoleTypeOK
        <4>2. QED
          BY <1>2, <4>1
      <3>2. CASE q # r
        BY <1>2, <1>4, <1>7, <1>8, <2>1, <3>2 DEF ConsoleInv, Numbered
      <3>3. QED
        BY <3>1, <3>2
    <2>2. \A p, q \in ConsoleReads : Underway(p)' /\ Underway(q)' /\ reads'[p].number = reads'[q].number => p = q
      <3>1. \A q \in ConsoleReads : Underway(q)' /\ q # r => reads'[q].number # reads'[r].number
        BY <1>2, <1>3, <1>4, <1>7, <1>8
      <3>2. QED
        BY <1>7, <3>1 DEF ConsoleInv, Numbered
    <2>3. QED
      BY <1>5, <2>1, <2>2 DEF ConsoleInv, Numbered, Underway
  <1>10. ReadInTime'
    <2>1. \A q \in ConsoleReads : Newest(q)' => q = r
      BY <1>2, <1>7, <1>8 DEF Newest
    <2>2. QED
      BY <1>3, <1>4, <2>1 DEF ReadInTime, Newest, Underway
  <1>11. QED
    BY <1>5, <1>6, <1>9, <1>10 DEF ReadYourWrites, TablesAgree

LEMMA ReadAgainStep == ASSUME ConsoleInv, ReadAgain PROVE ConsoleInv'
  <1>1. /\ Refresh("again") /\ "again" \in ConsoleReads
        /\ UNCHANGED <<page, record, version, moment, secondTable, clicks, secretsAt>>
    BY DEF ReadAgain, ConsoleReads
  <1>2. clicks' \in [Clicks -> ClickRec] /\ \A c \in Clicks : clicks'[c].at <= moment /\ clicks'[c].sentAt <= version
    BY <1>1 DEF ConsoleInv, ConsoleTypeOK, Numbered
  <1>3. ConsoleTypeOK' /\ Numbered' /\ ReadInTime' /\ ReadYourWrites' /\ TablesAgree'
    BY <1>1, <1>2, Refreshed
  <1>4. DisabledForGood' /\ OneLine'
    BY <1>1 DEF ConsoleInv, DisabledForGood, OneLine
  <1>5. QED
    BY <1>1, <1>3, <1>4, ClicksStay DEF ConsoleInv

LEMMA ServeReadStep == ASSUME ConsoleInv, NEW r \in ConsoleReads, ServeRead(r) PROVE ConsoleInv'
  <1>1. /\ UNCHANGED <<page, record, version, moment, latest, table, secondTable, clicks, secretsAt>> /\ UNCHANGED Shows
        /\ reads \in [ConsoleReads -> ReadRec] /\ reads[r] \in ReadRec /\ record \in RowStates /\ moment \in Nat
    BY ShowsFits DEF ServeRead, Shows, ConsoleInv, ConsoleTypeOK
  <1>2. PICK k \in ReadRec : /\ k = [reads[r] EXCEPT !.pc = "read", !.at = moment, !.row = record]
                             /\ k.number = reads[r].number /\ k.pc = "read" /\ k.at = moment
    <2> DEFINE k == [reads[r] EXCEPT !.pc = "read", !.at = moment, !.row = record]
    <2>1. k \in ReadRec /\ k.number = reads[r].number /\ k.pc = "read" /\ k.at = moment
      BY <1>1 DEF ReadRec
    <2>2. QED
      BY <2>1
  <1>3. /\ reads' \in [ConsoleReads -> ReadRec] /\ reads'[r] = k /\ reads[r].pc = "asked"
        /\ \A q \in ConsoleReads : q # r => reads'[q] = reads[q]
    BY <1>1, <1>2 DEF ServeRead
  <1>4. \A q \in ConsoleReads : (Underway(q)' <=> Underway(q)) /\ reads'[q].number = reads[q].number
    BY <1>2, <1>3 DEF Underway
  <1>5. ConsoleTypeOK'
    BY <1>1, <1>3 DEF ConsoleInv, ConsoleTypeOK
  <1>6. Numbered'
    <2>1. ASSUME NEW q \in ConsoleReads, Underway(q)
          PROVE reads'[q].at <= moment
      <3>1. CASE q = r
        <4>1. reads'[q].at = moment /\ moment \in Nat
          BY <1>1, <1>2, <1>3, <3>1
        <4>2. QED
          BY <4>1
      <3>2. CASE q # r
        BY <1>3, <2>1, <3>2 DEF ConsoleInv, Numbered
      <3>3. QED
        BY <3>1, <3>2
    <2>2. QED
      BY <1>1, <1>4, <2>1 DEF ConsoleInv, Numbered
  <1>7. ReadInTime'
    <2>1. table.at <= moment /\ \A c \in Clicks : clicks[c].at <= moment
      BY DEF ConsoleInv, Numbered
    <2>2. \A q \in ConsoleReads : Newest(q)' <=> Newest(q)
      BY <1>1, <1>4 DEF Newest
    <2>3. ASSUME Shows.guarded, NEW q \in ConsoleReads, Newest(q), reads'[q].pc = "read"
          PROVE reads'[q].at >= table.at /\ \A c \in Clicks : clicks[c].said = "ok" => reads'[q].at >= clicks[c].at
      <3>1. CASE q = r
        <4>1. table.at \in Nat /\ \A c \in Clicks : clicks[c].at \in Nat
          BY DEF ConsoleInv, ConsoleTypeOK, ClickRec
        <4>2. QED
          BY <1>1, <1>2, <1>3, <2>1, <3>1, <4>1
      <3>2. CASE q # r
        BY <1>3, <2>3, <3>2 DEF ConsoleInv, ReadInTime
      <3>3. QED
        BY <3>1, <3>2
    <2>4. QED
      BY <1>1, <2>2, <2>3 DEF ReadInTime
  <1>8. ReadYourWrites' /\ TablesAgree' /\ OneLine' /\ DisabledForGood'
    BY <1>1 DEF ConsoleInv, ReadYourWrites, TablesAgree, OneLine, DisabledForGood
  <1>9. QED
    BY <1>1, <1>5, <1>6, <1>7, <1>8, ClicksStay DEF ConsoleInv

\* A refresh is over, and what is drawn of it.
LEMMA ReadEnds ==
  ASSUME ConsoleInv, NEW r \in ConsoleReads, Underway(r), reads' = [reads EXCEPT ![r] = [NoRead EXCEPT !.pc = "done"]],
         UNCHANGED <<page, record, version, moment, latest, clicks, secretsAt>>,
         table' \in [drawn : {"loading", "rows", "error"}, at : Nat, row : RowStates \union {"none"}],
         secondTable' \in [by : Nat, at : Nat], table'.at <= moment,
         table'.at = table.at \/ Newest(r) \/ ~Shows.guarded, ReadYourWrites', TablesAgree'
  PROVE ConsoleInv'
  <1>1. UNCHANGED Shows
    BY DEF Shows
  <1>2. [NoRead EXCEPT !.pc = "done"] \in ReadRec /\ [NoRead EXCEPT !.pc = "done"].pc = "done"
    BY DEF NoRead, ReadRec
  <1>3. /\ reads' \in [ConsoleReads -> ReadRec] /\ reads'[r].pc = "done"
        /\ \A q \in ConsoleReads : q # r => reads'[q] = reads[q]
    BY <1>2 DEF ConsoleInv, ConsoleTypeOK
  <1>4. \A q \in ConsoleReads : Underway(q)' => q # r /\ Underway(q) /\ reads'[q] = reads[q]
    BY <1>3 DEF Underway
  <1>5. ConsoleTypeOK'
    BY <1>1, <1>3 DEF ConsoleInv, ConsoleTypeOK
  <1>6. Numbered'
    BY <1>4 DEF ConsoleInv, Numbered
  <1>7. ReadInTime'
    <2>1. ASSUME Shows.guarded, NEW q \in ConsoleReads, Newest(q)', reads'[q].pc = "read"
          PROVE reads'[q].at >= table'.at /\ \A c \in Clicks : clicks[c].said = "ok" => reads'[q].at >= clicks[c].at
      <3>1. q # r /\ Newest(q) /\ reads'[q] = reads[q]
        BY <1>4, <2>1 DEF Newest
      <3>2. ~Newest(r)
        BY <3>1 DEF ConsoleInv, Numbered, Newest
      <3>3. QED
        BY <2>1, <3>1, <3>2 DEF ConsoleInv, ReadInTime
    <2>2. QED
      BY <1>1, <2>1 DEF ReadInTime
  <1>8. OneLine' /\ DisabledForGood'
    BY DEF ConsoleInv, OneLine, DisabledForGood
  <1>9. QED
    BY <1>5, <1>6, <1>7, <1>8, ClicksStay DEF ConsoleInv

LEMMA DrawStep == ASSUME ConsoleInv, NEW r \in ConsoleReads, Draw(r) PROVE ConsoleInv'
  <1>1. /\ reads[r] \in ReadRec /\ reads[r].pc = "read" /\ Underway(r) /\ UNCHANGED Shows
        /\ reads' = [reads EXCEPT ![r] = [NoRead EXCEPT !.pc = "done"]]
        /\ UNCHANGED <<page, record, version, moment, latest, clicks, secretsAt>>
    BY DEF Draw, Underway, Shows, ConsoleInv, ConsoleTypeOK
  <1>2. table' = IF MayDraw(r) THEN [drawn |-> "rows", at |-> reads[r].at, row |-> reads[r].row] ELSE table
    BY DEF Draw
  <1>3. secondTable' = IF Shows.twoLists THEN [by |-> reads[r].number, at |-> reads[r].at] ELSE secondTable
    BY DEF Draw, SecondTable
  <1>4. /\ table' \in [drawn : {"loading", "rows", "error"}, at : Nat, row : RowStates \union {"none"}]
        /\ secondTable' \in [by : Nat, at : Nat]
    BY <1>1, <1>2, <1>3 DEF ConsoleInv, ConsoleTypeOK, ReadRec
  <1>5. table'.at = table.at \/ Newest(r) \/ ~Shows.guarded
    BY <1>1, <1>2 DEF MayDraw, Newest
  <1>6. table'.at <= moment
    BY <1>1, <1>2 DEF ConsoleInv, Numbered
  <1>7. ReadYourWrites'
    <2>1. CASE MayDraw(r)
      BY <1>1, <1>2, <2>1 DEF ConsoleInv, ReadInTime, MayDraw, Newest, ReadYourWrites
    <2>2. CASE ~MayDraw(r)
      BY <1>1, <1>2, <2>2 DEF ConsoleInv, ReadYourWrites
    <2>3. QED
      BY <2>1, <2>2
  <1>8. TablesAgree'
    <2>1. CASE Shows.twoLists
      <3>1. Shows.guarded
        BY <2>1, ShowsFits DEF ConsoleInv, PageFits
      <3>2. secondTable'.by = reads[r].number /\ secondTable'.at = reads[r].at
        BY <1>3, <2>1
      <3>3. CASE reads[r].number = latest
        <4>1. table'.at = reads[r].at
          BY <1>2, <3>3 DEF MayDraw
        <4>2. QED
          BY <3>2, <4>1 DEF TablesAgree
      <3>4. CASE reads[r].number # latest
        BY <1>1, <3>2, <3>4 DEF TablesAgree
      <3>5. QED
        BY <3>3, <3>4
    <2>2. CASE ~Shows.twoLists
      BY <1>1, <2>2 DEF TablesAgree
    <2>3. QED
      BY <2>1, <2>2
  <1>9. QED
    BY <1>1, <1>4, <1>5, <1>6, <1>7, <1>8, ReadEnds

LEMMA ReadFailsStep == ASSUME ConsoleInv, NEW r \in ConsoleReads, ReadFails(r) PROVE ConsoleInv'
  <1>1. /\ Underway(r) /\ UNCHANGED Shows
        /\ reads' = [reads EXCEPT ![r] = [NoRead EXCEPT !.pc = "done"]]
        /\ UNCHANGED <<page, record, version, moment, latest, secondTable, clicks, secretsAt>>
    BY DEF ReadFails, Underway, Shows
  <1>2. /\ table' \in [drawn : {"loading", "rows", "error"}, at : Nat, row : RowStates \union {"none"}]
        /\ table'.at = table.at /\ (table'.drawn = "rows" => table' = table)
    BY DEF ReadFails, ConsoleInv, ConsoleTypeOK
  <1>3. table'.at <= moment /\ secondTable' \in [by : Nat, at : Nat]
    BY <1>1, <1>2 DEF ConsoleInv, ConsoleTypeOK, Numbered
  <1>4. ReadYourWrites' /\ TablesAgree'
    BY <1>1, <1>2 DEF ConsoleInv, ReadYourWrites, TablesAgree
  <1>5. QED
    BY <1>1, <1>2, <1>3, <1>4, ReadEnds

\* The action that a click stands for fits its page.
LEMMA ActionKnown ==
  ASSUME ConsoleInv, NEW n \in DOMAIN Shows.actions \union {"create"}
  PROVE /\ n \in RowActions \union {"create"}
        /\ ActionOf(n).to = "same" \/ ActionOf(n).to \in Shows.states
        /\ n # "create" => ActionFits(ActionOf(n), Shows.states, page)
        /\ n = "create" => ActionOf(n).to = "same"
  <1>1. PageFits(Shows, page)
    BY ShowsFits DEF ConsoleInv
  <1>2. CASE n = "create"
    BY <1>2 DEF ActionOf, Action
  <1>3. CASE n # "create"
    BY <1>1, <1>3 DEF ActionOf, PageFits, ActionFits
  <1>4. QED
    BY <1>2, <1>3

\* A click that waits for its answer or for its dialog, or is over.
LEMMA ClickWaits ==
  ASSUME ConsoleInv, NEW c \in Clicks, NEW k \in ClickRec, clicks' = [clicks EXCEPT ![c] = k],
         k.pc # "served", k.said # "ok", k.at = 0, k.sentAt <= version, Known(k),
         UNCHANGED <<page, record, version, moment, latest, reads, table, secondTable>>, secretsAt' \subseteq secretsAt
  PROVE ConsoleInv'
  <1>1. AnswerTrue(k)
    BY DEF AnswerTrue
  <1>2. /\ record' \in Shows.states /\ version' \in Nat /\ moment' \in Nat /\ version' >= version /\ moment' >= moment
        /\ k.at <= moment' /\ k.sentAt <= version'
    BY DEF ConsoleInv, ConsoleTypeOK
  <1>3. DisabledForGood' /\ OneLine'
    BY DEF ConsoleInv, DisabledForGood, OneLine
  <1>4. QED
    BY <1>1, <1>2, <1>3, ClickMoves

LEMMA ClickRowStep == ASSUME ConsoleInv, NEW c \in Clicks, ClickRow(c) PROVE ConsoleInv'
  <1>1. version \in Nat /\ version <= version
    BY DEF ConsoleInv, ConsoleTypeOK
  <1>2. PICK n \in DOMAIN Shows.actions :
          clicks' = [clicks EXCEPT ![c] = [NoClick EXCEPT !.action = n, !.sentAt = version,
                       !.pc = IF Shows.actions[n].dialog THEN "dialog" ELSE "sent"]]
    BY DEF ClickRow
  <1>3. n \in RowActions \union {"create"}
    BY <1>2, ActionKnown
  <1>4. PICK to \in {"dialog", "sent"} : to = IF Shows.actions[n].dialog THEN "dialog" ELSE "sent"
    OBVIOUS
  <1> DEFINE k == [NoClick EXCEPT !.action = n, !.sentAt = version, !.pc = to]
  <1>5. k \in ClickRec /\ k.pc = to /\ k.said # "ok" /\ k.at = 0 /\ k.sentAt <= version /\ k.action = n
    BY <1>1, <1>3, <1>4 DEF NoClick, ClickRec
  <1>6. clicks' = [clicks EXCEPT ![c] = k]
    BY <1>2, <1>4
  <1>7. UNCHANGED <<page, record, version, moment, latest, reads, table, secondTable>> /\ secretsAt' \subseteq secretsAt
    BY DEF ClickRow
  <1> HIDE DEF k
  <1>8. k.pc # "served" /\ Known(k)
    BY <1>2, <1>4, <1>5 DEF Known
  <1>9. QED
    BY <1>5, <1>6, <1>7, <1>8, ClickWaits

LEMMA ConfirmStep == ASSUME ConsoleInv, NEW c \in Clicks, Confirm(c) PROVE ConsoleInv'
  <1>1. version \in Nat /\ version <= version
    BY DEF ConsoleInv, ConsoleTypeOK
  <1>2. PICK n \in DOMAIN Shows.actions \union {"create"} : n = clicks[c].action
    BY DEF ConsoleInv, KnownAction, Known, Confirm
  <1>3. n \in RowActions \union {"create"}
    BY <1>2, ActionKnown
  <1> DEFINE k == [NoClick EXCEPT !.pc = "sent", !.action = n, !.sentAt = version]
  <1>4. k \in ClickRec /\ k.pc = "sent" /\ k.said # "ok" /\ k.at = 0 /\ k.sentAt <= version /\ k.action = n
    BY <1>1, <1>3 DEF NoClick, ClickRec
  <1>5. clicks' = [clicks EXCEPT ![c] = k]
    BY <1>2 DEF Confirm
  <1>6. UNCHANGED <<page, record, version, moment, latest, reads, table, secondTable>> /\ secretsAt' \subseteq secretsAt
    BY DEF Confirm
  <1> HIDE DEF k
  <1>7. k.pc # "served" /\ Known(k)
    BY <1>2, <1>4 DEF Known
  <1>8. QED
    BY <1>4, <1>5, <1>6, <1>7, ClickWaits

LEMMA CancelStep == ASSUME ConsoleInv, NEW c \in Clicks, Cancel(c) PROVE ConsoleInv'
  <1> DEFINE k == [NoClick EXCEPT !.pc = "done"]
  <1>1. version \in Nat
    BY DEF ConsoleInv, ConsoleTypeOK
  <1>2. k \in ClickRec /\ k.pc = "done" /\ k.said # "ok" /\ k.at = 0 /\ k.sentAt <= version
    BY <1>1 DEF NoClick, ClickRec
  <1>3. clicks' = [clicks EXCEPT ![c] = k]
    BY DEF Cancel
  <1>4. UNCHANGED <<page, record, version, moment, latest, reads, table, secondTable>> /\ secretsAt' \subseteq secretsAt
    BY DEF Cancel
  <1> HIDE DEF k
  <1>5. k.pc # "served" /\ Known(k)
    BY <1>2 DEF Known
  <1>6. QED
    BY <1>2, <1>3, <1>4, <1>5, ClickWaits

LEMMA SubmitStep == ASSUME ConsoleInv, NEW c \in Clicks, Submit(c) PROVE ConsoleInv'
  <1> DEFINE k == [NoClick EXCEPT !.pc = "sent", !.action = "create", !.sentAt = version]
  <1>1. version \in Nat /\ version <= version
    BY DEF ConsoleInv, ConsoleTypeOK
  <1>2. k \in ClickRec /\ k.pc = "sent" /\ k.said # "ok" /\ k.at = 0 /\ k.sentAt <= version /\ k.action = "create"
    BY <1>1 DEF NoClick, ClickRec
  <1>3. clicks' = [clicks EXCEPT ![c] = k]
    BY DEF Submit
  <1>4. UNCHANGED <<page, record, version, moment, latest, reads, table, secondTable>> /\ secretsAt' \subseteq secretsAt
    BY DEF Submit
  <1> HIDE DEF k
  <1>5. k.pc # "served" /\ Known(k)
    BY <1>2 DEF Known
  <1>6. QED
    BY <1>2, <1>3, <1>4, <1>5, ClickWaits

\* The answer to a request, with the record as it was left.
LEMMA ServeStep == ASSUME ConsoleInv, NEW c \in Clicks, Serve(c) PROVE ConsoleInv'
  <1>1. PICK n \in DOMAIN Shows.actions \union {"create"} : n = clicks[c].action
    BY DEF ConsoleInv, KnownAction, Known, Serve
  <1>2. PICK a : a = ActionOf(n)
    OBVIOUS
  <1>3. /\ record' = Leaves(a, record) /\ version' = (IF n = "create" THEN version ELSE version + 1) /\ moment' = moment + 1
        /\ UNCHANGED <<page, latest, reads, table, secondTable, secretsAt>>
    BY <1>1, <1>2 DEF Serve
  <1>4. PICK answer \in {"record", "unknown"} :
          clicks' = [clicks EXCEPT ![c] = [clicks[c] EXCEPT !.pc = "served", !.answer = answer, !.at = moment', !.left = record']]
    BY DEF Serve
  <1>5. /\ clicks[c] \in ClickRec /\ version \in Nat /\ moment \in Nat /\ record \in Shows.states
        /\ clicks[c].sentAt <= version
    BY DEF ConsoleInv, ConsoleTypeOK, Numbered
  <1>6. /\ a.to = "same" \/ a.to \in Shows.states
        /\ n # "create" => ActionFits(a, Shows.states, page)
        /\ n = "create" => a.to = "same"
    BY <1>2, ActionKnown
  <1>7. record' \in Shows.states /\ record' \in RowStates
    <2>1. record' \in Shows.states
      BY <1>3, <1>5, <1>6 DEF Leaves
    <2>2. QED
      BY <2>1, ShowsFits DEF ConsoleInv
  <1>8. version' \in Nat /\ moment' \in Nat /\ version' >= version /\ moment' >= moment
    BY <1>3, <1>5
  <1> DEFINE k == [clicks[c] EXCEPT !.pc = "served", !.answer = answer, !.at = moment', !.left = record']
  <1>9. /\ k \in ClickRec /\ k.pc = "served" /\ k.action = n /\ k.at = moment' /\ k.left = record'
        /\ k.sentAt = clicks[c].sentAt /\ k.said = clicks[c].said
    BY <1>1, <1>4, <1>5, <1>7, <1>8 DEF ClickRec
  <1>10. clicks' = [clicks EXCEPT ![c] = k]
    BY <1>4
  <1> HIDE DEF k
  <1>11. k.at <= moment' /\ k.sentAt <= version'
    <2>1. clicks[c].sentAt \in Nat
      BY <1>5 DEF ClickRec
    <2>2. QED
      BY <1>5, <1>8, <1>9, <2>1
  <1>12. Known(k)
    BY <1>1, <1>9 DEF Known
  <1>13. AnswerTrue(k)
    BY <1>2, <1>3, <1>9 DEF AnswerTrue, Leaves
  <1>14. DisabledForGood'
    BY <1>3, <1>5, <1>6 DEF ConsoleInv, DisabledForGood, ActionFits, Leaves
  <1>15. OneLine'
    BY <1>3 DEF ConsoleInv, OneLine
  <1>16. k.said # "ok"
    BY <1>9 DEF ConsoleInv, Unsaid, Serve
  <1>17. QED
    BY <1>3, <1>7, <1>8, <1>9, <1>10, <1>11, <1>12, <1>13, <1>14, <1>15, <1>16, ClickMoves

LEMMA RefuseStep == ASSUME ConsoleInv, NEW c \in Clicks, Refuse(c) PROVE ConsoleInv'
  <1>1. PICK n \in DOMAIN Shows.actions \union {"create"} : n = clicks[c].action
    BY DEF ConsoleInv, KnownAction, Known, Refuse
  <1>2. PICK a : a = ActionOf(n)
    OBVIOUS
  <1>3. UNCHANGED <<page, record, version, moment, latest, reads, table, secondTable, secretsAt>>
    BY DEF Refuse
  <1>4. PICK answer \in {"null", "error", "unknown"} :
          /\ answer = "null" => (record \notin a.taken \/ (a.races /\ version # clicks[c].sentAt))
          /\ clicks' = [clicks EXCEPT ![c] = [clicks[c] EXCEPT !.pc = "served", !.answer = answer, !.at = moment, !.left = record]]
    BY <1>1, <1>2 DEF Refuse
  <1>5. /\ clicks[c] \in ClickRec /\ version \in Nat /\ moment \in Nat /\ record \in Shows.states
        /\ record \in RowStates /\ clicks[c].sentAt <= version
    BY ShowsFits DEF ConsoleInv, ConsoleTypeOK, Numbered
  <1>6. /\ n # "create" => ActionFits(a, Shows.states, page)
        /\ n = "create" => a.to = "same"
    BY <1>2, ActionKnown
  <1> DEFINE k == [clicks[c] EXCEPT !.pc = "served", !.answer = answer, !.at = moment, !.left = record]
  <1>7. /\ k \in ClickRec /\ k.pc = "served" /\ k.action = n /\ k.at = moment /\ k.left = record
        /\ k.sentAt = clicks[c].sentAt /\ k.said = clicks[c].said /\ k.answer = answer
    BY <1>1, <1>4, <1>5 DEF ClickRec
  <1>8. clicks' = [clicks EXCEPT ![c] = k]
    BY <1>4
  <1> HIDE DEF k
  <1>9. k.at <= moment /\ k.sentAt <= version
    BY <1>5, <1>7
  <1>10. Known(k)
    BY <1>1, <1>7 DEF Known
  <1>11. ASSUME answer = "null", ~a.refusesNull, a.to # "same"
         PROVE record = a.to
    <2>1. ActionFits(a, Shows.states, page)
      BY <1>6, <1>11
    <2>2. CASE record \notin a.taken
      BY <1>5, <1>11, <2>1, <2>2 DEF ActionFits
    <2>3. CASE a.races /\ version # clicks[c].sentAt
      <3>1. page = "webhooks" /\ a.to = "disabled"
        BY <1>11, <2>1, <2>3 DEF ActionFits
      <3>2. version > 0
        BY <1>5, <2>3 DEF ClickRec
      <3>3. QED
        BY <3>1, <3>2 DEF ConsoleInv, DisabledForGood
    <2>4. QED
      BY <1>4, <1>11, <2>2, <2>3
  <1>12. AnswerTrue(k)
    BY <1>2, <1>4, <1>7, <1>11 DEF AnswerTrue, Success
  <1>13. DisabledForGood' /\ OneLine'
    BY <1>3 DEF ConsoleInv, DisabledForGood, OneLine
  <1>14. k.said # "ok"
    BY <1>7 DEF ConsoleInv, Unsaid, Refuse
  <1>15. record' \in Shows.states /\ version' \in Nat /\ moment' \in Nat /\ version' >= version /\ moment' >= moment
    BY <1>3, <1>5
  <1>16. k.at <= moment' /\ k.sentAt <= version'
    BY <1>3, <1>9
  <1>17. QED
    BY <1>3, <1>7, <1>8, <1>10, <1>12, <1>13, <1>14, <1>15, <1>16, ClickMoves

LEMMA ReportSuccessStep == ASSUME ConsoleInv, NEW c \in Clicks, ReportSuccess(c) PROVE ConsoleInv'
  <1>1. /\ UNCHANGED <<page, record, version, moment, secondTable>> /\ UNCHANGED Shows /\ \A n : ActionOf(n)' = ActionOf(n)
        /\ clicks[c] \in ClickRec /\ clicks[c].pc = "served" /\ version \in Nat
    BY DEF ReportSuccess, Shows, ActionOf, ConsoleInv, ConsoleTypeOK
  <1> DEFINE k == [clicks[c] EXCEPT !.pc = "done", !.said = "ok", !.sentAt = 0, !.answer = "none"]
  <1>2. /\ k \in ClickRec /\ k.pc = "done" /\ k.said = "ok" /\ k.action = clicks[c].action /\ k.at = clicks[c].at
        /\ k.sentAt = 0 /\ k.left = clicks[c].left
    BY <1>1 DEF ClickRec
  <1>3. clicks' = [clicks EXCEPT ![c] = k]
    BY DEF ReportSuccess
  <1> HIDE DEF k
  <1>4. clicks' \in [Clicks -> ClickRec] /\ clicks'[c] = k /\ \A b \in Clicks : b # c => clicks'[b] = clicks[b]
    BY <1>2, <1>3 DEF ConsoleInv, ConsoleTypeOK
  <1>5. \A b \in Clicks : clicks'[b].at <= moment /\ clicks'[b].sentAt <= version
    BY <1>1, <1>2, <1>4 DEF ConsoleInv, Numbered
  <1>6. ConsoleTypeOK' /\ Numbered' /\ ReadInTime' /\ ReadYourWrites' /\ TablesAgree'
    BY <1>1, <1>4, <1>5, Refreshed DEF ReportSuccess, ConsoleReads
  <1>7. KnownAction'
    BY <1>1, <1>2, <1>4 DEF ConsoleInv, KnownAction, Known
  <1>8. AnswersTrue'
    BY <1>1, <1>2, <1>4 DEF ConsoleInv, AnswersTrue, AnswerTrue, Success
  <1>9. SuccessIsTrue'
    <2>1. ActionOf(clicks[c].action).to # "same" => clicks[c].left = ActionOf(clicks[c].action).to
      BY <1>1 DEF ConsoleInv, AnswersTrue, AnswerTrue, Success, ReportSuccess, Succeeded
    <2>2. QED
      BY <1>1, <1>2, <1>4, <2>1 DEF ConsoleInv, SuccessIsTrue
  <1>10. Unsaid' /\ DisabledForGood'
    BY <1>1, <1>2, <1>4 DEF ConsoleInv, Unsaid, DisabledForGood
  <1>11. OneLine'
    BY DEF ConsoleInv, OneLine, ReportSuccess, Shown, Line
  <1>12. QED
    BY <1>6, <1>7, <1>8, <1>9, <1>10, <1>11 DEF ConsoleInv

LEMMA ReportFailureStep == ASSUME ConsoleInv, NEW c \in Clicks, ReportFailure(c) PROVE ConsoleInv'
  <1>1. PICK n \in DOMAIN Shows.actions \union {"create"} : n = clicks[c].action
    BY DEF ConsoleInv, KnownAction, Known, ReportFailure
  <1>2. n \in RowActions \union {"create"} /\ version \in Nat
    BY <1>1, ActionKnown DEF ConsoleInv, ConsoleTypeOK
  <1> DEFINE j == [NoClick EXCEPT !.pc = "dialog", !.action = n]
             k == [NoClick EXCEPT !.pc = "done", !.said = "fail"]
  <1>3. j \in ClickRec /\ j.pc = "dialog" /\ j.action = n /\ j.said # "ok" /\ j.at = 0 /\ j.sentAt <= version
    <2>1. j.sentAt = 0
      BY DEF NoClick
    <2>2. j \in ClickRec /\ j.pc = "dialog" /\ j.action = n /\ j.said # "ok" /\ j.at = 0
      BY <1>2 DEF NoClick, ClickRec
    <2>3. QED
      BY <1>2, <2>1, <2>2
  <1>4. k \in ClickRec /\ k.pc = "done" /\ k.said # "ok" /\ k.at = 0 /\ k.sentAt <= version
    <2>1. k.sentAt = 0
      BY DEF NoClick
    <2>2. k \in ClickRec /\ k.pc = "done" /\ k.said # "ok" /\ k.at = 0
      BY DEF NoClick, ClickRec
    <2>3. QED
      BY <1>2, <2>1, <2>2
  <1>5. clicks' = [clicks EXCEPT ![c] = j] \/ clicks' = [clicks EXCEPT ![c] = k]
    BY <1>1 DEF ReportFailure
  <1>6. UNCHANGED <<page, record, version, moment, latest, reads, table, secondTable>> /\ secretsAt' \subseteq secretsAt
    BY DEF ReportFailure, NoRefresh
  <1> HIDE DEF j, k
  <1>7. j.pc # "served" /\ k.pc # "served" /\ Known(j) /\ Known(k)
    BY <1>1, <1>3, <1>4 DEF Known
  <1>8. CASE clicks' = [clicks EXCEPT ![c] = j]
    BY <1>3, <1>6, <1>7, <1>8, ClickWaits
  <1>9. CASE clicks' = [clicks EXCEPT ![c] = k]
    BY <1>4, <1>6, <1>7, <1>9, ClickWaits
  <1>10. QED
    BY <1>5, <1>8, <1>9

-----------------------------------------------------------------------------
(* Theorems about the management page *)

LEMMA ConsoleStarts == ASSUME ConsoleInit PROVE ConsoleInv
  <1>1. /\ page \in PageNames /\ record \in Shows.states /\ version = 0 /\ moment = 0 /\ latest = 1
        /\ table = [drawn |-> "loading", at |-> 0, row |-> "none"] /\ secondTable = [by |-> 0, at |-> 0]
        /\ clicks = [c \in Clicks |-> NoClick] /\ secretsAt = {}
        /\ reads = [r \in ConsoleReads |-> IF r = "load" THEN [NoRead EXCEPT !.number = 1, !.pc = "asked"] ELSE NoRead]
    BY PagesFit DEF ConsoleInit
  <1>2. /\ [NoRead EXCEPT !.number = 1, !.pc = "asked"] \in ReadRec /\ [NoRead EXCEPT !.number = 1, !.pc = "asked"].pc = "asked"
        /\ [NoRead EXCEPT !.number = 1, !.pc = "asked"].number = 1 /\ [NoRead EXCEPT !.number = 1, !.pc = "asked"].at = 0
    BY DEF NoRead, ReadRec
  <1>3. \A r \in ConsoleReads : reads[r] \in ReadRec /\ reads[r].pc \in {"asked", "none"} /\ (reads[r].pc = "asked" => r = "load")
                                /\ (r = "load" => reads[r].number = 1 /\ reads[r].at = 0)
    BY <1>1, <1>2, NoReadFields
  <1>4. ConsoleTypeOK
    BY <1>1, <1>3, NoClickFields DEF ConsoleTypeOK
  <1>5. Numbered
    BY <1>1, <1>3, NoClickFields DEF Numbered, Underway
  <1>6. ReadInTime /\ ReadYourWrites /\ TablesAgree
    BY <1>1, <1>3 DEF ReadInTime, ReadYourWrites, TablesAgree
  <1>7. KnownAction /\ AnswersTrue /\ SuccessIsTrue /\ Unsaid
    BY <1>1, NoClickFields DEF KnownAction, Known, AnswersTrue, AnswerTrue, SuccessIsTrue, Unsaid
  <1>8. DisabledForGood /\ OneLine
    BY <1>1 DEF DisabledForGood, OneLine
  <1>9. QED
    BY <1>4, <1>5, <1>6, <1>7, <1>8 DEF ConsoleInv

LEMMA ConsoleStep == ASSUME ConsoleInv, [ConsoleNext]_consoleVars PROVE ConsoleInv'
  <1>1. CASE UNCHANGED consoleVars
    <2>1. /\ UNCHANGED <<page, record, version, moment, latest, reads, table, secondTable, clicks, secretsAt>>
          /\ UNCHANGED Shows
      BY <1>1 DEF consoleVars, Shows
    <2>2. ConsoleTypeOK' /\ Numbered' /\ ReadInTime' /\ DisabledForGood' /\ OneLine' /\ ReadYourWrites' /\ TablesAgree'
      BY <2>1 DEF ConsoleInv, ConsoleTypeOK, Numbered, Underway, ReadInTime, Newest, DisabledForGood, OneLine,
                  ReadYourWrites, TablesAgree
    <2>3. QED
      BY <2>1, <2>2, ClicksStay DEF ConsoleInv
  <1>2. CASE ConsoleNext
    BY <1>2, ElsewhereStep, ReadAgainStep, ServeReadStep, DrawStep, ReadFailsStep, ClickRowStep, ConfirmStep, CancelStep,
       SubmitStep, ServeStep, RefuseStep, ReportSuccessStep, ReportFailureStep, Zenon DEF ConsoleNext
  <1>3. QED
    BY <1>1, <1>2

\* What the page shows, asks and reports, relative to the record and to the changes the product
\* has seen, in every reachable state.
THEOREM ConsoleInvariance == ConsoleSpec => []ConsoleInv
  <1>1. ConsoleInit => ConsoleInv
    BY ConsoleStarts
  <1>2. ConsoleInv /\ [ConsoleNext]_consoleVars => ConsoleInv'
    BY ConsoleStep
  <1>3. QED
    BY <1>1, <1>2, PTL DEF ConsoleSpec

\* Every page tells the truth about what was done and shows it, in whatever order requests are
\* answered or lost and whatever others do meanwhile, for any number of clicks (list, changed,
\* the outcome lines of ui/management.js).
THEOREM PageSoundAlways == ConsoleSpec => []PageSound
  <1>1. OneLine => OneSecretShown
    <2> SUFFICES ASSUME OneLine PROVE Cardinality(secretsAt) <= 1
      BY DEF OneSecretShown
    <2>1. PICK line : secretsAt \subseteq {line}
      BY DEF OneLine
    <2>2. secretsAt = {} \/ secretsAt = {line}
      BY <2>1
    <2>3. Cardinality({}) = 0 /\ Cardinality({line}) = 1
      BY FS_EmptySet, FS_Singleton
    <2>4. QED
      BY <2>2, <2>3
  <1>2. ConsoleInv => PageSound
    BY <1>1 DEF ConsoleInv, PageSound
  <1>3. QED
    BY <1>2, ConsoleInvariance, PTL

\* A list never goes back in time: a late answer of an older refresh does not replace the rows
\* of a newer one (the `latest` count of list()).
THEOREM NeverBackInTimeAlways == ConsoleSpec => [][NeverBackInTime]_consoleVars
  <1>1. ConsoleInv /\ [ConsoleNext]_consoleVars => [NeverBackInTime]_consoleVars
    <2> SUFFICES ASSUME ConsoleInv, ConsoleNext PROVE NeverBackInTime
      OBVIOUS
    <2>1. table.at \in Nat
      BY DEF ConsoleInv, ConsoleTypeOK
    <2>2. ASSUME table'.at = table.at
          PROVE NeverBackInTime
      BY <2>1, <2>2 DEF NeverBackInTime
    <2>3. ASSUME NEW r \in ConsoleReads, Refresh(r)
          PROVE table'.at = table.at
      BY <2>3 DEF ConsoleInv, ConsoleTypeOK, Refresh
    <2>4. ASSUME NEW r \in ConsoleReads, ReadFails(r)
          PROVE table'.at = table.at
      BY <2>4 DEF ConsoleInv, ConsoleTypeOK, ReadFails
    <2>5. ASSUME NEW r \in ConsoleReads, Draw(r)
          PROVE NeverBackInTime
      BY <2>1, <2>5 DEF Draw, MayDraw, NeverBackInTime, ConsoleInv, ReadInTime, Newest, Underway
    <2>6. ASSUME ReadAgain
          PROVE NeverBackInTime
      BY <2>2, <2>3, <2>6 DEF ReadAgain, ConsoleReads
    <2>7. ASSUME NEW c \in Clicks, ReportSuccess(c)
          PROVE NeverBackInTime
      BY <2>2, <2>3, <2>7 DEF ReportSuccess, ConsoleReads
    <2>8. ASSUME table' = table
          PROVE NeverBackInTime
      BY <2>2, <2>8
    <2>9. ASSUME NEW c \in Clicks, \/ ClickRow(c) \/ Confirm(c) \/ Cancel(c) \/ Submit(c) \/ Serve(c) \/ Refuse(c)
                                   \/ ReportFailure(c)
          PROVE table' = table
      BY <2>9 DEF ClickRow, Confirm, Cancel, Submit, Serve, Refuse, ReportFailure, NoRefresh
    <2>10. ASSUME NEW r \in ConsoleReads, ServeRead(r)
           PROVE table' = table
      BY <2>10 DEF ServeRead
    <2>11. ASSUME Elsewhere
           PROVE table' = table
      BY <2>11 DEF Elsewhere
    <2>12. QED
      BY <2>2, <2>4, <2>5, <2>6, <2>7, <2>8, <2>9, <2>10, <2>11, Zenon DEF ConsoleNext
  <1>2. QED
    BY <1>1, ConsoleInvariance, PTL DEF ConsoleSpec

-----------------------------------------------------------------------------
(* The event stream *)

Wires == Seq(Nat)

StreamRec == [open : BOOLEAN, subscribed : BOOLEAN, wire : Wires, last : Nat, seen : SUBSET Nat, missed : SUBSET Nat]

Onwire(stream) == {stream.wire[i] : i \in DOMAIN stream.wire}

Own(events) == {id \in 1..Len(events) : events[id] = "own"}

\* What is on the wire is newer than what the client has, in order, and skips no event of its
\* tenant; up to the last id it has, the client has seen or missed everything.
Follows(stream, events) ==
  /\ stream.last <= Len(events)
  /\ InOrder(stream.wire)
  /\ \A i \in DOMAIN stream.wire : stream.last < stream.wire[i] /\ stream.wire[i] <= Len(events)
  /\ \A id \in Own(events) : id <= stream.last => id \in stream.seen \cup stream.missed
  /\ \A i \in DOMAIN stream.wire : \A id \in Own(events) :
       id < stream.wire[i] => \/ id \in stream.seen \cup stream.missed
                              \/ \E j \in 1..(i - 1) : stream.wire[j] = id

\* A live subscriber lacks nothing that is not on its wire.
UpToDate(stream, events) ==
  stream.subscribed => Own(events) \subseteq stream.seen \cup stream.missed \cup Onwire(stream)

StreamInv ==
  /\ log \in Seq({"own", "other"})
  /\ kept = Oldest(Len(log))
  /\ streams \in [Streams -> StreamRec]
  /\ \A s \in Streams : Follows(streams[s], log) /\ UpToDate(streams[s], log)

LEMMA EmptyWire == <<>> \in Wires
  BY DEF Wires

LEMMA StreamInitInv == AppInit => StreamInv
  <1> SUFFICES ASSUME AppInit PROVE StreamInv
    OBVIOUS
  <1>1. NoStream \in StreamRec /\ NoStream.wire = <<>> /\ NoStream.last = 0 /\ ~NoStream.subscribed
    BY EmptyWire DEF NoStream, StreamRec
  <1>2. log = <<>> /\ Len(log) = 0 /\ log \in Seq({"own", "other"}) /\ kept = Oldest(Len(log))
    BY AppAssumption DEF AppInit, Oldest
  <1>3. streams = [s \in Streams |-> NoStream]
    BY DEF AppInit
  <1>4. Follows(NoStream, log) /\ UpToDate(NoStream, log)
    BY <1>1, <1>2 DEF Follows, UpToDate, InOrder, Own
  <1> QED
    BY <1>1, <1>2, <1>3, <1>4 DEF StreamInv

\* A step that leaves log and kept alone, and every stream but one.
LEMMA StreamMoves ==
  ASSUME StreamInv, NEW s \in Streams, NEW stream \in StreamRec, UNCHANGED <<log, kept>>,
         streams' = [streams EXCEPT ![s] = stream], Follows(stream, log), UpToDate(stream, log)
  PROVE  StreamInv'
  BY DEF StreamInv

LEMMA ConnectKeepsStreams == ASSUME StreamInv, NEW s \in Streams, Connect(s) PROVE StreamInv'
  <1> DEFINE old == streams[s]
             replayed == {id \in kept..Len(log) : log[id] = "own" /\ Newer(id, old.last)}
             gone == {id \in 1..Len(log) : id + MaxHistory <= Len(log)}
  <1>1. PICK wire \in [1..Cardinality(replayed) -> replayed] :
          /\ InOrder(wire) /\ \A id \in replayed : \E i \in DOMAIN wire : wire[i] = id
          /\ streams' = [streams EXCEPT ![s] = [@ EXCEPT !.open = TRUE, !.subscribed = TRUE, !.wire = wire,
                                                         !.missed = old.missed \cup gone]]
    BY DEF Connect
  <1> DEFINE new == [old EXCEPT !.open = TRUE, !.subscribed = TRUE, !.wire = wire, !.missed = old.missed \cup gone]
  <1>2. /\ Len(log) \in Nat /\ old \in StreamRec /\ kept = Oldest(Len(log))
        /\ Follows(old, log) /\ UpToDate(old, log)
    BY DEF StreamInv
  <1> HIDE DEF old
  <1>3. kept \in Nat /\ kept >= 1 /\ kept <= Len(log) + 1 /\ \A id \in 1..Len(log) : id \in gone \/ id >= kept
    BY <1>2, AppAssumption DEF Oldest
  <1>4. IsFiniteSet(kept..Len(log)) /\ replayed \subseteq kept..Len(log)
    BY <1>2, <1>3, FS_Interval
  <1>5. Cardinality(replayed) \in Nat
    BY <1>4, FS_Subset, FS_CardinalityType
  <1>6. wire \in Wires /\ DOMAIN wire = 1..Cardinality(replayed)
    <2>1. \A id \in replayed : id \in Nat
      BY <1>2, <1>3
    <2>2. wire \in [1..Cardinality(replayed) -> Nat]
      BY <1>1, <2>1
    <2> HIDE DEF replayed
    <2> QED
      BY <1>5, <2>2 DEF Wires
  <1>7. new \in StreamRec /\ new.wire = wire /\ new.last = old.last /\ new.seen = old.seen
        /\ new.missed = old.missed \cup gone /\ new.subscribed
    <2>1. gone \subseteq Nat
      OBVIOUS
    <2> HIDE DEF gone
    <2> QED
      BY <1>2, <1>6, <2>1 DEF StreamRec
  <1>13. UNCHANGED <<log, kept>> /\ streams' = [streams EXCEPT ![s] = new]
    <2>1. UNCHANGED <<log, kept>>
      BY DEF Connect
    <2> HIDE DEF gone
    <2> QED
      BY <1>1, <2>1 DEF old
  <1> HIDE DEF new
  <1>8. \A id \in Own(log) : id \in old.seen \cup old.missed \cup gone \cup replayed
    BY <1>2, <1>3 DEF Own, Follows, Newer, StreamRec
  <1>9. \A i \in DOMAIN wire : old.last < wire[i] /\ wire[i] <= Len(log) /\ wire[i] \in Nat
    BY <1>2, <1>3, <1>6 DEF Newer
  <1>14. old.last \in Nat
    BY <1>2 DEF StreamRec
  <1> HIDE DEF replayed, gone
  <1>10. ASSUME NEW i \in DOMAIN wire, NEW id \in Own(log), id < wire[i]
         PROVE  id \in new.seen \cup new.missed \/ \E j \in 1..(i - 1) : wire[j] = id
    <2>1. CASE id \in replayed
      <3>1. PICK j \in DOMAIN wire : wire[j] = id
        BY <1>1, <2>1
      <3>2. i \in Nat /\ j \in Nat /\ i >= 1 /\ j >= 1
        BY <1>5, <1>6
      <3>3. i # j /\ ~(i < j)
        <4>1. id \in Nat /\ wire[i] \in Nat /\ wire[j] < wire[i]
          BY <1>9, <1>10, <3>1 DEF Own
        <4>2. i < j => wire[i] < wire[j]
          BY <1>1, <3>1 DEF InOrder
        <4> QED
          BY <3>1, <4>1, <4>2
      <3> QED
        BY <3>1, <3>2, <3>3
    <2> QED
      BY <1>7, <1>8, <2>1
  <1>11. Follows(new, log)
    BY <1>1, <1>2, <1>7, <1>9, <1>10 DEF Follows
  <1>12. UpToDate(new, log)
    BY <1>1, <1>7, <1>8 DEF UpToDate, Onwire
  <1> QED
    BY <1>7, <1>11, <1>12, <1>13, StreamMoves

LEMMA ReceiveKeepsStreams == ASSUME StreamInv, NEW s \in Streams, StreamReceive(s) PROVE StreamInv'
  <1> DEFINE old == streams[s]
             new == [old EXCEPT !.wire = Tail(old.wire), !.last = Head(old.wire),
                                !.seen = old.seen \cup {Head(old.wire)}]
  <1>1. /\ old \in StreamRec /\ Follows(old, log) /\ UpToDate(old, log) /\ Len(log) \in Nat
        /\ old.wire # <<>> /\ old.wire \in Wires
    BY DEF StreamInv, StreamReceive, StreamRec
  <1>11. UNCHANGED <<log, kept>> /\ streams' = [streams EXCEPT ![s] = new]
    <2>1. UNCHANGED <<log, kept>>
      BY DEF StreamReceive
    <2>2. streams' = [streams EXCEPT ![s] = new]
      BY DEF StreamReceive
    <2> QED
      BY <2>1, <2>2
  <1> HIDE DEF old
  <1>2. /\ Head(old.wire) = old.wire[1] /\ 1 \in DOMAIN old.wire /\ old.wire[1] \in Nat
        /\ Tail(old.wire) \in Wires /\ DOMAIN Tail(old.wire) = 1..(Len(old.wire) - 1) /\ Len(old.wire) \in Nat
        /\ DOMAIN old.wire = 1..Len(old.wire)
        /\ \A i \in 1..(Len(old.wire) - 1) : Tail(old.wire)[i] = old.wire[i + 1]
        /\ \A i \in DOMAIN old.wire : old.wire[i] \in Nat
    BY <1>1 DEF Wires
  <1>3. new \in StreamRec /\ new.wire = Tail(old.wire) /\ new.last = old.wire[1]
        /\ new.seen = old.seen \cup {old.wire[1]} /\ new.missed = old.missed /\ new.subscribed = old.subscribed
    BY <1>1, <1>2 DEF StreamRec
  <1> HIDE DEF new
  <1>4. InOrder(new.wire) /\ \A i \in DOMAIN new.wire : new.last < new.wire[i] /\ new.wire[i] <= Len(log)
    <2>1. ASSUME NEW i \in DOMAIN new.wire
          PROVE  i \in Nat /\ i >= 1 /\ i + 1 \in DOMAIN old.wire /\ new.wire[i] = old.wire[i + 1]
      BY <1>2, <1>3
    <2>2. \A i \in DOMAIN new.wire : old.wire[1] < old.wire[i + 1] /\ old.wire[i + 1] <= Len(log)
      <3>1. \A i \in DOMAIN old.wire : 1 < i => old.wire[1] < old.wire[i]
        BY <1>1, <1>2 DEF Follows, InOrder
      <3>2. \A i \in DOMAIN old.wire : old.wire[i] <= Len(log)
        BY <1>1 DEF Follows
      <3> QED
        BY <2>1, <3>1, <3>2
    <2>3. \A i, j \in DOMAIN new.wire : i < j => old.wire[i + 1] < old.wire[j + 1]
      BY <1>1, <2>1 DEF Follows, InOrder
    <2> QED
      BY <1>3, <2>1, <2>2, <2>3 DEF InOrder
  <1>5. \A id \in Own(log) : id <= new.last => id \in new.seen \cup new.missed
    BY <1>1, <1>2, <1>3 DEF Follows, Own
  <1>6. ASSUME NEW i \in DOMAIN new.wire, NEW id \in Own(log), id < new.wire[i]
        PROVE  id \in new.seen \cup new.missed \/ \E j \in 1..(i - 1) : new.wire[j] = id
    <2>1. i \in 1..(Len(old.wire) - 1) /\ i + 1 \in DOMAIN old.wire /\ id < old.wire[i + 1]
      BY <1>2, <1>3, <1>6
    <2>2. id \in old.seen \cup old.missed \/ \E j \in 1..i : old.wire[j] = id
      BY <1>1, <2>1 DEF Follows
    <2>3. ASSUME NEW j \in 1..i, old.wire[j] = id, j # 1 PROVE j - 1 \in 1..(i - 1) /\ new.wire[j - 1] = id
      <3>1. j \in Nat /\ j - 1 \in 1..(i - 1) /\ j - 1 \in 1..(Len(old.wire) - 1) /\ (j - 1) + 1 = j
        BY <1>2, <2>1, <2>3
      <3>2. Tail(old.wire)[j - 1] = old.wire[(j - 1) + 1]
        BY <1>2, <3>1
      <3> QED
        BY <1>3, <2>3, <3>1, <3>2
    <2> QED
      BY <1>3, <2>2, <2>3
  <1>7. new.last <= Len(log)
    BY <1>1, <1>2, <1>3 DEF Follows
  <1>8. Follows(new, log)
    BY <1>4, <1>5, <1>6, <1>7 DEF Follows
  <1>9. ASSUME NEW i \in DOMAIN old.wire, i # 1 PROVE i - 1 \in DOMAIN new.wire /\ new.wire[i - 1] = old.wire[i]
    <2>1. i \in Nat /\ i - 1 \in 1..(Len(old.wire) - 1) /\ (i - 1) + 1 = i
      BY <1>2, <1>9
    <2>2. Tail(old.wire)[i - 1] = old.wire[(i - 1) + 1]
      BY <1>2, <2>1
    <2> QED
      BY <1>2, <1>3, <2>1, <2>2
  <1>10. UpToDate(new, log)
    <2>1. Onwire(old) \subseteq {old.wire[1]} \cup Onwire(new)
      BY <1>9 DEF Onwire
    <2> QED
      BY <1>1, <1>3, <2>1 DEF UpToDate
  <1> QED
    BY <1>3, <1>8, <1>10, <1>11, StreamMoves

LEMMA DisconnectKeepsStreams == ASSUME StreamInv, NEW s \in Streams, Disconnect(s) PROVE StreamInv'
  <1> DEFINE old == streams[s]
             new == [old EXCEPT !.open = FALSE, !.subscribed = FALSE, !.wire = <<>>]
  <1>1. old \in StreamRec /\ Follows(old, log)
    BY DEF StreamInv
  <1>4. UNCHANGED <<log, kept>> /\ streams' = [streams EXCEPT ![s] = new]
    BY DEF Disconnect
  <1> HIDE DEF old
  <1>2. new \in StreamRec /\ new.wire = <<>> /\ ~new.subscribed /\ new.last = old.last
        /\ new.seen = old.seen /\ new.missed = old.missed
    BY <1>1, EmptyWire DEF StreamRec
  <1>3. Follows(new, log) /\ UpToDate(new, log)
    BY <1>1, <1>2 DEF Follows, UpToDate, InOrder
  <1> HIDE DEF new
  <1> QED
    BY <1>2, <1>3, <1>4, StreamMoves

LEMMA PublishKeepsStreams ==
  ASSUME StreamInv, NEW tenant \in {"own", "other"}, Publish(tenant) PROVE StreamInv'
  <1> DEFINE n == Len(log) + 1
  <1>1. log \in Seq({"own", "other"}) /\ Len(log) \in Nat
    BY DEF StreamInv
  <1>2. /\ log' \in Seq({"own", "other"}) /\ Len(log') = n /\ log'[n] = tenant
        /\ \A id \in 1..Len(log) : log'[id] = log[id]
    BY <1>1 DEF Publish
  <1>3. kept' = Oldest(Len(log'))
    BY DEF Publish
  <1>4. Own(log') = IF tenant = "own" THEN Own(log) \cup {n} ELSE Own(log)
    BY <1>1, <1>2 DEF Own
  <1>5. ASSUME NEW s \in Streams
        PROVE  streams'[s] \in StreamRec /\ Follows(streams'[s], log') /\ UpToDate(streams'[s], log')
    <2> DEFINE old == streams[s]
               new == [old EXCEPT !.wire = Append(@, n)]
    <2>1. old \in StreamRec /\ Follows(old, log) /\ UpToDate(old, log) /\ old.wire \in Wires /\ old.last \in Nat
      BY DEF StreamInv, StreamRec
    <2>2. streams'[s] = IF old.subscribed /\ tenant = "own" THEN new ELSE old
      BY <1>2 DEF Publish
    <2> HIDE DEF old
    <2>3. CASE ~(old.subscribed /\ tenant = "own")
      <3>1. streams'[s] = old
        BY <2>2, <2>3
      <3>2. UpToDate(old, log')
        BY <1>4, <2>1, <2>3 DEF UpToDate
      <3>3. Follows(old, log')
        <4>1. \A id \in Own(log') : id \in Own(log) \/ id = n
          BY <1>4
        <4>2. \A i \in DOMAIN old.wire : old.wire[i] \in Nat /\ old.wire[i] <= Len(log)
          BY <2>1 DEF Follows, Wires
        <4>3. \A i \in DOMAIN old.wire : \A id \in Own(log') : id < old.wire[i] => id \in Own(log)
          BY <1>1, <4>1, <4>2
        <4>4. \A id \in Own(log') : id <= old.last => id \in Own(log)
          BY <1>1, <2>1, <4>1 DEF Follows
        <4>5. old.last <= Len(log') /\ \A i \in DOMAIN old.wire : old.wire[i] <= Len(log')
          BY <1>1, <1>2, <2>1, <4>2 DEF Follows
        <4> QED
          BY <2>1, <4>3, <4>4, <4>5 DEF Follows
      <3> QED
        BY <2>1, <3>1, <3>2, <3>3
    <2>4. CASE old.subscribed /\ tenant = "own"
      <3>1. streams'[s] = new
        BY <2>2, <2>4
      <3>2. /\ new \in StreamRec /\ new.wire = Append(old.wire, n) /\ new.last = old.last /\ new.seen = old.seen
            /\ new.missed = old.missed
        <4>1. Append(old.wire, n) \in Wires
          BY <1>1, <2>1 DEF Wires
        <4> QED
          BY <2>1, <4>1 DEF StreamRec
      <3> HIDE DEF new
      <3> DEFINE m == Len(old.wire)
      <3>3. /\ m \in Nat /\ DOMAIN old.wire = 1..m /\ DOMAIN new.wire = 1..(m + 1) /\ new.wire[m + 1] = n
            /\ \A i \in 1..m : new.wire[i] = old.wire[i]
        BY <1>1, <2>1, <3>2 DEF Wires
      <3>4. \A i \in 1..m : old.wire[i] \in Nat /\ old.last < old.wire[i] /\ old.wire[i] <= Len(log)
        <4>1. \A i \in 1..m : old.wire[i] \in Nat
          BY <2>1, <3>3 DEF Wires
        <4> QED
          BY <2>1, <3>3, <4>1 DEF Follows
      <3>5. InOrder(new.wire)
        <4> SUFFICES ASSUME NEW i \in 1..(m + 1), NEW j \in 1..(m + 1), i < j PROVE new.wire[i] < new.wire[j]
          BY <3>3 DEF InOrder
        <4>1. i \in 1..m
          BY <3>3
        <4>2. CASE j \in 1..m
          BY <2>1, <3>3, <4>1, <4>2 DEF Follows, InOrder
        <4>3. CASE j = m + 1
          BY <1>1, <3>3, <3>4, <4>1, <4>3
        <4> QED
          BY <3>3, <4>2, <4>3
      <3>6. \A i \in DOMAIN new.wire : new.last < new.wire[i] /\ new.wire[i] <= Len(log')
        <4>1. old.last < n /\ n <= Len(log') /\ Len(log) <= n
          BY <1>1, <1>2, <2>1 DEF Follows
        <4> QED
          BY <1>1, <1>2, <2>1, <3>2, <3>3, <3>4, <4>1
      <3>7. Own(log') = Own(log) \cup {n}
        BY <1>4, <2>4
      <3>8. \A id \in Own(log') : id <= new.last => id \in new.seen \cup new.missed
        BY <1>1, <2>1, <3>2, <3>7 DEF Follows
      <3>9. ASSUME NEW i \in DOMAIN new.wire, NEW id \in Own(log'), id < new.wire[i]
            PROVE  id \in new.seen \cup new.missed \/ \E j \in 1..(i - 1) : new.wire[j] = id
        <4>1. id \in Own(log)
          BY <1>1, <3>3, <3>4, <3>7, <3>9
        <4>2. CASE i \in 1..m
          BY <2>1, <3>2, <3>3, <3>9, <4>1, <4>2 DEF Follows
        <4>3. CASE i = m + 1
          <5>1. id \in old.seen \cup old.missed \/ \E j \in 1..m : old.wire[j] = id
            BY <2>1, <2>4, <3>3, <4>1 DEF UpToDate, Onwire
          <5> QED
            BY <3>2, <3>3, <4>3, <5>1
        <4> QED
          BY <3>3, <3>9, <4>2, <4>3
      <3>10. Follows(new, log')
        <4>1. new.last <= Len(log')
          BY <1>1, <1>2, <2>1, <3>2 DEF Follows
        <4> QED
          BY <3>5, <3>6, <3>8, <3>9, <4>1 DEF Follows
      <3>11. UpToDate(new, log')
        <4>1. n \in Onwire(new)
          BY <3>3 DEF Onwire
        <4>2. Onwire(old) \subseteq Onwire(new)
          BY <3>3 DEF Onwire
        <4>3. Own(log) \subseteq old.seen \cup old.missed \cup Onwire(old)
          BY <2>1, <2>4 DEF UpToDate
        <4> QED
          BY <3>2, <3>7, <4>1, <4>2, <4>3 DEF UpToDate
      <3> QED
        BY <3>1, <3>2, <3>10, <3>11
    <2> QED
      BY <2>3, <2>4
  <1>6. streams' \in [Streams -> StreamRec]
    BY <1>5 DEF Publish
  <1> QED
    BY <1>2, <1>3, <1>5, <1>6 DEF StreamInv

LEMMA CloseKeepsStreams == ASSUME StreamInv, NEW c \in AppCalls, Close(c) PROVE StreamInv'
  <1>1. UNCHANGED <<log, kept>>
    BY DEF Close
  <1>2. CASE UNCHANGED streams
    BY <1>1, <1>2 DEF StreamInv
  <1>3. CASE streams' = [s \in Streams |-> [streams[s] EXCEPT !.subscribed = FALSE]]
    <2>1. ASSUME NEW s \in Streams
          PROVE  streams'[s] \in StreamRec /\ Follows(streams'[s], log) /\ UpToDate(streams'[s], log)
      <3>1. streams[s] \in StreamRec /\ Follows(streams[s], log) /\ streams'[s] = [streams[s] EXCEPT !.subscribed = FALSE]
        BY <1>3 DEF StreamInv
      <3>2. /\ streams'[s] \in StreamRec /\ streams'[s].wire = streams[s].wire /\ streams'[s].last = streams[s].last
            /\ streams'[s].seen = streams[s].seen /\ streams'[s].missed = streams[s].missed /\ ~streams'[s].subscribed
        BY <3>1 DEF StreamRec
      <3> QED
        BY <3>1, <3>2 DEF Follows, UpToDate
    <2>2. streams' \in [Streams -> StreamRec]
      BY <1>3, <2>1
    <2> QED
      BY <1>1, <2>1, <2>2 DEF StreamInv
  <1> QED
    BY <1>2, <1>3 DEF Close

\* The inductive invariant of the event stream: a client's wire and history leave no gap.
THEOREM StreamInvariance == AppSpec => []StreamInv
  <1>1. StreamInv /\ [AppNext]_appVars => StreamInv'
    <2> SUFFICES ASSUME StreamInv, [AppNext]_appVars PROVE StreamInv'
      OBVIOUS
    <2>1. CASE UNCHANGED <<log, kept, streams>>
      BY <2>1 DEF StreamInv
    <2>2. CASE LoopTick \/ LoopDone
      BY <2>1, <2>2 DEF LoopTick, LoopDone
    <2>3. ASSUME NEW tenant \in {"own", "other"}, Publish(tenant) PROVE StreamInv'
      BY <2>3, PublishKeepsStreams
    <2>4. ASSUME NEW s \in Streams, Connect(s) \/ StreamReceive(s) \/ Disconnect(s) PROVE StreamInv'
      BY <2>4, ConnectKeepsStreams, ReceiveKeepsStreams, DisconnectKeepsStreams
    <2>5. ASSUME NEW c \in AppCalls,
                 Started(c) \/ Listening(c) \/ StartFails(c) \/ Recovered(c) \/ ServerClosed(c) \/ DbClosed(c)
          PROVE  StreamInv'
      BY <2>1, <2>5 DEF Started, Listening, StartFails, Recovered, ServerClosed, DbClosed
    <2>6. ASSUME NEW c \in AppCalls, Close(c) PROVE StreamInv'
      BY <2>6, CloseKeepsStreams
    <2> QED
      BY <2>1, <2>2, <2>3, <2>4, <2>5, <2>6 DEF AppNext, appVars
  <1> QED
    BY <1>1, StreamInitInv, PTL DEF AppSpec

\* A stream delivers every event of its tenant once and in order, however often its client
\* loses the connection and comes back, and whatever close() does meanwhile (streamEvents,
\* publish): only what had left the history is lost.
THEOREM StreamSoundAlways == AppSpec => []StreamSound
  <1>1. StreamInv => StreamSound
    <2> SUFFICES ASSUME StreamInv PROVE StreamSound
      OBVIOUS
    <2>1. StreamOnce
      BY DEF StreamInv, StreamOnce, Follows
    <2>2. ASSUME NEW s \in Streams, NEW id \in 1..streams[s].last, log[id] = "own"
          PROVE  id \in streams[s].seen \cup streams[s].missed
      <3>1. streams[s].last \in Nat /\ streams[s].last <= Len(log) /\ Len(log) \in Nat
        BY DEF StreamInv, StreamRec, Follows
      <3>2. id \in Own(log) /\ id <= streams[s].last
        BY <2>2, <3>1 DEF Own
      <3> QED
        BY <3>2 DEF StreamInv, Follows
    <2> QED
      BY <2>1, <2>2 DEF StreamSound, StreamComplete
  <1> QED
    BY <1>1, StreamInvariance, PTL

-----------------------------------------------------------------------------
(* The health report *)

HealthTypeOK ==
  /\ rows \in Seq(HealthRows)
  /\ sources \in [authorizer : BOOLEAN, credentials : BOOLEAN, custody : BOOLEAN, tenant : BOOLEAN]

\* Every set of natural numbers has a least one.
LEMMA LeastOne ==
  ASSUME NEW T, T \subseteq Nat, T # {}
  PROVE  \E x \in T : \A y \in T : x <= y
  <1> DEFINE less == {pair \in Nat \X Nat : pair[1] < pair[2]}
  <1>1. IsWellFoundedOn(less, Nat)
    BY NatLessThanWellFounded DEF OpToRel
  <1>2. PICK x \in T : \A y \in T : ~(<<y, x>> \in less)
    BY <1>1, WFMin
  <1>3. \A y \in T : ~(y < x)
    BY <1>2
  <1> QED
    BY <1>3

\* A list that is cut is full.
LEMMA CutIsFull ==
  ASSUME NEW list, list \subseteq Nat, IsFiniteSet(list), NEW max \in Nat, Bounded(list, max) # list
  PROVE  Cardinality(Bounded(list, max)) >= max
  <1>1. Bounded(list, max) \subseteq list
    BY DEF Bounded
  <1>2. PICK x \in list \ Bounded(list, max) : \A y \in list \ Bounded(list, max) : x <= y
    BY <1>1, LeastOne
  <1> DEFINE upTo == {j \in list : j <= x}
             below == {j \in list : j < x}
  <1>3. ~(Cardinality(upTo) <= max)
    BY <1>2 DEF Bounded
  <1>8. x \in Nat /\ \A y \in list : y \in Nat
    BY <1>2
  <1>4. below \subseteq Bounded(list, max)
    <2> SUFFICES ASSUME NEW j \in below PROVE j \in Bounded(list, max)
      OBVIOUS
    <2>1. j \in list /\ ~(x <= j)
      BY <1>8
    <2> QED
      BY <1>2, <2>1
  <1>5. IsFiniteSet(below) /\ x \notin below /\ upTo = below \cup {x}
    <2>1. below \subseteq list /\ x \notin below
      BY <1>8
    <2>2. \A j \in list : j <= x <=> (j < x \/ j = x)
      BY <1>8
    <2>3. upTo = below \cup {x}
      BY <1>2, <2>2
    <2> QED
      BY <2>1, <2>3, FS_Subset
  <1>6. Cardinality(upTo) = Cardinality(below) + 1 /\ Cardinality(below) \in Nat
    BY <1>5, FS_AddElement, FS_CardinalityType
  <1>7. Cardinality(below) <= Cardinality(Bounded(list, max)) /\ Cardinality(Bounded(list, max)) \in Nat
    BY <1>1, <1>4, FS_Subset, FS_CardinalityType
  <1> HIDE DEF upTo, below
  <1> QED
    BY <1>3, <1>6, <1>7

\* A list that is short enough is not cut.
LEMMA ShortIsWhole ==
  ASSUME NEW list, list \subseteq Nat, IsFiniteSet(list), NEW max \in Nat, Cardinality(list) <= max
  PROVE  Bounded(list, max) = list
  <1>1. ASSUME NEW i \in list PROVE Cardinality({j \in list : j <= i}) <= max
    <2>1. {j \in list : j <= i} \subseteq list
      OBVIOUS
    <2>2. /\ Cardinality({j \in list : j <= i}) <= Cardinality(list)
          /\ Cardinality({j \in list : j <= i}) \in Nat /\ Cardinality(list) \in Nat
      BY <2>1, FS_Subset, FS_CardinalityType
    <2> QED
      BY <2>2
  <1> QED
    BY <1>1 DEF Bounded

\* Cutting leaves something of a list that has something.
LEMMA SomeIsLeft ==
  ASSUME NEW list, list \subseteq Nat, list # {}, NEW max \in Nat \ {0}
  PROVE  Bounded(list, max) # {}
  <1>1. PICK x \in list : \A y \in list : x <= y
    BY LeastOne
  <1>2. {j \in list : j <= x} = {x}
    <2>1. x \in Nat /\ \A j \in list : j \in Nat /\ (j <= x <=> j = x)
      BY <1>1
    <2> QED
      BY <2>1
  <1>3. Cardinality({j \in list : j <= x}) = 1
    BY <1>2, FS_Singleton
  <1> QED
    BY <1>3 DEF Bounded

LEMMA MatchingFinite ==
  ASSUME HealthTypeOK, NEW collection, NEW is
  PROVE  /\ Matching(collection, is) \subseteq DOMAIN rows /\ Matching(collection, is) \subseteq Nat
         /\ IsFiniteSet(Matching(collection, is))
  <1>1. Len(rows) \in Nat /\ DOMAIN rows = 1..Len(rows)
    BY DEF HealthTypeOK
  <1>2. IsFiniteSet(DOMAIN rows)
    BY <1>1, FS_Interval
  <1> QED
    BY <1>1, <1>2, FS_Subset DEF Matching

\* What the report counts is what was asked for.
LEMMA RowsMatch ==
  ASSUME HealthTypeOK, NEW collection, NEW is
  PROVE  /\ Rows(collection, is) \subseteq Matching(collection, is)
         /\ Rows(collection, is) \subseteq Nat /\ IsFiniteSet(Rows(collection, is))
         /\ Count(collection, is) \in Nat
  <1>1. Rows(collection, is) \subseteq Matching(collection, is)
    BY DEF Rows, Found, Bounded
  <1> QED
    BY <1>1, MatchingFinite, FS_Subset, FS_CardinalityType DEF Count

\* The report counts everything, or says that it does not.
LEMMA RowsWhole ==
  ASSUME HealthTypeOK, NEW collection, NEW is, ~Capped(collection, is)
  PROVE  Rows(collection, is) = Matching(collection, is)
  <1> DEFINE all == Matching(collection, is)
  <1>1. all \subseteq Nat /\ IsFiniteSet(all)
    BY MatchingFinite
  <1>2. CountLimit \in Nat /\ BoundedFind \in Nat /\ BoundedFind = CountLimit + 1
    BY HealthAssumption DEF BoundedFind
  <1>3. Found(collection, is) = Bounded(all, BoundedFind)
    BY DEF Found
  <1>4. Found(collection, is) \subseteq all /\ Cardinality(Found(collection, is)) \in Nat
    BY <1>1, <1>3, FS_Subset, FS_CardinalityType DEF Bounded
  <1>5. Cardinality(Found(collection, is)) <= CountLimit
    BY <1>2, <1>4 DEF Capped
  <1>6. Found(collection, is) = all
    BY <1>1, <1>2, <1>3, <1>4, <1>5, CutIsFull
  <1> HIDE DEF all
  <1>7. Bounded(all, CountLimit) = all
    BY <1>1, <1>2, <1>5, <1>6, ShortIsWhole
  <1> QED
    BY <1>6, <1>7 DEF Rows, all

\* Whatever there is, some of it is counted.
LEMMA RowsSome ==
  ASSUME HealthTypeOK, NEW collection, NEW is, Matching(collection, is) # {}
  PROVE  Rows(collection, is) # {} /\ Count(collection, is) > 0
  <1>1. BoundedFind \in Nat \ {0} /\ CountLimit \in Nat \ {0}
    BY HealthAssumption DEF BoundedFind
  <1>2. Found(collection, is) # {} /\ Found(collection, is) \subseteq Nat
    BY <1>1, MatchingFinite, SomeIsLeft DEF Found, Bounded
  <1>3. Rows(collection, is) # {}
    BY <1>1, <1>2, SomeIsLeft DEF Rows
  <1> QED
    BY <1>3, RowsMatch, FS_EmptySet DEF Count

LEMMA Counted ==
  ASSUME NEW list, IsFiniteSet(list), NEW i \in list
  PROVE  Cardinality(list) \in Nat /\ Cardinality(list) > 0
  BY FS_EmptySet, FS_CardinalityType

\* A report that says ok names no service as degraded.
LEMMA OkNamesNone ==
  ASSUME HealthTypeOK, Status = "ok"
  PROVE  /\ ServiceState.webhooks # "degraded" /\ ServiceState.jobs # "degraded"
         /\ ServiceState.notifications # "degraded" /\ ServiceState.configuration # "degraded"
  <1>1. sources.authorizer
    BY DEF Status
  <1>2. \A service \in DOMAIN ServiceState : ServiceState[service] # "degraded"
    BY <1>1 DEF Status, Gate
  <1>3. {"webhooks", "jobs", "notifications", "configuration"} \subseteq DOMAIN ServiceState
    BY DEF ServiceState
  <1> QED
    BY <1>2, <1>3

LEMMA ReportsFailedWork ==
  ASSUME HealthTypeOK, Status = "ok"
  PROVE  ~HasRow(LAMBDA row : row.in \in {"jobs", "notifications", "noticeDeliveries"} /\ row.is = "failed")
  <1> SUFFICES ASSUME NEW i \in DOMAIN rows, rows[i].in \in {"jobs", "notifications", "noticeDeliveries"},
                      rows[i].is = "failed"
               PROVE  FALSE
    BY DEF HasRow
  <1>1. Count(rows[i].in, "failed") > 0
    <2>1. i \in Matching(rows[i].in, "failed")
      BY DEF Matching
    <2> QED
      BY <2>1, RowsSome
  <1>2. Count("jobs", "failed") \in Nat /\ Count("notifications", "failed") \in Nat /\ Count("noticeDeliveries", "failed") \in Nat
    BY RowsMatch
  <1>3. ~(Count("jobs", "failed") > 0) /\ ~(Count("noticeDeliveries", "failed") + Count("notifications", "failed") > 0)
    BY OkNamesNone DEF ServiceState
  <1> QED
    BY <1>1, <1>2, <1>3

LEMMA ConfiguredFinite == ASSUME HealthTypeOK PROVE IsFiniteSet(Configured)
  <1>0. IsFiniteSet(Rows("variables", "any")) /\ IsFiniteSet(Rows("secrets", "any"))
    BY RowsMatch
  <1> DEFINE both == ConfigurationRows
  <1>1. IsFiniteSet(both)
    BY <1>0, FS_Union DEF ConfigurationRows
  <1>2. IsFiniteSet({rows[i].env : i \in both})
    <2> DEFINE T == {rows[i].env : i \in both}
               f == [i \in both |-> rows[i].env]
    <2>1. f \in Surjection(both, T)
      BY DEF Surjection
    <2> HIDE DEF T, f, both
    <2>2. IsFiniteSet(T)
      BY <1>1, <2>1, FS_Surjection
    <2> QED
      BY <2>2 DEF T
  <1>3. IsFiniteSet({"production"})
    BY FS_Singleton
  <1> QED
    BY <1>2, <1>3 DEF Configured

\* The sums behind the state of the configuration.
LEMMA ConfigurationCounts ==
  ASSUME HealthTypeOK
  PROVE  MissingRequired \in Nat /\ LegacySecretValues \in Nat /\ MissingMaterial \in Nat
  <1>1. IsFiniteSet(Rows("variables", "any")) /\ IsFiniteSet(Rows("secrets", "any"))
    BY RowsMatch
  <1>2. LegacySecretValues \in Nat
    BY <1>1, FS_Subset, FS_CardinalityType DEF LegacySecretValues, CountIf, Filter
  <1>3. MissingMaterial \in Nat
    BY <1>1, FS_Subset, FS_CardinalityType DEF MissingMaterial, CountIf, Filter
  <1>4. IsFiniteSet(Configured)
    BY ConfiguredFinite
  <1>5. MissingRequired \in Nat
    <2>1. IsFiniteSet({e \in Configured : "declared" \notin PresentNames(e)})
      BY <1>4, FS_Subset
    <2> QED
      BY <2>1, FS_CardinalityType DEF MissingRequired
  <1> QED
    BY <1>2, <1>3, <1>5

\* A secret that needs attention is counted, or the list of secrets was cut.
LEMMA ReportsSecrets ==
  ASSUME HealthTypeOK, Status = "ok", ~Capped("secrets", "any"), NEW i \in DOMAIN rows, rows[i].in = "secrets"
  PROVE  rows[i].material # "legacy" /\ ~(sources.custody /\ rows[i].material = "lost")
  <1>1. i \in Rows("secrets", "any") /\ IsFiniteSet(Rows("secrets", "any"))
    BY RowsWhole, RowsMatch DEF Matching
  <1>2. ~(MissingRequired + LegacySecretValues + MissingMaterial > 0)
    BY OkNamesNone DEF ServiceState
  <1>3. LegacySecretValues = 0 /\ MissingMaterial = 0
    BY <1>2, ConfigurationCounts
  <1>4. ASSUME rows[i].material = "legacy" PROVE FALSE
    <2> DEFINE list == {j \in Rows("secrets", "any") : rows[j].material = "legacy"}
    <2>1. LegacySecretValues = Cardinality(list)
      BY DEF LegacySecretValues, CountIf, Filter
    <2>2. i \in list /\ IsFiniteSet(list)
      BY <1>1, <1>4, FS_Subset
    <2> HIDE DEF list
    <2> QED
      BY <1>3, <2>1, <2>2, Counted
  <1>5. ASSUME sources.custody, rows[i].material = "lost" PROVE FALSE
    <2> DEFINE list == {j \in Rows("secrets", "any") : BindingState(rows[j]) = "lost"}
    <2>1. MissingMaterial = Cardinality(list)
      BY <1>5 DEF MissingMaterial, CountIf, Filter
    <2>2. i \in list /\ IsFiniteSet(list)
      BY <1>1, <1>5, FS_Subset DEF BindingState
    <2> HIDE DEF list
    <2> QED
      BY <1>3, <2>1, <2>2, Counted
  <1> QED
    BY <1>4, <1>5

LEMMA ReportsDeliveries ==
  ASSUME HealthTypeOK, Status = "ok", NEW i \in DOMAIN rows, rows[i].in = "deliveries", rows[i].is = "failed",
         NEW j \in DOMAIN rows, rows[j].in = "endpoints"
  PROVE  FALSE
  <1>1. i \in Matching("deliveries", "failed") /\ j \in Matching("endpoints", "any")
    BY DEF Matching
  <1>2. Count("deliveries", "failed") > 0 /\ Count("endpoints", "any") > 0 /\ Count("endpoints", "any") \in Nat
    BY <1>1, RowsSome, RowsMatch
  <1>3. Count("endpoints", "any") # 0 /\ WebhookReasons
    BY <1>2 DEF WebhookReasons
  <1>4. ServiceState.webhooks = "degraded"
    BY <1>3 DEF ServiceState
  <1> QED
    BY <1>4, OkNamesNone

LEMMA OkIsQuiet == ASSUME HealthTypeOK PROVE OkMeansQuiet
  <1> SUFFICES ASSUME Status = "ok"
               PROVE  /\ ~HasRow(LAMBDA row : row.in \in {"jobs", "notifications", "noticeDeliveries"} /\ row.is = "failed")
                      /\ HasRow(LAMBDA row : row.in = "secrets" /\ row.material = "legacy") => Capped("secrets", "any")
                      /\ (sources.custody /\ HasRow(LAMBDA row : row.in = "secrets" /\ row.material = "lost"))
                           => Capped("secrets", "any")
                      /\ HasRow(LAMBDA row : row.in = "deliveries" /\ row.is = "failed")
                           => ~HasRow(LAMBDA row : row.in = "endpoints")
    BY DEF OkMeansQuiet
  <1>1. HasRow(LAMBDA row : row.in = "secrets" /\ row.material = "legacy") => Capped("secrets", "any")
    BY ReportsSecrets DEF HasRow
  <1>2. (sources.custody /\ HasRow(LAMBDA row : row.in = "secrets" /\ row.material = "lost")) => Capped("secrets", "any")
    BY ReportsSecrets DEF HasRow
  <1>3. HasRow(LAMBDA row : row.in = "deliveries" /\ row.is = "failed") => ~HasRow(LAMBDA row : row.in = "endpoints")
    BY ReportsDeliveries DEF HasRow
  <1> QED
    BY <1>1, <1>2, <1>3, ReportsFailedWork

LEMMA CountsAreExactOrCapped == ASSUME HealthTypeOK PROVE CountsExactOrCapped
  <1>1. ASSUME NEW collection, NEW is, ~Capped(collection, is)
        PROVE  Count(collection, is) = Cardinality(Matching(collection, is))
    BY <1>1, RowsWhole DEF Count
  <1> QED
    BY <1>1 DEF CountsExactOrCapped

\* Records of the configuration belong to an environment.
LEMMA EnvironmentOf ==
  ASSUME HealthTypeOK, NEW i \in DOMAIN rows, rows[i].in \in {"variables", "secrets"}
  PROVE  rows[i].env \in Environments
  <1>1. rows[i] \in HealthRows
    BY DEF HealthTypeOK
  <1> QED
    BY <1>1 DEF HealthRows, Plain

LEMMA MissingWhenMissing == ASSUME HealthTypeOK PROVE MissingIsMissing
  <1> DEFINE of(env) == {i \in DOMAIN rows : rows[i].in \in {"variables", "secrets"} /\ rows[i].env = env}
             bound(env) == \E i \in of(env) : rows[i].is = "declared"
             both == ConfigurationRows
             without == {e \in Configured : "declared" \notin PresentNames(e)}
  <1> SUFFICES ASSUME sources.tenant, ~Capped("secrets", "any"), ~Capped("variables", "any")
               PROVE  (MissingRequired > 0) <=> \/ \A env \in Environments : of(env) = {}
                                                \/ \E env \in Environments : of(env) # {} /\ ~bound(env)
    BY DEF MissingIsMissing, LacksDeclared, ListsCut
  <1>1. Rows("variables", "any") = Matching("variables", "any") /\ Rows("secrets", "any") = Matching("secrets", "any")
    BY RowsWhole
  <1>2. both = {i \in DOMAIN rows : rows[i].in \in {"variables", "secrets"}}
    BY <1>1 DEF Matching, ConfigurationRows
  <1>3. ASSUME NEW e PROVE "declared" \in PresentNames(e) <=> bound(e)
    <2>1. Filter(ConfigurationRows, LAMBDA row : row.env = e) = of(e)
      BY <1>2 DEF Filter
    <2> QED
      BY <2>1 DEF PresentNames
  <1>4. Configured = IF both = {} THEN {"production"} ELSE {rows[i].env : i \in both}
    BY DEF Configured
  <1>5. MissingRequired > 0 <=> without # {}
    <2>1. IsFiniteSet(without)
      <3>1. IsFiniteSet(Configured)
        BY ConfiguredFinite
      <3> QED
        BY <3>1, FS_Subset
    <2>2. MissingRequired = Cardinality(without)
      BY DEF MissingRequired
    <2> HIDE DEF without
    <2> QED
      BY <2>1, <2>2, FS_EmptySet, FS_CardinalityType
  <1>6. CASE both = {}
    <2>1. \A env \in Environments : of(env) = {}
      BY <1>2, <1>6
    <2>2. "production" \in without
      BY <1>2, <1>3, <1>4, <1>6
    <2> QED
      BY <1>5, <2>1, <2>2
  <1>7. CASE both # {}
    <2>1. \A i \in both : rows[i].env \in Environments /\ i \in of(rows[i].env)
      BY <1>2, EnvironmentOf
    <2>2. ~\A env \in Environments : of(env) = {}
      BY <1>7, <2>1
    <2>3. \A env : env \in Configured <=> (env \in Environments /\ of(env) # {})
      BY <1>2, <1>4, <1>7, <2>1
    <2>4. without # {} <=> \E env \in Environments : of(env) # {} /\ ~bound(env)
      BY <1>3, <2>3
    <2> QED
      BY <1>5, <2>2, <2>4
  <1> QED
    BY <1>6, <1>7

\* What is counted is there.
LEMMA SomeCounted == ASSUME NEW list, ~(Cardinality(list) = 0) PROVE \E i \in list : TRUE
  BY FS_EmptySet

LEMMA FailedCounted ==
  ASSUME HealthTypeOK, NEW collection, ~(Count(collection, "failed") = 0)
  PROVE  HasRow(LAMBDA row : row.is = "failed")
  <1>1. PICK i \in Rows(collection, "failed") : TRUE
    BY SomeCounted DEF Count
  <1>2. i \in DOMAIN rows /\ rows[i].is = "failed"
    BY <1>1, RowsMatch DEF Matching
  <1> QED
    BY <1>2 DEF HasRow

\* Every counted endpoint is disabled, or one is enabled.
LEMMA ActiveIsEnabled ==
  ASSUME HealthTypeOK, ActiveEndpoints > 0
  PROVE  HasRow(LAMBDA row : row.in = "endpoints" /\ row.is = "enabled")
  <1> DEFINE all == Rows("endpoints", "any")
             disabled == {i \in all : rows[i].is = "disabled"}
  <1>1. DisabledEndpoints = Cardinality(disabled) /\ Count("endpoints", "any") = Cardinality(all)
    BY DEF DisabledEndpoints, CountIf, Filter, Count
  <1>2. Cardinality(all) \in Nat
    BY RowsMatch DEF Count
  <1>3. disabled # all
    <2> HIDE DEF disabled, all
    <2> QED
      BY <1>1, <1>2 DEF ActiveEndpoints
  <1>4. PICK i \in all : rows[i].is # "disabled"
    BY <1>3
  <1>5. i \in DOMAIN rows /\ rows[i].in = "endpoints"
    BY <1>4, RowsMatch DEF Matching
  <1>6. rows[i] \in HealthRows
    BY <1>5 DEF HealthTypeOK
  <1>7. rows[i].is = "enabled"
    BY <1>4, <1>5, <1>6 DEF HealthRows, Plain
  <1> QED
    BY <1>5, <1>7 DEF HasRow

\* A secret is counted for its own material, whatever custody does not say of the others.
LEMMA MaterialCounted ==
  ASSUME HealthTypeOK, ~(LegacySecretValues = 0) \/ ~(MissingMaterial = 0)
  PROVE  HasRow(LAMBDA row : row.in = "secrets"
                             /\ (row.material = "legacy" \/ (sources.custody /\ row.material = "lost")))
  <1>1. ASSUME NEW i \in Rows("secrets", "any") PROVE i \in DOMAIN rows /\ rows[i].in = "secrets"
    BY RowsMatch DEF Matching
  <1>2. CASE ~(LegacySecretValues = 0)
    <2> DEFINE list == {i \in Rows("secrets", "any") : rows[i].material = "legacy"}
    <2>1. LegacySecretValues = Cardinality(list)
      BY DEF LegacySecretValues, CountIf, Filter
    <2>2. PICK i \in list : TRUE
      BY <1>2, <2>1, SomeCounted
    <2> QED
      BY <1>1, <2>2 DEF HasRow
  <1>3. CASE ~(MissingMaterial = 0)
    <2> DEFINE list == {i \in Rows("secrets", "any") : BindingState(rows[i]) = "lost"}
    <2>1. sources.custody /\ MissingMaterial = Cardinality(list)
      BY <1>3 DEF MissingMaterial, CountIf, Filter
    <2>2. PICK i \in list : TRUE
      BY <1>3, <2>1, SomeCounted
    <2>3. rows[i].material = "lost"
      BY <2>2 DEF BindingState
    <2> QED
      BY <1>1, <2>1, <2>2, <2>3 DEF HasRow
  <1> QED
    BY <1>2, <1>3

\* A selection is counted as without credential only when its environment has none.
LEMMA CredentialCounted ==
  ASSUME HealthTypeOK, ~Capped("secrets", "any"), ~(MissingCredentials = 0)
  PROVE  \E e \in Environments :
           /\ HasRow(LAMBDA row : row.in = "variables" /\ row.is = "selection" /\ row.env = e)
           /\ ~HasRow(LAMBDA row : row.in = "secrets" /\ row.is = "credential" /\ row.env = e)
  <1> DEFINE chosen == {i \in Rows("variables", "any") : rows[i].is = "selection"}
             without == {i \in chosen : rows[i].env \notin BoundCredentials}
  <1>1. MissingCredentials = Cardinality(without)
    BY DEF MissingCredentials, CountIf, Filter
  <1>2. PICK i \in without : TRUE
    BY <1>1, SomeCounted
  <1>3. i \in DOMAIN rows /\ rows[i].in = "variables" /\ rows[i].is = "selection"
    BY <1>2, RowsMatch DEF Matching
  <1>4. rows[i].env \in Environments
    BY <1>3, EnvironmentOf
  <1>5. \A j \in DOMAIN rows : rows[j].in = "secrets" /\ rows[j].is = "credential" => rows[j].env \in BoundCredentials
    <2>1. Rows("secrets", "any") = {j \in DOMAIN rows : rows[j].in = "secrets"}
      BY RowsWhole DEF Matching
    <2> QED
      BY <2>1 DEF BoundCredentials, Filter
  <1>6. /\ HasRow(LAMBDA row : row.in = "variables" /\ row.is = "selection" /\ row.env = rows[i].env)
        /\ ~HasRow(LAMBDA row : row.in = "secrets" /\ row.is = "credential" /\ row.env = rows[i].env)
    BY <1>2, <1>3, <1>5 DEF HasRow
  <1> QED
    BY <1>4, <1>6

LEMMA DegradedOverSomething == ASSUME HealthTypeOK PROVE DegradedHasCause
  <1> DEFINE failed == HasRow(LAMBDA row : row.is = "failed")
             unsigned == ~sources.credentials /\ HasRow(LAMBDA row : row.in = "endpoints" /\ row.is = "enabled")
             spoilt == HasRow(LAMBDA row : row.in = "secrets"
                                           /\ (row.material = "legacy" \/ (sources.custody /\ row.material = "lost")))
             bare == \E e \in Environments :
                       /\ HasRow(LAMBDA row : row.in = "variables" /\ row.is = "selection" /\ row.env = e)
                       /\ ~HasRow(LAMBDA row : row.in = "secrets" /\ row.is = "credential" /\ row.env = e)
  <1> SUFFICES ASSUME Status = "degraded", ~ListsCut
               PROVE  failed \/ unsigned \/ spoilt \/ (sources.tenant /\ LacksDeclared) \/ bare
    BY DEF DegradedHasCause
  <1>1. PICK service \in DOMAIN ServiceState : ServiceState[service] = "degraded"
    BY DEF Status, Gate
  <1>2. service \in {"webhooks", "jobs", "schedules", "notifications", "configuration", "intelligence"}
    BY <1>1 DEF ServiceState
  <1>3. \A collection \in {"deliveries", "jobs", "notifications", "noticeDeliveries"} :
          Count(collection, "failed") \in Nat /\ (~(Count(collection, "failed") = 0) => failed)
    BY RowsMatch, FailedCounted
  <1>4. CASE service = "webhooks"
    <2>1. ServiceState.webhooks = "degraded"
      BY <1>1, <1>4
    <2>2. WebhookReasons
      BY <2>1 DEF ServiceState
    <2>3. Count("deliveries", "failed") > 0 => failed
      <3>1. Count("deliveries", "failed") > 0 => ~(Count("deliveries", "failed") = 0)
        OBVIOUS
      <3> HIDE DEF failed
      <3> QED
        BY <1>3, <3>1
    <2>4. ActiveEndpoints > 0 /\ ~sources.credentials => unsigned
      BY ActiveIsEnabled
    <2> QED
      BY <2>2, <2>3, <2>4 DEF WebhookReasons
  <1>5. CASE service = "jobs"
    <2>1. ServiceState.jobs = "degraded"
      BY <1>1, <1>5
    <2>2. ~(Count("jobs", "failed") = 0)
      BY <2>1 DEF ServiceState
    <2> HIDE DEF failed
    <2> QED
      BY <1>3, <2>2
  <1>6. CASE service = "notifications"
    <2>1. ServiceState.notifications = "degraded"
      BY <1>1, <1>6
    <2>2. Count("noticeDeliveries", "failed") + Count("notifications", "failed") > 0
      BY <2>1 DEF ServiceState
    <2> HIDE DEF failed
    <2>3. ~(Count("noticeDeliveries", "failed") = 0) \/ ~(Count("notifications", "failed") = 0)
      BY <1>3, <2>2
    <2> QED
      BY <1>3, <2>3
  <1>7. CASE service = "configuration"
    <2>1. ServiceState.configuration = "degraded"
      BY <1>1, <1>7
    <2>2. MissingRequired + LegacySecretValues + MissingMaterial > 0
      BY <2>1 DEF ServiceState
    <2>3. MissingRequired > 0 \/ ~(LegacySecretValues = 0) \/ ~(MissingMaterial = 0)
      BY <2>2, ConfigurationCounts
    <2>4. MissingRequired > 0 => sources.tenant /\ LacksDeclared
      BY MissingWhenMissing DEF MissingIsMissing, MissingRequired
    <2>5. ~(LegacySecretValues = 0) \/ ~(MissingMaterial = 0) => spoilt
      BY MaterialCounted
    <2> QED
      BY <2>3, <2>4, <2>5
  <1>8. CASE service = "intelligence"
    <2>1. ServiceState.intelligence = "degraded"
      BY <1>1, <1>8
    <2>2. ~(MissingCredentials = 0)
      BY <2>1 DEF ServiceState
    <2>3. ~Capped("secrets", "any")
      BY DEF ListsCut
    <2>4. bare
      BY <2>2, <2>3, CredentialCounted
    <2> QED
      BY <2>4
  <1>9. CASE service = "schedules"
    <2>1. ServiceState.schedules = "degraded"
      BY <1>1, <1>9
    <2> QED
      BY <2>1 DEF ServiceState
  <1> QED
    BY <1>2, <1>4, <1>5, <1>6, <1>7, <1>8, <1>9

LEMMA HealthTyped == HealthSpec => []HealthTypeOK
  <1>1. HealthInit => HealthTypeOK
    BY DEF HealthInit, HealthTypeOK
  <1>2. HealthTypeOK /\ [HealthNext]_healthVars => HealthTypeOK'
    <2> SUFFICES ASSUME HealthTypeOK, [HealthNext]_healthVars PROVE HealthTypeOK'
      OBVIOUS
    <2>1. CASE AddRow
      <3>1. PICK row \in HealthRows : rows' = Append(rows, row)
        BY <2>1 DEF AddRow
      <3>2. Append(rows, row) \in Seq(HealthRows)
        BY DEF HealthTypeOK
      <3> QED
        BY <2>1, <3>1, <3>2 DEF AddRow, HealthTypeOK
    <2>2. CASE UNCHANGED healthVars
      BY <2>2 DEF HealthTypeOK, healthVars
    <2> QED
      BY <2>1, <2>2 DEF HealthNext
  <1> QED
    BY <1>1, <1>2, PTL DEF HealthSpec

\* The report may be relied upon for any limit and any number of records (collectHealth): ok
\* hides no failed work and no material that custody says is lost, a count is exact or named as
\* capped, a required name is reported as missing exactly when an environment has no variable and
\* no binding of it, and a report is degraded only over a record that gives cause for it, never
\* over custody that gives no answer; the last two unless a list was cut.
THEOREM ReportSoundAlways == HealthSpec => []ReportSound
  <1>1. HealthTypeOK => ReportSound
    BY OkIsQuiet, CountsAreExactOrCapped, MissingWhenMissing, DegradedOverSomething DEF ReportSound
  <1> QED
    BY <1>1, HealthTyped, PTL

=============================================================================
