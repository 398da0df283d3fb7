----------------------------- MODULE Application -----------------------------
(***************************************************************************)
(* The application runtime (runtime/appport.ts, runtime/platform.ts): its  *)
(* start and close, called more than once and across each other; the       *)
(* managed loop; and the event stream, whose clients lose their connection *)
(* and come back with the id of the last event they have seen.  HTTP is    *)
(* enabled, the lifecycle is managed, and one loop stands for the two.     *)
(***************************************************************************)
EXTENDS Naturals, Sequences, FiniteSets

CONSTANTS AppCalls,       \* calls of start() and close()
          Streams,        \* clients of the event stream, of one tenant
          MaxHistory,     \* the events kept for clients that come back
          MaxEvents       \* bound: events published

ASSUME AppAssumption == MaxHistory \in Nat

VARIABLES app,            \* the flags and the resources of the application
          appCalls,       \* where each call stands
          closeRaced,     \* history: close() was called while start() ran
          log,            \* the tenants of the events published, by id
          kept,           \* the oldest event still in the history
          streams         \* the connections and what their clients have seen

appVars == <<app, appCalls, closeRaced, log, kept, streams>>

\* A client's connection: whether it is open, whether its subscriber is still
\* registered, the ids on the wire; and what the client knows: the last id,
\* all of them, and (history) the ids it asked for too late.
NoStream == [open |-> FALSE, subscribed |-> FALSE, wire |-> <<>>, last |-> 0, seen |-> {}, missed |-> {}]

AppInit ==
    /\ app = [closed |-> FALSE, started |-> FALSE, http |-> FALSE, servers |-> 0, timers |-> 0,
              signals |-> FALSE, working |-> FALSE, db |-> TRUE]
    /\ appCalls = [c \in AppCalls |-> "idle"]
    /\ closeRaced = FALSE
    /\ log = <<>> /\ kept = 1
    /\ streams = [s \in Streams |-> NoStream]

Starting(c) == appCalls[c] \in {"listening", "recovering"}

\* Mutant: the application is marked as started once it is.
MarkLater(a) == a
\* start(): `started` is set before anything is awaited.
MarkStarted(a) == [a EXCEPT !.started = TRUE]

Started(c) ==
    /\ appCalls[c] = "idle"
    /\ app' = IF app.closed \/ app.started THEN app ELSE MarkStarted(app)
    /\ appCalls' = [appCalls EXCEPT ![c] = IF app.closed THEN "threw" ELSE IF app.started THEN "done" ELSE "listening"]
    /\ UNCHANGED <<closeRaced, log, kept, streams>>

\* The server listens; the managed loops are started in the same turn, and
\* then the deliveries a stop left behind are recovered.
Listening(c) ==
    /\ appCalls[c] = "listening"
    /\ app' = [app EXCEPT !.http = TRUE, !.servers = @ + 1, !.timers = @ + 1]
    /\ appCalls' = [appCalls EXCEPT ![c] = "recovering"]
    /\ UNCHANGED <<closeRaced, log, kept, streams>>

\* Listening fails, or the recovery does: start() throws, and the application
\* stays marked as started.
StartFails(c) ==
    /\ Starting(c)
    /\ appCalls' = [appCalls EXCEPT ![c] = "threw"]
    /\ UNCHANGED <<app, closeRaced, log, kept, streams>>

Recovered(c) ==
    /\ appCalls[c] = "recovering"
    /\ app' = [app EXCEPT !.signals = TRUE]
    /\ appCalls' = [appCalls EXCEPT ![c] = "done"]
    /\ UNCHANGED <<closeRaced, log, kept, streams>>

\* A managed loop runs its work unless the last round is still under way.
LoopTick ==
    /\ app.timers > 0 /\ ~app.working
    /\ app' = [app EXCEPT !.working = TRUE]
    /\ UNCHANGED <<appCalls, closeRaced, log, kept, streams>>

\* The round ends, over the open database or, after close(), over the closed one.
LoopDone ==
    /\ app.working
    /\ app' = [app EXCEPT !.working = FALSE]
    /\ UNCHANGED <<appCalls, closeRaced, log, kept, streams>>

\* close(): every loop started so far is stopped.
ClearTimers(a) == 0

\* The subscribers are dropped: connections stay open and fall silent.
Close(c) ==
    /\ appCalls[c] = "idle"
    /\ IF app.closed
       THEN /\ appCalls' = [appCalls EXCEPT ![c] = "done"]
            /\ UNCHANGED <<app, closeRaced, streams>>
       ELSE /\ app' = [app EXCEPT !.closed = TRUE, !.signals = FALSE, !.timers = ClearTimers(app)]
            /\ streams' = [s \in Streams |-> [streams[s] EXCEPT !.subscribed = FALSE]]
            /\ closeRaced' = (closeRaced \/ \E d \in AppCalls : Starting(d))
            /\ appCalls' = [appCalls EXCEPT ![c] = IF app.http THEN "closing" ELSE "closed"]
    /\ UNCHANGED <<log, kept>>

\* server.close() waits for the open connections.
ServerClosed(c) ==
    /\ appCalls[c] = "closing"
    /\ \A s \in Streams : ~streams[s].open
    /\ app' = [app EXCEPT !.servers = @ - 1]
    /\ appCalls' = [appCalls EXCEPT ![c] = "closed"]
    /\ UNCHANGED <<closeRaced, log, kept, streams>>

DbClosed(c) ==
    /\ appCalls[c] = "closed"
    /\ app' = [app EXCEPT !.db = FALSE]
    /\ appCalls' = [appCalls EXCEPT ![c] = "done"]
    /\ UNCHANGED <<closeRaced, log, kept, streams>>

\* Mutant: the history holds one event fewer.
OldestEarly(length) == IF length >= MaxHistory THEN length - MaxHistory + 2 ELSE 1
\* The history is shifted once it is longer than maxHistory.
Oldest(length) == IF length > MaxHistory THEN length - MaxHistory + 1 ELSE 1

\* publish(): the event gets the next id, joins the history and is written to
\* every subscriber of its tenant.
Publish(tenant) ==
    /\ Len(log) < MaxEvents
    /\ log' = Append(log, tenant)
    /\ kept' = Oldest(Len(log'))
    /\ streams' = [s \in Streams |-> IF streams[s].subscribed /\ tenant = "own"
                                     THEN [streams[s] EXCEPT !.wire = Append(@, Len(log'))]
                                     ELSE streams[s]]
    /\ UNCHANGED <<app, appCalls, closeRaced>>

\* What a client that comes back has not seen yet.
Newer(id, after) == id > after

InOrder(ids) == \A i, j \in DOMAIN ids : i < j => ids[i] < ids[j]

\* streamEvents(): the kept events after last-event-id, then the live ones.
Connect(s) ==
    LET replayed == {id \in kept..Len(log) : log[id] = "own" /\ Newer(id, streams[s].last)}
    IN
    /\ app.servers > 0 /\ ~streams[s].open
    /\ \A c \in AppCalls : appCalls[c] # "closing"
    /\ \E wire \in [1..Cardinality(replayed) -> replayed] :
        /\ InOrder(wire) /\ \A id \in replayed : \E i \in DOMAIN wire : wire[i] = id
        /\ streams' = [streams EXCEPT ![s] =
                          [@ EXCEPT !.open = TRUE, !.subscribed = TRUE, !.wire = wire,
                                    !.missed = streams[s].missed \cup {id \in 1..Len(log) : id + MaxHistory <= Len(log)}]]
    /\ UNCHANGED <<app, appCalls, closeRaced, log, kept>>

\* The client gets the next event of its connection.
StreamReceive(s) ==
    /\ streams[s].open /\ streams[s].wire # <<>>
    /\ streams' = [streams EXCEPT ![s] = [@ EXCEPT !.wire = Tail(streams[s].wire), !.last = Head(streams[s].wire),
                                                   !.seen = streams[s].seen \cup {Head(streams[s].wire)}]]
    /\ UNCHANGED <<app, appCalls, closeRaced, log, kept>>

\* The connection is lost with what is on its wire; its subscriber is closed.
Disconnect(s) ==
    /\ streams[s].open
    /\ streams' = [streams EXCEPT ![s] = [@ EXCEPT !.open = FALSE, !.subscribed = FALSE, !.wire = <<>>]]
    /\ UNCHANGED <<app, appCalls, closeRaced, log, kept>>

AppNext ==
    \/ LoopTick \/ LoopDone
    \/ \E tenant \in {"own", "other"} : Publish(tenant)
    \/ \E s \in Streams : Connect(s) \/ StreamReceive(s) \/ Disconnect(s)
    \/ \E c \in AppCalls : \/ Started(c) \/ Listening(c) \/ StartFails(c) \/ Recovered(c)
                           \/ Close(c) \/ ServerClosed(c) \/ DbClosed(c)

AppSpec == AppInit /\ [][AppNext]_appVars

(***************************************************************************)
(* Properties                                                              *)
(***************************************************************************)
\* However many calls of start() overlap, one server listens and one set of
\* loops runs: a second set would run every job of the tenant twice.
StartedOnce == app.servers <= 1 /\ app.timers <= 1

\* From the moment close() is called no round of a managed loop begins and no
\* signal handler is left, and when the database is closed no server listens,
\* unless close() overtook a start() that was still under way.  Nothing waits
\* for the round in progress: it may go on over the closed database.
ClosedReleases ==
    ~closeRaced => /\ app.closed => app.timers = 0 /\ ~app.signals
                   /\ ~app.db => app.servers = 0

\* A client that reconnects with the last id it has seen gets every event of
\* its tenant: only those that had left the history when it came back are
\* lost to it.
StreamComplete ==
    \A s \in Streams : \A id \in 1..streams[s].last :
        log[id] = "own" => id \in streams[s].seen \cup streams[s].missed

\* No event comes twice and none comes late, across reconnections.
StreamOnce ==
    \A s \in Streams :
        InOrder(streams[s].wire) /\ \A i \in DOMAIN streams[s].wire : streams[s].wire[i] > streams[s].last

\* However start() and close() overlap, the application runs once, and a close()
\* that overtook no start() lets no new round begin and no server listen.
LifecycleSound == StartedOnce /\ ClosedReleases

\* A stream delivers every event of its tenant once and in order.
StreamSound == StreamComplete /\ StreamOnce
=============================================================================
