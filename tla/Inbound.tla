------------------------------- MODULE Inbound -------------------------------
(***************************************************************************)
(* Inbound webhooks: WebhookService.registerIntegration and receiveWebhook *)
(* (src/src/webhooks/service.ts) over FeltDbWebhookIntegrationStore and    *)
(* FeltDbInboundWebhookReplayStore (src/src/storage/webhooks.ts).  A       *)
(* provider posts an event, and posts it again while it gets no success;   *)
(* several processes may answer, and each may stop at any await.  The      *)
(* registered integration is the only identity; its record is never        *)
(* disabled by any operation.                                              *)
(***************************************************************************)
EXTENDS Naturals

CONSTANTS Events,         \* event ids a provider sends
          Receipts,       \* requests that reach a process
          Tolerance,      \* inboundToleranceMs
          MaxInboundTime  \* bound on the clock

ASSUME InboundAssumption == Events # {} /\ Tolerance \in Nat /\ MaxInboundTime \in Nat

VARIABLES registered,     \* the integration record is in the store
          replay,         \* inbound_webhook_events: the ids accepted
          receipts,       \* the requests and how far each has come
          inboundClock,   \* this.now()
          handled,        \* history: how often the handler was called, per event
          lost            \* history: events whose accepted request did not end well

inboundVars == <<registered, replay, receipts, inboundClock, handled, lost>>

\* A request as sent: the event, its timestamp, whether the signature is the
\* integration's, whether the body is JSON.
NoReceipt == [pc |-> "idle", event |-> CHOOSE e \in Events : TRUE, sentAt |-> 0, signed |-> FALSE, json |-> FALSE]

InboundInit ==
    /\ registered = FALSE
    /\ replay = {}
    /\ receipts = [r \in Receipts |-> NoReceipt]
    /\ inboundClock = 0
    /\ handled = [e \in Events |-> 0]
    /\ lost = {}

ReceiptGoto(r, pc) == receipts' = [receipts EXCEPT ![r].pc = pc]

\* One allowed registration; a denied one writes nothing.
RegisterIntegration ==
    /\ ~registered
    /\ registered' = TRUE
    /\ UNCHANGED <<replay, receipts, inboundClock, handled, lost>>

\* A request with all its headers.  Without the integration it is refused.
Receive(r) ==
    /\ receipts[r].pc = "idle"
    /\ \E e \in Events, t \in 0..MaxInboundTime, s \in BOOLEAN, j \in BOOLEAN :
        receipts' = [receipts EXCEPT ![r] =
            [pc |-> IF registered THEN "window" ELSE "refused", event |-> e, sentAt |-> t, signed |-> s, json |-> j]]
    /\ UNCHANGED <<registered, replay, inboundClock, handled, lost>>

\* Math.abs(now - sentAt) > tolerance is refused, before anything is asked.
InWindow(r) == /\ inboundClock <= receipts[r].sentAt + Tolerance
               /\ receipts[r].sentAt <= inboundClock + Tolerance

CheckWindow(r) ==
    /\ receipts[r].pc = "window"
    /\ ReceiptGoto(r, IF InWindow(r) THEN "authorize" ELSE "refused")
    /\ UNCHANGED <<registered, replay, inboundClock, handled, lost>>

\* gateway.execute('webhooks.receive'): a denial, an outage, or a credential
\* that cannot be resolved refuses the request.
AuthorizeReceipt(r) ==
    /\ receipts[r].pc = "authorize"
    /\ ReceiptGoto(r, "verify") \/ ReceiptGoto(r, "refused")
    /\ UNCHANGED <<registered, replay, inboundClock, handled, lost>>

AfterVerify(r) == IF receipts[r].signed THEN "accept" ELSE "refused"

VerifySignature(r) ==
    /\ receipts[r].pc = "verify"
    /\ ReceiptGoto(r, AfterVerify(r))
    /\ UNCHANGED <<registered, replay, inboundClock, handled, lost>>

\* Mutant form: an earlier acceptance is not looked at.
AlwaysNew(e) == TRUE

\* requireAbsent on sha256(integrationId:eventId).
NotSeen(e) == e \notin replay

Accept(r) ==
    LET e == receipts[r].event
    IN  /\ receipts[r].pc = "accept"
        /\ IF NotSeen(e)
           THEN replay' = replay \union {e} /\ ReceiptGoto(r, "accepted")
           ELSE ReceiptGoto(r, "refused") /\ UNCHANGED replay
        /\ UNCHANGED <<registered, inboundClock, handled, lost>>

\* The body is parsed after the event was accepted, and the handler called.
Parse(r) ==
    LET e == receipts[r].event
    IN  /\ receipts[r].pc = "accepted"
        /\ IF receipts[r].json
           THEN /\ handled' = [handled EXCEPT ![e] = @ + 1]
                /\ ReceiptGoto(r, "handling")
                /\ UNCHANGED lost
           ELSE /\ ReceiptGoto(r, "refused")
                /\ lost' = lost \union {e}
                /\ UNCHANGED handled
        /\ UNCHANGED <<registered, replay, inboundClock>>

\* The handler's exception is rethrown to the provider.
HandlerFailed == "refused"

Handle(r) ==
    /\ receipts[r].pc = "handling"
    /\ \/ ReceiptGoto(r, "audit") /\ UNCHANGED lost
       \/ ReceiptGoto(r, HandlerFailed) /\ lost' = lost \union {receipts[r].event}
    /\ UNCHANGED <<registered, replay, inboundClock, handled>>

\* The audit of an accepted event can fail: the provider sees an error, but
\* the handler has finished.
AuditReceipt(r) ==
    /\ receipts[r].pc = "audit"
    /\ ReceiptGoto(r, "answered") \/ ReceiptGoto(r, "refused")
    /\ UNCHANGED <<registered, replay, inboundClock, handled, lost>>

\* The process that answers the request stops.
StopReceipt(r) ==
    /\ receipts[r].pc \notin {"idle", "answered", "refused"}
    /\ ReceiptGoto(r, "refused")
    /\ lost' = IF receipts[r].pc \in {"accepted", "handling"} THEN lost \union {receipts[r].event} ELSE lost
    /\ UNCHANGED <<registered, replay, inboundClock, handled>>

InboundTick ==
    /\ inboundClock < MaxInboundTime
    /\ inboundClock' = inboundClock + 1
    /\ UNCHANGED <<registered, replay, receipts, handled, lost>>

InboundNext ==
    \/ RegisterIntegration
    \/ InboundTick
    \/ \E r \in Receipts : Receive(r) \/ CheckWindow(r) \/ AuthorizeReceipt(r) \/ VerifySignature(r) \/ Accept(r)
                             \/ Parse(r) \/ Handle(r) \/ AuditReceipt(r) \/ StopReceipt(r)

InboundSpec == InboundInit /\ [][InboundNext]_inboundVars

-----------------------------------------------------------------------------
\* A handler runs at most once for an event: across retries of the provider,
\* processes and restarts (docs/WEBHOOK-SECURITY.md, "at most once").
HandledOnce == \A e \in Events : handled[e] <= 1

\* Only a request that is signed, and was sent within the window of a moment
\* this process has already lived through, uses up its event id.  The signature
\* is over the time and the body; the event id is taken from a header beside it.
AcceptedWasGenuine == \A e \in replay : \E r \in Receipts :
    /\ receipts[r].event = e /\ receipts[r].signed
    /\ receipts[r].sentAt <= inboundClock + Tolerance

\* The provider stops sending only when its event has been handled: an answer
\* of success is given after the handler has ended, never for a lost event.
AnsweredWasHandled == \A r \in Receipts : receipts[r].pc = "answered" =>
    handled[receipts[r].event] = 1 /\ receipts[r].event \notin lost

\* An inbound event is handled once, only when it is genuine, and is answered
\* with success only then.
InboundSound == HandledOnce /\ AcceptedWasGenuine /\ AnsweredWasHandled
=============================================================================
