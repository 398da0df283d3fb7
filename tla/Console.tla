------------------------------- MODULE Console -------------------------------
(***************************************************************************)
(* The management pages (ui/management.js) over the management routes      *)
(* (runtime/management.ts).  Every page is a list read from the product,   *)
(* actions on its rows, and a form that creates a record; what differs is  *)
(* in ConsolePages.  Requests are answered in any order, or not at all,    *)
(* and other clients and workers change the records meanwhile.             *)
(*                                                                         *)
(* The collection holds one record the page acts on; its state is what the *)
(* row's actions depend on.  A creation adds another record, of which only *)
(* the change matters.  The moment of a reading is the number of changes   *)
(* the collection had seen.                                                *)
(***************************************************************************)
EXTENDS Naturals, FiniteSets

CONSTANTS Clicks,         \* things the user does: row actions and submits
          MaxChanges      \* bound: changes of the collection

VARIABLES page,           \* the page that is open
          record,         \* the state of the record on the server
          version,        \* changes of the record so far
          moment,         \* changes of the collection so far
          latest,         \* the number of the newest refresh of the list
          reads,          \* the refreshes: the first one, Retry, one per click
          table,          \* what the list shows
          secondTable,    \* what the second list of the configuration page shows
          clicks,         \* the actions, their answers and their reports
          secretsAt       \* the outcome lines that show a secret

consoleVars == <<page, record, version, moment, latest, reads, table, secondTable, clicks, secretsAt>>

\* An action: the row states it is offered in, the record states the product
\* takes it in, the state it leaves ("same": the one it found), whether a
\* dialog comes first, whether a lost version race is answered null, and
\* whether the page refuses a null answer (changed(), or a 404 of the route).
Action(offered, taken, to, dialog, races, refusesNull) ==
    [offered |-> offered, taken |-> taken, to |-> to, dialog |-> dialog,
     races |-> races, refusesNull |-> refusesNull]

\* A page: its record's states and what others may do to it, its row actions,
\* the actions whose answer is a secret to show, whether only the newest
\* refresh draws, and whether one reading feeds two lists.
Page(states, others, actions, secret, guarded, twoLists) ==
    [states |-> states, others |-> others, actions |-> actions, secret |-> secret,
     guarded |-> guarded, twoLists |-> twoLists]

ApiKeysPage ==
    LET all == {"active", "replaced", "revoked"} IN
    Page(all,
         {<<"active", "active">>, <<"active", "replaced">>, <<"active", "revoked">>, <<"replaced", "revoked">>},
         [Edit      |-> Action({"active", "replaced"}, {"active", "replaced"}, "same", TRUE, FALSE, TRUE),
          Rotate    |-> Action({"active"}, {"active"}, "replaced", TRUE, FALSE, TRUE),
          Revoke    |-> Action({"active", "replaced"}, all, "revoked", TRUE, FALSE, FALSE),
          RevokeAll |-> Action(all, all, "revoked", TRUE, FALSE, FALSE)],
         {"Rotate", "create"}, TRUE, FALSE)

JobsPage ==
    LET all == {"pending", "failed", "completed"} IN
    Page(all,
         {<<"pending", "failed">>, <<"pending", "completed">>, <<"failed", "pending">>, <<"completed", "pending">>},
         [Retry |-> Action({"failed", "completed"}, all, "pending", FALSE, TRUE, TRUE)],
         {}, TRUE, FALSE)

SchedulesPage ==
    LET all == {"enabled", "disabled"} IN
    Page(all, {<<"enabled", "enabled">>, <<"enabled", "disabled">>},
         [Disable |-> Action({"enabled"}, all, "disabled", TRUE, TRUE, TRUE)],
         {}, TRUE, FALSE)

FilesPage ==
    LET all == {"live", "deleted"} IN
    Page(all, {<<"live", "live">>, <<"live", "deleted">>},
         [Rename |-> Action({"live"}, {"live"}, "same", TRUE, FALSE, FALSE),
          Delete |-> Action({"live"}, all, "deleted", TRUE, FALSE, FALSE)],
         {}, TRUE, FALSE)

WebhooksPage ==
    LET all == {"enabled", "disabled"} IN
    Page(all, {<<"enabled", "disabled">>},
         [Disable |-> Action({"enabled"}, all, "disabled", TRUE, TRUE, FALSE)],
         {}, TRUE, FALSE)

NotificationsPage ==
    LET kept == {"unread", "read", "dismissed"}
        all  == kept \cup {"deleted"} IN
    Page(all, {<<"unread", "read">>, <<"unread", "dismissed">>, <<"read", "dismissed">>} \cup (kept \X {"deleted"}),
         [MarkRead |-> Action({"unread"}, kept, "same", FALSE, FALSE, TRUE),
          Dismiss  |-> Action({"unread", "read"}, kept, "dismissed", FALSE, FALSE, TRUE),
          Delete   |-> Action(kept, all, "deleted", TRUE, FALSE, FALSE)],
         {}, TRUE, FALSE)

\* One reading serves the variables and the secrets.
ConfigurationPage ==
    LET all == {"set", "deleted"} IN
    Page(all, all \X all,
         [Change |-> Action({"set"}, {"set"}, "same", TRUE, FALSE, FALSE),
          Delete |-> Action({"set"}, {"set"}, "deleted", TRUE, FALSE, FALSE)],
         {}, TRUE, TRUE)

\* The rows only fill the form in, whose submission stores the value.
SecretsPage == Page({"set"}, {<<"set", "set">>}, [Nothing |-> Action({}, {}, "same", TRUE, FALSE, FALSE)], {}, TRUE, FALSE)

\* load() draws whatever answer comes: no count of the newest one is kept.
IntelligencePage ==
    LET all == {"configured", "bare"} IN
    Page(all, all \X all,
         [Remove |-> Action({"configured"}, all, "bare", TRUE, FALSE, FALSE)],
         {}, FALSE, FALSE)

ConsolePages ==
    [apiKeys |-> ApiKeysPage, jobs |-> JobsPage, schedules |-> SchedulesPage, files |-> FilesPage,
     webhooks |-> WebhooksPage, notifications |-> NotificationsPage, configuration |-> ConfigurationPage,
     secrets |-> SecretsPage, intelligence |-> IntelligencePage]
Shows == ConsolePages[page]

ConsoleReads == Clicks \cup {"load", "again"}
NoRead == [number |-> 0, pc |-> "none", at |-> 0, row |-> "none"]
NoClick == [pc |-> "idle", action |-> "none", sentAt |-> 0, answer |-> "none", at |-> 0, left |-> "none", said |-> "none"]

\* An action as the product takes it; a creation is taken in every state.
ActionOf(name) == IF name = "create" THEN Action({}, Shows.states, "same", FALSE, FALSE, FALSE) ELSE Shows.actions[name]
Leaves(a, state) == IF a.to = "same" THEN state ELSE a.to

\* The page opens and its first refresh is asked for.
ConsoleInit ==
    /\ page \in DOMAIN ConsolePages
    /\ record \in Shows.states
    /\ version = 0 /\ moment = 0
    /\ latest = 1
    /\ reads = [r \in ConsoleReads |-> IF r = "load" THEN [NoRead EXCEPT !.number = 1, !.pc = "asked"] ELSE NoRead]
    /\ table = [drawn |-> "loading", at |-> 0, row |-> "none"]
    /\ secondTable = [by |-> 0, at |-> 0]
    /\ clicks = [c \in Clicks |-> NoClick]
    /\ secretsAt = {}

\* refresh(): a new number, and the list says it is loading.
Refresh(r) ==
    /\ latest' = latest + 1
    /\ reads' = [reads EXCEPT ![r] = [NoRead EXCEPT !.number = latest + 1, !.pc = "asked"]]
    /\ table' = [table EXCEPT !.drawn = "loading"]

NoRefresh == UNCHANGED <<latest, reads, table>>

\* Retry on a list that could not be read.
ReadAgain ==
    /\ table.drawn = "error"
    /\ reads["again"].pc = "none"
    /\ Refresh("again")
    /\ UNCHANGED <<page, record, version, moment, secondTable, clicks, secretsAt>>

\* The route reads the collection.
ServeRead(r) ==
    /\ reads[r].pc = "asked"
    /\ reads' = [reads EXCEPT ![r] = [@ EXCEPT !.pc = "read", !.at = moment, !.row = record]]
    /\ UNCHANGED <<page, record, version, moment, latest, table, secondTable, clicks, secretsAt>>

\* Only the newest read may draw.
MayDraw(r) == Shows.guarded => reads[r].number = latest

\* The second list is drawn after the first one, from what was read last,
\* whether or not the first one was allowed to draw it.
SecondTable(r) == [by |-> reads[r].number, at |-> reads[r].at]

\* The answer of a read comes back, and is drawn.
Draw(r) ==
    /\ reads[r].pc = "read"
    /\ reads' = [reads EXCEPT ![r] = [NoRead EXCEPT !.pc = "done"]]
    /\ table' = IF MayDraw(r) THEN [drawn |-> "rows", at |-> reads[r].at, row |-> reads[r].row] ELSE table
    /\ secondTable' = IF Shows.twoLists THEN SecondTable(r) ELSE secondTable
    /\ UNCHANGED <<page, record, version, moment, latest, clicks, secretsAt>>

\* A read fails or gets no answer: the rows go, and Retry is offered.
ReadFails(r) ==
    /\ reads[r].pc \in {"asked", "read"}
    /\ reads' = [reads EXCEPT ![r] = [NoRead EXCEPT !.pc = "done"]]
    /\ table' = IF MayDraw(r) THEN [table EXCEPT !.drawn = "error", !.row = "none"] ELSE table
    /\ UNCHANGED <<page, record, version, moment, latest, secondTable, clicks, secretsAt>>

\* A dialog is modal: while one is open nothing else can be clicked.
DialogOpen == \E c \in Clicks : clicks[c].pc \in {"dialog", "sent", "served"} /\ clicks[c].action # "create"
                                /\ ActionOf(clicks[c].action).dialog

\* A row's button, offered by the row as it was drawn.
ClickRow(c) == \E name \in DOMAIN Shows.actions :
    /\ clicks[c].pc = "idle" /\ ~DialogOpen
    /\ table.drawn = "rows" /\ table.row \in Shows.actions[name].offered
    /\ clicks' = [clicks EXCEPT ![c] = [NoClick EXCEPT !.action = name, !.sentAt = version,
                     !.pc = IF Shows.actions[name].dialog THEN "dialog" ELSE "sent"]]
    /\ UNCHANGED <<page, record, version, moment, latest, reads, table, secondTable, secretsAt>>

\* Confirm or Save in the dialog sends the request; Cancel closes it.
Confirm(c) ==
    /\ clicks[c].pc = "dialog"
    /\ clicks' = [clicks EXCEPT ![c] = [NoClick EXCEPT !.pc = "sent", !.action = clicks[c].action, !.sentAt = version]]
    /\ UNCHANGED <<page, record, version, moment, latest, reads, table, secondTable, secretsAt>>

Cancel(c) ==
    /\ clicks[c].pc = "dialog"
    /\ clicks' = [clicks EXCEPT ![c] = [NoClick EXCEPT !.pc = "done"]]
    /\ UNCHANGED <<page, record, version, moment, latest, reads, table, secondTable, secretsAt>>

\* The submit button is busy until the answer and the refresh after it.
FormBusy == \E c \in Clicks : /\ clicks[c].action = "create"
                              /\ clicks[c].pc \in {"sent", "served"} \/ reads[c].pc \in {"asked", "read"}

\* Submitting the form clears the line beside it.
Submit(c) ==
    /\ clicks[c].pc = "idle" /\ ~DialogOpen /\ ~FormBusy
    /\ clicks' = [clicks EXCEPT ![c] = [NoClick EXCEPT !.pc = "sent", !.action = "create", !.sentAt = version]]
    /\ secretsAt' = secretsAt \ {"form"}
    /\ UNCHANGED <<page, record, version, moment, latest, reads, table, secondTable>>

\* The product takes the action: the answer may still be lost on the way.
Serve(c) ==
    LET a == ActionOf(clicks[c].action) IN
    /\ clicks[c].pc = "sent"
    /\ moment < MaxChanges
    /\ record \in a.taken
    /\ record' = Leaves(a, record)
    /\ version' = IF clicks[c].action = "create" THEN version ELSE version + 1
    /\ moment' = moment + 1
    /\ \E answer \in {"record", "unknown"} :
          clicks' = [clicks EXCEPT ![c] = [@ EXCEPT !.pc = "served", !.answer = answer, !.at = moment', !.left = record']]
    /\ UNCHANGED <<page, latest, reads, table, secondTable, secretsAt>>

\* It does not: the record is gone or has moved on, another writer won the
\* version race since the request was sent, or the call is denied or fails.
Refuse(c) ==
    LET a == ActionOf(clicks[c].action) IN
    /\ clicks[c].pc = "sent"
    /\ \E answer \in {"null", "error", "unknown"} :
          /\ answer = "null" => (record \notin a.taken \/ (a.races /\ version # clicks[c].sentAt))
          /\ clicks' = [clicks EXCEPT ![c] = [@ EXCEPT !.pc = "served", !.answer = answer, !.at = moment, !.left = record]]
    /\ UNCHANGED <<page, record, version, moment, latest, reads, table, secondTable, secretsAt>>

\* What the page takes for a success: 204, or an answer changed() lets by.
Succeeded(c) ==
    \/ clicks[c].answer = "record"
    \/ clicks[c].answer = "null" /\ ~ActionOf(clicks[c].action).refusesNull

Line(c) == IF clicks[c].action = "create" THEN "form" ELSE "list"

\* A new secret removes the earlier one wherever it is; any other report
\* replaces what its own line showed.
Shown(c) == IF clicks[c].action \in Shows.secret THEN {Line(c)} ELSE secretsAt \ {Line(c)}

\* Mutant: the list is left as it was.
ReportOnly(c) ==
    /\ clicks[c].pc = "served" /\ Succeeded(c)
    /\ clicks' = [clicks EXCEPT ![c] = [@ EXCEPT !.pc = "done", !.said = "ok", !.sentAt = 0, !.answer = "none"]]
    /\ secretsAt' = Shown(c)
    /\ NoRefresh
    /\ UNCHANGED <<page, record, version, moment, secondTable>>
\* The answer is reported, and after a success the list is read again.
ReportSuccess(c) ==
    /\ clicks[c].pc = "served" /\ Succeeded(c)
    /\ clicks' = [clicks EXCEPT ![c] = [@ EXCEPT !.pc = "done", !.said = "ok", !.sentAt = 0, !.answer = "none"]]
    /\ secretsAt' = Shown(c)
    /\ Refresh(c)
    /\ UNCHANGED <<page, record, version, moment, secondTable>>

\* A failure is shown in the dialog, which stays open, or on the line.
ReportFailure(c) ==
    LET inDialog == clicks[c].action # "create" /\ ActionOf(clicks[c].action).dialog IN
    /\ clicks[c].pc = "served" /\ ~Succeeded(c)
    /\ clicks' = [clicks EXCEPT ![c] =
                     IF inDialog THEN [NoClick EXCEPT !.pc = "dialog", !.action = clicks[c].action]
                     ELSE [NoClick EXCEPT !.pc = "done", !.said = "fail"]]
    /\ secretsAt' = IF inDialog THEN secretsAt ELSE secretsAt \ {Line(c)}
    /\ NoRefresh
    /\ UNCHANGED <<page, record, version, moment, secondTable>>

\* Another client or a worker changes the record.
Elsewhere ==
    /\ moment < MaxChanges
    /\ \E move \in Shows.others : move[1] = record /\ record' = move[2]
    /\ version' = version + 1 /\ moment' = moment + 1
    /\ UNCHANGED <<page, latest, reads, table, secondTable, clicks, secretsAt>>

ConsoleNext ==
    \/ Elsewhere
    \/ ReadAgain
    \/ \E r \in ConsoleReads : ServeRead(r) \/ Draw(r) \/ ReadFails(r)
    \/ \E c \in Clicks : \/ ClickRow(c) \/ Confirm(c) \/ Cancel(c) \/ Submit(c)
                         \/ Serve(c) \/ Refuse(c) \/ ReportSuccess(c) \/ ReportFailure(c)

ConsoleSpec == ConsoleInit /\ [][ConsoleNext]_consoleVars

(***************************************************************************)
(* Properties                                                              *)
(***************************************************************************)
\* A list never goes back in time: of several refreshes under way, an older
\* one answered late does not replace what a newer one drew (the `latest`
\* count of list()).
NeverBackInTime == (Shows.guarded /\ table'.drawn = "rows") => table'.at >= table.at

\* Once the page has said that something was done, the rows it shows include
\* it: a success is never followed by a list read before it.
ReadYourWrites ==
    Shows.guarded => \A c \in Clicks : (clicks[c].said = "ok" /\ table.drawn = "rows") => table.at >= clicks[c].at

\* What the page reports as done was done: when the product answered, the
\* record was in the state the action promises, also when the row it was
\* started from was out of date and when another writer won the race.
SuccessIsTrue ==
    \A c \in Clicks : clicks[c].said = "ok" =>
        LET to == ActionOf(clicks[c].action).to IN to # "same" => clicks[c].left = to

\* At most one secret is on the page, whichever lines showed the earlier ones.
OneSecretShown == Cardinality(secretsAt) <= 1

\* The two lists of the configuration page show the same moment, as long as
\* the answer that came last was that of the newest refresh.
TablesAgree == (Shows.twoLists /\ table.drawn = "rows" /\ secondTable.by = latest) => secondTable.at = table.at

\* The page tells the truth about what was done and shows it, with no secret
\* left over and its tables in agreement.
PageSound == ReadYourWrites /\ SuccessIsTrue /\ OneSecretShown /\ TablesAgree
=============================================================================
