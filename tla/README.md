# AppPort Services: verification project

TLA+ models of the AppPort Services runtime (`src/src/`), checked with TLC on small
instances. Every safety invariant that TLC checks, and the three refinements of abstract
specifications, are also proved with TLAPS for every instance. `PROJECT.json` maps every
definition that models code to the lines it stands for.

## The system

AppPort Services gives an application durable services (jobs, schedules, webhooks,
notifications, API keys, files, configuration) over one FeltDB database. Several
processes may run over the same database. Three mechanisms are common to all parts:

- **FeltDB collections.** Records carry `__version`; an update is a compare-and-set
  on it (`updateIfVersion`) and creation is an insert that requires absence. There are
  no locks. Every `await` between the read and the write is a place where others step.
- **The gateway.** An effect is authorized by AuthBoundry (external), evidence of it
  is recorded as started, it is performed, and the evidence is completed. A background
  effect runs as the durable principal stored on its record, which `attest` checks.
- **Managed loops.** Every 250 ms, unless the last round is still running, a process
  runs due schedules and jobs, and, in a second loop, due deliveries. An exception ends
  the round.

### Inventory

| Component | State | Operations | What is hard | What makes it correct |
|---|---|---|---|---|
| Jobs (`jobs/`) | job records: status, attempts, runAt, nextAttemptAt, lease | enqueue, schedule, listDue, executeJob, retry; JobWorker, managed loop | leases that expire under a running handler, overlapping due lists, crashes between writes, manual retries of running jobs, authority outages | every run is accounted for, leases exclude, late results are lost, every job settles |
| Schedules (`jobs/`, `schedules/`) | schedule records: enabled, nextRunAt | scheduleRecurring, disable, processRecurringSchedules | two processes on one schedule, crash between creating the job and moving on, disabling meanwhile | no run skipped, duplicates bounded, disabled schedules stop |
| Outbound webhooks (`webhooks/`) | endpoints, deliveries | register, disable, emit, deliver, replay; managed loop, publish | publish beside the loop, claims without a lease, timeouts after acceptance, requests that never end, replay of a delivery in flight | no overlapping attempts, delivered means accepted, POSTs counted, at-least-once |
| Inbound webhooks (`webhooks/`) | integrations, accepted event ids | register, receive | accepted before the handler runs; copies at once; crash in between | an event is handled at most once; success is answered only for a handled one |
| Gateway and evidence (`authority/`) | evidence rows, execution contexts (60 s), durable principals | authorize, execute, run, attest, withCredential | late answer after the timeout, evidence that cannot be completed after the effect, reuse of contexts | no effect without an allow; evidence before effect; only attested principals run |
| Notifications (`notifications/`) | notifications, deliveries per channel, inbox state | create, read, acknowledge, dismiss, delete, attempt, retry, recoverDeliveries | retries through system jobs, a stop between marking retrying and scheduling the attempt, status derived from several deliveries | a delivery is never lost; status agrees with deliveries; what the recipient did wins |
| API keys (`api-keys/`) | key records: revocation, expiry, rotation, restrictions; copies kept in local mode | create, authenticate, rotate, update, revoke, revoke all | revoke racing rotate, update and use; the principal outlives the key | a revoked or expired key never authenticates; restrictions only narrow |
| Transactions (`runtime/transaction*.ts`) | buffered operations | stage, settle, commit | contexts used before the commit, stale validation at commit | all or nothing |
| Configuration (`configuration/`, `storage/secrets.ts`) | variables, bindings, metadata of credentials | create, update, rotate, store, delete, import | uniqueness by check-then-insert, custody and metadata in several writes, an import in several calls | no lost update; what a denial leaves in custody was permitted and is recorded; metadata follow custody; an import can be run again |
| Intelligence (`intelligence/`) | a selection and a credential binding, two records of the configuration | set, setCredential, removeCredential, resolveRuntime | two records changed one after the other | a credential goes to the destination it was chosen for |
| Files (`files/`) | metadata | create, update, delete | version read before authorization | updates are not lost, deleted files stay hidden |
| Application (`runtime/appport.ts`, `platform.ts`) | started, server, timers, signal handlers, event history and streams | start, publish, subscribe, close | overlapping starts and closes, reconnecting streams over a bounded history | one set of loops; after close no round begins; streams neither repeat nor lose events |
| Health (`runtime/health.ts`) | none; bounded queries over all collections | getHealth | lists cut at a limit | ok hides nothing, degraded has a cause; a count is exact or marked |
| Management page (`ui/management.js`) | tables, outcome lines, refreshes under way | read, act, refresh | answers out of order, actions on stale rows | tables never go back, successes are true |
| Command line (`cli.ts`) | contract files | init, config migrate; the api-key, webhook and job commands make one call of a service each; serve starts the management host | several at once, stopped anywhere | the user's contract survives |
| Management host (`runtime/management-host.ts`, `serve`) | server, connections, signal handlers, database | start, request, signal, close | two closers, requests in flight at the end | a request whose client waits has its database |
| Extensions, discovery, contract and manifest | static | | | |

How they interact: schedules create jobs; notifications create system jobs for their
retries; publish emits webhooks and delivers them at once, in competition with the
managed loop; the intelligence service keeps its state in the configuration; the
page and the commands call the services; every caller's operation passes the gateway
between its read and its write, so the version it writes with may be stale.

## Modules

| Module | Models | Uses |
|---|---|---|
| `Jobs` | `JobService`, its store, `JobWorker`, the managed job loop | `JobLifecycle` (refinement) |
| `JobLifecycle` | what readers of a job record may rely on; abstract | |
| `JobsProofs` | theorems about `Jobs` | `Jobs`, TLAPS |
| `Schedules` | recurring schedules and `processRecurringSchedules` | |
| `SchedulesProofs` | theorems about `Schedules` | `Schedules`, TLAPS |
| `Webhooks` | endpoints, deliveries, `deliverWebhook`, replay, loop and publish | `DeliveryLifecycle` (refinement) |
| `DeliveryLifecycle` | the life of a delivery as if one worker at a time took it up; abstract | |
| `WebhooksProofs` | theorems about `Webhooks` | `Webhooks`, TLAPS |
| `Authority` | `ServiceGateway`, effect evidence, execution contexts, attestation, transactions | `AuditedEffect` (refinement) |
| `AuditedEffect` | what a row of evidence tells of its effect; abstract | |
| `AuthorityProofs` | theorems about `Authority` | `Authority`, TLAPS |
| `ApiKeys` | `ApiKeyService`: writes of keys, the queues, authentication, the check at each effect | `Restrictions` |
| `Restrictions` | `restrictions.ts`: what a key permits, and when one ceiling lies within another | |
| `ApiKeysProofs` | theorems about `ApiKeys` and `Restrictions` | `ApiKeys`, TLAPS |
| `Notifications` | one notification with its deliveries, attempts, jobs, recovery and recipient | |
| `NotificationsProofs` | theorems about `Notifications` | `Notifications`, TLAPS |
| `Configuration` | variables, bindings, `credential.store` with custody and its metadata | |
| `ConfigurationProofs` | theorems about `Configuration` and `Transfer` | `Configuration`, `Transfer`, TLAPS |
| `Transfer` | `importConfiguration`, item by item | |
| `Intelligence` | the intelligence settings and `resolveRuntime` | |
| `Files` | file metadata | |
| `Inbound` | `registerIntegration`, `receiveWebhook` | |
| `Application` | start and close of the application, its loops, the event bus and its streams | |
| `Health` | the health report over the collections | |
| `Console` | the management page against the routes it calls | |
| `Contracts` | the contract files under `init` and `config migrate` | |
| `Host` | `serve` and the management host | |
| `ServicesProofs` | theorems about `Host`, `Inbound`, `Application`, `Contracts`, `Intelligence`, `Files`, `Console` and `Health`, a part for each | those modules, TLAPS |
| `MCJobs`, `MCSchedules`, `MCWebhooks`, `MCAuthority`, `MCApiKeys`, `MCNotifications`, `MCIntelligence` | small instances; the constants are in the `.cfg` files | |
| `MCServices` | `Configuration` to `Host` side by side: `focus` names the one a behaviour exercises | |

In all models a record keeps the fields that decide control (status, attempt
count, times, version) and drops payloads, names and error texts. Instants are kept as
the time that is left until them, which `Tick` runs down for all records at once:
the code compares instants with now and does nothing else with them. The audit
trail is not kept. Variables marked *history* are read by no action.

**Jobs.** `executeJob` is cut at its awaits. `pc` says where an executor waits:
`abandoned` before the write that counts an abandoned attempt, `claim` before the
claim, `authorize` while the gateway is asked, `handler` while the handler runs. `seen`
is what it keeps of the record it read or wrote last, `due` what is left of the due
list. A managed loop takes the whole list, a `JobWorker` slot one job of it (the code
takes the first; the store promises no order). `Settle` is the write that ends an
attempt; it is lost when the version has moved on, and the executor does not notice.
`Fail`, `Deny` and `Postpone` are possible both before and in the handler, for an effect
inside the handler throws the same errors as `jobs.execute`. `Crash` is a process that
stops, or a store call that throws. The owner test of `executeJob` lets no worker by,
for no write ever sets `leaseOwner`.

**Schedules.** `listed` holds the versions the processor listed, `target` the one it
works on. `CreateJob` and `Advance` are the two writes of the loop body; `left` carries
the `now` of the listing, from which the next run time is computed. `created[s][v]`
counts the jobs made by processors that listed version `v`.

**Webhooks.** Loops and publishers are executors of `deliverWebhook`. `endpoint` waits
for the endpoint and the attestation, `refuse` and `claim` for the write that follows,
`authorize` for the gateway, `accepted` and `unaccepted` for the end of the request. A
publisher delivers its deliveries one by one, where the code awaits them together:
deliveries share no state, so the steps on any one of them are the same. `Miss` after
`accepted` is the timeout or the evidence failure after a request that the endpoint took.
`Stall` is a request that never ends: `performHttpDelivery` returns on the end of the response, on an
error of the request and on an idle socket, and a response that is cut off after its headers, or
that trickles, is none of these. Its executor stays `stalled`, and the round of its loop with it.
`StateOf` maps a delivery to its state in `DeliveryLifecycle`: its status, and while it is `delivering`
where the one executor stands whose version is still the record's (`claimed`, `accepted`, `unaccepted`),
or `lost` when there is none.

**Authority.** A request is a call of `execute`, or of `authorize` for a transaction; it
stands for its decision, its context, its evidence row and the durable record its effect
creates, which are one to one. `pc` says where `execute` waits: `deciding`, `refusing`,
`recording` (the started row), `effect`, `completing`, `failing` (the catch clause);
`issued` is a context in its caller's hands. AuthBoundry is external: `Answer` comes at any
time or never, also after `Timeout`, when nothing reads it. An evidence write may fail with
or without effect, and the three places it can fail in go on differently. `Perform` may
throw after the record exists, as `createJobRecord` does when its audit fails. `Run` is a
worker that asks `attest`. A transaction queues evidence (`rows`) when it consumes the
context, and the record (`effects`) when what the context was issued for matches, or, for
deliveries, when their endpoints were validated; both are written by `Commit`. `AuditedEffect` keeps only
the decision, the row and whether the effect exists (`decided`, `evidence`, `created`).

**ApiKeys.** A call is a record: what it does, by whom (the host or a key's principal), the
key, and what it read. `queue` waits for `creationQueue` or `authenticationQueue`, `within`
for `assertWithinCaller`, `write` for the versioned write, `last` for the reading after the
last use was recorded. A write that loses its race tries again, up to `MaxTries`. `late`
remembers that the key was revoked before the call began. Local mode keeps `locallyCreatedKeys`.

**Notifications.** `Procs` are calls and jobs that run at the same time. `asked` counts the
dispatches a call has not begun, `jobs[ch][t]` the scheduled attempts; `lease` is what is left
of the attempt lease; `overtaken` counts attempts that began while another had no result.
An attempt looks at the clock when it reads the notification.

**Configuration, Transfer, Intelligence, Files, Inbound.** Calls are cut at their awaits, as in
`Authority`, the gateway being a step that allows, denies or fails. `Transfer` reads the target
once and then applies every item, in the order of the code, each with its own failure; `StopImport` is the
process that stops between two writes. In `Configuration` a call may end as `expired`: contexts live for 60 s,
while custody and the metadata have no timeout, so that the context of the binding change may have expired by
the time `credential.store` comes to use it.

**Application.** `start` and `close` are cut at their awaits; `streams` are SSE clients that
disconnect and come back with the last id they saw. `working` is a round of a managed loop in progress.

**Health.** The report is a function of the collections; `rows` grows by one record at a time
so that every combination up to `MaxRows` is met. The queries of one report are taken at the
same moment, which the code does not promise. A list of records is the set of their places in `rows`.
Custody answers `set`, `lost` (missing or revoked) or nothing that counts (`unknown`: an error, another answer, a
binding without a reference); the one required name may be that of a variable or of a binding, for the report does
not tell them apart.

**Console.** `Clicks` are actions on the page, `changes` come from other writers; a refresh is
sent and answered in separate steps, and answers overtake each other.

**Contracts, Host.** A `writeFile` empties its file and then fills it, and a run may be
stopped between the two. The host has the handlers of both `startManagementHost` and `serve`; a
connection stays after its request, and a client may leave before the answer.

## Runs

| Run | Shows |
|---|---|
| `jobs_safety` | loop against worker slot on one job, with a crash, an outage and a manual retry: `Inv` and its consequences, and the refinement of `JobLifecycle` |
| `jobs_recovery` | one loop, two jobs, two crashes, an outage, a retry: every job settles for good, completed is final, attempts are bounded |
| `jobs_rerun` (violation) | with two executors a completed job is run again |
| `webhooks_safety` | loop, publish and replay on one delivery: attempts do not overlap, delivered means accepted, POSTs are accounted for, and the refinement of `DeliveryLifecycle` |
| `webhooks_loop` | one loop, two endpoints, a request that may never end: deliveries settle unless that happens, retries wait, attempts are bounded |
| `webhooks_stuck` (violation) | a crash leaves a delivery in `delivering` |
| `schedules` | two processors, a crash, a disabling: no run skipped, duplicates bounded, schedules keep running |
| `authority` | two requests of any kind, two transactions, two failing writes, a crash: no record without an allow or without evidence, no reported record refused, contexts used once, validated commits, calls end, and the refinement of `AuditedEffect` |
| `api_keys` | two calls on three keys, a fault, expiring keys: revocation is final and immediate, one replacement per rotation, no escalation, calls leave their queues |
| `notifications` | two channels, overlapping attempts, jobs, recovery, the recipient: delivered is final, leases exclude, attempts are accounted for, status follows, unsettled deliveries are carried |
| `services` | the ten services of `MCServices`, one per behaviour, two or three overlapping calls each (1.43 million states, under three minutes with two workers) |
| `intelligence_destination` (violation) | `resolveRuntime` beside `set` hands a credential to a destination nobody chose it for |

The two kinds of run belong together: `CompletedIsFinal` and `AttemptsBounded` hold when
one loop is the only executor and fail as soon as a second one works from its own list;
of the two things that keep a delivery from being settled, `webhooks_stuck` shows the process that
stops in mid-flight and `SettledUnlessStalled` in `webhooks_loop` says that for a loop that does not stop a request
without an end is the only one; in `services` a call that changes the destination never carries along a
credential it found (`NotCarriedOver`), and yet a reader between its two writes may meet the mixture.

`MCServices` composes modules that share no record: a behaviour chooses one of them at the
start and leaves the others as they are, so that the states add up instead of multiplying.

A property of a run that bundles several is a conjunction of named parts, each stated and
commented in its module:

| Property | Parts |
|---|---|
| `DeliveriesSound` (`Webhooks`) | `TypeOK`, `DeliveredWasAccepted`, `PostsAccounted` |
| `RunsSound` (`Schedules`) | `TypeOK`, `NoRunSkipped`, `DuplicatesBounded` |
| `RecordsSound` (`Authority`) | `TypeOK`, `CreatedWasAllowed`, `CreatedHasEvidence` |
| `TransactionsSound` (`Authority`) | `SingleUse`, `CommittedWasValidated` |
| `KeysSound` (`ApiKeys`) | `TypeOK`, `OneReplacement`, `NoUseAfterRevoke`, `SweepComplete` |
| `KeysOnlyNarrow` (`ApiKeys`) | `RevokedForGood`, `NoEscalation`, `LifeOnlyByUpdate` |
| `NotificationSound` (`Notifications`) | `TypeOK`, `RecipientWins`, `AttemptsAccounted`, `StatusFollows`, `Carried` |
| `DeliveriesHold` (`Notifications`) | `DeliveredForGood`, `LeaseHolds` |
| `ConfigurationSound` (`Configuration`) | `TypeOK`, `NoLostUpdate`, `DeniedWasPermitted`, `UniqueUnlessRaced`, `MetadataFollowsCustody` |
| `ImportKeeps` (`Transfer`) | `NeverCutOff`, `OnlyOverwriteReplaces` |
| `FilesSound` (`Files`) | `FileTypeOK`, `FileNothingLost`, `FileDeleteAnswered` |
| `InboundSound` (`Inbound`) | `HandledOnce`, `AcceptedWasGenuine`, `AnsweredWasHandled` |
| `LifecycleSound` (`Application`) | `StartedOnce`, `ClosedReleases` |
| `StreamSound` (`Application`) | `StreamComplete`, `StreamOnce` |
| `ReportSound` (`Health`) | `OkMeansQuiet`, `CountsExactOrCapped`, `MissingIsMissing`, `DegradedHasCause` |
| `PageSound` (`Console`) | `ReadYourWrites`, `SuccessIsTrue`, `OneSecretShown`, `TablesAgree` |
| `ContractSound` (`Contracts`) | `OriginalKept`, `OneContract` |
| `HostSound` (`Host`) | `WritesFinish`, `EndedIsClosed` |
| `LateNeverUndoes` (`Configuration`, `Files`, `Intelligence`, `Console`) | `DeletedStaysDeleted`, `FileHiddenUntouched`, `SelectionByVersion`, `NeverBackInTime` |

Some of them say less than their names may suggest. `ImplementsLifecycle` (`Jobs`) lets a job be started from any
status, because `executeJob` does; that a completed job is not run again is `CompletedIsFinal`, which holds with one
executor only. `AttemptsBounded` and `BackoffRespected` are checked for one executor too, and do not speak of
races between executors. `RerunIsUnchanged` speaks of imports that met no other writer and reported no failure;
imports that failed or stopped are the subject of `NothingTwice`: while imports take turns, no two live entries of a
kind have the same content, but for the endpoints of a URL after a replacement that ended halfway. `NotCarriedOver`
speaks of callers that take turns: a credential stands beside a destination only when a caller asked for the two
together, or when a `set` that bound it for another destination has not saved that selection, because it
is still to do so or failed in between. In `AcceptedWasGenuine`, genuine means that body and timestamp are signed: the
event id stands in a header that the signature does not cover (`webhooks/service.ts:432`). In `LifecycleSound`,
`close()` ends the rounds to come and not the one in progress. Of the four parts of `LateNeverUndoes` each is a
theorem of its own; the project's mutant breaks the one of `Files`.

**Bounds.** `MaxCrashes`, `MaxFaults`, `MaxOutages`, `MaxResets`, `MaxReplays` and `MaxDisables` count
events of the environment, `MaxStalls` the requests that are without an end at one time; one or two of each meet every window between two awaits.
`MaxAttempts = 2` gives a first, a last and a retried attempt; `LeaseDuration = 1` and
`RetryDelay = 1` let leases and backoffs run out at any point, `ContextLife = 1` does the
same for contexts; two requests and two transactions are the smallest instance in which
one context is wanted twice and one transaction holds two of them. `MaxVersion` is needed
because two executors with overlapping lists may hand a settled job to each other for
ever: a record at that version is not claimed again (a schedule is not listed again). In
the runs with liveness it lies above every version that the other bounds allow, so it
never stops an executor; in the schedules run, `KeepsRunning` speaks only of versions
below it. Two executors are enough for every race of two writers; a third adds none,
for the writes exclude each other by version; the theorems hold for any number. Three keys
let a key be rotated while another creates; `MaxTries = 2` loses a race and wins the next. In
`services` three calls are used where a third party must come between two (`Files`,
`Intelligence`, `Application`), two elsewhere; `MaxHistory = 2` with `MaxEvents = 3` makes a
stream miss events; `CountLimit = 1` with `MaxRows = 2` cuts lists; `Tolerance = 1` with
`MaxInboundTime = 2` puts events on both sides of the window. Symmetry is
used in `services` (calls) and in `notifications` (processes), whose members are interchangeable
and where no liveness is checked.

**Deadlock** is not checked: a system whose jobs have settled, with the environment's
bounds used up, has nothing to do.

**Fairness.** `Tick`: time passes. `Execute(w)`, `Deliver(w)`, `Process(p)`: the timers of
`startManagedLoop` fire again after every round, an exception included; authorizer calls have a
timeout; a handler is assumed to return. A request to an endpoint is not assumed to end: `Stall` is one
of the ways to go on that the fairness of `Deliver(w)` may choose, and the last one. `Serve(r)`: a call goes on,
for its timer fires and the store answers; AuthBoundry itself is given no fairness. `Continue(c)` of `ApiKeys`: the store, the audit sink and
the authorizer answer or fail, and a call that holds a queue goes on. A process that stopped is
restarted, which is why a crash only empties the executor. Nothing makes a client act.

## What is proved

`JobsProofs` proves, for every set of jobs, loops, slots and callers and every value of
the bounds (assumptions `JobsAssumption`, and `BackoffAssumption`: a backoff is a
natural number, as the provers have no theory of `^`):

- `TypeCorrect`: `Spec => []TypeOK`;
- `Invariance`: `Spec => []Inv`;
- `AttemptsAccountedAlways`, `LeaseExclusiveAlways`: two invariants that follow;
- `SettledByHolderAlways`: the action property, from `Inv`;
- `Refinement`: `Spec => Lifecycle!Spec`;
- `AttemptsBoundedWithOneExecutor`, `CompletedIsFinalWithOneExecutor`: what does not hold in general
  (see below), for the deployment in which the code keeps it, as in `jobs_recovery`: one executor, and
  a limit above zero (`OneExecutor`).

None of these properties is inductive by itself. `LeaseExclusive` needs to know that an
executor inside its lease has seen the latest version or was overtaken by a manual retry
(`LeaseKeepsFresh`); that needs to know what an executor at the latest version knows:
the attempt count, that an executor about to claim a running job found its lease
expired, that an executor in its handler is the holder and its lease is the
record's (`FreshKnows`). Both need versions only to grow (`NoFutureVersion`), and creation
to come first (`CreatedFirst`). The proof regroups `Inv` by executor, job and caller
(`InvByParts`). A step of one executor changes one record: everyone else on that
record is no longer fresh, since its version grew, and whoever works on another record
sees nothing of it; what is left is the one executor that acted. With one executor, `SoloInv` adds that
what it has listed or works on is not settled (`ListedLive`), since nobody else settles jobs, and that a job
that is not settled has an attempt left (`AttemptLeft`).

`WebhooksProofs` proves `DeliveriesSound` and `NoOverlap` for any number of
endpoints, deliveries, loops, publishers and clients (`WebhooksAssumption`, and
`BackoffAssumption` as for the jobs). The inductive invariant `WebhooksInv` says what an executor
knows of its record (`Knows`): if its version is still the record's, the attempt count it saw
is the record's, an executor before its claim still finds the record deliverable, one that
attempts it finds it `delivering` and no replay has come since; conversely, whoever attempts a
record with no replay since its claim is up to date. At most one executor attempts a record as it
stands (`OneAttempt`): a claim is a write, which puts every other executor behind. A replay is the
one write that does not exclude them, which is what `SinceReplay` in `NoOverlap` is for. `AttemptsBounded`
and `BackoffRespected` do not hold in general (see below) and are proved for the deployment in which
the code keeps them, as in `webhooks_loop`: `AttemptsBoundedWithOneLoop` and
`BackoffRespectedWithOneLoop` assume `OneLoop` (no publisher, at most one loop, a limit above zero).
`LoopInv` adds that what is left of the loop's list is still due and that a record that may be
attempted has an attempt left: nobody else can spend it meanwhile.

`DeliveryRefinement` proves `Spec => Lifecycle!Spec`, again for every instance: however many loops,
publishers and replays work from stale lists, each delivery lives as `DeliveryLifecycle` says, one worker at
a time, one request per claim, and no result but that of the claim's own request. `OneAttempt` makes `StateOf` well
defined (`StateHeld`): one executor at most stands for a delivery. A step that leaves the records and the
executors that count as they are is a stutter (`QuietRefines`), which covers every read, every lost write and
every request of an overtaken attempt; a write that counts changes the state of its own delivery and of no
other (`WriteState`, `SettleRefines`); and a crash turns `claimed`, `accepted` or `unaccepted` into `lost`, from
which only `Replay` leads on. That is the abstract form of what `webhooks_stuck` shows.

`ApiKeysProofs` proves, for any capabilities, resources and rules, that a ceiling within another
permits nothing the other does not (`WithinIsNarrower`), and that `Within` is reflexive
(`WithinReflexive`) and transitive (`WithinTransitive`), so that chains of keys that create
keys stay below the first one. On top of it, `KeysSound` and the action property `KeysOnlyNarrow`
are proved for any number of keys, calls, faults, tries and ceilings (`ApiKeysAssumption`: the
ceilings are normalized, as `normalizeRestrictions` leaves them). The inductive invariant `ApiKeysInv` relates
each call to the keys: what it has read is a version of the key no later than the present one,
and is the present one if the versions agree (`Reading`), which also holds of the copies of
local mode; `update` and `rotate` go on only with a key that was not revoked or rotated when read (`Concluded`); a
call on behalf of a key that was revoked before it began is still before its check (`Stopped`);
`revokeAll` has revoked what it listed and has no longer to do (`Swept`); what it was checked
against lies within the caller's ceiling and life (`Checked`).

`ServicesProofs` proves the properties of eight modules, each for any number of calls:

- `HostSound`. `HostInv` adds that a connection exists only while the server is open or
  closing, that the database is open just as long, and that only a serving host has its handlers.
- `InboundSound` (`InboundAssumption`). `InboundInv`: an accepted event is held by one request at
  most, from its acceptance to its answer (`HolderAlone`); its handler was called only by that request.
- `LifecycleSound`. `LifecycleInv`: one call at most is starting and one releasing, and after a
  `close()` that overtook no `start()` nothing is left to be started (`Released`).
- `ContractSound` (`ContractsAssumption`: there are finitely many runs). `ContractsInv`: where the one migration stands says which of the
  two files is the user's (`BackedUp`); without a migration both files come from the one init that
  created the contract (`CreatedByOne`).
- `NotCarriedOver` (`IntelligenceAssumption`). `IntelligenceInv`: while callers take turns there is
  one record of each kind, what the one writing call has read is still what the store holds, and when it
  comes to saving the selection no credential of another destination is left; every credential that stands beside
  a destination has its reason (`Stand`), and a call that goes on does not take it away (`StandStays`). `SelectionByVersion` is
  an action property that needs no turns: a record carries the identifier of the call that created it, which
  is over by then (`RecordPerCall`), so a new record never replaces one that is there.
- `FilesSound`, and `FileHiddenUntouched` as an action property (`FilesAssumption`: there is an
  identifier and a value). `FilesInv`: a call that goes on saw a record it may write, and unless the
  version has moved on, the record is still the one it saw (`SeenHolds`) and what it is about to write is
  that record with its changes (`NextFollows`). A write makes every other call on that record out of
  date, so their claims hold trivially; identifiers of creations are distinct (`OneCreator`), and a
  deletion that was written stays visible because nobody writes a hidden record.
- `PageSound`, and `NeverBackInTime` as an action property, for all pages and any number of clicks and
  other writers. `ConsoleInv`: refreshes have numbers of their own, and what the newest one has read is no
  older than the rows shown and than everything reported as done (`Numbered`, `ReadInTime`); an answer that
  will count as a success left the record as the action promises (`AnswersTrue`), nothing is reported before
  its answer (`Unsaid`), and secrets stand in one line (`OneLine`). That a null answer may count as a success
  is a fact about each page (`PagesFit`): a record on which such an action is not taken is already as it would
  leave it; for endpoints, which another writer may disable in between, `DisabledForGood` is needed.
- `StreamSound` (`AppAssumption`: the history limit is a natural number). `StreamInv`: what is on a
  stream's wire is in order, newer than the last event received and skips no event of the tenant that was not
  seen or missed (`Follows`); a subscribed stream lacks nothing that is not on its wire (`UpToDate`).
- `ReportSound` (`HealthAssumption`: the limit is not zero), for any number of rows. The report is a function of the
  collections; what has to be known is what a cut list still shows. A list that is cut is
  full (`CutIsFull`), so that it is named as cut; and a query for failed work that finds a row keeps one, since the
  limit is not zero, so that failed work is never cut away altogether. When the
  lists are not cut, the sets the report counts over are the records themselves, so that what makes it degraded is a record.

With `DeletedStaysDeleted` below, the four parts of `LateNeverUndoes` are theorems of their modules.

`AuthorityProofs` proves `RecordsSound`, `PromisedRuns` and `TransactionsSound` for any number of requests and transactions and any bounds
(`AuthorityAssumption`). The inductive invariant `AuthorityInv` says what each place of a
call implies: from `recording` on, the answer was an allow that came in time; from `effect`
on, the started row is written; only a call that went through `completing` has reported its
record (`StageKnows`, `RowKnows`). For transactions, contexts that are queued were issued to
their caller, no two transactions queue the same one (`QueuedWasIssued`), and a committed
effect exists (`CommittedExists`). `PromisedRuns` follows, because a row of a record that was
reported never goes back to one that `attest` refuses.

`AuditRefinement` proves `Spec => Audit!Spec`: a request is decided once, its row says `started` before its
effect exists and `succeeded` only when it does, `denied` and `failed` are final, and a transaction enters rows
and effects in one step. It needs more than `AuthorityInv`: a call that has not come to its decision or its row has
none, and a context has a row only if a transaction that holds it was committed (`AuditKnows`). That is why
`Commit` overwrites nothing: another transaction with the same context would have to share it. Two things are
allowed by `AuditedEffect` because the code does them: `Fail` after `Finish` (a completion reported as failed that
took effect), and a committed row without an effect (`QueueRefused`).

`SchedulesProofs` proves `RunsSound` for any number of schedules, processors, versions and
crashes (`SchedulesAssumption`). Neither half is inductive. For `NoRunSkipped` it must be known that
whoever is about to move a schedule on has created the job of the version it listed, and that
versions only grow (`ListedBehind`, `TargetBehind`, `CreatedFirst`). For `DuplicatesBounded` the
invariant counts who may still create: the jobs of a version and the processors that have
listed it and have not created theirs are together at most the processors and the crashes
(`CreationsBudgeted`). Creating a job moves one from the second count to the first; a crash lets
a processor list the version again, and pays for it.

`ConfigurationProofs` proves `ConfigurationSound`, and `DeletedStaysDeleted` as an action property, for
any number of calls, names and references and any number of failures (`ConfigurationAssumption`: the
identifiers are apart). The inductive invariant `ConfigurationInv` has two parts. `NamePart`: a record
counts its updates and was inserted by a call that is past its insert (`RecordInv`); what a call has
read is a record of its name, if it is still there (`CallInv`); as long as nobody raced for a name,
one record at most has it, and none while a call that found it free goes on to create it
(`NameInv`, `FoundFree`). A second record would take a second call in `Creating`, which is what
`raced` notes. `MetaPart`: a call between custody and its version has a version custody never gave to another (`KeptApart`),
and its row belongs to its reference (`MetaInv`); rows of `SecretVersions` are what their calls had
(`VersionInv`); a call that met no other has the last value and sees row and versions as it left them (`AloneInv`), so that its last write settles the reference (`SettledInv`). `DeniedWasPermitted` needs
one fact more: a call whose context expired after custody kept the value has inserted the row of its version, and rows
are never deleted (`ExpiredInvariance`).

The second part of `ConfigurationProofs` proves `ImportKeeps`, `RerunIsUnchanged` and `NothingTwice` of `Transfer` for any
documents, any number of imports and any edits by an operator (`TransferAssumption`: the mark of an absent item is
neither a planned action nor a failure). For `ImportKeeps` the invariant `KeepInv` says what the steps of an import in progress may
be (`Steps`): its write is the first of them; what it disables is older than some entry that the target has
once it has written, because identifiers only grow and no import takes the youngest entry away; and steps
beyond a creation mean that it was asked to overwrite. Other imports may disable the same entries or
write others meanwhile: each leaves an entry as young as any that was there (`ApplyLeaves`), which is all that
`Steps` needs to hold on (`StillKeeps`). For `RerunIsUnchanged`, `Alone` follows an import that met no other writer: what it
has read and not yet written is the target as it stands; while an item is written the target holds the new entry and
exactly what is still to be disabled (`Underway`); and an item it has left needs nothing more
(`NothingToDo`), unless it was reported as failed. For
`NothingTwice`, `TurnsInv` says that while imports take turns one at most is going, that what it has read of the items
it has not come to still shows what the target holds (`Knows`), and that the target has one endpoint at most as long as
no replacement ended halfway and none is under way (`OneEndpoint`): a content that is there is then found, and not created again.

`NotificationsProofs` proves `NotificationSound` and `DeliveriesHold` for any channels, processes,
leases, delays, operations and faults (`NotificationsAssumption`; three tries of a versioned write of the
notification are enough, the code makes five). The inductive invariant `NotificationInv`:

- `Attempts`: an attempt whose version is still the delivery's (`Fresh`) has seen its attempt count and
  limit, and the delivery is not settled; `Paid`: a claim beyond the limit took over from one without
  a result.
- `CarryInv`: while nothing has failed, a delivery that is not settled has a `Carrier`: a fresh attempt, an
  attempt or a job about to begin, the call that created it, or for a retry the attempt that will schedule
  it or a job due no earlier than the retry is. A job that comes too early would do nothing, hence `Timed`.
- `ToldInv`: if the deliveries say `delivered` or `failed` and the notification does not yet, some
  process is on its way to list the deliveries or to write just that. Such a change may be overtaken;
  `Contended` counts how often it was, at most by one change to `failed` and one dismissal, since every
  other change makes it unnecessary. This is why three tries are enough.
- `DeletedInv`, `Removes`: deliveries are deleted before their notification.

One thing is assumed of the behaviour. `notify` with an idempotency key derives the identifiers of
the notification and its deliveries from it, and their versions start at 1 again: after a deletion, an attempt
that has read the old delivery may find its version in the new one. `QuietCreate` says that
a notification is created under a used identifier only when nobody stands between such a read and
its write. Without it `NotificationSound` fails (see below). `QuietUnlessReused` shows that it holds as
long as no call of `notify` reuses the identifier of a deleted notification, and `OneNotifyIsSound`
proves both properties outright when one call makes the notification, as is the case for every
notification without an idempotency key and in the run `notifications`: until the one call has
created it, nothing else is under way (`EarlyInv`, `OnceInv`).

Only model-checked is liveness under fairness (`EventuallySettled`, `SettledUnlessStalled`, `KeepsRunning`, `CallsEnd` of
`Authority` and of `ApiKeys`), which the prover cannot reason about. `LateNeverUndoes` of `MCServices` is
stated by the theorems about its four parts, each over the specification of its own module.

## What the checks found

- A due list is stale as soon as it is read, and neither `executeJob` nor
  `deliverWebhook` looks at the settled statuses again: with two executors a completed
  job is run again (`jobs_rerun`). A failed job or delivery gets an attempt beyond its
  limit the same way: `AttemptsBounded` fails under the constants of `MCJobsRerun.cfg`,
  and in `Webhooks` with a loop and a publisher.
- A `delivering` delivery whose process stopped is never taken up (`webhooks_stuck`). No process has to stop for it:
  a response that is cut off after its headers, or trickles, is neither ended nor idle
  (`webhooks/service.ts:553-560`), and the delivery stays `delivering`, with the round of the loop that waits for it.
  With `MaxCrashes = 0` and `MaxStalls = 1` in `MCWebhooksStuck.cfg`, `AtLeastOnce` fails in this way too.
- `resolveRuntime` reads the selection and the binding separately, and `set` writes them one after
  the other (`intelligence_destination`).
- Counting an abandoned attempt and claiming the job are two writes: one abandoned attempt
  may be counted twice.
- Errors of effects inside a handler are not told from those of `jobs.execute`: an outage in
  the middle of a handler is not counted as an attempt.
- Disabling an endpoint does not reach what was read before. A
  schedule that is disabled after it was listed gets one more job in the same way.
- The completion of a successful effect is written inside the `try`: when it fails, the
  row becomes `failed` and the created job or delivery is later refused.
  The caller had an error: `PromisedRuns` holds.
- Notifications: the lease guards pending deliveries, so two attempts of a retrying delivery may
  overlap (`LeaseHolds` speaks of pending ones); a stop between the result and
  `refreshStatus` leaves the notification pending; recovery runs at start only and passes over
  leases that still run (`Carried` and `StatusFollows` speak of executions without such a stop).
  An attempt that was in progress when a notification was deleted may write the delivery of a new one with
  the same idempotency key, since versions start at 1 again: it marks it failed as "deleted" and tells
  nobody. The proof of `NotificationSound` needed it excluded; TLC finds it with `MaxNotifies = 2`,
  three processes and one channel. The run `notifications` has `MaxNotifies = 1` and does not reach it.
- A denied `credential.store` may have stored its value, though the comment at `configuration/service.ts:201` says "so
  a denial stores nothing": the context of the binding change is minted there (`:204`), lives for 60 s
  (`gateway.ts:16,171`, `context.ts:63`) and is used after custody and the metadata (`:225`), which have no timeout.
  What is left is then permitted and recorded (`DeniedWasPermitted`), and the binding is as it was.
- Configuration: concurrent creations may duplicate a name or make it a variable and a
  binding (`UniqueUnlessRaced`); a deletion compares no version; when the audit fails after a
  write the caller is told that the write failed.
- Import: two endpoints with one URL make a rerun create again; a disable that finds nothing
  is not an error. `docs/configuration.md:95` says that re-running an import is safe, "applied items report
  `unchanged`". After a replacement that ended halfway this is so only in part: the URL has two subscriptions, the
  rerun compares with the first it finds (`transfer.ts:197-204`) and may register a third; and a schedule that was
  to be replaced stays beside the new one, which the rerun finds unchanged (`transfer.ts:220-227`).
- Intelligence: `set` binds before it saves, so a `set` that fails in between leaves its new credential beside
  the old destination.
- Application: a start whose server fails leaves `started` set; close() waits for open event
  streams and not for the round of a managed loop in progress, which goes on over the closed database
  (`appport.ts:463-472`; `src/README.md:54` recommends `app.close()` for graceful shutdown); a close during a start leaks the server or the loops (`closeRaced`); a
  restart numbers events from one again.
- Health: a limit reached exactly is not reported as capped; `missingRequired` over a cut list
  may name what is there; without endpoints failed deliveries are not looked at. A
  variable of a required secret's name hides that its binding is missing (`health.ts:264`), where `docs/health.md:81`
  counts declarations "with no binding"; custody that fails to answer leaves a binding `unknown` and the report `ok`, as
  `docs/health.md:66-68` says.
- Page: overlapping refreshes of the configuration page may let its second table go back in
  time (`TablesAgree` speaks of the newest); "Retry" on a stale row resets a job in any state.
- Command line: `runCli` returns the promise of an api-key command without awaiting it, so its
  `finally` closes the database while the command runs (`cli.ts:76,97-101`).
- Contracts: a second `config migrate`, also after a stop that left `appport.toml` empty, overwrites
  the backup with what the first one left; an `init` stopped between its files is refused afterwards.
- Host: the `close()` that `serve` awaits returns while the host drains, and the process lives on until
  it has; a request whose client has left is not waited for; a failed listen leaves the
  database open; a second signal of the same kind kills the process.

## Plan

Modelled and checked: all modules above. Next:

The composition of `Notifications` with the queue as `JobLifecycle` promises it.

## Not modelled

Extension declarations, contract, manifest and discovery (static tables); parsing, formatting,
templates, hashing, signing, destination policy and layout; the api-key,
webhook and job commands beyond the call of a service each of them makes, among them the api-key commands that
`runCli` does not await: what a call meets after FeltDB was closed is not decided in `src/`; reads that only list or export,
among them the pages, the audit queries and the evidence reader; `withCredential` and
`credentialStatus` of the gateway and the configuration; FeltDB itself, AuthBoundry and secret
custody (external, modelled by what the code relies on); the audit trail, which the code
writes after every change, whether or not the versioned write took effect, except where its
failure changes what a call answers.
