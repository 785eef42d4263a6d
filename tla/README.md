# Verification of the backend

TLA+ models of the parts of the backend (`src/backend`) and of its inbox page where requests,
webhooks, jobs and failures meet, the TLC configurations that check them on small instances,
and theorems that the TLA+ proof system checks for every value of the constants. All
definitions are read from the JavaScript source; `PROJECT.json` maps each to the lines it
stands for.

    tlc -workers 2 -config MCBilling_asaas.cfg MCBilling     # a run
    tlapm BillingProofs.tla                                   # the proofs of a module

## 1. The system

A multi-tenant platform for WhatsApp agents. Node processes (`ecosystem.config.js`: one API
process in fork mode and one Evolution worker; further workers by npm scripts) over
PostgreSQL and Redis (BullMQ queues, claims, locks and caches). WhatsApp is reached through
two external services, WAHA and Evolution; payments through Stripe or Asaas.

| Part | State | Operations | Where |
|---|---|---|---|
| Billing | `billing_events`, the billing columns of `tenants` | webhook envelope, reprocess, checkout, cancel, administrators' grants | `services/billing.service.js`, `billingPaymentValidation`, `repositories/billingEvents.repository.js` |
| Outbound send and quota | `tenants.messages_used_current_period`, `billing_cycle_start`, `providerHealthStore` (memory) | `sendMessageWithFallback`: reset, check, take a unit, try providers, give back | `services/providerOrchestrator.service.js`, `repositories/tenant.repository.js`, `tenantLimitsGuard.js` |
| Inbound messages | dedup keys (Redis), `processing` and `queues` (memory), `messages` | webhook, claim, enqueue, history, model, two inserts, reply | `controllers/*Webhook.controller.js`, `conversationQueueService.js`, `messagePipeline.js` |
| Channel state | cache and shared promises (memory), circuit of each provider (memory), tracker (Redis), what the sockets last sent | poll, probe, auto-heal, metrics read | `channelOrchestrator.js`, `channelStateCache.js`, `providerHealth.js` |
| Channel connection | the connection columns of `channels`, the instance at the provider, webhooks, what clients were told | connect, QR, status, disconnect, provider change, delete, provisioning, monitor, listing | `channelConnection.service.js`, `channelEvolutionState.service.js`, `channelMonitor.service.js`, `evolutionWebhookIngest.service.js` |
| WAHA session preparation | `sessionLocks` (memory), lock token (Redis), the session at WAHA | connect, QR, create; run, body | `whatsappSessionOrchestrator.service.js`, `distributedLock.service.js` |
| WAHA circuits | session circuit, health cache, health circuit, reconnect cooldown (memory) | connect, panel, periodic check, automatic reconnect | `services/whatsapp/`, `providerHealth.service.js` |
| WAHA QR codes | lock of a session (memory), the code last seen in the logs | look, prepare, poll, ask again, answer | `wahaService.js`, `wahaQrCapture.js` |
| Evolution requests | breaker (memory), queue `evolution-api` (BullMQ), cached list of instances (Redis), chain of list calls (memory) | call, wait, attempt, retry, list | `evolutionService.js`, `queues/evolution.queue.js`, `workers/evolution.worker.js`, `evolutionInstancesCache.js` |
| Lost sessions | cached answers (memory and Redis), failures and blocks of providers (memory), session queue, provider in the row | monitor, `ensureSession`, job, switch to the other provider | `sessionMonitor.js`, `sessionOrchestrator.js`, `workers/session.worker.js` |
| Limits and features of a tenant | cached limits and features (memory), overrides with their history, rows of `channels` | check and insert, change of plan, overrides, revert; the page that makes them | `tenantLimits*.js`, `tenantFeatures.service.js`, `TenantDetailPage.tsx` |
| Inbox | `messages` and their status events, the open page | operators' messages, acknowledgements, the pipeline's rows, page requests, events | `messages.routes.js`, `inboxMessages.repository.js`, `Inbox.jsx` |
| Rest | | authentication, CRUD, AI prompts, dashboards, other pages, deployment | see `PROJECT.json` |

How the parts meet. A webhook of WAHA or Evolution enters Inbound, whose task ends in a
reply; replies and operators' messages go out through the send, which charges the quota that
Billing and the administrators set on the tenant's row, and leave rows in the inbox, which
the page hears of. The dashboard polls Channel state, whose auto-heal adds a CONNECT job; the
job's worker goes through the channel connection service to the provider: at WAHA past the
circuits to the session preparation and the QR code, at Evolution through the queue. The
monitor of sessions hands what it finds lost to its own queue. Redis is shared by claims,
locks, trackers, caches and queues through one connection with `maxRetriesPerRequest: null`
(`queues/evolution.queue.js:28`): while it cannot be reached its commands wait instead of
failing, which matters in five of the models.

What is hard here. No test suite comes with the code; almost every handler reads, awaits and
writes; state in memory disappears with a restart while claims, tokens, jobs and rows
survive; time limits are races that abandon the work but do not stop it; providers redeliver,
answer late, or accept and then answer with an error. The hazards, each at its line, with the
properties that watch it or the reason why none does, are in `PROJECT.json`. Per component,
correctness means:

- Billing: an event acts once, with its recorded outcome; a settled event stays settled; a
  paid plan has a subscription behind it; every event is settled in the end.
- Quota: the counter tells the units of the cycle, the limit holds under concurrent sends, no
  failure path keeps a unit, the cycle is reset once.
- Inbound: one claim per message, one task per conversation, in order, on the newest rows it
  has, and nobody is left waiting while Redis is there.
- Channel state: clients see what is cached, circuits always let a test through again, and not
  more than two at once, polls are answered.
- Channel connection: row and clients come to say what the provider says, and the two status
  columns come to agree.
- Session preparation: one run per key and process, one body per key under the lock, each
  caller answered by its own run.
- WAHA circuits: once WAHA is well, nothing goes on refusing it.
- WAHA QR codes: what a caller is told was so while its call ran, or the preparation it joined,
  and whoever joined a call is told.
- Evolution requests: success means done, a list is a recent one, every call is answered.
- Lost sessions: what the monitor finds lost comes back at one provider or the other, and the
  row names that one.
- Limits and features: a stale cache admits a channel for a bounded time only, every process
  comes to answer by the features of the row.
- Inbox: the timeline of a message of a tenant explains its status, the page comes to show what
  the server has and tells.

## 2. Modules

| Module | Stands for | Kept apart from it |
|---|---|---|
| `Billing` | the webhook transaction, provider, tenant and administrator requests | amounts, signatures, parsing, prices |
| `Ledger` | what `Billing` promises of the tenants' rows | how |
| `MessageQuota` | one tenant's sends | usage log, backoff times, payloads |
| `Inbound` | webhooks to reply, one server process | prompt, memories, other webhook events |
| `ChannelState` | polls of channels, circuits, sockets, one process | tracker contents, metrics |
| `Connection` | the row of one channel and all that writes it | reasons kept in config, timestamps, WAHA's own phases |
| `SessionPrepare` | callers, runs and bodies of several processes | what stands before a connect (`Circuits`) |
| `Circuits` | the checks before a connect, one process | the preparation, one step with its outcomes |
| `WahaQr` | `getQrCode`, one process, with the preparation run a call begins or joins | the locks and time limits of a run (`SessionPrepare`) |
| `Evolution` | requests from the breaker to the HTTP retries, one process and one worker | payloads, phone links |
| `Sessions` | monitor, queue and `ensureSession` in two processes | other channels |
| `TenantPlan` | channel limit and features of one tenant, API and worker | the other limits, which follow the same code |
| `Inbox` | rows, status events, one open page | texts, contacts, the registry of handlers |
| `MC...` | instances for TLC: functions from calls to channels and the like, bounds, symmetry sets | |
| `...Proofs` | inductive invariants, lemmas and theorems | |

Operators between a component's properties and its state that carry a comment beginning
"Mutant" are not part of the specification: each is the form a definition would have after a
plausible mistake, and some run must find the property violated once it is put in place
(`mutants` in `PROJECT.json`).

Four proof modules are about two components each, which share nothing: `TenantProofs`
(`MessageQuota`, `TenantPlan`), `ChannelProofs` (`ChannelState`, `Connection`),
`SessionProofs` (`SessionPrepare`, `Sessions`) and `WahaProofs` (`Circuits`, `WahaQr`). So that
one module can extend both, the names that would meet carry a prefix in the second one (`Plan`,
`Row`, `Lost`, `Qr`) or in the first (`Quota`, `Prepare`). Two modules check several components
in one run: `MCSubscription` (`Billing`, `MessageQuota`) and `MCWaha` (`Circuits`,
`SessionPrepare`, `WahaQr`). Their variable `moving` says which of them a behaviour is of, and
the others stay as they began.

### Billing
`status` is `billing_events.status` as committed, `tenant` the row's plan, activity,
subscription id and billing status, `handler` the place of each request in
`runBillingEnvelope`, `request` a checkout or cancellation under way. The provider is external: `Pay`, `Notify`,
`InvoiceFails`, `End` move a subscription and emit its event, `Deliver` and `Duplicate` bring
events in any order. `LockEvent` is BEGIN, the advisory lock and the duplicate check;
`LockTenant` the row lock; `AskProvider` the question asked under it; `CommitProcessed`,
`CommitIgnored`, `CommitFailed`, `CommitEmpty` the four ends, with the savepoint; `Respond`
the answer. The cached limits that it invalidates are in `TenantPlan`, with the loads that fill
them. `LoseConnection`, `Crash` and the lost answer of COMMIT in
`CommitProcessed` are the faults. The tenant's row is written at COMMIT in the model: the row
lock taken before the write lasts until there.

`Ledger` is what this amounts to: an emitted event gets its effect on the row of its tenant in
the very step that marks it processed, in no other; its last outcome stays; beside events only
grants change a row, and the tenant's own requests the subscription it names. `ImplementsLedger`
is `Ledger!Spec` under the mapping that reads outcomes in `status` and rows in `tenant`; locks,
handlers, redelivery, savepoints and crashes are stutters.

### MessageQuota
`row` holds the columns the send reads and writes, `due` whether the cycle is 30 days old,
`health` the process-wide counters, `req` each call. `Refresh` is run twice, as the code does,
by the send and by the limits check; `Check` compares with the plan's limit, `Consume` is the
guarded UPDATE with the selection of the first provider, `Accept` and `AttemptFails` the
attempts, `Refund` and `RefundFails` the end of the loop. `charged`, `late`, `delivered` and
`peak` are ghosts: which calls' units are in the counter, how many units of older cycles were
given back into this one, who was answered, and the largest limit so far in the cycle.

### Inbound
`at` is each webhook call's place; `processing` and `queues` are the maps of
`conversationQueueService`; `log` the rows of a conversation. `ClaimWebhookMessageOnce` is SET NX
with its three outcomes (an unreachable Redis is a step not taken); `EnqueueConversationTask` and
`SendAndFinish` are the enqueue and the `finally` of `runTask`, which starts the next task.
`ReadHistory` gets the newest `HistoryLimit` rows, or none when the query fails (`unread`). A reply
to WAHA is one HTTP request with a limit of its own; one to Evolution (`ViaQueue`) is first put in
the queue (`QueueReply`), which waits without limit while Redis cannot be reached. `Direct` are the calls
of handlers without a claim, `Keyed` the messages for which a dedup key can be built. `unread`,
`order`, `served`, `admitted`, `lapses` are ghosts.

### ChannelState
`Start` and `Join` are `resolveConnectionState` up to its first await, with `CanAttempt`;
`ProviderAnswers` and `ProbeTimesOut` the two answers of `getStatus` and `getQr`; `GatePasses` and
`GateFails` the query for the auto-heal feature after an error; `Finish` the tracker's write and
the socket events. Time is discrete (`Tick`): a probe lives for `ProbeTimeout`, a cached state for
`TTL`, an open circuit for `Window`. The code's 3 s, 5 s and 30 s keep `ProbeTimeout < Window`,
which the module assumes and the bound on tests needs.

### Connection
`row` is the channel's row without what no decision reads, `instance` the instance or session at
each provider, `webhooks` the status events on their way, `stage`, `op`, `snap`, `saw` the place of
each task, what it was asked, the row it read and what the provider answered it. Every operation
reads the row in one step, talks to the provider in others and writes in a last one what it makes
of the row it read; `Moves` are the provider's own, with their webhook. `told` and `throttled` are the events of the
row with their window of 300 ms. A transition writes both status columns; `Name`, the last write of a PUT
that names a provider, writes `connection_status` only.

### SessionPrepare
`EnsurePrepared` and `ConnectBegins` are callers; `Prepare` joins or begins a run; `Acquire`, `Release` and their
errors are `distributedLock`; the `Body` steps are the requests of
`executeEnsureWahaSessionPreparedBody`. One tick is 60 s, lock 120 s, run 180 s. With the default
request limit of 5 s in `wahaHttp` a body ends within the lock's life; with
`WAHA_REQUEST_TIMEOUT_MS` set to 15 s, which `config/env.js:44` takes for its default, it may
outlive lock and run: `MaxBody` covers both, and the run takes the longer one.

### Circuits
`breaker` is the bucket of the session circuit, `health` the cached health answer with its failures
and its open time, `cooldown` and `inFlight` the automatic reconnect, `calls` the requests in
progress: `Connect`, `Panel` and `Reconnect` begin, the others are answers, time limits and the
log's row. A tick stands for ten seconds or so; `calm` is a ghost, the ticks since WAHA last failed
anything.

### WahaQr
`at`, `about`, `reply`, `tries`, `fails` are a call of `getQrCode` with the loop of `waitForWahaQr`,
`lock` is the map of `withWahaSessionLock`, `captured` the code seen in the logs, of whatever session. A
request is served by WAHA at one moment (`Serve`), or lost (`Lose`), and its reply taken up later (`Step`).
`prep` is the run in `sessionLocks` of the orchestrator: a call begins one or joins the one in hand
(`Prepares`), which a connect may have begun (`ConnectPrepares`); the run looks at the session,
starts it and waits (`PrepGoes`), fails (`PrepFails`), and ends with its last release, when those that
joined get what it found (`PrepEnds`), however long ago. `been`, `ran` and `heard` are ghosts: what the session
was since the call, or the run, began, and whether every request of the call was answered; `told` is
what a flow tells its callers, in the step that tells it.

### Evolution
`at`, `kind`, `result`, `age` are the calls, `breaker` the circuit breaker they pass, `job` and `queue` their
jobs, with the stage of the operation, the tries of a request, of the inner attempt and of the job; `cache`
and `chain` the list of instances and the calls that wait for it. `Add`, `Hear` and `Expire` are
`addEvolutionJobAndWait`; `Take`, `Request`, `Finish` and `Requeue` the worker; `WorkerDies`,
`RedisLeaves` and their returns the faults. `did`, `since` and `told` are ghosts: which calls Evolution
carried out, how long ago the list had its other value, which list a call was told.

### Sessions
`remote` is the session at each provider, `late` the calls that were given up and may still take effect,
`l1` and `l2` the answers kept in each process and in Redis, `fails` and `blocked` the providers as each
process counts them, `ens` the run of `ensureSession` of each process, `jobs` the queue with the attempts
left, `mon`, `seen`, `backoff` the monitor. `amiss` is a ghost: since the last job was handed over the
statement that names the provider failed, a run believed a kept answer that was no longer so, or a session
was lost or deleted, by a late call too. `down` providers do not answer at all; which one it is is
chosen once. `incidents` bounds failed calls, sessions lost by themselves, requests, outages of Redis and
ends of blocks together.

### TenantPlan
`tenant`, `channels` and `audit` are the rows, `limits` and `features` the caches, `at` and `snap` the
tasks of the API and of the worker with what they have read, `page` what the administrators' page holds. A
change commits, then empties the caches of the API, unless the answer of its COMMIT is lost (`AnswerLost`)
or the API dies (`Restart`); a fill begun before the change ends after it. The history is a set: its
`created_at` is the time of BEGIN, before the row is locked, and orders nothing. `barred` is
a ghost: the ticks since the row last allowed one more channel or one was deleted.

### Inbox
`rows`, `timeline`, `unlogged` are messages, their status events and the rows for which one could not be
written; `at` and `held` the requests of the server; `wire` the events on their way; `list`, `offset`,
`hasMore`, `loadingMore`, `active` the page's state and `asked` its requests in flight, in the order they
were made. `Answer` evaluates a SELECT, `Arrive` lets an answer in, in any order. `strays` are the rows the
pipeline wrote without a tenant, as the webhook of WAHA has it do (`wahaWebhook.controller.js:154-160`): no
status event is written for them and nothing is emitted. `missed` is a ghost: something was lost, failed,
was not told or came late since the page last asked.

## 3. Runs

Twelve runs, each within five minutes with two workers: ten that pass, and two that show a comment
of the code violated by what the code does. `CHECK_DEADLOCK FALSE` is set where bounded events,
requests, messages and incidents come to an end and the system really stops (`subscription`,
`billing_asaas`, `inbox_page`, `session_lost`); the other runs check for deadlock.

| Run | What it asks | Bounds and why they are enough |
|---|---|---|
| `subscription` | is a paid plan backed; counter, limit, losses, resets of the quota | two Stripe subscriptions of one tenant (an upgrade), three events, two handlers, an administrator, the downgrade policy, no faults: the smallest where an event of one subscription meets the effect of the other. Two sends, two providers, two attempts, limits 1 and 2 and a change between them, two ends of a cycle, one crash or failed refund, one send of another tenant: a unit can be given back one and two cycles late, and a provider become unhealthy between two sends |
| `billing_asaas` | once, final, with its outcome, settled in the end; is it a ledger | one subscription, two events, two handlers, an administrator, one fault of any kind, the suspend policy: a redelivery, a reprocess and a fault fit between two steps of the other handler |
| `inbound_chat` | claims, order, history, service | two deliveries of a message and one direct call of the same conversation; both of the first answered through the queue; one expired key, one crash, Redis that errs or disappears at any time, three rows of history: a queue with one task running and two waiting, and a history that the limit cuts |
| `channel_polls` | the flag, the number of tests, clients, answers | two requests, two channels of one provider, threshold 1, no caching (TTL 0), no QR codes, one outage or restart: both may test a half-open circuit, one being joined by none, and a next owner finishes while the clients still lag |
| `channel_tests` (violated) | is there one test at a time | the instance of `channel_polls` |
| `connection_row` | convergence of row, clients and the two columns | two tasks, one round of the monitor, one request, one move of the provider, one webhook, nine operations: every handler overlaps with every other and with the monitor, each with a row it read before |
| `connection_dual` (violated) | do the two columns agree | the instance of `connection_row` |
| `tenant_plan` | the time a refused tenant may still add, the features | two API tasks and a worker's job, one feature, a time to live of 1 for both caches, two requests, one tick of time for each: a fill that began before a change may end after it |
| `inbox_page` | timeline, page, types | two conversations, pages of one message, one message before the start and two in all, one acknowledgement, one click, one fault, two requests of the page at once: answers of two conversations, or of a first and an older page, arrive in either order |
| `session_lost` | is a lost session brought back | two attempts, two failures to block, two incidents, one round of the monitor, late `create` and `delete`: one incident for each provider, or two for one. FREE mode of WAHA, where the session's name is shared |
| `waha_calls` | do refusals end; are the answers for a QR code true and given; bodies under the lock, runs and callers of a process | three calls at once with thresholds 3 and times to live of 1, 3, 4 and 6 ticks in the order the code has them: three failures open either circuit. Two calls for one session, three tries of which two may fail, two moves and one lost request: a call joins, or begins when the other is at its last try. Two requests of one process, which may also connect, and a worker's job, one key and session in FREE mode; lock of 2 ticks, run of 2, bodies of up to 3, one error, outage or restart: a body may outlive both. There the session moves to WORKING only, since no property of that part reads it |
| `evolution_calls` | success, age of lists, answers, types | two calls, one for the list, the other for any of list, create, reset, delete, qr and send, one worker slot, two attempts and two HTTP tries, threshold 2, one fault: jobs outlive their callers, and the breaker opens under a call that waits |

Symmetry is used only in runs without liveness properties (`subscription`, `waha_calls`), over
calls, handlers or events that the constants treat alike.

### Fairness

- `Billing!FairSpec`: a handler step that stays possible is taken (weak): node runs its
  callbacks and PostgreSQL grants locks. Redelivery of an unanswered event is strongly fair: a
  provider retries for days while handlers are busy only now and then. Nothing is assumed of
  customers, administrators or faults.
- `Inbound!LiveSpec`: queries, model and HTTP requests answer or fail, so a step that stays possible
  is taken (weak). A claim and a reply at Evolution are not possible while Redis is away, and Redis
  need not come back: `WaitingIsServed` speaks of behaviours where in the end it stays.
- `ChannelState!LiveSpec`: time passes and timers fire. Providers need not answer. `PollAnswered`
  leaves out the time while Redis is away, where the tracker's write waits.
- `Connection!RowFairSpec`: the throttle's window ends, the monitor's interval fires and its
  queries are answered (weak), and a poll that is repeated for ever is answered at times (strong).
  Nothing is assumed of requests and webhooks.
- `TenantPlan!PlanFairSpec`: each statement ends, and time passes, so cached entries expire.
- `Inbox!FairSpec`: a handler that runs goes on, the network carries what it has, a socket
  that is down connects again (socket.io does). Nobody need click.
- `Sessions!LostFairSpec`: calls are answered or given up by their own time limits, BullMQ
  hands jobs to the worker and connects to Redis again. Providers need not work; `LostIsRecovered`
  asks that one of them be able to.
- `Evolution!LiveSpec`: Redis answers while it is there, timers fire, time passes. Neither worker
  nor Redis need come back; `CallersAnswered` speaks of behaviours where Redis in the end stays.

### Disagreements between the code and its comments

Met while modelling; the models follow the code. The first two are shown by runs of their own.

- "permite somente 1 tentativa de teste por vez" (`providerHealth.js:43`): the request that
  half-opens the circuit leaves the flag down, so a second is admitted beside it. `channel_tests` finds
  `OneTestAtATime` violated; `TwoTestsAtMost` is what holds.
- "Dual-write em channels.status" (`channelEvolutionState.service.js:2-3`): a PUT that names the provider
  of a channel writes `connection_status` alone (`channelsRoutes.js:998-1006`), and a connected channel is
  disconnected and active at once; its next change of provider is refused as that of a connected channel.
  `connection_dual` finds `DualWrite` violated; `DualWriteConverges` is what holds.
- `refundTenantMessageQuota` keeps the count "alinhada a entregas" (`tenant.repository.js:99`): a
  refund after the reset of the cycle takes away a unit of a message delivered in the new one.
- A NULL limit is "sem limite" (`tenantMessageLimit.service.js:3`): the guard before it
  (`tenantLimitsGuard.js:78`) applies the plan's limit.
- "Se Redis falhar, processa" (`evolutionWebhookDedup.service.js:3`): an unreachable Redis does
  not fail, the command waits.
- 401, 403 and PROVIDER_CIRCUIT_OPEN never count (`sessionCircuitFailurePolicy.js:12`):
  `connectWahaChannel` wraps every health error as PROVIDER_UNAVAILABLE, which counts
  (`whatsappSessionOrchestrator.service.js:533`).
- The half-open session circuit admits three tests; the fourth request closes it though none
  succeeded (`sessionProviderCircuitBreaker.js:88-93`).
- `tryAutoReconnect` writes `retryCount` and `nextRetryAt` on the object that
  `invalidateProviderHealthCache` drops next (`providerHealth.service.js:204-210`).
- `waitForWahaQr` runs only under `withWahaSessionLock`, so its `control.cancelled` is never
  set, its outer limit of 15 s never wins, and as `getWahaQr` turns errors into
  `success: false`, the circuit of the QR polls never opens. `wahaQrCapture` keeps one code for all sessions.
- Any error counts for the Evolution breaker, five 404 in a row open it (`evolutionCircuitBreaker.js:4`).
- "Uma única requisição em voo por vez" (`evolutionInstancesCache.js:4`): a list call given up
  after 35 s leaves its job running while the next adds another.
- `createInstance` wraps its error without status and code, so the branch for 409 and the retry
  of `evolutionProvision` are not reached.
- `disconnectChannel`'s catch names an undeclared `providerName` (`channelConnection.service.js:865`).
- Failed jobs with fixed ids that BullMQ keeps make later adds void
  (`channelConnection.queue.js:21`, `channelHealthMonitor.js:72-78`).
- `loadTenantLimitsContext` reads row and count in two queries: a deletion between them lets
  the plan of before and the count of after allow a channel that the row never allowed.
- Scrolling up before the first page has arrived asks for older messages with offset 0
  (`Inbox.jsx:169-188`): the newest page is asked for twice. The page leaves out what it has, but its
  offset passes the number of messages until the next load.

## 4. Proofs

Eight modules with theorems; every theorem holds for all values of the constants that satisfy
the component's one `ASSUME`; finiteness is assumed only of the calls whose number is counted. Each
follows the same plan: `Init` gives the invariant, every action preserves it (one step per
action, one lemma for each action that is more than a few lines), it implies the property. Every safety
invariant that a run checks is the subject of a theorem.

| Component | Theorems (property) |
|---|---|
| `Billing` | `TypeCorrect`, `EffectOnce` (`AppliedOnce`), `SettledFinal`, `PaidBacked` (`PaidIsBacked`), `LedgerRefined` (`ImplementsLedger`) |
| `MessageQuota` | `TypeCorrect`, `UnitsCounted` (`UsedMatchesUnits`), `LimitHolds` (`LimitKept`), `CounterResetOnce` (`ResetOnce`), `UnitsKept` (`NoUnitLost`) |
| `Inbound` | `TypeCorrect`, `OneTaskAtATime` (`OneTaskOrIdle`), `RepliesInOrder` (`AnsweredInOrder`), `RepliesSeeHistory` (`HistoryIsCurrent`), `ClaimedOnce` (`OncePerClaim`) |
| `ChannelState` | `TypeCorrect`, `FlagOwned` (`FlagHasOwner`), `TestsBounded` (`TwoTestsAtMost`), `ClientsCurrent` (`ClientsSeeCached`) |
| `Connection` | `RowTypes` (`RowTypeOK`) |
| `SessionPrepare` | `TypeCorrect`, `OneRun`, `OwnKey`, `Shared` (`SharedRuns`), `Exclusive` (`ExclusiveBodies`) |
| `Circuits` | `Types`, `Settled` (`Settles`) |
| `WahaQr` | `QrTypes`, `AnswersHold` (`AnswersTrue`), `JoinedServed` (`JoinedAreServed`) |
| `Evolution` | `TypeCorrect` (`TypeOK`), `OkDone` (`OkIsDone`), `ListRecent` (`ListIsRecent`) |
| `Sessions` | `LostTyped` (`LostTypeOK`) |
| `TenantPlan` | `PlanTypes` (`PlanTypeOK`), `SoonRefused` (`RefusedSoon`) |
| `Inbox` | `TimelineKept` (`TimelineExplains`), `PageTypes` (`TypeOK`) |

**Billing.** The type invariant is joined with what the handlers know: `OnlyEmitted` (events
with an outcome, or in a handler, were emitted), `HandlerKnows` (the program counter tells the
item and that the event is not settled), `LocksExclusive` (no two handlers inside one event or
one row). From these `EffectOnce` and `SettledFinal`: a handler past the duplicate check is
alone with an event that is not settled. `PaidBacked` also needs `ConfirmedIsBacked`: between
the provider's yes and the COMMIT the subscription may end, but then its cancellation is emitted
and not processed, since processing it takes the row lock the handler holds. `LedgerRefined` maps step by step: `CommitProcessed` is
the ledger's own step, because by `Locked` the event was not settled and the row is the one the effect was computed
from; grants and the tenant's requests are the ledger's; everything else leaves
`status` outcomes and rows alone, so it stutters.

**MessageQuota.** `Typed` adds to the types that a call that tries has a provider left. `IInv`
adds `Charging` (who has a unit in the counter is past `Consume`) and the balance
`used <= |charged| <= used + late` (`UnitsCounted`): a refund takes the caller out of `charged`
or adds to `late`, and a reset empties both. `LimitHolds` follows because a unit is taken only
below a limit, which is at most `peak`. `CounterResetOnce` needs the types alone. `UnitsKept` speaks of
behaviours in which no process died and no refund failed, so its invariant also says that
the budget of faults only shrinks from its bound: with all of it left, no fault has happened.

**Inbound.** `QInv` says that the tasks ever enqueued in a conversation are those served, then the
one in service, then the queue, each once, and that a task is in a running place just if it is
the one in service: `OneTaskAtATime` and `RepliesInOrder` are read off it. `HInv` adds
`HistoryIsCurrent` (what a query that did not fail returned are still the newest rows, without the
reply's own), and the only other writer would be another running task. `CInv` counts: calls
admitted for a message are at most its lapses plus one if the key is in Redis.

**ChannelState.** `Shared`: the entry `inFlight` of a channel is the one request that works on
it, and joined requests wait for such an entry. On it rest `FlagOwned` (with the flag up there is
a probe, and whoever ends a probe takes the flag down) and `ClientsCurrent`, through `TracksLast`
(what a finishing request replaced is what the clients have) and `Agree`. `TestsBounded` is about
time: `Older` says that every probe of an open circuit began before the circuit's last failure, so
it is older than the time since; as a probe lives for `ProbeTimeout < Window`, none is left when the
circuit half-opens, and `Few` counts those that begin afterwards.

**Connection.** The types, with one lemma for each operation. What the component is for,
`RowConverges`, `ClientsConverge` and `DualWriteConverges`, is liveness.

**SessionPrepare.** `Owned`: `sessionLocks` and the runs of a process name each other; `OneRun` and
`OwnKey` follow. `LockHeld`: a body that began under the lock and is younger than it belongs to a
run that is still working, whose token is in Redis with the body's own age. This needs
`LockTTL <= EnsureTimeout` (120 s and 180 s): otherwise a run could give up and release while its
body counts as protected. `Exclusive` follows, as two such bodies of a key would both own its one
token.

**Circuits.** One conjunct for each thing that can hold a refusal up: `BreakerTimed`,
`HealthTimed`, `CacheTimed` bound the ticks since WAHA last failed anything by what is left of
the timer, `RetryTimed` and `NoteTimed` do so for reconnects and rows of the log that are still to
be written, since those may open a circuit after the failure. It needs
`CacheTTL <= HealthOpen` and `StepTime <= HealthOpen`, which the code's 10 s, 15 s and 30 s satisfy. `Settled` is the sum of the
longest of these chains.

**WahaQr.** `QrInv` joins the types with `Placed` (a call that runs is about a session and has
counted fewer failures than end it) and `Heard` (a reply in hand is what the session was at some moment
of this call, or of the run it joined; a missing one means that not every request was answered) and
`RunKnows` (a run in hand has in `ran` the status the session has, and the one that is its outcome).
`AnswersTrue` is read off what each
ending step tells. `JoinedAreServed` is inductive with it: the holder of a lock tells all who joined in
the step that takes the lock down.

**Evolution.** `JobFits` and `CallFits` tie a call to its job: success is told only from a job that ended
well, which `did` records at Evolution. `QueueFits`: a job that waits is in the queue exactly once.
`ChainFits`: the list call that works is the head of the chain, so there is one.
`ListFits` and `CacheFits` carry the age: what a call at work has read is out of date by no more than its own
age while that is within its limit, what the cache keeps by no more than its age plus that limit; `ListRecent` is their sum.

**Sessions.** The types of the queue need a count: jobs waiting, the worker's and the monitor's
round together are at most the rounds made (`Outstanding`), because a job given up is put back by
the worker that held it. What the component is for, `LostIsRecovered`, is liveness.

**TenantPlan.** For `RefusedSoon` the invariant ties one clock, `barred`, to all that may
still let a channel in: `EntryTimed` (the clock is ahead of the age of an entry that allows one by no more than the time of one request), `RowTimed`, `CountTimed`, `InsertTimed` for the places of a request between its reads and its insert.
An earlier statement, without the deletions, turned out to be
false: row and count are read by two queries, and a deletion between them makes room by a plan that is
gone. So a deletion restarts the clock.

**Inbox.** `TimelineKept`: a status may be changed again before its event is written, so the
invariant (`Explained`) names for each row the very status that some request has still to write. The rows of the
pipeline, which are created with their last status, have no external id, so that no
acknowledgement finds them in between; those written without a tenant are outside the statement. `PageTypes` needs more than types:
`Room` (rows and requests on the way to an insert are within the bound together), at most one
request for older messages in flight, exactly while `loadingMore` is up, and lemmas on the
sequence of rows of a conversation in their order (`RowsOfFacts`). The bound
on `offset` that the module used to state was false (see the last disagreement above) and
is gone from it.

Only model-checked: the liveness properties `EventuallySettled`, `WaitingIsServed`, `PollAnswered`,
`RowConverges`, `ClientsConverge`, `DualWriteConverges`, `FeaturesConverge`, `InboxSettles`, `LostIsRecovered` and
`CallersAnswered`, since fairness and ENABLED are outside the prover's reach. No module uses recursion.

## 5. Limits of the models

- A billing envelope has one item or none, as both parsers build it; limits are written with
  the plan and stand for it.
- A send is of one tenant; other tenants are met only in the health counters. What a provider
  does with a message whose attempt raised an error is not represented, hence nor are duplicates
  at the recipient.
- Inbound rows that operators write from the inbox are not in `Inbound!log`: the history the code
  reads includes them, and `HistoryIsCurrent` speaks of replies only.
- In `ChannelState` a process has the circuits to itself; the worker that resolves states has
  its own memory and would be a second instance.
- `Connection` follows a channel at Evolution. The phases that are WAHA's own stand in `SessionPrepare`,
  `Circuits` and `WahaQr`.
- `SessionPrepare` starts sessions at WAHA in any resting state and lets them move at any
  time; it says nothing about whether preparing succeeds.
- `LostIsRecovered` promises nothing once something is `amiss`, or while every provider is blocked: a
  block lasts 30 s, longer than the waits between a job's attempts (`sessionOrchestrator.js:82`). A late
  delete that takes a recovered session away is made up for by the monitor's next round only.
- `RefusedSoon` counts on a request taking `MaxRun` ticks at most. A load of the limits also asks the
  connection queue (`countTenantConnectionJobs`): while Redis cannot be reached it waits without limit, and
  what it read before is as old as the outage.
- `InboxSettles` promises nothing while `missed`: an older answer that comes last does leave the wrong
  rows on the page until something makes it ask again.
- In `Evolution` a job that is active while Redis is away for longer than its lock is not given to
  a second worker. Requests that pass by the queue (`evolutionProxyService`) are left out, and
  connect, disconnect and status are not among the kinds of the run: they take the same path as those that are.
- Not modelled at all: the queues of connections and provisioning as queues, `providerFallback` (which
  always has one provider), CRUD of channels, agents and tenants, authentication, prompts, the
  other pages, dashboards, deployment. These are most of the code's lines.

## 6. Plan

Done: the twelve components above, each with its safety invariants proved. Next, in this order:

1. An abstract counter for `MessageQuota` (units taken and given back in a cycle), shown to be
   implemented as `Ledger` is.
2. An action property for `Sessions` (the row changes its provider only after a call that
   was answered there), whose proof can use `LostInv`.
3. The composition of `Billing` and `TenantPlan`, whose `SetPlan` abstracts the effects of the one on the row
   of the other.
4. The queues of connections and provisioning: fixed ids, kept failures and concurrent workers.
5. CRUD of channels (`channelsRoutes.js`), whose inserts and provider calls have no transaction.
