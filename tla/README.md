# Verification of the Leamout voice platform

TLA+ models of the parts of this repository where processes, retries and
failures meet: the life of a telephone call from admission to cleanup, the way
of an event from the outbox to a customer's webhook endpoint, the voice agent
on a call with its media node, and the administration around them. Paths are
relative to `src/server/internal/` unless they start with `src/`.

Checking a run or a proof:

    tlc -config Outbound.cfg MCOutbound
    tlapm OutboundCallProofs.tla

`PROJECT.json` lists the components, the runs, which source lines every
definition stands for, the hazards and the theorems.

## 1. The system

Four kinds of process share PostgreSQL, Redis and NATS JetStream, and drive
FreeSWITCH through its event socket (ESL):

- the API **server** takes HTTP requests: it creates outbound calls, controls
  calls, administers trunks, endpoints, agents and subscriptions;
- the **worker** consumes ESL events, admits inbound calls, runs the
  reconciliation jobs, publishes the outbox, ingests and delivers webhooks,
  uploads recordings, sends mail. All its loops are one errgroup: an error that
  one loop returns ends the process (`runWorkloads` in
  `runtime/worker/consumers.go`);
- the **media** nodes run the audio of voice agents;
- the **backoffice** shows tables to operators.

### Inventory

| component | state it keeps | operations | what is hard | what makes it correct |
|---|---|---|---|---|
| `telephony/calls` | `calls`, `call_origination_attempts`, `call_admission_cleanup` | Create, AdmitInbound, ObserveLifecycle, Answer, Hangup, Hold, Resume, Reconcile | each operation is a chain of remote calls in three stores; requests, handlers of several channels, the job and other workers interleave; any step fails or the process dies | a call has one legal history; it is dialled once; capacity is held while a channel is up and given back afterwards |
| `runtime/calling`, `integrations/redis/cache.go` | admission leases per organization and trunk, channel bindings | Acquire, Bind (rename), Refresh, Release; Bind, Delete | the lease changes its name during an inbound admission; renewal is unconditional | limits respected, no lease of an ended call |
| `integrations/freeswitch` | channels; event queue per channel | originate, kill, hold, setvar, uuid_exists; events | an originate may time out and still run; full queues drop events | channels are found again |
| `commercial/limits`, `telephony/routing` | none (reads) | plan limit, route plan | - | inputs of admission |
| `platform/outbox` | `outbox_events` with a row lock | insert with the domain change, claim, publish, mark, release stale locks | crash or lost ack between publication and mark; marks are not fenced | an event is never lost |
| `integrations/nats` | stream, deliveries, acks | publish with message id, fetch, ack, nak | redelivery, bounded tries | at least once |
| `platform/webhooks` | `webhook_events`, `webhook_deliveries`, `webhook_endpoints` | ingest, claim, send, mark, retry, auto-disable; Update, Delete, Retry | a batch outlasts its lock; all processes share a worker id; endpoint API races senders | outcomes are true and final; every event settles at every enabled endpoint |
| `runtime/medianodes`, `integrations/redis/media.go` | node heartbeats, session owners, leases | Heartbeat, Place, Owner, Release, Refresh, drain | heartbeat and lease expire at different times; read-then-release; counts read before they are used | one owner per session, capacity respected, a draining node is left alone |
| `media/session`, `runtime/media` | sessions of a node | Start, Attach, AttachControl, Stop, Drain | five threads finish one session; a lock held during provider start | room is given away once everything is closed; tool calls reach whoever controls |
| `media/engine/composable` | generation, conversation, pending tool calls of a stream | utterances, responses, Interrupt, SubmitToolResult, Close | responses are cancelled and superseded while they send; the pump both empties and fills a channel | no response is lost, stale output is bounded, the conversation is in order |
| `runtime/agent`, `ai/orchestration`, `runtime/worker/{recovery,reconciliation}.go` | `voice_agent_sessions`, turns, control connections | attach, control, stop, fail, recover, reconcile | crash between media session, fork and channel variable; recovery against attach | one fork per channel, turns numbered once, a session ends with its call |
| `ai/tools` | tools, tool executions | administration; claim, execute, replay, reconcile | repeated calls, results after 90 s | a tool call takes effect once, with the settings the session froze |
| `ai/{agents,providers,manifest}` | agents, bindings, credentials, revisions | Create, Update, Verify, Rotate, Delete, deploy | bindings replaced one by one; a deployment holds a lock | a ready agent starts; a revision names one configuration; plan limit |
| `integrations/freeswitch/{client,supervisor}.go` | connection, subscriptions, commands in flight | Connect, command, Subscribe, reconnect, Close | replies paired by order; locks held while waiting; reconnection flag | replies match, a ready client is subscribed, Close returns |
| `telephony/recordings`, `platform/{storage,retention}` | `recordings`, staged files, objects, integrations | start, stop, claim, pin, upload, complete, fail, delete | serial uploads outlast the claim; deletion races upload | the only copy is never removed; one bucket, one outcome |
| `telephony/{trunks,numbers,routing}` | trunks, credentials, endpoints and their health, numbers | administration, health check, validation | capacity check, verdict on a former address | plan limit; grounded health; a number leads to one trunk |
| `tenancy`, `platform/email` | organization, members, invitations, tokens; mail queue with lease tokens | administration; enqueue, claim, send, cancel | check, then statement; crash between send and complete | one owner; an invitation is used once; mail outcomes true and final |
| `identity` | users, login attempts, sessions, identity events | callback, refresh, revoke, event | snapshot of a statement; rotation of a token by several replicas | events and logins take effect once; the stored token works |
| `commercial/{billing,subscriptions,limits}` | receipts with lease tokens, subscriptions | receive, claim, apply, retry, dead-letter, reconcile | out-of-order provider events, lost leases | the row is what the provider said at its date; access is paid for |
| `platform/idempotency` | request keys | claim, complete, replay, expire | lock expiry while the mutation runs | a mutation runs once per key and lock |
| `security`, `platform/{audit,networking,config}`, `telephony/webrtc`, `backoffice`, `clients` | records changed by single statements, or none | checks, pages | - | - |

How they interact: a call's state changes commit an outbox row in the same
transaction (`telephony/calls/repository.go:253`); the outbox job publishes it;
the webhook consumer turns it into deliveries. ESL events reach
`ObserveLifecycle` and, for an answered call with an agent, `runtime/agent`,
which places a media session. Plans and trunks give admission its limits.

## 2. Modules

| module | models | checked in |
|---|---|---|
| `CallLifecycle` | abstract: what subscribers of a call may see | refined by the two below |
| `CallCore` | the shared runtime of a call: rows, leases, bindings, FreeSWITCH, event handlers, reconciliation job | |
| `OutboundCall`, `InboundCall` | `Service.Create` and `Service.AdmitInbound` on top of `CallCore` | `outbound*`, `inbound*` |
| `EventDelivery` | abstract: what a customer may rely on about the delivery of events | refined by the next one |
| `EventPipeline` | outbox, JetStream, webhook consumer, delivery job, endpoint API | `events_faults`, `liveness` |
| `MediaNodes` | registry, leases, heartbeats, drain, placement | `voice_agents`, `liveness` |
| `MediaSession` | session manager of a node and its HTTP handlers | `voice_agents`, `liveness` |
| `VoiceEngine` | a stream of the composable engine and its pump | `voice_agents`, `liveness` |
| `AgentSession` | the agent on an answered call, across crashes and recovery | `voice_agents`, `liveness` |
| `ToolExecution` | administration and execution of tools | `voice_agents`, `liveness` |
| `AgentConfig` | agents, bindings, credentials, deployments, snapshots | `voice_agents` |
| `EslClient` | event socket client: replies, subscriptions, reconnection | `voice_agents`, `liveness`, `esl_reconnect` |
| `Recordings` | rows, uploads, integrations, retention, deletion | `voice_agents`, `liveness` |
| `Trunks` | trunks, credentials, endpoints, health checks, numbers, routes | `platform`, `liveness` |
| `Tenancy` | members, invitations, tokens, mail queue | `platform`, `liveness` |
| `Identity` | sign-in, sessions, identity events | `platform`, `identity_order` |
| `Billing` | receipts, subscription row, reconciler, access | `platform`, `liveness` |
| `Idempotency` | one key, several requests | `platform` |
| `MCOutbound`, `MCInbound`, `MCEvents` | scenarios and symmetry of the call and event runs | |
| `MCVoiceAgents`, `MCPlatform`, `MCLiveness` | the runs over several components | |
| `CallCoreProofs`, `OutboundCallProofs`, `InboundCallProofs` | theorems about calls | |
| `EventPipelineProofs`, `EslClientProofs` | theorems about events and the event socket | |
| `MediaProofs` | theorems about `MediaNodes`, `MediaSession`, `VoiceEngine` | |
| `VoiceAgentsProofs` | theorems about `ToolExecution`, `Recordings`, `AgentSession`, `AgentConfig` | |
| `PlatformProofs` | theorems about `Identity`, `Idempotency`, `Trunks`, `Billing`, `Tenancy` | |

`CallCore` and `EventPipeline` meet at the outbox: in the first, `outbox[c]` is
the sequence of events committed for a call; in the second, `Insert(e)` is the
commit of any one of them. `AgentSession` sees a media node as its clients do: a
stream per session id and one control connection per stream, which is what
`MediaSession` shows of it; `MediaSession` sees an engine as something that
makes tool calls, which `VoiceEngine` details; `ToolExecution` starts where
`AgentSession` hands a tool call to its goroutine; `Trunks` and `Billing` give
`OrgLimit`, `TrunkLimit` and the route plan of the call modules their values.

### CallCore, OutboundCall, InboundCall

One variable per store: `row`, `attempt`, `marker`, `outbox` (PostgreSQL),
`orgLease`, `trunkLease`, `binding`, `owner` (Redis), `fs` and `evq`
(FreeSWITCH and the worker's queue per channel). Each running operation is a
program counter with the values it has read: `lc[ch]` for the lifecycle handler
of a channel, `job` for the reconciliation pass, `create[c]` for a Create
request, `adm[w][ch]` for an inbound admission in worker `w`. **Each action is
one remote call** (one SQL statement or transaction, one Redis script, one ESL
command): what the code reads before it and uses after it is stale in the model
exactly when it can be stale in the code.

| actions | code |
|---|---|
| `CreateRow` .. `UnwindFail` | `telephony/calls/outbound.go`, in its order |
| `OriginateUncertain`, `MarkUncertain` | `classifyOriginateFailure` and the early return that keeps the leases |
| `Lookup` .. `SetCallID`, `UndoStep` | `AdmitInbound`, `bindInboundChannel` and their compensations, whose errors are dropped |
| `LcBegin` .. `LcCleanup` | `runtime/worker/consumers.go` and `ObserveLifecycle`; `LcFail` is an error, logged and dropped with its event |
| `JobListActive` .. `JobCleanup` | `ReconciliationJob`; `JobFail` ends the pass |
| `mutate` | `Repository.mutate`: the guarded `Mark*` statement, the attempts, the marker and the event, in one transaction |
| `CanAcquire`, `BoundLease`, `Refreshed`, `Released` | the Lua scripts of `integrations/redis/cache.go` |
| `FsCreate` .. `FsHangup`, `LoseEvent` | FreeSWITCH (external) and the full queue of `integrations/freeswitch/events.go` |
| `Answer`, `Hangup`, `Hold`, `Resume` | the control operations: guarded by row and binding, effective in FreeSWITCH |

Failures: every remote call may fail (`CreateFault`, `AdmitFault`, `UndoFault`,
`LcFail`, `JobFail`), acquisitions that report an error may have been applied,
events are lost, the request's or the worker's process dies (`CreateCrash`,
`WorkerCrash`, `WorkerRestart`). `Faults` bounds their number.

Abstractions. One organization and one trunk (keys of others are disjoint). A
lease is its id in a set, its expiry time an action that is possible when
nothing can renew it any more: its 26 hours are longer than any operation. A
channel stands for its SIP dialog. `Progress` chooses which optional channel
events (ringing, one hold) are explored. Plans without a concurrency are
refused by `validPlanLimits`, so there is no unlimited path. Transfer, Play,
Record and SendDTMF change none of this state.

### EventPipeline

`outbox`, `webhookEvents`, `endpoint`, `delivery` are tables, `stream` the
JetStream messages with the number of times each was handed out, `publisher`,
`consumer`, `sender` what the three loops of each worker hold in memory,
`deleting` the endpoints between the two statements of Delete, `response` a
history variable: what each endpoint has answered, and to which attempt. A
delivery of `EventDelivery` is the row of the pipeline without its lock; what is
stored, known and answered is what the outbox, the webhook tables and `response`
show of an event.

| actions | code |
|---|---|
| `Insert` | `Repository.mutate` and the two other producers |
| `ClaimPending`, `Publish`, `MarkEvent`, `ReleaseStaleLocks` | `platform/outbox/jobs.go` |
| `Receive`, `CreateDeliveries`, `CommitIngest`, `Acknowledge` | `platform/webhooks/consumer.go`, `Service.Ingest` (a transaction whose insert locks the event row) |
| `ClaimDeliveries`, `ClaimStale`, `Send`, `MarkDelivery` | `platform/webhooks/jobs.go` |
| `Update`, `Disable`, `Cancel`, `DeleteFault`, `Retry` | `platform/webhooks/service.go` |
| `PublishFault`, `IngestFault`, `Crash`, `Exit` | errors and lost acks; an error returned by a loop ends the worker's three loops |

Abstractions. Every process locks rows as `worker-outbox` or `worker-webhooks`
(`runtime/worker/modules.go:289`), so a lock is a Boolean and the fence on
`locked_by` only tells whether the row is still locked. Retry delays and lock
ages are left out: a lock whose holder is gone may be taken at any time, one
whose holder is merely slow costs a fault. The three producers write
well-formed events, so the consumer's Term path has no counterpart. The
stream's 30 days and 10 GiB, signing and payloads are left out.

### The voice agent

The same rule everywhere: an action is one statement or transaction, one Redis
command or script, one request to another process, or what one mutex covers.

- **MediaNodes.** `nodeKey`, `drainingKey`, `leases`, `owner` are the Redis keys;
  the Lua scripts are `AcquireMediaLease`, `ReleaseMediaLease`, `Refreshed`. A
  heartbeat is `HeartbeatLoad`, `HeartbeatNode`, `HeartbeatDraining`, because the
  drain may begin between them; `HeartbeatLost` is one that cannot reach Redis,
  whose error is dropped. `Candidates`, `Before`, `PlacementOrder` and `PlaceOnNext`
  are `Place`;
  `ReleaseGet` and `ReleaseLease` the two calls of `Release`. TTLs are the actions
  `NodeKeyExpires`, `DrainingKeyExpires`, `LeaseExpires`: a key of a process that
  beats does not expire, one of a process that is down or stalled may.
- **MediaSession.** `object` holds the `managedSession` values; `thread` says where
  the timer, pump, control, DELETE and drain goroutines of each are; `sync.Once`
  and the `complete` channel are fields. `starting` is the lock `Start` holds while
  the provider starts, and every other operation waits for it (`Unlocked`).
- **VoiceEngine.** `generation`, `active`, `cancelOf`, `conversation`, `awaited` are
  the stream's fields; `answer[g]` is the goroutine `generate` of a generation,
  `runner` is `run`, `submitter` is `SubmitToolResult`, `pump` the event goroutine of
  the manager. Channels have a length, a send that finds no room waits, and a send
  on a closed channel is `panicked`. Text, audio and chunking are left out.
- **AgentSession.** `handler` goes through `attach` in its order: `AttachCall`,
  `ReadVariable`, `CreateStream`, `OpenControl`, `StartFork`, `StartClock`,
  `SetVariable`, `MarkMediaStarted`, or the compensation `StopStream`, `FailSession`,
  `HangUp`. `recovery` is `RecoverSession`, split at the map lookup, the reading of
  turns and the registration. `WorkerCrashes` clears `memory` and loses events.
- **ToolExecution.** `ExecuteBegins` .. `MarkExecution` are `Executor.Execute`;
  `ReconcileUncertain` is the 90 second rule; `effects` counts what the endpoint
  saw. Arguments and signatures are left out.
- **AgentConfig.** Requests write one statement at a time (`UpsertBinding`,
  `DeleteBinding`), a deployment holds the organization's row (`orgRow`). The
  triggers of the migrations are in the statements: `Bump` raises the revision.
- **EslClient.** `reader`, `conner`, `cmd`, `closer` are the goroutines, `subMu` and
  `commandMu` the mutexes, `wire` the frames not yet read. Frames are parsed already,
  and authentication is part of the dial.
- **Recordings.** `recording` carries the row and the events its transactions
  wrote; `ingester` holds the rows of a batch in memory, with the lease that may be
  over (`LeaseOver`). `PinUpload`, `PutObject`, `CompleteUpload`, `RemoveStaged` are
  the steps of `ingestOne`.

### The platform

- **Trunks.** A creation is a transaction with the organization's row lock
  (`LockAndCheckCapacity`, `CommitCreate`); `ClaimDue` and `ProbeNext` are a health
  pass over a batch that was read before; `OutboundRoutes`, `InboundTrunks` and
  `ValidationErrors` are the queries and the validation as operators. Clock
  comparisons are the flags `checked` and `cooling`.
- **Tenancy.** `CheckRequest` is what a request reads, its statement a later step
  with the conditions of the SQL. `Swept`, `ClaimMail`, `CheckReady`, `SendMail`,
  `CompleteMail`, `FailMail` are the mail worker; an outcome is fenced by `OwnRow`.
- **Identity.** `ApplyKindeIdentityEvent` is two steps, snapshot and write, because
  the database runs READ COMMITTED; `LockSession` .. `StoreTokens` is a refresh under
  the row lock. Events are numbered in the order they occurred.
- **Billing.** `provider` is the provider's log, one entry per change; a webhook
  reports one of its moments, or is lost. `Upserts` is the WHERE of the conditional
  upsert, `Fenced` the lease token, `EffectivePlan` and `BillingStatus` what the row
  gives access to.
- **Idempotency.** `Claim`, `Lookup`, `Handle`, `Complete` are the middleware; a client
  that goes away cancels the context of `Complete`.

## 3. Runs

| run | instance | shows |
|---|---|---|
| `outbound` | scenario of 1 call, 2 channels, 2 routes, 2 faults; scenario of 2 calls, plan of 1, trunk of 2 | types; never dialled twice; a channel that may be up holds its leases; an observed attempt is bound; the plan's concurrency; refinement of `CallLifecycle` |
| `outbound_liveness` | 1 call, 1 route, 2 faults, fair | capacity comes back, markers are worked off, channels are found |
| `outbound_abandoned` | 1 call, 1 fault, fair | **violation**, finding 1 |
| `inbound_faults` | 1 dialog, 2 faults, fair | types; an admitted call holds its leases and can be reached; capacity comes back |
| `inbound_concurrency` | scenario of 1 dialog, 2 workers, 1 fault; scenario of 2 dialogs, plan of 2, trunk of 1 | refinement when two workers admit the same dialog; the limits; calls and channels of different dialogs never mix |
| `inbound_race` | 1 dialog, 2 workers, no fault | **violation**, finding 2 |
| `events_faults` | 1 event, 1 endpoint, 2 workers, 2 faults, 2 requests, three of them together (`Incidents`), 2 attempts | types; no event lost; refinement of `EventDelivery`: one request per counted attempt, outcomes true, settled is final |
| `voice_agents` | 8 components, below | placement, sessions, engine, agent, tools, configuration, ESL client, recordings |
| `platform` | 5 components, below | trunks, tenancy, identity, billing, idempotency |
| `liveness` | 11 components, fair | what must happen in the end |
| `esl_reconnect` | 2 connections, 1 fault, fair | **violation**, finding 3 |
| `identity_order` | 2 events, 2 requests | **violation**, finding 4 |

`MCVoiceAgents`, `MCPlatform` and `MCLiveness` put several components into one
run: the variable `focus` is chosen by the initial state and never changes, the
component it names takes its steps, the others stay as they start. The state
space is the sum of the components' and not their product, and a property of one
of them is checked on its whole state space. What the properties of these runs
say, by their parts:

| property | parts |
|---|---|
| `PlacementSound` | a session is a member of the leases of exactly the node its owner key names; no node is promised to more sessions than it has room for; a node whose drain is published is not chosen any more |
| `MediaSound` | a session's room is given away only when its stream, connection and pump are closed; whoever holds the control has been sent every tool call that waits |
| `TimeoutSparesAttached` | the attachment timer never finishes a session with audio |
| `EngineSound` | an active response has a goroutine that will end it; a response that is over lets at most one item through; the active response is not silenced; the conversation is in order and each tool result in it once |
| `NoDuplicateFork`, `TurnsNeverCollide` | one audio fork per channel and no turn number used twice, across replays, crashes and recoveries |
| `ToolEffectsSound` | a tool call takes effect once, with the frozen settings |
| `AgentConfigSound` | plan limit; bound credentials exist; a revision names one configuration; a ready agent's session resolves |
| `EslSound` | replies match their commands; a ready client is subscribed on its present connection |
| `RecordingsSound` | objects are where the row says; the staged file is kept until completion; completed is playable; one outcome announced |
| `TrunksSound` | plan limit; credentials match the methods; one end announced; grounded health; one trunk per number; a valid trunk has a route |
| `TenancySound` | one owner; an invitation is used once; mail follows the invitation, its outcome is true and final; a disabled membership stays |
| `IdentitySound` | events and logins take effect once; a token is presented once; the stored token works |
| `BillingSound` | the row is what the provider said at its date; a receipt applied once; the grace period never moves; access is paid for |
| `IdempotencySound` | replays are faithful; another execution needs a lapsed lock |
| `VoiceSettles` | leases nobody uses come back, sessions end with their call, an answered call is controlled again after a restart, no execution stays in processing |
| `MediaSettles` | finished sessions complete, a drain empties its node, a closed engine ends |
| `PlatformSettles` | recordings, receipts and mail are settled, the last purchase is found, endpoints recover, Close returns |
| `EventsReachEndpoints` | every event settles at every enabled endpoint |

Why the bounds are enough. Calls interact only through the two lease sets,
which two calls and a limit of one exercise; every other conflict is between
the operations on one call (request, handler, job, second worker), all of which
the one-call scenarios contain. Two faults allow a failure and a second one in
its compensation or recovery; two routes are needed for a retry, and two
channels so that the retry has a fresh UUID. In the pipeline, events and
deliveries do not interact except in a batch, whose rows are handled one by
one, and the theorems of section 4 hold for batches of any size. Two workers,
two attempts and two faults reach a send by both, a retry and an expired lock;
`MaxDeliver` of 2 reaches the limit, and in the liveness run 3 exceeds what the
faults can use up.

In `voice_agents`, two nodes of capacity one and two sessions make placement
compete, spill over and fail; two placers interleave a placement with a release.
Two faults are a drain and a crash, or a stall during which the drain begins;
faults, placements and releases are three together (`NodeEvents`). Two secrets
let a credential be rotated while a session uses it.
One session object with five threads reaches every order of finishing; two tool
calls and a buffer of one fill it. Two transcriber events and one tool call give
an utterance, an interruption and a tool result in every order, with channels of
length one so that every send can wait; a session with tools is looked at
without provider failures and with one item less. In `liveness` a
response may ask for two tools, and only the last result starts the next one. The agent has two sessions
because a failed attach makes a second one on the same channel, and two faults:
a crash and a failure in what follows. Two executors, two requests, two
ingesters and two integrations are the smallest numbers that conflict; three
trunks pass a plan of two. In `platform` the pairs of processes of each kind
share their names, so that one permutation exchanges all of them: `focus` lets
only one kind run. Three requests of one key are an owner, one that takes over
and one that replays.

The event, voice, platform and liveness runs allow the system to stop
(`CHECK_DEADLOCK FALSE`): when all work is settled and the bounds are used up
nothing is left to do. In the call runs the reconciliation job ticks for ever,
and deadlock is checked.

Fairness. The calls' job is a ticker loop that is never left, and each of its
steps has a timeout: weak fairness of `Reconcile`. Each channel has its own
goroutine: weak fairness of its handler. A request that has started keeps
running unless its process dies: weak fairness of its steps, not of its start,
and none of failures, of FreeSWITCH or of callers. Redis expires what nobody
renews. `LivenessFairness` follows the same rule: loops, jobs, goroutines that
can go on, timers and expiries are weakly fair, because a process that ends is
restarted by its container policy (`restart: unless-stopped` in
`src/deploy/compose`); callers, carriers, administrators, the payment and mail
providers and FreeSWITCH owe nothing.

### Findings

1. `outbound_abandoned`: a process that dies between attribution and dialling
   leaves a row 'initiating' with a trunk; the job renews its leases for ever.
2. `inbound_race`: two workers admit one dialog under a lease named by the
   channel; the loser of the SIP Call-ID constraint releases it, the winner's
   rename fails, and the call is marked failed and hung up.
3. `esl_reconnect`: a connection that is lost again before the reconnect loop
   that made it has cleared its flag is never made again.
4. `identity_order`: two identity events applied at the same time do not see
   each other; the older one may write the profile last.

Weaknesses met on the way that contradict no document of the repository are
not findings; the main ones are hazards with a note in `PROJECT.json`. Those the
models reach: a lease that is renewed after the cleanup of its call and stays 26
hours; a trunk's limit that is passed when the job renews between attribution
and `Acquire`; a tool result that arrives while the engine closes its channels,
whose event is sent on a closed channel and panics (`panicked`); the pump that
waits for itself until Close; a failure event of the attachment timer although
it lost the race; a verification verdict on a secret that was rotated
meanwhile; an uploaded object that outlives its deleted recording; one failed
deletion of a recording that ends every loop of its worker.

## 4. Proofs

All theorems hold for every value of the constants that satisfies the
assumption of the module they are about (`CallAssumption`, `OutboundAssumption`,
`InboundAssumption`, `PipelineAssumption`, `MediaNodesAssumption`, ...). The
assumptions say that placeholders (`NoCall`, `NoWorker`, `NoSub`, ...) are not ids and that
calls are not channels; that limits and bounds are natural numbers, positive where
the configuration requires it; that the ids of nodes, mail workers, upload workers, the
engine's tool calls, roles and provisioned trunks are finitely many; that what is provisioned at
the start is within the plan; and which set a distinguished value is from (the
worker `Handler`, the user `Owner`, the webhook tools, the provider's statuses). TLC
evaluates them in every run. Nothing is assumed of the number of calls, channels, workers, requests,
failures or steps.

Every invariant is proved the same way: an inductive invariant, established by
the initial state and kept by every action, from which the property follows. Each
was checked with TLC before it was proved. With liveness aside, every property a
passing run checks is stated by a theorem (three inbound ones for one worker, see
below). A theorem about a safety property
starts from the specification without fairness (`BillingSafety`, `EngineSafety`, ...)
where the component's own specification has some.

### Calls

`CallCoreProofs` holds what every module on top of `CallCore` needs, stated
about `CoreStep`, the steps of the runtime: `CoreInv` is preserved
(`CoreInvStep`), the visible state changes through `mutate` only
(`CoreStepVisible`), channels keep their call (`CoreStepKeepsCid`), rows that do
not exist are not created (`CoreStepKeepsNoRow`). `CoreInv` adds to the types
that a running handler, and the second renewal of the job, have a call:
without it `row[lc.call]` is not a row. Three more invariants are what the leases
rest on: `CleanupInv` (whoever cleans up, handler, job or marker, does so for a
call that is over), `HangupInv` (a hangup event is of a channel that is gone, so
no lease is released under a live one) and `Linked(P)` (every pointer between
calls and channels, in Redis, in FreeSWITCH and in memory, names a pair of `P`:
`P` is what was dialled for outbound calls, the rows' dialogs for inbound ones).

`OutboundCallProofs`:

- `TypeCorrect`: `Spec => []TypeOK`, from the inductive `TypeInv` (`CoreInv` and
  the type of the requests; `NextRouteType` shows that the plan is not overrun);
- `NeverDialledTwice`: `Spec => []AtMostOneOriginate`. Not inductive by itself:
  it must be known that a request that may still dial has no channel yet. The
  strengthening `OriginInv` says that a channel that names a call is the one its
  request chose, and that this request is past its originate;
- `RefinesLifecycle`: `Spec => ImplementsLifecycle`. Every step either leaves
  rows and events alone, or is `CreateRow` (an abstract Begin; `StartInv` says
  the row does not exist before it), or is `mutate`, whose guard and event map
  to Advance, Finish or SetMedia;
- `LeaseInductive`, `ChannelsHoldLeases`: `Spec => []LiveChannelHoldsLeases`.
  `LeaseInv` says, for each program counter of a request, which leases and which
  row it has (`RequestHolds`), that its channel is that of its attempt
  (`RequestChannel`), and that a channel that may be up belongs to a running call
  with both leases (`ChannelHolds`). The property leaves out calls whose bind
  failed, as the run does: Create releases their leases;
- `AdmissionRespected`: `Spec => []OrgAdmissionRespected`. `CountInv` counts the
  holders (calls that have, or may come to have, a channel), each of which has a
  lease, and a new one is admitted only while there are fewer leases than the limit;
- `ObservedAttemptsAreBound`: `Spec => []ObservedIsBound`, from `ReachInv`: handler
  and job mark an attempt only after they have bound its channel, and no cleanup
  of a running call takes the binding away.

`InboundCallProofs`:

- `InboundTypeCorrect` and `InboundRefinesLifecycle` are about any number of
  workers: `RowInv` adds that an admission that has a call has a row that exists,
  whichever worker made it;
- `DialogsNeverMix`: `Spec => []DialogsStayApart`, for any number of workers. A
  dialog has one call, and each of the pointers between channels and calls (the
  channel variable, the two bindings in Redis, the calls that admissions and
  handlers have in hand) stays inside its dialog, however the workers race, lose
  and undo. `SharedInv` is what survives a second worker: `DialogInv` (the unique
  SIP Call-ID: two rows that exist have different dialogs), `WorkersInv` (an
  admission that has a call has the row of its dialog, be it the winner, a loser
  or a reuse) and `WorldInv` (`Linked` for the pairs that rows and dialogs make,
  with `CleanupInv` and `HangupInv`);
- `SoloInductive`, `AdmittedAreCounted`, `AdmittedAreReachable`, `InboundLimitsHold`
  assume one worker (`Workers = {Handler}`). This is not a convenience: with two,
  the compensation of the losing admission releases leases under the winner
  (`inbound_race` shows it), so a call that goes on may be without them.
  `inbound_concurrency` shows what two workers still guarantee.
  `SoloInv == SharedInv /\ AdmissionInv`, and `AdmissionInv` follows the admission step
  by step: under which name (channel or call) each lease is held, and that the row of
  its dialog does not end under it.

### Events

`EventPipelineProofs`, from the inductive `PipelineInv`, whose parts besides the types are:

- `Handover`: each stage gives an event up only after the next one has it
  (a publication that succeeded is stored, a published row is stored, an
  acknowledged message and a committed transaction are ingested);
- `DeliveryInv`: one message per worker, one open transaction per event, whose
  deliveries do not exist yet (otherwise a commit could overwrite a settled
  one); a locked delivery is open; a sender's claim is real, is not ahead of
  the attempt count, and carries an answer the endpoint gave;
- `PipelineTypeCorrect`, `EventsNeverLost`, `OutcomesTrue` and
  `SettledStaysSettled` (an action property) follow;
- `PipelineKeepsContract`: `Spec => ImplementsDelivery`, every step of the pipeline is
  a step of `EventDelivery` or leaves what it shows alone. Besides these
  parts the mapping needs that everything on its way was committed (`OnlyCommitted`), that no
  attempt is counted before the delivery exists (`NoneUntried`), that an answer is to
  an attempt that was counted (`AnswersCounted`), and that the attempt a sender has
  claimed has no answer yet (`ClaimsUnanswered`). The last is not obvious: an attempt's
  number is the only thing that tells two senders of one delivery apart, since every
  process locks under the same name, and it does so only because the claim counts
  the attempt before anything is sent;
- `ContractIsHonest`: the contract by itself implies that outcomes are true and that
  only the customer's retry reopens a settled delivery, so the run that checks the
  refinement checks these too.

`EslClientProofs`: `ClientInductive`, `RepliesAndSubscriptions`. A reply goes to its
command because of `PairInv` (on a connection that is not retired there is one
command or one reply at most, and it is of whoever waits) with `MutexInv` (who waits
holds the command mutex). A ready client is subscribed because of `OrderInv` (`main`
subscribes once, as the last thing it does, so what a reconnection restores does
not change under it) and `RestoreInv` (a connector's command that succeeded has
subscribed its connection, which is the present one or retired); `HeardInv` then says that what is
subscribed is heard on the connection that is ready or about to be marked so.
`EslTypeCorrect` adds `EslRest`: the flag `reconnecting` is set exactly while the loop
has not ended (`FlagFollowsLoop`), also when that loop has nothing left to do but end:
the fact behind finding 3.

### The voice agent

`MediaProofs`:

- `NodesInductive`, `PlacementIsSound`: leases and owner keys name each other, the
  lease set of a node can be counted and stays within its capacity. `DrainHolds`
  says that, unless a stall or an older heartbeat undid it, no heartbeat that denies
  the drain is under way and the draining key is there once it was set;
- `MediaInductive`, `MediaSessionsAreSound`, `TimerSparesAttached`: `ThreadInv` says
  for every place a goroutine can be what of its session is closed: who is past
  `finishResources` finds its resources closed, who removes a session finds it
  complete, and a timer that is closing a session finds it not attached, from which
  the action property follows. `ControlInv`: a worker at the control channel has been
  sent every tool call that waits for a result;
- `EngineInductive`, `EngineIsSound`: `FenceInv` (the current response can still be
  canceled), `AnswerInv` (its goroutine has not ended; a stale one sends at most one
  item), `BaseInv` (the conversation still ends with what it was made from, but for
  results of older calls), `AwaitInv` and `MessageInv` (a result that is awaited was
  asked for, once, by a response that has ended). `GenerationInv` counts: every
  generation is paid for by a transcriber event (two at most), by a result or by
  the end of `run`. It is why `Gens` is large enough for every behaviour, so no step
  of the model is cut off by its own bound;
- `NodesTypeCorrect`, `MediaTypeCorrect`, `EngineTypeCorrect`: the types, with the
  engine's channels inside their buffers.

`VoiceAgentsProofs`:

- `ToolsInductive`, `ToolTypeCorrect`, `ToolEffectsAreSound`: one executor holds the
  claim of an execution (`OneClaim`), it is recorded before the endpoint is called
  (`ClaimIsRecorded`), and a call that is not yet sent has had no effect (`NotYet`);
- `UploadInductive`, `UploadsAreSound`: objects lie at the pin of their row, and what
  a job or a deletion has in hand (`JobInv`, `DeleteInv`) agrees with it although its
  lease may be over;
- `RecordingsTypeCorrect`: how many attempts an upload takes. The limit is compared
  with the row a worker read together with its claim, so workers whose claims have
  expired may each put the row back once more. `AttemptsInv` counts the workers that
  still would (`Eager`): attempts, eager workers and two are no more than the limit
  and the number of workers, which for one worker is the limit the code means;
- `SessionsInductive`, `OneForkPerChannel`, `TurnsDoNotCollide`: `ForkInv` says that
  there is a single fork, that while a handler or a recovery attaches there is no
  other, and that afterwards the channel variable names the fork's session; only a
  connection that was not lost delivers the answer to an attach. `TurnInv` says that
  the next sequence lies above every turn that is written or on its way, also for a
  recovery that has read the turns and not yet registered;
- `ConfigInductive`, `ConfigurationIsSound`: `CountInv` (only a deployment that holds
  the organization's row has agents that are not committed, and with the rows they
  are within the plan), `CredentialInv` (a credential that a binding, or a deployment
  that has not committed, names exists), `SnapshotInv` (a snapshot is the
  configuration of an earlier revision, or the present one);
- `VoiceTypeCorrect`, `VoiceIsSound`: the eight components together. `VoiceComponents`
  shows that a behaviour of the composed run is a behaviour of each component (a step
  of the whole is a step of each or leaves its variables alone), so the theorems above
  hold of the whole, `VoiceTypeOK` included.

### The platform

`PlatformProofs`:

- `SignInInductive`, `SignInIsSound`: `LockInv` (who presents the session's token
  holds its lock), `TokenInv` (the provider is ahead of the row only between a
  rotation and its commit) and `AttemptInv` (a login attempt is taken once);
- `IdempotencyInductive`, `IdempotencyIsSound`: a key that is processing without a lock
  has lapsed (`UnlockedHasLapsed`), so a second execution needs a lapse;
- `TrunksInductive`, `TrunksAreSound`: `CapacityInv` (one creation at most is past the
  count, and there is room for it), `CreationInv` (its row does not exist and is no
  other creation's) and `NumberInv` (no two active rows have the same number);
- `BillingInductive`, `PaymentsAreSound`: rows and requests carry what the provider
  said at the moment they are dated with, also those that a recovery fetched
  (`RequestInv`), and a request that its row would still take has its grace period
  in its own past; `ReceiptInv`: a receipt is applied at most once, and only settled
  ones are;
- `TenancyInductive`, `TenancyIsSound`: `OwnerInv` (nobody is a member before there is
  an organisation, and then there is one owner), `MailInv` (what was sent of a mail,
  and the workers that will still send it, are no more than its attempts);
- `TrunksTypeCorrect`, `BillingTypeCorrect`, `TenancyTypeCorrect`, and, through
  `PlatformComponents`, `PlatformTypeCorrect` and `PlatformIsSound`: the five components
  together, as above.

### Only model-checked

- Liveness (`liveness`, `outbound_liveness`), which is beyond the prover: no rule for
  fairness and ENABLED.
- The inbound leases (`AdmittedHoldsLeases`), reachability (`AdmittedIsReachable`) and
  limits (`InboundLimitsRespected`) for several workers. They are proved for one worker
  and are false for several in general: the compensation of a losing admission
  releases the leases that both hold under the channel's name; after an error at the
  channel the leases go before the call is marked failed, while another admission may
  just have reused it; a reuse refreshes, and a refresh adds the lease without comparing it with the limit;
  a failed write of the channel variable deletes the binding the other has made. What
  remains true under the failures of `inbound_concurrency` depends on its bounds.
- The counterexamples of section 3.

## 5. Not modelled, and the plan

Not modelled, with reasons, in `PROJECT.json`: data-plane I/O (audio transport,
the realtime and echo engines, protocol clients), read-only services, checks
without state, generated list queries and the user interface.

What is left to prove: which of the inbound lease properties survive a second worker,
stated with the condition that no compensation is under way; that `MediaSession`
shows its clients what `AgentSession` takes a media node to be. Both need a
statement the code does not make by itself: the first a protocol among workers, the
second an interface between the media node and its clients that fixes which
answers a client may lose.
