# Norify in TLA+

Norify sends notification campaigns: a campaign is started, fanned out to send
jobs, and each job is delivered through a channel stub, with retries, while
operators stop, cancel, archive and repair campaigns. The services are Go
programs around Postgres, RabbitMQ and Redis; their shared state lives there,
so the hard part is what their steps do in an order nobody planned.

This directory specifies that part, checks it with TLC on small instances and
proves its safety for all instances with TLAPS. `PROJECT.json` maps every
definition to the lines it models and lists runs, mutants, hazards, findings
and theorems.

## Inventory

| Component | State | Operations | Hard because |
|---|---|---|---|
| campaign fan-out: `campaign-service`, `dispatcher-service` | `campaigns.status`, `archived_at`; `campaign_dispatch_state` (cursor, lease, `completed_at`, `updated_at`); queue `campaign.dispatch.request` | start with rollback, stop, cancel, archive, retry; claim, publish, complete, continue; recovery loop; `ensureSchema` at each start of the service | leases run out under a working dispatcher; wakeups are lost or redelivered; every step can be cut by a crash |
| delivery pipeline: `sender-worker`, `retry-failed` of `campaign-service` | `message_deliveries`, campaign counters, `message.send`, `message.send.retry`, Redis delivery locks | lock, check campaign, check row, send, upsert, recount, route failure, release; claim failed rows, publish, restore | at-least-once delivery under a lock with a TTL; statements that read in one snapshot and write later |
| error groups: `campaign-service` | the same tables | retry, cancel and switch a group of failed rows | rows are rewritten by key, without their status |
| publisher of `campaign-service`, `runtime/reconnect.go` | one channel behind a mutex, the connection it came from | connect, store, watch, clear, publish, reset, reconnect | goroutines of an old connection end late, beside those of the new one |
| worker pool: `sender-worker` | map of workers, min and max | start, read depth, launch, stop, deferred delete | goroutines outlive their map entry |
| channel configuration: `channel-service`, `sender-worker`, `ops-gateway` | row of `channels`, copy in Redis, copy per worker process | PATCH, enable, disable with read-back; read through | three copies, written by several processes from what they read earlier |
| statistics hub: `stats-service` | latest snapshot, a two-place channel per stream, one-place signal | refresh, signal, subscribe, stream | coalescing and dropping; a load overlaps with changes |
| worker jobs: `ops-gateway` | row of the job, `queued_jobs` and `processed_result_keys` of each replica | create job, apply result | state read before an await and stored after, by several replicas |
| templates: `template-service` | map and table | create, update, delete, load | two copies, one saved outside the mutex |
| progress snapshots, health, scaling: the rest of `ops-gateway` | snapshots in memory and Redis | progress event | several replicas merge what they read |
| progress arithmetic: `go-common/campaigns`, `reliability` | none | batches, p95, progress, retry decision | edges |
| auth, user, notification-error, template-generator, frontend, infrastructure | none shared | - | - |

What makes each of them correct:

- *Fan-out*: no recipient is skipped, whoever moves the cursor; a dispatch is
  complete only when all recipients were published, or when the campaign was
  cancelled before the first of them; nothing is published twice unless a lease
  ran out; an active campaign is fanned out in the end, whatever wakeups were lost.
- *Delivery*: a result that was sent or cancelled is final; attempts never go
  back; two workers are at one delivery only when the lock has failed; no
  delivery is forgotten except where the code drops a job; a campaign is
  finished exactly when its deliveries are processed, and a stopped one is
  not finished behind the operator's back.
- *Error groups*: a row is given up only for a replacement that is on its way.
- *Publisher*: it comes back after whatever closed its channel; what is left of an
  old connection does not take away the new one, nor leave it open unused.
- *Worker pool*: the map counts workers that live and stays within its bounds;
  whatever runs outside the map was told to stop, and ends.
- *Channel configuration*: a stale copy needs a race or a failed call, and does
  not last; a channel that is disabled is not used (which does not hold).
- *Statistics hub*: no signal is forgotten, and every stream comes to show every
  change although full channels drop snapshots.
- *Worker jobs*: a job is published once and one result of it is counted, whichever
  replica is asked and whatever it has forgotten.
- *Templates*: between requests the row is what the service shows, in every order
  of writes and restarts in which nothing failed and no save came late.

The parts interact as follows. `campaign-service` fills `campaign.dispatch.request`
through its publisher; dispatchers turn a wakeup into jobs in `message.send`;
the worker pool's consumers turn jobs into rows, counters and events, looking up
the channel's configuration for each; `stats-service` and `ops-gateway` follow the
events. `ErrorGroups` is composed with `Delivery`. The others are joined only by
data that the models abstract (a snapshot's figures, a retry limit, the
channel a publish goes through), so each has a module and none of them shares a
variable.

## Modules

| Module | What it is |
|---|---|
| `Dispatch` | the fan-out of one campaign: start handlers, other campaign operations, recovery loop, dispatchers, faults and time |
| `OrderedFanout` | the abstract specification it implements |
| `MCDispatch`, `MCDispatchRollback` | instances for TLC; the second adds a history of the status a start found |
| `DispatchProofs` | theorems about `Dispatch` |
| `Delivery` | the send jobs of one campaign: sender workers, Redis lock, rows, counters, retries, operators, faults |
| `MCDelivery` | its instances for TLC |
| `DeliveryProofs` | theorems about `Delivery`: types, lock, attempts, sends, finishing |
| `NotForgottenProofs` | continues it: no delivery is forgotten |
| `ErrorGroups` | extends `Delivery` by cancelling and switching a group of failed deliveries |
| `MCErrorGroups` | its instances for TLC |
| `ErrorGroupsProofs` | theorems about `ErrorGroups`, and those of `Delivery` that hold with its operations beside |
| `StatsHub` | the hub of `stats-service`: queries, refreshes, signals and streams |
| `Publisher` | `campaign-service`'s channel `mq`, `RunWithReconnect` and the callers that publish |
| `WorkerPool` | the pool of consumers of one `sender-worker` |
| `ChannelConfig` | one channel's row and its copies in Redis and in the workers |
| `TemplateStore` | one template's map entry and row |
| `WorkerJobs` | one worker job of `ops-gateway` and its results, on several replicas |
| `MCServices` | the instance of these six for TLC |
| `StatsHubProofs`, `PublisherProofs`, `WorkerPoolProofs` | theorems about each |
| `SharedRowProofs` | theorems about `ChannelConfig`, `TemplateStore` and `WorkerJobs`, in each of which a row is shared by processes that keep copies |

### Dispatch

One campaign with recipients `1..Total`. Variables are the columns the code
uses, the number of ready wakeups (a wakeup is just a campaign id), and one
program counter per goroutine: `at[h]` for a start handler, `pc[d]` for a
dispatcher, `recovery` for the loop. A wakeup that was taken and not yet acked
is `d \in holders`; a dispatcher that works on without being a holder has lost
its connection.

- `POST /start` is `TransitionCampaignToRunning` (an atomic UPDATE),
  `UpsertDispatchState`, `PublishDispatch`; an error of either of the last two
  leads to `RollbackStart`.
- A dispatcher goes `Receive`, `Throttle` or `ClaimSnapshot`, then
  `ClaimRefused`, `ClaimExhausted` or `ClaimWindow`, one `PublishRecipient` per
  recipient, `CompleteWindow` or `CompleteMismatch`, `ContinueDispatch`, `Ack`.
  Claiming takes two steps because the campaign's columns are those of the
  statement's snapshot while only the state row is locked.
- The recovery loop is `RecoverMissingState` (its INSERT), `RecoverDispatchWakeups`
  and `TouchRecovered`.
- `EnsureSchema` is what a restart of `campaign-service` does to the row of
  `campaign_dispatch_state`: when the campaign has none it inserts one, completed if the
  campaign is cancelled.
- Faults are limited to `MaxFaults`: a handler or dispatcher dies or a call it
  makes fails, a publish without confirms is lost, the answer of complete is
  lost, a connection is lost. Leases run out and `updated_at` gets old at any
  moment and without limit.

Abstracted: the template, batches within a window (they only group samples),
durations and p95, the send priority. `createCampaign` inserts no row of
`campaign_dispatch_state`: `stateRow` says whether there is one. While it is missing
its columns have their defaults, and a start, a claim, a recovery or a restart inserts it.
A finished campaign has a row, because workers finish campaigns by
deliveries that were fanned out, except one that is older than the table, which is left out.
`channels` is the channel count of the widest recipient, which
switching an error group may raise. Wakeups beyond `MaxWakeups` are merged:
a wakeup carries no data, those that dispatchers hold are not counted, and with
one more waiting both dispatchers can be at work at any time.

`OrderedFanout` has a cursor, the set of published recipients and the flags done and
cancelled. It is done at its end only, or when it is cancelled with nothing published;
nothing is published of one that was done before its end, until a start reopens it.
`ImplementsOrderedFanout` maps them to `nextRecipient`, `published`,
`completedAt` and `status = "cancelled"`.

### Delivery

The campaign is running from the start, its jobs wait in `toDispatch`. A job is
a key and an attempt; queues count the copies of each. A worker's program
counter follows `processWithPublisher`: every database or Redis statement is
one step. `ReadRow` and `Upsert` are two statements of `writeDelivery`;
`Recount` and `RefreshCounters` are one statement of Postgres, split because it
counts in its snapshot and writes when it gets the campaign's row.
`HasRetry` sends the next attempt to `message.send.retry`, even when the upsert
changed nothing, as the code does. `retry-failed` is `ClaimFailedRows` (one
transaction), `PublishRetry` per row, and after a failure `RestoreRows` and
`RestoreCounters`.

Faults, each a member of `FaultKinds`: a window is published again, Redis or
Postgres does not answer, a process dies, a connection is lost, a job or a
publish is lost or fails, the provider is slower than the lock's TTL.

Wherever the code drops a job, a retry or a recount for good, the model records
the key in `lost`: the redelivery meets a lock, the campaign is not active, the
recount or routing after a committed upsert does not happen, a publish is lost.
`NoDeliveryForgotten` says that these are the only places. It does not say that they are
right: the drops themselves are hazards that `PROJECT.json` lists, most of them without a property,
because the repository promises nothing of a job that was acked so. What is
checked of them is their consequence, that a campaign is not finished over a delivery
that was dropped before its result (`FinishedWhenProcessed`).

`Dispatched` are the keys of the dispatcher's jobs, one per message of
`total_messages`. It differs from `Keys` only in `ErrorGroups`, where switched
deliveries bring keys of their own.

Abstracted: the channel and its configuration (the retry limit is constant),
status events and progress events, the dead-letter queue, which nobody reads.
Templates, error texts and times are no part of the state. Archiving does not
change what a worker does.

### ErrorGroups

The failed rows of a group are found by a plain SELECT (`FindCancelled`,
`FindSwitched`) and rewritten later by key. A cancel is `MarkCancelled` and
`CountCancelled`, two statements. A switch publishes one job per row under the
key `SwitchKey[k]` (`PublishSwitched`; an error ends the request), then
`MarkSuperseded` and `CountSuperseded`, which sets the campaign running. A row
that was superseded has status `cancelled`, as in the code. Every action of
`Delivery` goes on beside it. One request is handled at a time, and which
failures form a group is the constant `Groups`. To retry a group is
`ClaimFailedRows` of `Delivery` with a filter. The channel that a switch adds to the
campaign is `AddSelectedChannel` of `Dispatch`.

`ReplacementNotForgotten` says that a row is given up only for a replacement that is
on its way, resolved, or dropped where workers drop jobs: a request that fails
half-way may publish too much, never too little.

### StatsHub

A snapshot is a pair of versions: what the query of the campaigns saw and what
those of the deliveries saw, because `loadSnapshot` uses no transaction.
`Change` is a change of the database with its status event,
`ConsumeStatusEvent` its arrival, in any order, which calls `signal`. The loop
of `run` is `Tick` or `TakeSignal`, `LoadCampaignAggregates("hub")`, then
`Refresh`, which stores the snapshot and sends it to every stream that has a
place (`Send`), or `RefreshFails`. A stream goes `Subscribe` (the latest snapshot is put into its
channel), `Current` or, when there is no latest yet, a load of its own (`LoadOwn`,
`ShowOwn`, `LoadOwnFails`), then `Receive` until `Disconnect`. What `current` loads is kept
as `latest` by `KeepLatest`.

### Publisher

A channel is a number, the newest is `opened`; `mq` is the one in use or 0.
`Dial` and `Reconnect` are the loop of `RunWithReconnect`; `function[ch]` is the
goroutine that runs `startCampaignPublisher`'s function on channel `ch`:
`SetPublisher`, `NoticeClose`, `ClearPublisher`. The loop does not wait for it when
the connection is lost, so functions of several channels can be about. A caller
of `publishWithPublisher` takes a channel (`CurrentPublisher`), publishes, and after an
error resets and closes (`ResetPublisher`, `CloseChannel`). Faults are `BrokerLost`,
`ChannelLost` and `PublishFails`, up to `MaxFaults`.

### WorkerPool

`run` is `Start`, `ReadDepth` (without the mutex), then `ScaleUp` or `ScaleDown` under it, and
`StopPool` after `Shutdown`. A worker has two goroutines: the one
that was launched, `goroutine[w]`, which returns when its context is done and then
deletes its entry (`Return`, `Unregister`), and its consumer, `consuming`, which
`RunWithReconnect` starts and does not wait for. `killOne` takes the newest
worker off the map and cancels its context; which is `Newest`.

### ChannelConfig

A configuration, of the row or of a copy, is `enabled` and a retry limit; `Absent` is no copy.
Workers and `ops-gateway`
are fillers: `Miss`, `RedisHit` or `RedisMiss`, `ReadPostgres`, `StoreRedis`, one step
for every call. A change is `Update` (or `UpdateFails`), `ReadBack`, `CacheWorkerChannelConfig`. `FromCache` is what
`configFromWorkerCache` makes of a cached limit: 0 becomes 3. A lookup that finds no enabled
row takes `DefaultConfig`, which is enabled; `ops-gateway` stores it in Redis, a worker does
not. `outdated` and `stale` are histories: who has in hand what the row does not say, be it that the
row changed since or that it is the default of a disabled channel; and whether
such a value, or a failed call, decided what Redis holds.

### TemplateStore

POST stores in the map and, after releasing the mutex, saves (`Create`,
`SaveCreated`); PUT does both under the mutex (`Put`); `Delete` leaves the row. `Reload` is
a restart: it loads the row, or Postgres is not there (`dbOpen`, and then nothing is saved
either), or the query or the scan fails, and the process serves an empty map. The
histories are set by the steps that do it, never by comparing: `overtakenPosts` are the POSTs
since whose write the map was written again, and `rowStale` says that the last save
or load failed or came late, or that the template was deleted. A write of the map
does not clear it, a save of what the map holds does.

### WorkerJobs

A request is `Call` (the lookup in `queued_jobs`), `WriteQueuedJob` (the insert, or no
insert when the row is there), `Remember`, `PublishWorkerJob`; a consumer of results
is `TakeResult`, `WriteDeliveryResult`, `RememberResult`, once per replica and queue. A failing call leaves the message to
be delivered again; `RestartReplica` empties the dictionaries and gives back what the replica
had not acked.

## Runs

| Run | Instance | Shows |
|---|---|---|
| `Dispatch_safety` | 3 recipients, 2 messages per tick, up to 2 channels, 2 dispatchers, 1 start handler, at most 1 wakeup waiting, 1 fault | `TypeOK`, `NoRecipientSkipped`, `CompletedCoversAll`, `UnexpiredClaimsDisjoint`, `DuplicateNeedsExpiry`, `CursorNeverBack`, `ImplementsOrderedFanout` |
| `Dispatch_liveness` | 2 recipients, 1 message per tick, 1 or 2 channels, 1 dispatcher, 2 faults | `ActiveIsFannedOut` |
| `Dispatch_rollback` | 1 recipient, 2 start handlers | `RollbackRestoresStatus` is violated |
| `Delivery_lock` | 1 key, 2 workers, attempts up to 3, manual retry, 3 faults of any kind | `TypeOK`, `ProcessedByOne`, `SendsBoundedByFaults`, `NoDeliveryForgotten`, `TerminalRowsProtected`, `AttemptNeverBack` |
| `Delivery_finish` | 2 keys, 2 workers, stop, start, cancel, 1 fault (a failed statement, a crash or a failed publish), fair | `NoDeliveryForgotten`, `FinishedWhenProcessed`, `StopNotOverwritten`, `RunningFinishes` |
| `Delivery_restore` | 1 key, stop and manual retry, a failed publish | `StopNotOverwritten` is violated |
| `ErrorGroups_switch` | 1 key and its replacement, 2 workers, attempts up to 2, manual retry, 1 failed publish or crash | `GroupTypeOK`, `ReplacementNotForgotten` |
| `ErrorGroups_cancel` | 1 worker, manual retry, no faults | `TerminalRowsProtected` is violated |
| `ErrorGroups_finish` | 2 keys and the replacement of one, 1 worker, no faults | `FinishedWhenProcessed` is violated |
| `ErrorGroups_resume` | 1 key and its replacement, 2 workers, no faults, fair | `CompleteFinishes` is violated |
| `ChannelConfig_disabled` | 1 worker, 1 gateway, 1 administrator, 1 update, no failed call, fair | `DisabledIsNoticed` is violated |
| `Services` | the six components of `MCServices`, fair | `HubTypeOK`, `SignalKept`, `BackOnlyAtOpening`, `StreamsCatchUp`; `PublisherTypeOK`, `LiveSlotKept`, `PublisherComesBack`; `PoolTypeOK`, `PoolBounded`, `NoneUnsupervised`, `CancelledEnds`; `ConfigTypeOK`, `StaleOnlyByRace`, `ConfigsConverge`; `TableFollowsStore`; `JobTypeOK`, `PublishedOnce`, `JobNotForgotten`, `AppliedOnce`, `ReportsApplied` |

`MCServices` extends the six modules. They share no variable, and the initial state
chooses the one that takes steps: what holds of every behaviour of `MCServices` holds
of each component alone, and TLC need not multiply their states. The fairness of
each module is stated again for the component that runs.

*Bounds.* Three windows and two dispatchers give a first, a middle and a last
window and every pair of claims, current or stale; two channels make the window
size change between a claim and its completion. One fault on top of free
expiry already gives three claims of one window. For a delivery, two workers
and three attempts let a stale attempt, its successor and a manual retry be
about at once; the lock, the rows and the counters of different keys meet only
in the counters, for which two keys are enough to make a count stale. Workers,
dispatchers, handlers and keys are interchangeable, which the symmetry sets of
the safety runs use. `Delivery_finish` follows liveness, so it has no symmetry, and its
faults are those after which a worker or the broker has to go on; the other kinds are in
`Delivery_lock`. The liveness run of `Dispatch` has two channels for one message per tick, so that a window's size is
0 and raised to 1, without which the fan-out would not move. It has one dispatcher: a
second can only help, or be the reason that a lease is live until it expires,
which a dispatcher that dies gives as well.

`Services`: one stream and two changes fill a channel of two places and overflow it
while a load overlaps with a change; one load fails. Two callers, three channels and
two faults let two callers fail on one channel or on two, with the functions of two
old channels about. A pool of 1 to 2 workers with depths no answer, 1 and 5 asks for too
few and too many, and four launches are scaling up, down and up again while the
first to be stopped is still ending. One worker, one gateway and two
administrators write to Redis, with limits 0 and 1, two updates and one failing
call; the gateway and the second administrator do not overlap, and both overlap with
the others. Two creators, three versions and one failed save or load make two saves
overtake each other and a PUT, and a restart lose the row or the connection. Two replicas, two requests, two results and two faults
make every request meet the other, and a result be delivered again to the other replica.

*Deadlock* is checked for `Dispatch`. `Delivery` and
`ErrorGroups` really stop: when every job was resolved or dropped nothing is
left to do, so `CHECK_DEADLOCK` is off there. It is off for `Services`, where
the bounds end what clients, ticks and faults would go on doing.

*Fairness.* `Dispatch`: a dispatcher that can take its next step takes it, the
clock goes on, the recovery timer fires again and again, and a consumer is not
throttled for ever because senders drain `message.send` (strong fairness on
`ClaimSnapshot`). Start handlers are not fair: a request may die at any step,
and the recovery loop must do without it. `Delivery`: workers, the broker's
retry delay, lock expiry in Redis, the dispatcher and a retry handler that has
begun. `ErrorGroups`: the same, and a group request that has begun. Operators
and faults are never fair.

`StatsHub`: the ticker fires, Postgres answers, a stream's goroutine goes on until
its channel is empty; events need not arrive. `Publisher`: RabbitMQ can be reached
again, the loop, the functions and the callers go on. `WorkerPool`: a goroutine whose
context is done, or whose connection is closed, returns; nothing else is needed. `ChannelConfig`: both copies
expire, since each has a TTL, and a lookup or request that has begun goes on.
`WorkerJobs`: a result that waits is taken by some replica, and a handler that
has begun goes on; requests are not fair. `TemplateStore` has no liveness.

### What the runs show of the code

Six things the repository states of the program do not hold:

1. `Dispatch_rollback`: the rollback of a start compares only with `running`.
   Start A runs, stop, start B runs, A's publish fails: A writes `created`
   where the campaign had been `stopped`, and it takes B's run with it.
2. `Delivery_restore`: `restoreQueuedRowsFailed` writes `finished` over a
   campaign that was stopped while the retry was being published.
3. `ErrorGroups_cancel`: a group is cancelled by the keys found earlier. A
   retry that claims and sends such a row in between is overwritten: the
   delivered message is shown as cancelled.
4. `ErrorGroups_finish`: after a switch the superseded row counts as processed,
   and so does its replacement, while `total_messages` has one for both. The
   campaign is finished while another delivery has had no result.
5. `ErrorGroups_resume`: the replacement is published before the campaign is
   set running. A worker that takes it first drops it, or processes it before
   the counters are lowered. The campaign stays running, all processed.
6. `ChannelConfig_disabled`: a worker whose copy ran out finds no enabled row and
   takes the default, which is enabled. However long the channel stays disabled,
   the worker has an enabled configuration again and again (ISSUE-13 of
   `docs/critical_issues_review_after_updates.md`).

More facts came out of the bounds. With a manual retry whose publish fails, a
worker's recount may read its snapshot while a row is queued for the retry; the
row is restored, the recount then lowers the counters, and the campaign stays running with all
deliveries processed: `CompleteFinishes` fails in `Delivery` alone, too. Such a stale count
also breaks `FinishedWhenProcessed` when there are manual retries, which is why
`Delivery_finish` has none. And without the excuse of `lost`,
`NoDeliveryForgotten` fails in many ways, the shortest being a worker
that dies: its job is redelivered before its lock runs out, and acked. A row
that is retried and switched at the same time is delivered under both keys;
nothing in the repository promises otherwise.

`Services` needed its excuses too; the repository contradicts none of them:

- A goroutine of an old connection that is scheduled only after the next connection was set up
  stores its closed channel over the open one and then clears it. `mq` stays nil
  until the open channel fails (`overtaken`), which `LiveSlotKept` and `PublisherComesBack` except.
- A retry limit of 0 is 0 for a worker that read Postgres and 3 for one that
  read Redis, so workers may differ for as long as the copies live.
  `ConfigsConverge` speaks of positive limits only, since nothing says which of
  the two a limit of 0 should be, and of enabled channels, since disabled ones are the sixth of
  the list above.
- `ops-gateway` stores the enabled default of a disabled channel in Redis, where workers
  find it; `StaleOnlyByRace` counts that as stale.
- A worker job whose publish failed, or whose request ended after the insert, is never
  published: later requests find the row (`dropped`).
- A stream may show an older snapshot after a newer one, once, when it opens.
- A template that was deleted comes back with the next restart. A load that fails leaves a
  service that shows nothing of what campaigns read (`rowStale`).

These excuses are recorded where the code does it, by the history variables `lost`, `dropped`,
`overtaken`, `stale` and `rowStale`. The properties that name them say that nothing else goes wrong;
they would not catch the excused case itself, which is why `PROJECT.json` links the hazard
to a property only where its consequence is checked.

## Proofs

Every invariant and every action property of the runs is stated by a theorem, and so is
the refinement; what stays with TLC is liveness. The theorems hold for every value of the constants within the named ASSUMEs of the
modules, which say that bounds are numbers, that sets of processes do not
overlap, and that those that are counted (keys, workers, replicas) are finite. `PoolAssumption` adds what the pool makes of the environment, a positive minimum
and no maximum below it (`newWorkerPool`) and a positive scale (`targetSizeLocked`), and that the bound on launches lets the pool start.

| Theorem | States | Assumes |
|---|---|---|
| `TypeCorrect` | `Dispatch`: `Spec => []TypeOK` | `ConstantsAssumption` |
| `NoSkip` | `Spec => []NoRecipientSkipped` | |
| `CompletedIsComplete` | `Spec => []CompletedCoversAll` | |
| `ClaimsExclusive` | `Spec => []UnexpiredClaimsDisjoint` | |
| `CursorMonotone` | `Spec => CursorNeverBack` | |
| `OnceBeforeExpiry` | `Spec => []DuplicateNeedsExpiry` | |
| `Refinement` | `Spec => ImplementsOrderedFanout` | |
| `DeliveryTypes`, `LockExcludesAll` | `Delivery`: `Spec => []TypeOK`, `[]ProcessedByOne` | `ConstantsAssumption` of `Delivery` |
| `TerminalRows`, `AttemptMonotone` | `Spec => TerminalRowsProtected`, `AttemptNeverBack` | |
| `SendsBounded`, `NothingForgotten` | `Spec => []SendsBoundedByFaults`, `[]NoDeliveryForgotten` | |
| `StopIsFinal` | `Spec => StopNotOverwritten` | `"retry" \notin Operations` as well |
| `FinishedMeansProcessed` | `Spec => FinishedWhenProcessed` | that, and `Keys = Dispatched` |
| `GroupTypes`, `ReplacementsGoOn` | `ErrorGroups`: `GroupSpec => []GroupTypeOK`, `[]ReplacementNotForgotten` | and `GroupsAssumption` |
| `LockExcludesInGroups`, `AttemptMonotoneInGroups`, `SendsBoundedInGroups`, `NothingForgottenInGroups` | `GroupSpec` implies those of `Delivery` | |
| `HubTypes`, `NoSignalForgotten`, `NoSecondStepBack` | `HubSpec => []HubTypeOK`, `[]SignalKept`, `BackOnlyAtOpening` | `HubAssumption` |
| `NewestOnly`, `OpenSlotKept` | `PublisherSpec => []PublisherTypeOK`, `LiveSlotKept` | `PublisherAssumption` |
| `MapHasLiveWorkers`, `Supervised`, `PoolWithinBounds` | `PoolSpec => []PoolTypeOK`, `[]NoneUnsupervised`, `[]PoolBounded` | `PoolAssumption` |
| `ConfigTypes`, `RedisFollowsRow` | `ConfigSpec => []ConfigTypeOK`, `[]StaleOnlyByRace` | `ConfigAssumption` |
| `RowFollowsMap` | `TemplateSpec => []TableFollowsStore` | |
| `JobTypes`, `JobPublishedOnce`, `JobRemembered`, `ResultCountedOnce` | `JobSpec => []JobTypeOK`, `[]PublishedOnce`, `[]JobNotForgotten`, `[]AppliedOnce` | `JobAssumption` |

*Dispatch.* `TypeOK` is inductive with one arithmetic lemma: a window starts at the cursor,
is not empty and ends within the recipients (`WindowEndRange`). It is split
into values and flags, which the provers treat differently.

`NoRecipientSkipped` is not inductive: a dispatcher that completes must have
published its window, and everything before that must be published too.
`CursorInv` adds that a dispatcher at work has a
non-empty window and has published `from[d] .. pos[d]-1` of it, that a lease
starts at the cursor. A completion is
accepted only if the lease's window is the dispatcher's, so the window it closes
starts at the cursor, and the cursor moves over published recipients only,
forward. `ClaimInv` adds that a dispatcher whose lease is in time has the live
lease's window or lies behind the cursor, from which exclusion follows. Most
steps do not touch what these formulas mention; `StepIsQuiet` sorts them out
once.

`CompletedCoversAll` needs to know which campaigns a restart can find without a row: one that was never
claimed (`NoClaims`), so nothing is published and the columns have their defaults
(`MissingRow`), and one that is not finished (`FinishedIsFanned`). The row it inserts for a cancelled one
stays completed with nothing published until a start reopens it, and a cancelled campaign
is not started; only failed deliveries could bring it back, and it has none (`CancelledUnfanned`). Every other
completed dispatch has its cursor past the end (`CompletedAtEnd`). `EndInv` is these together.

`DuplicateNeedsExpiry` needs an invariant of its own, `OnceInv`, that holds while no
lease has run out: one dispatcher at most publishes, it has the live lease's
window and nothing of it is published from `pos` on; without a live lease
nothing is published past the cursor. `Refinement` adds that a claim, however
old, starts at or behind the cursor and is no longer than `MaxMessages`
(`WindowAtCursor`), so every publish is one `OrderedFanout` allows. A publish
is its `Publish`, both outcomes of complete are `Advance`, a claim that finds
nothing left and a restart that inserts a completed row are `Close`, a start that resets
`completed_at` is `Reopen`, cancel and retry are `Cancel` and `Revive`, and
every other step changes none of its variables. That nothing is published of a dispatch completed
at the cursor 1 is `EndInv` again: such a campaign is cancelled and no claim of it is about.

*Delivery.* `TypeOK` is inductive with two facts: a worker that is not idle has a
job, and one that is about to write knows the provider's answer
(`HasDelivery`); and a row that is missing has attempt 0 (`NoRowNoAttempt`).
`ProcessedByOne` follows from `LockHeld`: whoever processes a delivery owns its
lock or is in `unlocked`. That is inductive because a release deletes the lock
only if it is the worker's own. `AttemptNeverBack` rests on it: as long as nobody
ran without the lock, the attempt a worker sends is newer than the row's
(`SendsNewer`), since between its check and its upsert only another worker on
the same delivery could have changed that.

`SendsBoundedByFaults` counts, so its invariant is an account (`SendsPaid`). While the row is
open, the sends of a delivery, with the workers that may yet send in vain, are paid for by
faults, or are successes about to be written. A worker without the lock may spoil one send
(`Spares`), one whose row has already got its attempt sends in vain (`Stales`), and a
success under the lock is one that will close the row, or becomes what a fault has to pay for
(`Successes`). The lock makes the last two one worker at most. Once the row is closed no sender
joins those that are left. That needs the converse of `LockHeld`, too: who has the lock or is in
`unlocked` is processing (`OwnersProcess`), so that a fault is charged to a worker that is at
the delivery.

`NoDeliveryForgotten` is not inductive because of the manual retry: a row that it has claimed is
in nobody's hands. `Kept` says that such a row has no attempts left, so giving it back as
failed resolves it (`Held`), or that its job is still to be published (`Waiting`).
A worker that read before the claim may change the row meanwhile; it is then
underway by its own job.

`FinishedWhenProcessed` and `StopNotOverwritten` hold without manual retries, the first with no
keys but the dispatcher's. The hypotheses are necessary: `Delivery_restore` violates the one with
retries, `ErrorGroups_finish` the other with a key that was switched. The invariant is
that what a worker counted is no more than what is processed now (`CountsNotTooHigh`), because
processed rows stay processed unless a retry claims them. A count that reaches the total is
thus the count of all.

*ErrorGroups.* The steps of the group handler cancel rows, add jobs, and change counters and the
status (`GroupQuiet`). They break none of the invariants above but `TerminalRowsProtected` and
those of finishing, which the runs show violated. A replacement that was published is `Kept`, which
is why `ReplacementNotForgotten` holds from the moment its row is superseded (`ReplacementsKept`).

*StatsHub.* `SignalKept` needs that what was signalled is in the database, and that a
load reads no older version than the snapshot it will replace (`LoadsForward`):
otherwise a refresh could replace a snapshot that has the signalled change by one that has not. `BuffersOK` keeps the
channels sequences of snapshots. `BackOnlyAtOpening` rests on the order of loads: each channel
holds its snapshots in that order and none newer than the latest, and a stream that has taken one is past
`current` and shows nothing newer than what it will take (`StreamForward`).

*Publisher.* `connected \subseteq {opened}` follows from the order of the loop: a new
connection is dialled only after the old one was closed (`DialsAlone`). For
`LiveSlotKept`, what `mq` holds was stored by that channel's function
(`SlotWasStored`), and a function only runs for a channel that was opened, and goes on to
clear `mq` only when its channel is closed (`FunctionsFollow`).

*WorkerPool.* A goroutine that returned was told to stop (`ReturnedIsDone`), so taking
it off the map leaves nothing unsupervised; and the pool is empty before it starts
(`StartsEmpty`), which bounds the first launch. Targets are numbers by the lemmas on the
cardinality of finite sets. `PoolBounded` is about how many are stopped: `killOne` takes
the newest one after the other, so that n of them are those with the n smallest ranks
(`NewestCount`). It also needs that no worker of the map was cancelled (`NoneCancelled`):
one that returns by itself would take the map below its minimum.

*ChannelConfig.* What a filler or a request has in hand, and is not outdated, is what the row
says (`InHandCurrent`), where the default in a gateway's hand counts as outdated; so a write to Redis
puts the row's configuration there or marks it stale.

*TemplateStore.* `rowStale` is set by failed and late saves only, so that the row is the map's when
it is not must be shown of the saves that succeed: `PendingCurrent` says that a POST that was not overtaken
still has what the map holds, so saving it makes the two agree whatever the row was before.

*WorkerJobs.* One request at most has inserted the row and not yet published
(`OneInserter`), and a job with a result was counted once (`CountedIsShown`): the row, not the dictionaries, carries the argument,
and those proofs do not look at what replicas remember. `JobTypeOK` bounds the waiting results
by the reports, for which messages are counted: one is in its queue or with one consumer
(`MessagesCounted`), so a message that is put back was not there as well.

Only model-checked: liveness, which is beyond the proof system, that is
`ActiveIsFannedOut`, `RunningFinishes`, `StreamsCatchUp`, `PublisherComesBack`, `CancelledEnds`,
`ConfigsConverge` and `ReportsApplied`; and the violations, which are behaviours.

## Not modelled

The components with status `not_modelled` in `PROJECT.json`, with the reason, and of
`ops-gateway` the progress snapshots (nothing says how current a merged snapshot is
when replicas share the event queues), the health checks and the scaling requests, which hold
no state of their own. Several campaigns at once are not modelled: they share
queues and workers but no state. Neither is a change of the configuration while a
delivery is sent: a worker uses the one it looked up. The publisher of `sender-worker` is not
modelled, since nothing calls `sendOnce`, the one user of its channel.

## Plan

1. An abstract ledger of one delivery (unsent, failed, final) that `Delivery`
   implements, and the composition of `Dispatch` and `Delivery`, whose jobs come from a fan-out
   that was proved to skip none.
2. With them, the proof that the composition sends every recipient's delivery, or records the
   place that dropped it.
3. Progress snapshots of `ops-gateway`, once it is settled what they promise.
