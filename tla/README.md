# TLA+ models of openclaw-plugins

Models, model checking and proofs for the message-handling core of this
repository: how an inbound message gets exactly one agent turn and an outcome
that survives crashes, how the RabbitMQ channel keeps custody of a message
until then, how the router delivers what it has accepted, how the stream
sessions of the WeCom webhook gather messages into turns, and how four more
channels take in messages: Redis Streams in batches with reclaim, MQTT through
a keyed run queue, WeCom customer service by a cursor, Douyin through an inbox
on disk.

## Inventory

The repository is a set of OpenClaw plugins (`extensions/*`) around a shared
library, `message-sdk`. A plugin is one of:

* a **channel**: takes messages from a broker or a platform, hands them to the
  OpenClaw agent and sends the replies back (`rabbitmq`, `redis-stream`, `mqtt`,
  `rocketmq`, `stomp`, `web-*`, `wecom`, `wecom-kf`, `wechat`, ...);
* a **service** around channels: `router` (rules that forward events, with a
  durable outbox), `bridge` (mirrors channels), `nacos` (configuration);
* a **tool or observer**: `knowledge`, `memory`, `openmem`, `amap`, `meituan`,
  `prometheus`, `tracing`, `oauth2`, `mtls`.

The parts with a core logic of their own:

| Part | State | Operations | What makes it hard | What must hold |
|---|---|---|---|---|
| delivery journal (`message-sdk/src/dispatch/delivery-journal.ts`) | one SQLite row per inbound identity | claim, markAgentStarted, sendStarted/Confirmed, prepare/settle/confirm, release | several processes, crashes between statements, process ids that are used again | one turn per identity, no row stuck that nothing followed |
| channel dispatch (`channel-dispatch.ts`) | counters of one call | dispatchChannelMessage | overlapping sends, late confirmations, errors at any await | the answer to the broker agrees with the row and with what the peer saw |
| RabbitMQ consumer (`rabbitmq/src`) | delivery handles, dead-letter queue | consume, ack, nack, publish in doubt, stop, reconnect | lost connections, unconfirmed publishes, stop under running turns | the broker never drops its last copy of an undecided message |
| router lease (`router/src/durable-store.ts`) | `.writer.lock`, `owner.json`, `delivery-state.json` | acquire, heartbeat, check, release | file operations of several processes interleave | one writer, no lost commit, no lock for ever |
| router outbox (`durable-store.ts`, `reliable-dispatcher.ts`) | pending, delivered, dead letters; drain, timer, lifecycle | enqueue, replay, drain, markDelivered/Failed, start, stop | commits in doubt, rejected batches, lifecycle overtaking work | nothing accepted is lost, bounded work, everything settles |
| keyed run queue (`message-sdk/src/queue/keyed-run-queue.ts`), MQTT inbound (`mqtt/src`) | per-key tails, depths, a lifecycle signal | enqueue, timeout, deactivate, drain; publish, PUBACK | a task outlives its timeout or its abort; drain looks once | order per key, true counters, a complete drain, an honest PUBACK |
| inbound/outbound queues, debounce buffer (`message-sdk/src/queue`) | queues and timers per key | enqueue, flush, cancel | promises and timers that overlap | order per key, capacity, nothing stuck |
| stream sessions (`stream-session-store.ts`, `active-reply-store.ts`) | streams, batches, conversations | addPendingMessage, flush, onStreamFinished, prune | keys that are used again, TTLs under running work | no batch is stranded or started twice |
| deduplication (`message-sdk/src/dedup`) | memory and file of seen keys | claim, commit, release | awaits between check and entry | a key is worked on once |
| Redis stream consumer (`redis-stream/src`) | batches of loops, Redis's pending list, the journal | read, reclaim, ack, dead-letter, start, stop | entries taken over while at work, stopped loops that live on, lost XACKs | one turn per entry, none gone without an outcome, none pending for ever |
| wecom-kf sync (`wecom-kf/src`) | cursor, recovery entries, dedupe file; queue of syncs | notice, sync page, begin, complete, quarantine | crash or failed write between turn, entries and cursor | one turn per message, none skipped, doubt is on disk |
| douyin inbox (`douyin/src/dispatch`) | pending, dead and completed entries on disk and in memory | enqueue, drain, retry, replay, quarantine, start, stop | writes that half fail, restarts, lost wake-ups, full lists | 200 means stored, one turn, everything comes to rest |
| wechat monitor | long-poll cursor | poll, store cursor | restart between work and cursor | none skipped |

Interaction. A channel calls `dispatchChannelMessage` with an identity and a
`deliver` callback; the dispatch calls the journal, the OpenClaw runtime, and the
callback. With `deferDeliverySettlement` it returns `confirmDelivery`, which the
channel calls after its own ACK. All processes of a host share the journal file.
The router's hooks and HTTP routes call the dispatcher, the dispatcher calls the
store, and every store operation runs under the store's promise lock; several
Routers meet only in the files of the state directory.

`PROJECT.json` lists all components, and under `hazards` what is hard to test in
this code, line by line, with the property that covers it.

## Modules

| Module | Models |
|---|---|
| `InboundTurn` | abstract: what delivery settlement promises of one inbound identity |
| `DeliveryJournal` | the statements of the journal, as actions on rows |
| `ChannelDispatch` | `dispatchChannelMessage` over the journal: calls in processes that crash |
| `RabbitInbound` | the RabbitMQ consumer around `ChannelDispatch`, with the broker's queue and dead-letter queue |
| `RouterLease` | the writer lease of the durable store, one file operation per step |
| `RouterOutbox` | the durable store's operations and the dispatcher that drains it |
| `ConversationTurns` | abstract: what the stream sessions promise of one conversation |
| `StreamSessions` | the stream session store, driven by the WeCom webhook and its agent runs |
| `InboundCustody` | abstract: what a channel promises of the messages it keeps itself |
| `RedisStream` | consume loops of several processes on one consumer group, with `DeliveryJournal` |
| `KeyedRunQueue` | `createKeyedRunQueue`: order per key, capacity, timeouts, deactivate and drain |
| `MqttInbound` | the MQTT channel's publishes through `KeyedRunQueue`, with PUBACK and stop |
| `ClaimableDedupe` | operators: claim, commit and release of the claimable dedupe and its file |
| `KfSync` | the sync of one WeCom customer-service account, with `ClaimableDedupe` |
| `DouyinInbox` | the durable webhook inbox of one Douyin account, with `ClaimableDedupe` |
| `ChannelDispatchProofs` | the theorems about `ChannelDispatch` and `RabbitInbound` |
| `MqttInboundProofs` | the theorems about `KeyedRunQueue` and `MqttInbound` |
| `DouyinInboxProofs` | the theorems about `DouyinInbox` |
| `RedisStreamProofs` | the theorems about `RedisStream` |
| `KfSyncProofs` | the theorems about `KfSync` |
| `RouterOutboxProofs` | the theorems about `RouterOutbox` |
| `RouterLeaseProofs` | the theorems about `RouterLease` |
| `StreamSessionsProofs` | the theorems about `StreamSessions` |
| `MC*` | the instances TLC checks: symmetry and constants |

`RabbitInbound` extends `ChannelDispatch`, which extends `DeliveryJournal`: the
consumer's steps call the dispatch's actions on the same call slots. A call slot
is a concurrent call of `dispatchChannelMessage` in one process.

**DeliveryJournal, ChannelDispatch.** `journal[id]` is a row of the table; the
fields are its columns (`fp` the fingerprint, `pid` and `start` its owner,
`agent` agent_started, `started`/`confirmed` the send counters). `call[c]` holds
the local variables of a call (`agentStarted`, `sendsStarted`, `sendsConfirmed`)
and the sends whose `deliver` is pending. A SQL statement is one step, and so is
the code between two awaits that runs with it. The agent runtime is external: it
may send any number of replies (`MaxSends`), overlapping, and end with any
outcome at any point; this is what the checks on the counters defend from. What
happens before the agent starts is narrower: only a queue in front of it can end
the call, with no-reply or ambiguous. `turns` and `shown` are history variables.

**RabbitInbound.** `del[c]` is the delivery handle: its `custody` tells whether
the channel it came on is open (live), closed (stale: ack and nack throw), or
the delivery was settled. Retry copies come back to `queue`, the TTL left out.
A message is its correlation id with a fingerprint. An error before the dispatch
leaves the inbound handler and reaches `maybeRetryMessage`, which may put a copy in
the delivery's place (`ReplaceByCopy`); every other failure is rejected by
`requeueOnError`.

**RouterLease.** `lock` is the lock directory that is at the path now; every
action reads or writes it by path. `pc[w]` follows acquireLease: mkdir, write
the owner, check for staleness, rename away, load. A renewal and a commit are
two steps each: the ownership check, and the write. `Mishaps` names what the
environment may do, because the code relies on its absence:

* `overlap`: stores start at the same time also after one ended;
* `torn`: a starting store reads `owner.json` while a heartbeat rewrites it;
* `late`: a live store renews nothing for `lockTimeoutMs`;
* `waited`: a store is started more than `lockTimeoutMs` after it was constructed,
  or, reused after a stop, after its last renewal;
* `straggler`: a heartbeat's write outlives the close of its store.

`old` is the set of stores whose `heartbeatAt` in memory may have run out. The
field is set by the constructor (durable-store.ts:239-240) and refreshed by
`renewLease` only (532), while `acquireLease` writes it as it is (480, 536-538): the
first `owner.json` of a store in `old` may be stale from the start, until its first
heartbeat. The store is constructed in `register()` and started by the service, so
that without `waited` the models assume a prompt start and no restart of the service
in the same process after a pause longer than `lockTimeoutMs`.

Without `overlap` the first stores may still start together; only after a crash,
close or failed load they come one at a time, as under a supervisor. Each mishap
breaks a property. `overlap` (the run `router_lease_race`), `waited`
(`MCRouterLeaseWaited.cfg`) and `torn` (`MCRouterLeaseTorn.cfg`, where the starting
store falls back to the mtime of the lock directory, which heartbeats do not renew,
durable-store.ts:514) break `OneActiveWriter`; `late` does so by design between two
hosts (durable-store.ts:509, and reliable-dispatcher.test.ts:413 expects the
takeover, although router/README.md:435 says that such a lock is never stolen), and
`MCRouterLeaseLate.cfg` shows what follows: the writer that lost its lease still
replaces the state file. `straggler` breaks `OneActiveWriter` with two ends on one
host. `late` and `waited` matter on two hosts only: on one host the process table,
not the heartbeat, decides, and `MCRouterLeaseHost.cfg` allows both there. Every store has a process of its own;
process ids in use again are out of the model.

**RouterOutbox.** `store` is the state file and its copy in memory, `worker[s]`
a call of processTask, `drain` the drain promise (fetching due tasks, or waiting
for its batch), `life` the service. A commit has a result: ok, failed without
effect, or uncertain (took effect, its directory could not be synced, reported
as an error). Slots beyond the concurrency exist so that exceeding it shows.
Audit entries, telemetry and payload limits are left out; a task's id and dedupe
key are one. Retry delays are due or not due. With `CommitErrors = {"failed"}`
`BoundedConcurrency` does not hold, as `MCRouterOutboxConcurrency.cfg` shows: a failing
markFailed rejects the batch (reliable-dispatcher.ts:259) while the rest of it goes
on, and the next drain starts up to the full concurrency again; a delivery left
behind like that can also put a task back to pending when no timer is set.

**StreamSessions.** `pending`, `conv`, `key` are the maps `pendingInbounds`,
`conversationState`, `streamIdToBatchKey`; `run[s]` follows flush and
startAgentForStream for stream `s`: awaiting the DM policy, in the agent, ended.
`checks` are the webhook calls that await the policy in handleInboundMessage. A
batch overwritten under its key leaves its timer behind (`strays`). Everything
between two awaits is one step: the end of a run finishes its stream, promotes
the next batch and flushes it at once if its timer has fired. `Mishaps`:

* `approval`: the sender is approved while messages of theirs are handled. The
  webhook and the run of a denied message both finish its stream; if the second
  finish comes after an approval it can end a later batch, and two agent runs
  overlap. Without it, approval comes when denied messages are dealt with, though
  their batches and timers may still be there.
* `slow`: a stream or batch passes its TTL before it is finished. The end of the
  turn then no longer finds its conversation (stream-session-store.ts:487), which
  `MCStreamSessionsSlow.cfg` shows; the store keeps the conversation for ever
  (streamIdToBatchKey is never cleaned, so prune never finds it idle) and nothing
  behind it is flushed. With the default agent timeout of six minutes and a TTL of
  ten, only long media handling or a longer configured timeout gets there.

Both break the properties of the passing run when they are put into `Mishaps`.
`approval` has no run of its own, because nothing in the repository says what
should happen then. A turn is the stream's turn: when the agent's reply times out,
`withTimeout` (monitor.ts:974-984) ends the wait and the stream but does not abort
the agent, which may go on beside the next turn. A flush that finds the runtime not
ready (gateway.ts:249-260) is left out.

**RedisStream.** `place[e]` is where Redis has an entry (unread, pending, gone),
`count[e]` its delivery counter, `loop[l]` a consume loop with what is left of
its batch. Of `dispatchChannelMessage` the module keeps what the loop sees: the
claim of the journal (the same actions as in `ChannelDispatch`), the start of
the agent, and a verdict. `MayBeIdle` states what time allows:
`pendingClaimIdleMs` is longer than an agent turn (config.ts:148-153), so the
first entry of a batch is not idle during its own turn, but the ones behind it
wait for several turns and may be. A process may have two loops, since a stop
whose drain times out leaves one running and the next start sets `running`
again. A replied-to XACK, a lost one, and one that finds nothing are told apart. The
consumers share one journal, so they run on one host, as redis-stream/README.md:421
demands, and `pendingClaimIdleMs` is positive, so that entries are reclaimed at all
(config.ts:41). The dead-letter transaction takes effect as a whole or not at all:
that an XADD which fails inside MULTI leaves the XACK behind it in effect
(transport/server.ts:695-699), and that MAXLEN trims the dead letters (676-680), are
not modelled.

**KeyedRunQueue, MqttInbound.** `tails`, `depth`, `pendingTasks` and `active` are
the queue's variables; `prev[t]` is the promise a task waits for, `caller[t]`
what enqueue's promise said. A task that timed out or was aborted is still
`running` until it ends. `Stuck` tasks never end. deactivate and drain are one
step: stopBroker calls them without an await between. A task of MQTT is one try
of a client to publish a message, and the key is the client.

**ClaimableDedupe.** Pure operators on a map of claims and a set of recorded
keys. Their users claim a key in one task at a time, which the account queue and
the drain justify; two concurrent claims of one key are not covered.

**KfSync.** WeCom's log is `1..sent` and a cursor is a position in it. `disk`
has the cursor, the recovery entries and the dedupe file, `mem` their copies in
memory and the volatile quarantines; `task` is the sync that runs, at one of the
awaits of processSyncedMessage. Every write can fail, or take effect and be
reported as failed. A stop aborts the signals of the syncs (callback.ts:79-81)
and then waits; a crash loses `mem` and the queue. `Expire` is the 24-hour expiry.
Without `SlowReview` it comes only when the cursor has passed the message.

**DouyinInbox.** `disk` and `mem` are the state file and `this.state`: each
message is absent, pending, processing, under review, dead, or completed.
The inbox's promise lock makes an operation one step, which writes the whole
next state. `drain` tells a drain that has settled from one whose promise is
cleared, because `wake` is refused in between; `scheduling` is a scheduleNext
that waits for the lock. `task` follows the dispatch of the message the drain is
at. `suspended` is persistenceSuspended, set by every write that fails.
A turn that failed or timed out is put under review and not tried again
(webhook-inbox.ts:394-401), and `OneTurn` is about that code. The repository's
documents say otherwise; the observations below say where. A
claim stays when a dispatch times out: the branch that would release it
(dispatch-inbound.ts:122-131) is dead, because transcript-dispatch.ts:292-294 throws
first. The capacity check of a completion (webhook-inbox.ts:479-481) never fires in
the model, where a message is taken only when there is room.

**InboundCustody.** What the three channels that keep messages themselves have in
common: a message gets one turn at most and none once it is done with, and is let
go of only when it is done with or a copy is filed, for good. The mappings say
what that means in each: in `RedisStream` an outcome in the journal, the
dead-letter stream and XACK; in `KfSync` a handling that returned and the stored
cursor; in `DouyinInbox` a settled dispatch and "completed" in file and memory.

Operators marked "a slip, for mutation" are wrong variants of a definition.
Nothing uses them; each is a plausible mistake in the code, and a property must
fail when it takes the place of the definition beside it (`mutants` in
`PROJECT.json`).

## Runs

| Run | Shows |
|---|---|
| `dispatch` | two calls, two processes, two crashes, process ids used again, a second fingerprint, overlapping sends, `ps` that may fail: one turn and one active call per identity, outcomes agree with the sends, no untouched claim is stranded, retries are clean, InboundTurn is implemented |
| `rabbit` | two calls, one crash, one lost connection or stop, `requeueOnError`: custody, and with fairness every message is decided or filed |
| `redis` | two entries, two loops of two processes, one fault (crash, stop or lost command): one turn per entry, no entry gone undecided, every entry leaves, InboundCustody is implemented |
| `mqtt` | three messages of two clients, each sent twice at most, one handler that may hang, timeouts and a stop: order, counters, drain, PUBACK, and every publish answered |
| `kf` | three log entries on two pages, the second a system event; one bad write or request, one stop, one crash: one turn per message, none skipped, doubt on disk, notices worked off, InboundCustody is implemented |
| `kf_review` | a page that waits longer than 24 hours for a review runs finished turns again (finding) |
| `douyin` | two messages, every list limited to one, one bad write, three failed attempts, a stop, a crash: capacity, one turn, 200 means stored, completed means settled, answered messages come to rest, InboundCustody is implemented |
| `router_lease` | three stores on two hosts, two ends, no mishaps (prompt starts, heartbeats in time): one writer, only the owner of the lease replaces the state file, no lost commit, and some Router gets to work again |
| `router_lease_race` | stores that start together after a crash both become writers (finding) |
| `outbox` | three tasks, two pending places, one dead letter, a crash, a replay: one place per task, stop, and every pending task is settled unless the dead-letter queue is full |
| `outbox_errors` | a commit that goes wrong, keys that expire, late events, a crash: nothing is lost |
| `streams` | four messages of one sender, who is allowed, denied or approved: batches one at a time, in order, without loss; every allowed message is answered |

Bounds. One inbound identity is enough for the journal: rows do not share
anything, and a call touches one row; conflicts need a second fingerprint, not a
second identity. Two calls give every pair of a turn and a redelivery, a
recovery, or a duplicate; three would only add a second waiting redelivery. Two
sends give a partial failure and an overwritten hash. Two crashes let a recovered
claim be lost again, and either process id be used again. For the lease, three
stores are a writer, one that replaces it and one that interferes; two ends leave
one store that can return after both others ended. For the outbox, two
attempts distinguish a retry from the last one; two pending places and one dead
letter let both limits be reached by three tasks; one crash and one replay bring
a task back from every place. For the streams, four messages are two batches of
which one is merged into, behind a batch that was denied; with three, every
state of a batch occurs, but not a key that is used again under a queue.
For Redis, two entries are a batch with something behind its first, two loops
are an owner and a reclaimer (or a loop and its successor), two attempts
distinguish a retry from a dead letter. For MQTT, two messages of one client
and one of another show order and independence; two tries a retry that races a
late handler; a capacity of three is reached. For kf, two pages are one whose
cursor is stored and one that is not; two attempts a retry and the last. For
Douyin, two messages fill a list of one, and three failures are enough for a
message to use up its attempts, be replayed and fail again.

`CHECK_DEADLOCK FALSE` is set where the system may really stop: all messages are
done, or the bounds on crashes, losses and ends are used up.

Fairness. `FairRabbitSpec`: a handler that can go on goes on, agent runs end
(the code has a timeout on them), processes restart, the consumer takes what is
ready; errors before the agent starts and a refused dead-letter publish are
transient, so those steps succeed when they are retried often enough (strong
fairness). `FairSpec` of the lease: a supervisor restarts stores, a start goes
on, and time passes. `FairSpec` of the outbox: the event loop runs what is ready,
`withTimeout` ends every publish, timers fire. `FairSpec` of the streams: timers
fire, policy checks answer, agent runs end by their timeout. `FairRedisSpec`: a
loop polls and goes on with its batch, the Gateway starts what stopped, and for
every entry that stays pending a reclaim that takes it happens in the end: strong
fairness, because XAUTOCLAIM walks the pending list with a cursor that wraps
around, so that it does not pass over an idle entry for ever. `FairMqttSpec`: a
task whose turn came begins, the queue's timers fire, a handler that is not stuck
ends; no client has to publish. `FairSpec` of kf: WeCom repeats a notice until it
is answered, the service is started again, a sync goes on. `FairSpec` of
Douyin: the drain goes on, times come and timers fire, an account that ended is
started again. Crashes, lost connections, new messages and stops of a service
are never required.

Findings are in `PROJECT.json`, each with the line it contradicts and the run
whose counterexample shows it: `router_lease_race` and `kf_review`.

Further configurations reproduce what the runs above leave out. They are kept for
the reader and are not among the runs of `PROJECT.json`:

| Configuration (module) | Shows |
|---|---|
| `MCRouterLeaseHost.cfg` (`MCRouterLease`) | no error: three stores on one host, two ends, late heartbeats and late starts keep one writer and lose no commit |
| `MCRouterLeaseWaited.cfg` (`MCRouterLease`) | `OneActiveWriter` violated: the first heartbeat of a late start has run out, and another host takes the live lease |
| `MCRouterLeaseTorn.cfg` (`MCRouterLease`) | `OneActiveWriter` violated: a store that reads `owner.json` during a heartbeat takes a live lease |
| `MCRouterLeaseLate.cfg` (`MCRouterLease`) | `OnlyOwnerWrites` violated: a writer whose lease was taken between its check and its rename replaces the state file |
| `MCRouterOutboxConcurrency.cfg` (`MCRouterOutbox`) | `BoundedConcurrency` violated: a failed markFailed ends a drain while its batch goes on, and the next one exceeds the concurrency |
| `MCDouyinInboxRetry.cfg` (`DouyinInbox`) | `FailedTurnIsRetried` violated: a turn that fails is put under review at once |
| `MCStreamSessionsSlow.cfg` (`MCStreamSessions`) | `FinishAdvancesQueue` violated: a turn that outlives its stream does not advance the queue |

## Observations without a run

What was met while reading and modelling, and can be reproduced by changing a
constant or following the code, but has no run of its own:

* douyin: the documents say that a turn which failed or timed out is dispatched
  again. extensions/douyin/README.md:148 draws "failure / timeout" to "bounded
  exponential retry" and back, :155 says "Retryable dispatch failure means the
  OpenClaw message pipeline returned `error`, `timed_out`, or `skipped`, or the
  plugin call itself threw", README.zh-CN.md:121, 166, 174 and 212-215 say the same,
  and inbound-dedupe.ts:94 says that the claim is released on failure or timeout so
  that the platform or an operator may retry. The code retries only a failure that
  says `not_started`; a timeout is "ambiguous" (transcript-dispatch.ts:294), and the
  inbox puts everything else under review at once (webhook-inbox.ts:394-401), from
  where no replay takes it. `OneTurn` holds because of that, and the documents'
  second turn would break it. The code looks deliberate, as the second sentence of
  :155 is about turns that may have acted; the documents should be corrected.
  `MCDouyinInboxRetry.cfg` shows the disagreement.
* router lease: the first heartbeat of a start is that of the constructor
  (durable-store.ts:239-240, 480). When the service starts, or starts again, more
  than `lockTimeoutMs` later, a Router on another host may take the live lease until
  the first renewal, against README.md:434 (one active writer) and :435 (a lock of
  another hostname is never stolen). `MCRouterLeaseWaited.cfg` shows two writers.
* router lease: owner.json is rewritten in place (durable-store.ts:537), and a
  starting store that reads it empty goes by the age of the directory (514):
  `MCRouterLeaseTorn.cfg` shows two writers on one host.
* router lease: the ownership is checked before the state is written
  (durable-store.ts:453, 463). A writer that is late in between replaces the state
  file of its successor, although it should be "refusing further state writes"
  (557): `MCRouterLeaseLate.cfg`.
* router outbox: "Bounded delivery concurrency" (README.md:353) is exceeded after a
  markFailed that cannot commit (reliable-dispatcher.ts:259):
  `MCRouterOutboxConcurrency.cfg`.
* wecom webhook: the end of a turn does not advance the queue when the prune has
  removed its stream (stream-session-store.ts:487, 519-521), although :481 says so
  without condition; it takes a `network.agentReplyTimeoutMs` beyond the TTL of ten
  minutes, or long media handling: `MCStreamSessionsSlow.cfg`.
* rabbitmq: with the default `requeueOnError = false` (config.ts:127) a delivery
  that fails before its agent starts is rejected without requeue from a queue
  without dead-letter exchange (transport/server.ts:377-386), and is gone;
  README.md:646 of the extension promises retries and a dead-letter queue. With
  `RequeueOnError = FALSE` the model shows it as a violation of `Custody`.
* rabbitmq: a turn that ends after a stop timed out commits its outcome in the
  journal although the delivery was requeued and never acknowledged
  (inbound.ts:235); a redelivery then meets the outcome and is acknowledged.
* router outbox: an enqueue whose commit took effect and was reported as failed
  throws before `wake` (reliable-dispatcher.ts:181-184); the task waits for the
  next event. The `outbox` run leaves failing commits out for this reason.
* wecom webhook: only the last exit of startAgentForStream drains the
  acknowledgement streams of merged messages (monitor.ts:1086-1092); its early
  exits leave them open until their TTL.
* wecom-kf: the comment at callback.ts:67-71 and README.md:178 speak of draining
  accepted syncs at a stop, while callback.ts:80 aborts their signals first. The
  cursor is kept, so that a later notice finds the messages again.
* douyin: a day with MAX_COMPLETED completed messages makes markProcessing throw,
  which suspends the inbox as a failed write does (webhook-inbox.ts:380-387,
  432-434); only `retryPersistence` or a restart ends that, and only tests call it.
* redis-stream: README.md:411 says that a reclaim cannot take an entry of an
  active turn, and config.ts:148-153 checks it for one turn; the entries behind
  the first one of a batch are idle since the batch was read. The journal keeps the
  second loop from a second turn, which is what `OneTurnPerEntry` shows.
* redis-stream: a loop that outlived its stop goes on beside the loop of the next
  start (transport/server.ts:460), because both look at the same `running`.

## Proofs

`ChannelDispatchProofs` proves, for every set of identities, fingerprints,
hashes, process ids and calls, every bound, and with or without a failing `ps`:

| Theorem | Says |
|---|---|
| `TypeCorrect` | `Spec => []TypeOK` |
| `Invariant` | `Spec => []IInv` |
| `OneTurn` | `Spec => []AtMostOneTurn` |
| `OneCall` | `Spec => []OneActiveCall` |
| `DecidedConfirmed` | `Spec => []DecidedSendsConfirmed` |
| `RetryIsClean` | `Spec => RetryLeavesNoTrace` |
| `ClaimsAreRecoverable` | `Spec => []NoStrandedClaim` |
| `DispatchImplementsInboundTurn` | `Spec => ImplementsInboundTurn` |

The assumptions are those of the modules: `Null` is none of the other values,
the bounds are natural numbers and `PsMayFail` is Boolean.

None of the properties is inductive. That a redelivery cannot start a second
turn depends on the row remembering the first (`agent`), on the call that
started it being the one that owns the row, and on no other call being allowed
to take the row from it. The inductive invariant `IInv` is the conjunction of

* `TypeOK`;
* `RowOK`: what a row says agrees with itself and with the histories: an
  untouched row has no sends, an outcome has its sends confirmed, a delivered one
  has a confirmed send, a turn has been counted exactly if the row says so, and
  the peer saw nothing before the turn or without it;
* `CoreOK`: a running call owns its row: its process is alive and is the one the
  row names, with the start time the row has if any, and its counters are the
  row's;
* `FlightOK`: a send in flight, also one that its call left behind, keeps the
  row pending (an outcome needs all sends confirmed), and the sends in flight
  and the confirmed ones are no more than were started;
* `Exclusive`: a running call shares its identity with no other running call,
  and with no send that another call left behind.

Each action preserves each conjunct it can disturb, one lemma per action; the
temporal theorems combine these with `Init`. The action property and the
refinement follow from `IInv` step by step: every action is a `Begin`, `Show` or
`Decide` of `InboundTurn`, or a stutter.

`ClaimsAreRecoverable` needs a second invariant, `ClaimsOK`, on top of `IInv`: an
untouched row names a process id and a start time that process has reached, and
a row whose call is gone names a process that is gone. The bound on the start
time carries the case of a reused process id, whose new start is later than the
one recorded; the end of a call carries the other, because a call that started
nothing always releases its row.

About `RabbitInbound` the module proves, for any messages, processes and bounds,
under the hypothesis `IsFiniteSet(Calls)` (the copies that a process returns are
counted):

| Theorem | Says |
|---|---|
| `RabbitTypeCorrect` | `RabbitSpec => []RabbitTypeOK` |
| `RabbitUsesDispatch` | `RabbitSpec => Spec` |
| `RabbitOneTurn` | `RabbitSpec => []AtMostOneTurn` |
| `RabbitImplementsInboundTurn` | `RabbitSpec => ImplementsInboundTurn` |
| `RabbitCustody` | `RequeueOnError => (RabbitSpec => []Custody)` |

Every step of the consumer is a step of `ChannelDispatch` or leaves it alone, so
its invariant `IInv` and its theorems carry over. `RabbitInv` adds `HandleOK`:
what a handler relies on when it settles a delivery is true of that delivery's
message (filed: it is in the dead-letter queue; returned as prepared or
duplicate, or acknowledged: its outcome is in the journal under its
fingerprint). Between the dispatch's return and the settlement other calls,
crashes and lost connections may come in; that nothing of it becomes false needs
that the journal keeps every outcome with its fingerprint (`Lasts`), whatever
happens to the delivery. Custody is then lost by no step alone: what a process
held goes back to the queue (`ReturnFacts`), and only a settlement takes the last
copy. `RequeueOnError` cannot be dropped: with the default the broker drops a
message that fails before its turn, as said under the observations.

`MqttInboundProofs` proves, for any clients, messages, retries, limits and stuck
handlers:

| Theorem | Says |
|---|---|
| `MqttTypeCorrect` | `MqttSpec => []MqttTypeOK` |
| `PublishesBeginInOrder` | `MqttSpec => []BeginsInOrder` |
| `QueueCountsAreReal` | `MqttSpec => []CountsAreReal` |
| `StopDrainsQueue` | `MqttSpec => []DrainIsComplete` |
| `PubackIsHonest` | `MqttSpec => []PubackMeansHandled` |

`prev` and `tails` form a chain per key, and the order of acceptance (`place`) is
what makes the chain sound: an unfinished task with anything before it waits for
an unfinished task that is not before any of these (`WaitsForLast`), and the tail of a
key is its last unfinished task (`TailIsLast`). So a task whose predecessor is
finished has nothing before it, and a drain that has every tail awaits
everything (`TailsAwaited`). `MqttInv` adds the broker, the counters, and that a
caller told "resolved" belongs to a handler that returned. The counters need
that `Tasks` is finite.

`DouyinInboxProofs` proves, for any messages, capacities and bounds:

| Theorem | Says |
|---|---|
| `InboxTypeCorrect` | `Spec => []InboxTypeOK` |
| `AtMostOneTurn` | `Spec => []OneTurn` |
| `AnsweredIsStored` | `Spec => []AckedIsStored` |
| `CompletedWasSettled` | `Spec => []CompletedIsSettled` |
| `InboxStaysWithinCapacity` | `Spec => []WithinCapacity` |
| `InboxImplementsInboundCustody` | `Spec => ImplementsInboundCustody` |

A write that is reported as failed lets the file and the memory disagree, so the
invariant speaks of both: `StatesTruthful` says in either that a message whose
turn may have begun, or that is settled, is processing, under review or
finished, and never again where the drain or a replay would take it; `MemoryIsStored` that what the memory
has is in the file; `DuplicatesSettled` and `TaskTruthful` that a claim found by
a dispatch is either none or that of a settled message. The capacities are
inductive with one addition, `RoomForTask`: room among the completed is looked
for when a message is taken, and is still there when it is completed, because
nothing else is completed meanwhile. A message that is taken, failed or put
under review stays among the pending or moves to a list with room, and a replay
looks for room for all it takes back. In terms of `InboundCustody` a message is
let go of when it is completed in the file and in the memory: then neither a
write, which starts from the memory, nor a start, which reads the file, brings
it back, and one alone would not be enough.

`RedisStreamProofs` proves, for any entries, processes, loops, batch size, limit
of attempts and number of faults:

| Theorem | Says |
|---|---|
| `RedisTypeCorrect` | `RedisSpec => []RedisTypeOK` |
| `RedisOneTurn` | `RedisSpec => []OneTurnPerEntry` |
| `RedisEntryKept` | `RedisSpec => []EntryKept` |
| `RedisImplementsInboundCustody` | `RedisSpec => ImplementsInboundCustody` |

Who holds an entry does not matter here, the journal does: `JournalOK` says that
a row's agent mark counts the turns of its entry, and no action removes a marked
row. `Decided` says that a loop about to acknowledge has the outcome of its entry
in the journal, and every action keeps outcomes (`OutcomesStay`), whatever other
loops do to the entry meanwhile; `EntryKept` then follows for XACK and for the
dead-letter transaction. Neither needs the assumption about idle times. For
`InboundCustody` an entry is done with when its row has an outcome and let go of
when it left the group; XACK maps to `LetGo` without a copy, the dead-letter
transaction to `LetGo` with one.

`KfSyncProofs` proves, for any log, page size, numbers of faults and limits:

| Theorem | Says |
|---|---|
| `KfTypeCorrect` | `Spec => []KfTypeOK` |
| `KfNothingSkipped` | `Spec => []NothingSkipped` |
| `KfDoubtIsOnDisk` | `Spec => []DoubtIsOnDisk` |
| `KfOneTurn` | `~SlowReview /\ Spec => []OneTurnPerMessage` |
| `KfImplementsInboundCustody` | `~SlowReview => (Spec => ImplementsInboundCustody)` |

What remembers that a message was handled is spread over a claim in memory, its
entry on disk and two cursors, and each of them is lost at another moment. The
invariant has a part for each: a claim or an entry that says "finished" tells the
truth (`FinishedOK`); behind the stored cursor, the cursor in memory and the place
of the task in its page there are only handled messages (`BehindOK`); only the
message at hand is claimed without being finished (`ClaimsOK`); a turn that may
have begun has its entry on disk until its message is handled (`DoubtOK`). One turn
then needs that an entry expires only when its message is behind both cursors and
the task (`OnceOK`), which is what `~SlowReview` says of entries under review; the
`kf_review` run shows that it cannot be dropped.

`InboundCustody` asks for two things more. No turn may begin for a message that
is handled, for which `OnceOK` speaks of handled messages beside those with a
turn. And what the cursor has passed must stay passed, although a write that
took effect and was reported as failed leaves the stored cursor ahead of the one
in memory, from which the next attempt asks for the page again: `CursorOK` says
that the one in memory is at most a page behind, and a page asked for again ends
no earlier, because the log only grows. `SavePage` alone moves the stored
cursor, and maps to `LetGo`.

`RouterOutboxProofs` proves, for any tasks, limits, errors, crashes and replays,
and any finite number of slots:

| Theorem | Says |
|---|---|
| `OutboxTypeCorrect` | `Spec => []OutboxTypeOK` |
| `OutboxLosesNothing` | `Spec => []NothingLost` |
| `OutboxBounded` | `CommitErrors = {} => (Spec => []BoundedConcurrency)` |
| `OutboxOnePlace` | `CommitErrors = {} => (Spec => []OnePlace)` |
| `OutboxStops` | `CommitErrors = {} /\ ~LateEvents => (Spec => []StopReleasesLease)` |

Nothing is lost because the two places that speak of publishing tell the truth:
what the store calls delivered and what a worker has confirmed was published
(`OutboxInv`); every operation's next store keeps what the old one kept, and so
it does not matter whether a commit that is reported as failed took effect. The
other three need commits that succeed, for a failing `markFailed` ends the drain
while the rest of its batch goes on. Without it the drain waits for every
delivery in progress (`DrainOK`), so that a batch is taken and a service stops
only when there is none, and a dead letter is never among the delivered keys
(`PlaceOK`).

`RouterLeaseProofs` proves, for any finite number of stores on any hosts, tasks
and ends:

| Theorem | Says |
|---|---|
| `LeaseTypeCorrect` | `Spec => []LeaseTypeOK` |
| `LeaseIsExclusive` | `Calm => (Spec => []OneActiveWriter)` |
| `LeaseGuardsWrites` | `Calm => (Spec => OnlyOwnerWrites)` |
| `LeaseKeepsCommits` | `Calm => (Spec => []NoLostCommit)` |

`Calm` allows no mishap, except late heartbeats and late starts (`late`, `waited`)
when all stores are on one host, where the process decides and not the heartbeat. So
between hosts the theorems hold for stores that start within `lockTimeoutMs` of their
construction or last renewal and then renew in time; `MCRouterLeaseWaited.cfg` and
`MCRouterLeaseLate.cfg` show that neither can be dropped. The lock alone does not exclude
a second writer, because whoever found it stale takes away the lock that is there
by then. The invariant says who may find that (`LockOK`: a store past the lock is
the one that owner.json names, and a late owner is dead), and that nobody changes
the lock in between (`StartOK`: before anything ended no lock is stale, afterwards
one store starts at a time). The `router_lease_race` run shows that this condition
cannot be dropped. Without mishaps a lock becomes late only when its owner is dead,
which needs that no store is ever in `old`. `CommitOK` adds that an active store
knows the file, and that a commit past its check is that of an active store, which
therefore still holds the lease when it renames.

`StreamSessionsProofs` proves, for any number of messages:

| Theorem | Says |
|---|---|
| `SessionsTypeCorrect` | `Mishaps = {} => (Spec => []SessionsTypeOK)` |
| `SessionsImplementConversationTurns` | `Mishaps = {} => (Spec => ImplementsConversationTurns)` |

The batch keys are what could go wrong: a conversation starts again with key 0
and counts anew, while batches, timers and runs of an earlier conversation under
the same keys may still be there, which denied messages leave behind. The
invariant says what holds of the keys in use: a batch has a stream of its own
that has not run (`BatchesNamed`); a conversation's next key is smaller than the
number of any message to come, its queued batch is pending, and an active one
that has not started has key 0 then (`ConvOK`), so that a message never merges
behind another batch; for an allowed sender one run at most is at work, that of
the active batch, which has left the store (`RunsOK`). Every step then is an
`Arrive`, `Begin` or `End` of `ConversationTurns`, or a stutter: a flush moves
messages from a batch to a run that is checked, which still waits. `Mishaps = {}`
cannot be dropped: the two mishaps break the refinement, as said above.

The type correctness of every component is a theorem rather than a run's property;
that of `RouterOutbox` also bounds the dead-letter queue. `OutboxBounded` states its
property, which no run checks, under `CommitErrors = {}`, which
`MCRouterOutboxConcurrency.cfg` shows to be needed.

Only model-checked: liveness (fairness and ENABLED are outside the prover). Every
other property of the passing runs is a theorem.

## What could come next

In order of what they would add: the debounce buffer (a flush that overlaps the
one in progress, inbound-debounce-buffer.ts:137) and the inbound and outbound
queues; concurrent claims and in-flight expiry of the claimable dedupe
(claimable-dedupe.ts:158, 218); the long-poll cursor of `wechat`; active replies;
the bridge's mirror queue.

## Not modelled

Parsing and formatting of messages, media, OCR, speech, HTTP clients, access
policies and configuration (pure or external), telemetry, the platform protocols
of the IM channels, the tools, the Go and Java SDKs and the build scripts: most
of the repository's lines are of these kinds, and have no state that a model
checker would say more about than a test. Process ids that are used again after
a reboot are left out of `RouterLease` (durable-store.ts:504). `PROJECT.json` has
the reason per component.
