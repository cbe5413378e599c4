# A TLA+ verification of axelar-relayer-core

The relayer moves two kinds of items between Axelar's Amplifier API and a queue
(Google Pub/Sub or NATS JetStream): the *subscriber* fetches tasks from the API
and publishes them to a task queue, the *ingester* consumes events from an events
queue and posts them to the API. This directory holds TLA+ models of those
services and of the processes around them, the TLC configurations that check
them, and proofs checked by TLAPS. Source paths below are relative to the
repository.

## 1. Inventory

| Component | State it keeps | Operations | Talks to |
|---|---|---|---|
| `crates/amplifier-subscriber` | the publisher behind a mutex; no position of its own | `subscribe`: peek the last id, `GET tasks?after&limit`, sort by timestamp, publish the batch; `check_health` | Amplifier API, queue publisher |
| `infrastructure/src/gcp/publisher.rs` | `PeekableGcpPublisher`: one Redis key with the id of the last published task | `publish_batch` (bulk publish, await every handle, save the last id), `peek_last` | Pub/Sub client workers, Redis |
| `infrastructure/src/nats/publisher.rs` | none: the stream is the record | `publish_batch` (one message after the other), `peek_last` (last raw message) | JetStream |
| `crates/amplifier-ingester` | slots of `for_each_concurrent` | `ingest`, `process_queue_msg`: post, then ack or nak | queue consumer, Amplifier API |
| `infrastructure/src/gcp/consumer.rs` | read task, unbounded channel, `dedup:` keys in Redis for ten minutes | receive callback (decode, check, ack a duplicate or forward), `ack` (ack, then mark), `messages`, `check_health` | Pub/Sub subscription, Redis |
| `infrastructure/src/nats.rs`, `nats/consumer.rs` | a push consumer per start: `max_deliver` 10, `max_ack_pending` 100, `ack_wait` 10 s, `inactive_threshold` 15 s, `DeliverPolicy::New` | `consumer`, `messages`, `ack` | JetStream |
| `crates/supervisor` | worker threads, channel of names, cancellation token | `run`, `spawn_worker` | workers |
| `main.rs` of both services, `bin-util` | error counter, cancellation token, health server | work loop, health server, Ctrl-C | the services |
| `relayer-amplifier-api-integration`, `relayer-engine`, `relayer-amplifier-state` | latest queried / processed task ids, join sets, bounded channels | poll, fan out, post events, health check | Amplifier API, an embedding relayer |
| `retry` | two delays, the next path | `next`, `retry` | callers' closures |
| key-value stores (`gcp/kv_store.rs`, `nats/kv_store.rs`) | a value, its revision, the metrics of the Redis client | `get`, `put`, `update`, `ping` | Redis, JetStream KV |
| `tracking.rs` | three atomics | `record_processed_message`, `update_and_get_rate` | ack handlers, the meter's reader |
| `amplifier-api` client | none between calls | `build_request`, `execute`, `ok`, `json` | Amplifier API |
| `amplifier-api` types | none | serde, borsh and queue encodings of events and tasks | queues, API |
| start-up: `main.rs`, configuration, connectors | the configuration | `try_deserialize`, `new_amplifier_*`, spawn, bind | Redis, Pub/Sub, JetStream, KMS |
| TLS/KMS signing, telemetry, xtask, terraform | configuration | start-up, I/O | |

What is hard in it:

- **Two records of one fact.** The Redis cursor and the topic; the acknowledgement
  and the `dedup:` marker; the batch's sorted order and the API's order. Each pair
  is written by separate calls, any of which can fail after taking effect.
- **Several deliveries of one message** in one process, when a lease ends while a
  copy waits or is being posted.
- **Work given up on that still happens**: bundles of an abandoned Pub/Sub batch, a
  NATS publish whose acknowledgement timed out.
- **Two instances at a time**, during a rolling restart or on purpose.
- **Cancellation** (`run_until_cancelled`) drops a future at any await, with locks,
  leases and half-published batches in hand.
- **Calls without a timeout**, by the work loop and by the health check that waits behind
  it.
- **Restart by message**: the supervisor's channel, its blocking join, and worker
  threads it cannot interrupt.
- **Retries over two paths** that keep a backoff, an abort and a rate limit each and
  share one count of attempts.
- **Atomics without a lock** read by a metrics thread, subtracted without a check.
- **Two layers of encoding** (queue and API) over structures with optional, defaulted
  and flattened fields.
- **A start that is half done**: the read task or the worker runs while a later part of
  the start can still fail.

What makes each component correct, in a sentence: the subscriber skips no task and
resumes where it stopped; the ingester acknowledges only what it posted, gives a
message up only for cause and consumes on; the supervisor keeps one thread per
worker and stops when told; a service process ends when it should and serves nothing on
a wrong configuration; a retry waits as it was told to and gives each path its turns; a
store loses no update that names a revision; every message survives its encodings; no
call is taken for answered that was not.

## 2. Modules

| Module | Models | EXTENDS / INSTANCE |
|---|---|---|
| `TaskRelay` | what a subscriber promises (abstract) | |
| `GcpSubscriber` | `subscribe` on Pub/Sub and Redis | `Relay == INSTANCE TaskRelay` |
| `GcpSubscriberProofs` | theorems about it | `GcpSubscriber`, `TLAPS` |
| `NatsSubscriber` | `subscribe` on JetStream | `Relay == INSTANCE TaskRelay` |
| `NatsSubscriberProofs` | theorems about it | `NatsSubscriber`, `TLAPS` |
| `EventRelay` | what an ingester promises (abstract) | |
| `GcpIngester` | read task, `process_queue_msg`, subscription, Redis | `Relay == INSTANCE EventRelay` |
| `GcpIngesterProofs` | theorems about it | `GcpIngester`, `TLAPS` |
| `NatsIngester` | `process_queue_msg`, push consumers, instances | `Relay == INSTANCE EventRelay` |
| `NatsIngesterProofs` | theorems about it | `NatsIngester`, `TLAPS` |
| `Supervisor` | `supervisor::run`, `spawn_worker` | |
| `SupervisorProofs` | theorems about it | `Supervisor`, `TLAPS` |
| `ServiceProcess` | `run_subscriber` / `run_ingester`, health server, Ctrl-C | |
| `ServiceStart` | `main` up to there: configuration, connectors, spawns | `ServiceProcess` |
| `ServiceStartProofs` | theorems about both | `ServiceStart`, `TLAPS` |
| `FromAmplifier` | the task listener of `relayer-amplifier-api-integration`, the `State`, the embedding relayer | `Relay == INSTANCE TaskRelay` |
| `FromAmplifierProofs` | theorems about it | `FromAmplifier`, `TLAPS` |
| `AmplifierComponent` | its event sender and health check, their race, the engine | |
| `Retry` | `RetryFn`, `RetryPairFn` and their backoffs | |
| `Stores` | the two implementations of `KvStore`, with clients that count | |
| `ThroughputTracker` | `tracking.rs`, its writers and its reader | |
| `Messages` | events and tasks in the encodings of queue and API | |
| `ApiCalls` | the calls through `AmplifierApiClient` | |
| `LibrariesProofs` | theorems about `Stores`, `ThroughputTracker`, `Retry`, `ApiCalls`, `AmplifierComponent` and `Messages`, a section for each | these six, `TLAPS` |
| `MCParts` | for TLC, the parts beside the relays side by side, one of them taking steps | `Retry`, `Stores`, `ThroughputTracker`, `Messages`, `ApiCalls`, `AmplifierComponent`, `Supervisor`, `ServiceStart` |
| `MC...` | instances for TLC (timestamps, message sets) | the module of that name (`MCServiceProcess`: `ServiceStart`) |

Definitions named `Mut...` are plausible bugs in the definition that follows them:
`PROJECT.json` lists, for each property of each passing run, the one under which the
run finds it violated.

**Data.** A task is its position in the API's order. Its timestamp is a constant
function, so a configuration chooses ordered, scrambled or equal timestamps. A
message is a model value with its event (`EventOf`); whether it decodes is
membership in `Poison`. Payloads, UUIDs, spans, metrics and logs are left out.

**Steps.** An action runs from one await to the next, since that is where other
tasks run and where a cancelled or dying process stops.

### GcpSubscriber

`pc[s]` is the await instance `s` is at: `idle` (interval), `peeked` (request),
`fetched` (about to publish), `confirming` (the handles), `saving` (Redis).
`cursor` is the Redis value, `after` is `last_task_id`, `batch` the sorted page,
`handle` the publish handle of each of its tasks. `PublishBulk` hands all tasks to
the client's workers; `BundleSent`/`BundleFails` resolve one handle at a time in any
order, and `ConfirmBatch` or `AbandonBatch` happen when the loop over the handles
has seen all sent, or the first failed after those before it. A batch given up on
leaves its unresolved bundles in `stray`, which may still reach the topic
(`StrayEnds`). `SaveFails` covers a Redis write that fails before or after it took
effect, `CallFailsOrCrash` every other error and a death at any await.

### NatsSubscriber

`stream` is the sequence of messages, `recent` the ids of the five-minute
duplicate window, `late` publishes that were given up on and may still arrive, one
fewer record than on Pub/Sub: `peek_last` reads the stream. `Publish` is one
iteration of `publish_batch`. `WindowPasses` lets an id leave the window only between
two calls of `subscribe` and not while its publish is late: a batch and a publish
timeout last seconds, the window minutes. There is one instance.

### GcpIngester

`stage[m][k]` follows the copy of delivery `k` of message `m`: `received` (the
callback checks Redis), `duplicate` (to be acknowledged), `queued` (in the channel),
`posting`, `answered`, `refused`, `marking`, `ended`. `lease[m]` is the delivery the
subscription waits for. `Verdict` is the callback's decision; an item that does not
decode, or whose check fails, ends there as a logged `Err`. `Ack` and `Mark` are the
two calls of `GcpMessage::ack`. The subscription has exactly-once delivery enabled
(`terraform/modules/pubsub/main.tf`), so a call for a copy whose lease ended can be
refused (`StaleCallFails`), and `LeaseLost` is the fault that makes one stale.

### NatsIngester

Per instance: `start` (the last message before its consumer), `deliveries`, `settled`,
`lease`, `stage`, `posts`, `faults`. `up` are the processes, `consumers` the consumers the
server has. `CreateConsumer` is a start of the process and the only place where a consumer
comes from; `MayDeliver` is the server's rule: in order, at most `MaxAckPending` waiting,
at most `MaxDeliver` times. A consumer is lost with its process (`Crash`), and without it
(`ConsumerRemoved`) when the server sees no interest for `inactive_threshold`: the process
goes on, with what it received, and gets nothing more. The events stay in the stream. The
consumer's health check changes nothing and is left out.

### Supervisor

`pc`, `target`, `channel`, `active` are the supervisor thread's control, the worker it
builds, the mpsc channel and `active_workers`; `thread[w][g]` is the `g`-th thread
spawned for worker `w`. Names are worker numbers in the order of the `BTreeMap`.
Cancellation can be noticed by the tick only between restarts; a `Join` blocks the
thread. `do_work` may run for ever (`WorkDone` has no fairness), return an error or
panic (`WorkFails`).

### ServiceProcess

`service` says which of the two processes it is: the subscriber, whose loop and health
check share the mutex, or the ingester on Pub/Sub, whose read task can exit
(`HasReader`). `RoundOk` and `RoundErr` are the two branches of the loop in `main.rs`.
`probe` is one request to the health check server: `asked` while it waits for the mutex,
`checking` at the queue, `requesting` at the API. No call has a timeout, so one of the loop
and one of the health check may hang (no fairness on `Subscribe`, `RequestHealth`,
`AnswerProbe`). Whoever asked may close the connection (`CloseProbe`), which drops the
check; nothing obliges them to.

### FromAmplifier

`processed` and `queried` are the two ids of the `State`, which outlive the process
(0 for `None`); `channel` is the unbounded task channel, which does not. The embedding
relayer is not part of the repository: `TakeTask` and `RecordTask` are what the
`State`'s documentation asks of it, and one task is in its hands at a time. A tick
reads the processed id in one await and compares it with the queried id in the next
(`Tick`, then `Poll` or `SkipPoll`), with the relayer running between them. `Poll`
puts a request on the join set; `request[r]` goes through the response, the tasks of
its page and the write of the last id. The next tick does not wait for it, so
requests overlap. `ComponentStops` is another part of the component ending: requests
that wait for the response are aborted, those past it run on. `overlapped` and
`stale` are history, reset by `Start`, and no guard reads them: they name the two
ways in which the ids come apart for good.

### AmplifierComponent

One life of the process, all in memory. `commands` and `stage[e]` follow a command
from the client through the channel to its request; `current_failures` is the counter of
the health check; `amplifier`, `other` and `ctrlc` are the tasks of the engine's join set.
`ChannelCloses` and `SenderEnds` are the end of `to_amplifier` once every client is
dropped; `CheckInvalid` and `CheckUnreachable` are the two ways out of the health
check, by the counter and by `?`. The first part that ends drops the others
(`AmplifierEnds`), the first task of the engine that ends with an error aborts the
rest (`Shutdown`). A post may hang for ever, and so may a health check (`CheckHangs`): the API
client sets no timeout. The task listener of the component is
left to `FromAmplifier`.

### ServiceStart

The start is a sequence of named steps (`Start`), each with the configuration fields it
reads and the services it calls; `step` counts those done. They depend on `feature` and
`service`, and their order is the code's: on Pub/Sub the ingester's read task is
running before the API client is built, and the worker before the health check's section
is read. `config` says how each field was given: in the file, by the environment under
its own name, not at all, or with a bad value. A field that is missing or bad is `Wrong`.
One given by the environment may be `Unseen`: `bin-util` splits a variable's name at every
`_` (`RELAYER_TICKRATE_SECS` is `tickrate.secs`), so fields with a `_` in their name cannot
come from there (`NotByEnv`). One field is given differently and one service
is down, which is any single fault of a start. From the step of a part on, its actions in
`ServiceProcess` run beside the start (`Process`). A tick rate of zero panics the worker.

### Retry

One call of `retry`, for one function or for a pair. `backoff` holds the delays the
iterator stores, `attempt` its position, which decides the path; `wait` is what was slept
since the previous answer. `Iterate` is a turn up to the call: an aborted path takes its
turn without one. The four answers are actions of their own. Jitter is any value between
half and one and a half of the delay; delays saturate at `U64Max`. `heard` and `calls`
are history.

### Stores

Clients get the value, add one and write it back, by `update` or `put`, on Redis or on
JetStream. A failed write may have taken effect. `Compares` is the difference between the
two backends: only a NATS `update` names the revision it replaces. `blind` (history) says
whether a write that compares nothing ever hit a value newer than the one it was computed
from.

### ThroughputTracker

Every action is one atomic operation: the handlers' increment and the five steps of
`update_and_get_rate`, with the clock moving in between. The rate itself is abstracted to
the number of messages it is computed from.

### Messages

Every event and task with and without each of its optional fields; the value of a field is
its number, so that a mix-up of fields shows. A type is the list of its fields, and the
encodings take that list: `Serialized` and `Deserialized` are one field of the binary form,
`Piece` what the field adds to the bytes, nothing if its object is absent, and
`BorshEncode`/`BorshDecode` recursive functions over the list (the decoder stops at the
first `err`). `JsonEncode`/`JsonDecode` are the JSON form, with what serde does to
flattened, defaulted and renamed fields; payloads are base64 and integers decimal texts
(`Rendered`, `Readable`). The state machine puts a message through the queue (`Enqueue`, `Dequeue`)
and through the API (`Render`, `Parse`).

### ApiCalls

One client and the API: `tasks` may hold types the client does not know, an event may be
refused within an answer of status 200, a proxy may answer in the API's place, a request
or its answer may be lost. `Parsed` is `AmplifierResponse::json`; `TasksAnswered`,
`EventAnswered` and `HealthAnswered` are what the services do with the result.

## 3. Runs

A run asks its questions of one component; `Parts` takes the eight parts beside the relays
one after the other, and its properties are listed here by part. The variable `part` of
`MCParts` is chosen at the start and says which of them takes steps: their states add up,
and what a property says of a part is checked over all behaviours of that part. The bounds
are in the `.cfg` files. All runs finish within a minute or two.

| Run | Question | Bounds, and why they are enough |
|---|---|---|
| `GcpSubscriber` | Do two instances on one Redis key ever skip a task, when does the id move back, does every task get through? | 3 tasks, pages of 2, equal timestamps, so the sort may leave a page in any order: full, short and overlapping pages, a page whose last task is not the newest, an id overwritten by a stale one; 2 faults, so that a failure hits the retry of a failure |
| `NatsSubscriber` | Exactly once and in order? | 5 tasks, pages of 3, 3 faults: a publish, its retry and the retry's page all fail |
| `GcpIngester` | Acknowledged without a post, posted again for nothing, quiet once marked, given up for cause only, does every message leave? | 2 messages of one event and an undecodable one, 1 slot, 2 deliveries, 2 faults: copies of one message overlap in the channel and in the slot, and the faults are just enough to exhaust one message |
| `NatsIngester` | Does an undecodable message block the consumer? With two instances, are posts bounded and does acknowledged imply posted? | 2 instances, 2 messages of which the first is undecodable, `MaxAckPending` 1, so that it blocks the other; 2 deliveries, 1 fault of each instance, 2 lost consumers: a restart and a removal, in either order |
| `FromAmplifier` | Does a restart skip a task? Is a task ever handed out twice or out of order, can the listener stall, and why? | 3 tasks, pages of 2, 2 requests: a full and a short page overlap; 1 fault on either of them; 2 stops, so that what the first restart leaves is met by a second |
| `Parts`: `Retry` | `WaitFits`, `EachPathGetsItsTurns`, `AbortedIffAllAborted`: the waits and turns of both retries | 6 attempts, so each path has three turns and a limit can follow an abort, delays that pass both `MaxDelay` 5 and `U64Max` 12 |
| `Parts`: `Stores` | `NoLostUpdate`: which updates are lost | 2 clients, 5 operations: a stale write, its failure and a second try |
| `Parts`: `ThroughputTracker` | `NoUnderflow`, `EachMessageInOneRate`: its unsigned subtractions and its count | 3 messages, 3 ticks: several readings, some in one millisecond |
| `Parts`: `Messages` | `QueueKeepsMessage`, `JsonKeepsMessage`: what the encodings keep | every type with and without each optional field |
| `Parts`: `ApiCalls` | `NothingPassesUnknown`, `AckedWasServed`: what is taken for an answer | 3 tasks in pages of 2, 4 calls |
| `Parts`: `AmplifierComponent` | `DeadApiEndsUnlessHung`, `DroppedClientsEnd`: does a dead API, or the drop of the clients, end the engine with a post that hangs? | 2 events, so that one hangs while the other waits in the channel; `MaxInvalid` 2 and 3 changes of the API: the counter is reset and then reaches its limit |
| `Parts`: `Supervisor` | `OneLiveThread`, `JoinNeverWaits`, `EveryWorkerStarts`, `ShutdownEnds`: one thread per worker, joins that do not wait, no worker forgotten, shutdown ends | 2 workers, 2 faults: two threads of one worker, or failures of both |
| `Parts`: `ServiceStart` with `ServiceProcess` | `NoServiceOnBadConfig`, `BadConfigEnds`: from `main` on, does a wrong configuration or an unreachable service end the process, with nothing relayed? `OnlyHungProbeDelaysShutdown`: does Ctrl-C end a process with a hung call of the loop and an open health request? `DeadReaderStopsLoop` | both services on both backends, every field in turn from the environment, missing or bad, every service in turn down, `MaxErrors` 2 and 4 faults: the counter reaches its limit, and is reset before it does |

`CHECK_DEADLOCK FALSE` is set where the system ends: all messages left, the process
ended, `run` returned, the retry gave its result. Subscribers and task listener tick for
ever and are checked for deadlock.

Runs that TLC finds violated state what the documentation says and the code does
not do; each is a finding in `PROJECT.json`:

| Run | Documented | What the code does |
|---|---|---|
| `NatsIngesterRestart` | at-least-once delivery | a consumer is lost with its process, or after 15 seconds without interest; a new one, which only a start makes, begins at new messages |
| `NatsIngesterGroup` | consumers of one delivery group share the messages | every start creates a consumer with a name and an inbox of its own (`nats.rs:141-143`): every instance posts every event |
| `SupervisorRestart` | crashed components are restarted | the report is sent only when the token is cancelled |
| `FromAmplifierRestart` | continue from the latest processed item | a restart before the first task was processed finds `Some(queried)` and `None`, which never agree: no poll is made |
| `ServiceEnvironment` | every setting can be given by the environment | a variable's name is split at every `_`, so `RELAYER_TICKRATE_SECS` sets `tickrate.secs` and the start fails without `tickrate_secs` |
| `RetryIndependence` | two routes with independent backoff | the stored delay of the second path grows from that of the first (`backoff_pair_iterator.rs:73`) |

More can be read off the models and has no run of its own:

- A health check whose call hangs keeps the process up after a Ctrl-C, as long as whoever
  asked stays connected: `check_health` awaits the publisher and the API without a timeout
  (`amplifier-subscriber/src/lib.rs:151-164`, `amplifier-api/src/client.rs:226-237`), the
  server's graceful shutdown waits for it (`bin-util/src/health_check.rs:197`) and the
  process for the server, although `src/README.md:179` says that components "shut down when
  needed". `OnlyHungProbeDelaysShutdown` says that nothing else does.
- A health check of the Amplifier component that is never answered is not counted as
  failed, no other one follows, and the engine stays up with an API that is gone, although
  the configuration speaks of checks "before we deem that the service is down"
  (`relayer-amplifier-api-integration/src/config.rs:70-71`). `DeadApiEndsUnlessHung` says
  what holds.
- `check_health` of the NATS consumer logs an error and returns `Ok`
  (`nats/consumer.rs:103-109`), although the trait promises an `Err` for "any issues with
  the consumer's health" (`interfaces.rs:40`): an ingester whose consumer was removed
  answers that it is healthy.
- The result of each event in the API's answer is not read
  (`amplifier-ingester/src/lib.rs:89`): a refused event is acknowledged like an accepted
  one. `to_amplifier.rs` logs it, with a todo to handle it.
- On NATS the position is the last message of the stream, and the batch is sorted by
  timestamp (`amplifier-subscriber/src/lib.rs:111`) before it is published one by one
  (`nats/publisher.rs:98`). If tasks have equal or unordered timestamps and a publish
  fails midway, the task last published need not be the last without a gap, and the
  next request skips what is before it. `NatsSubscriber` is run with timestamps in the
  order of the API. Pub/Sub is free of this: it saves the id of a batch only whole.
- At `max_errors` the work loop ends, but the process waits for its health server
  (`amplifier-subscriber/src/main.rs:127`): only a signal ends it.
- A request of the component's health check that fails on the network ends the engine at
  once; the counter is for answers with an error (`healthcheck.rs:16`).
- Dropping the command clients aborts the posts under way (`to_amplifier.rs:37`).
- The deduplication of the ingester on Pub/Sub asks Redis when a message is received
  (`infrastructure/src/gcp/consumer.rs:346`) and writes the marker after it is
  acknowledged (`:129`), so two messages of one event can both be posted:
  `RepostsNeedFaults` counts posts per message, not per event, for that reason.
- In the single retry the initial delay is also the base of the exponent: with one
  millisecond it never grows. It sleeps the rate limit's wait after its last attempt too.
- `RedisClient::get` counts an error on every call (`gcp/kv_store.rs:111`: `map_err` is
  given a block that is evaluated at once). `Stores` models it.
- In `gcp/publisher.rs` the `record_error` after a block that uses `?` is not reached by
  the errors of that `?` (103-126, 140-172).
- A task of an unknown type makes its whole page undecodable: the subscriber asks for
  the same page for ever, and `NothingPassesUnknown` says it never gets past it.
- The health check of the ingester takes any answer of the API for healthy.
- A tick rate of zero passes validation and panics the worker.
- The ingester's comment says that messages in flight are completed on cancellation
  (`components/gcp.rs:111`); `run_until_cancelled` drops them, and they are redelivered.
- The metadata of `CANNOT_EXECUTE_MESSAGE/V2` names `fromAddress` and `timestamp` a second
  time, beside the flattened metadata of every event. Set in the inner object alone they
  come back in the outer one; set in both, the JSON has a key twice and is refused.
  `JsonKeepsMessage` states exactly this exception.
- Cancellation drops `do_work` at its next await (`supervisor/src/lib.rs:213`): the two
  seconds of grace are for the threads to be joined, not for work to be finished.

### Fairness

- Subscribers: `WF` on each instance's own steps and, for Pub/Sub, its client's workers:
  the interval ticks for ever, and every call returns or fails. Faults are finite
  (`MaxFaults`), otherwise nothing would have to succeed.
- Ingesters: `WF` on what happens to each message, on the end of the lease of a copy
  that was given up, and on the start of an instance that is down (an orchestrator
  restarts it). No fairness on faults, late leases, marker expiry or the loss of a consumer;
  a consumer removed under a process that is up is not brought back.
- Supervisor: `WF` on the supervisor's steps (builders return), on every thread and on
  the drop of a cancelled loop: work reaches an await.
- Service process: `WF` on the ingester's loop, the drop of the cancelled loop and the
  server; `SF` on the health check taking the mutex, which tokio hands over in FIFO
  order, so a waiter that finds it free again and again gets it. None on the calls of the
  loop and of the health check, which have no timeout.
- Start of a process: `WF` on its steps: the calls to Redis, the queue and KMS return.
- The library modules have no liveness properties and state no fairness.
- Task listener: `WF` on the listener (the interval ticks, `Start` follows an end), on
  each request, on the relayer working through its channel, and on the end of a
  process whose component has stopped.
- Component: `WF` on the event sender and the health check, which the engine polls and
  whose own awaits end, and on the engine's shutdown. None on the answer to a post, nor on
  that to a health check once it hangs.
- `Parts`: the fairness of the modules it extends, each for the runs in which that part
  takes the steps.

The `Safe` part of an abstract specification is a `PROPERTY` of the detailed one by
refinement; its liveness is a property of its own.

## 4. Proofs

Each theorem is for every value of the constants that the named assumption of its module
allows. An invariant a run checks is seldom inductive; each module of proofs therefore
starts with the invariant that is, as named parts, shows that `Init` gives it and every
action keeps it, and takes its theorems from there. The inductive invariants were checked
with TLC on the runs' instances before they were proved.

`GcpSubscriberProofs` proves, for every number of tasks, page limit, assignment of
timestamps, set of instances and number of faults (`SubscriberAssumption` only):

- `TypeCorrect`: `Spec => []TypeOK`
- `NothingSkipped`: `Spec => []NoTaskSkipped`, the id in Redis never runs ahead of the
  topic
- `NoRewind`: `Spec => RewindOnlyWhenOvertaken`, an instance moves the id back only if
  another one saved since it read it
- `Refinement`: `Spec => ImplementsRelaySafe`, every step is a step of `TaskRelay` or
  leaves its variables alone

`NoTaskSkipped` is not inductive: saving the last id of a batch keeps it only if the
batch is a page without gaps that starts where everything before is published. The
invariant `IInv` adds `PageInv` (a held batch holds exactly the tasks
`after + 1 .. after + n`, in some order), `TopicInv` (`1 .. after` is in the topic, and so
is what a handle confirmed; a batch about to be saved is confirmed) and `CreatedInv`
(nothing is published that the API did not create, which the refinement needs).
`TopicInv` is stable under other instances because the topic only grows, which is why
a stale cursor written by a second instance is harmless (`OthersKeep`). `StepKeeps`
reduces each step of an instance to what concerns that instance; `NextIInv` goes
through the actions. `NoRewind` follows from `PageInv` alone, by `LastOfPage`: a page
ends after the task it was requested after. `EnqueueStep` and `ResumeStep` name the
abstract step of each detailed one.

`FromAmplifierProofs` proves, for every number of tasks, page limit, number of
overlapping requests, faults and stops (`ListenerAssumption` only):

- `TypeCorrect`: `Spec => []TypeOK`
- `NothingSkipped`: `Spec => []NoTaskSkipped`, everything up to the processed id was
  processed
- `StallHasCause`: `Spec => []StallNeedsCause`, the listener does not stall by itself
- `InLine`: `Spec => NextInLine`, a lone listener hands out each task once and in order
- `Refinement`: `Spec => ImplementsRelaySafe`

The invariant has two parts. `PrefixInv` holds however requests overlap: before every
task that is on its way (in the relayer's hands, in the channel, next in a request)
all earlier tasks are done or ahead of it. Recording a task then keeps
`NoTaskSkipped`, although an older page can move the id back. `OrderInv` is about a
process whose requests have not overlapped and whose ids missed no write: the tasks
in hand are those after the processed one without a gap, a request that waits for its
response starts there, and once no request is under way the queried id is the last
task in hand. With nothing in hand the two ids are then equal, which is
`StallHasCause`. `NextPrefix` and `NextOrder` prove the two parts action by action.

`NatsSubscriberProofs` proves, for every number of tasks, page limit, assignment of
timestamps and number of faults (`SubscriberAssumption` only):

- `TypeCorrect`: `Spec => []TypeOK`
- `InOrder`: `Spec => []ExactlyOnceInOrder`
- `Refinement`: `OrderedApi => (Spec => ImplementsRelaySafe)`. The hypothesis, that the API
  lists tasks in timestamp order, is the one `ExactlyOnceInOrder` has inside: without it
  the theorem is false, for the reason given in section 3.

The stream's order is not inductive, because of the publishes that were given up on.
`OrderInv` adds: while a call of `subscribe` is under way, whatever the stream holds past
the position it read is still in the duplicate window (`AttemptInv`), so a task that a late
publish brought in is dropped when the batch brings it again; the rest of the batch is a
run of consecutive tasks that starts at the next one or inside the window (`BatchInv`); a
late publish is in the window or is the next task (`LateInv`). `StoreKept` is the one lemma
about the server. That the sort leaves an ordered page as it is (`SortedIsInOrder`) would
be an induction over the page; it is proved by counting instead: a task out of its place
would leave more tasks to one side than there are places (`ImageSize`).

`GcpIngesterProofs` proves, for every set of messages, assignment of events and number of
slots, deliveries and faults (`IngesterAssumption` only):

- `TypeCorrect`: `Spec => []TypeOK`
- `FewReposts`: `Spec => []RepostsNeedFaults`
- `DeadHasCause`: `Spec => []DeadOnlyAfterFaults`
- `MarkerKeepsQuiet`: `Spec => MarkedStaysQuiet`
- `Refinement`: `Spec => ImplementsRelaySafe`, what leaves as acknowledged was posted

The invariant counts twice. A message has at most one delivery more than there were
faults, and none more at all while it is in the backlog with its last delivery over
(`LeaseInv`): that delivery's fault is paid already. Its posts are at most its copies that
are past the request (`PostsInv`), so at most its deliveries. `PostedInv` says what each
stage after the request owes: a copy that is answered or being marked was posted, one taken
for a duplicate has its event posted by some copy, and every marker stands for a posted
event. `MarkerKeepsQuiet` goes through the actions once more: only `Verdict` sends a copy on
to the channel, and not past a marker.

`NatsIngesterProofs` proves, for every set of instances and number of messages, slots,
pending messages, deliveries, faults and lost consumers (`IngesterAssumption` only):

- `TypeCorrect`: `Spec => []TypeOK`
- `FewReposts`: `Spec => []RepostsNeedFaults`
- `Refinement`: `Spec => ImplementsRelaySafe`, for all instances together

The posts an instance made are not inductively bounded by its faults; the posts made and
those still to come are. `Claims(i, m)` is the set of requests that instance `i` may still
make for `m` without another fault: one for each copy that waits or is being posted, one if
its consumer will deliver again. `ClaimsInv` bounds posts plus claims by the faults of the
instance and its first delivery (`First`). The first delivery of a message adds a claim and
uses `First` up, a further one trades one claim for another; a fault adds at most one; a
lost consumer and a restart add none, since the new consumer starts behind everything the
old one could have had. `Recount` is the arithmetic of one element more or less,
`CountClaims` that of the claims.

`SupervisorProofs` proves, for every number of workers and faults
(`SupervisorAssumption` only):

- `TypeCorrect`: `SupervisorSpec => []SupervisorTypeOK`
- `NeverTwice`: `SupervisorSpec => []OneLiveThread`
- `JoinsEnd`: `SupervisorSpec => []JoinNeverWaits`

Both follow from `OldInv`: a thread that was replaced, or whose replacement has been asked
for, has reported or is gone. It is kept because a worker is asked for once at a time
(`NamesInv`: its name is not twice in the channel, and not in it while it is being built);
because before a cancellation only a build that failed, or a thread that is out of its
loop, asks (`ReportInv`); and because `active_workers` lags one thread behind exactly while
the supervisor is about to join it (`ActiveInv`). The numbering of the threads stays within
the model's bound since each but the first had a fault (`CountInv`).

`ServiceStartProofs` proves, for both services on both backends, every configuration with
one fault, and every error limit and number of faults (`ServiceAssumption` only):

- `TypeCorrect`: `StartSpec => [](TypeOK /\ StartType)`
- `MutexFits`: `StartSpec => []LockInv`, the mutex belongs to the loop or to a health check
  exactly while that one is at a call of the publisher
- `NoBadService`: `StartSpec => []NoServiceOnBadConfig`

The invariant says that no step behind the process fails (`PassedInv`), that nobody works
before the worker's step and nobody asks before the last one (`WorkInv`, `ProbeInv`). What is
left is about the sequence of steps itself: every field in use but the health check's is
read by some step before the worker (`BeforeReads`), shown part by part of the start and put
together by `BothRead`, and the start ends with the worker, the health check's section and
its port (`RunStepsAre`, `StartIs`).

`LibrariesProofs` has a section for each of six modules, each under that module's
assumption alone (`Messages` has no constants).

- `Stores`, any number of clients and operations. `UpdatesKept`:
  `StoresSpec => []NoLostUpdate`. The invariant adds that a client never holds a revision
  newer than the store's, and that one who holds the current revision holds the current
  value. `ErrorsCounted`: `StoresSpec => []FailuresCounted`.
- `ThroughputTracker`, any number of messages and clock ticks. `Subtractions`:
  `TrackerSpec => []NoUnderflow`, and `Rates`: `TrackerSpec => []EachMessageInOneRate`. The
  invariant orders the two counts and the two timestamps at each step of the reader: what
  it loaded last is at least what the swapped-in atomics hold, because nobody else writes
  those. A second reader would break it: the one in between stores the older value last.
- `Retry`, every delay, factor, maximum and number of attempts. `RetryTypeCorrect`;
  `WaitsFit`: `RetrySpec => []WaitFits`; `AbortsTogether`:
  `RetrySpec => []AbortedIffAllAborted`; `TurnsTaken`:
  `RetrySpec => []EachPathGetsItsTurns`. The invariant ties the flags of the code to the
  answers: a path is in `aborted` exactly if its last answer was an abort, in `limited`
  exactly if it was a rate limit not yet waited for, and while nothing is called `wait` is
  zero, or the wait the single retry has already slept. `BackoffKept` and `DelayBounds`
  bound the delays, `HeardKept` is what an answer does to either path. `TurnsInv` counts: a
  path that did not abort was called on each turn it had (`Turns`), but for the call under
  way; `NextTurn` is the step of that count.
- `ApiCalls`, every page limit and number of tasks and calls. `UnknownStops`:
  `CallsSpec => []NothingPassesUnknown`; `AckMeansServed`: `CallsSpec => []AckedWasServed`.
  The invariant says that a page under way holds the tasks after those published, although
  the API goes on creating tasks (`PageIsNext`), and that a readable answer to an event was
  given by the API.
- `AmplifierComponent`, any number of events, limit of failed checks and changes of the
  API. `ComponentTypeCorrect`: `ComponentSpec => []ComponentTypeOK`; `RequestsEnd`:
  `ComponentSpec => []NoRequestOutlives`; `SentOnce`: `ComponentSpec => PostedOnce`. `ChannelInv` says that the
  channel holds each waiting event once, `PartsInv` that requests run only under a component
  that runs, that component only under an engine, and that a running component has fewer
  failed checks than end it (`RequestsEnd` and `SentOnce` state safety that the component's
  run, which asks about its end, does not list). That last part is what makes
  `ComponentTypeOK` inductive when the limit is zero, where the first failed check ends the component.
- `Messages`. `QueueKeeps`: `MessagesSpec => []QueueKeepsMessage`, and `JsonKeeps`:
  `MessagesSpec => []JsonKeepsMessage`. The invariant (`MessagesInv`) only says that bytes
  and JSON are those of the message that was built; the work is in three theorems about the
  encodings, for any list of fields, of any length, and messages with any values.
  - `BorshRoundTrip` asks two things of the list (`Layout`): only an optional object is a
    flag, and the flag comes before every field of the object, because the decoder can tell
    whether a field is there only once it has read the flag (`ScopeKnown`). Then the bytes
    are cut where each field starts (`Encoded`), and reading a field takes exactly its piece
    off them (`PieceRead`). `IsMessage` says what a message of the list is: what is required
    is there, one value for each field, none outside the list.
  - `JsonGivesToFirst`: where fields share a JSON name, the value goes to the first of them,
    if that one is optional and of the same kind; `JsonRoundTrip`: a message whose fields
    are each the first of their name is read as it was written; `JsonRefused`: two values
    under one name are not read at all.
  - The twelve types meet `Layout`, and none but CANNOT_EXECUTE_MESSAGE/V2 has a name twice
    (`TypesLayout`, `TypesFit`). Both are shown by parts, as serde composes the types: each
    part adds names of its own (`PartsJoined`, then one lemma for each type), and
    `TwiceFields` finds the two collisions, fields 7 and 8.

  The library's theorems of induction take operators and cannot be used. `LeastNumber` (from
  the least element of a well-founded order) gives induction over the members of a set,
  upward and downward (`InductionUp`, `InductionDown`), and `Recursion` that a recursive
  function over `0..n` exists and obeys its equation.

Only model-checked:

- Liveness, in every module: the prover has no support for fairness or `ENABLED` here.
- The six findings, which TLC refutes by a behaviour.

## 5. Not modelled

- Telemetry: exporters, the instruments and their attributes, `SimpleMetrics`,
  `BlockChainIngesterMetrics`, tracing and log lines. Only the throughput gauge computes
  with shared state.
- The TLS handshake and the signatures made with a key in KMS, the retries inside the
  clients of Pub/Sub, JetStream, Redis and HTTP: external code. They are present as calls
  that return, fail or are lost.
- Text: the `TxEvent` identifiers, `Display`, URLs, trace headers of queue messages.
- The configuration of `relayer-engine` and of `relayer-amplifier-api-integration`: an
  embedding program builds it.
- `AckKind::Progress` and the single-message `publish`: no service calls them.
- Stream limits and message expiry of the queues; the Pub/Sub dead-letter topic is a
  set nobody reads.
- The supervisor's READY pipe, which exists in debug builds for the tests; `xtask`;
  terraform beyond the subscription's settings.

## 6. Plan

1. Done: subscribers, ingesters, supervisor, service process; the relay
   specifications; proofs of the Pub/Sub subscriber.
2. Done: `FromAmplifier` and `AmplifierComponent`; proofs of the task listener.
3. Done: the start of the services; `Retry`, `Stores`, `ThroughputTracker`, `Messages`,
   `ApiCalls`; proofs about four of them.
4. Done: proofs of the JetStream subscriber, both ingesters, the supervisor, the start of
   the services, the rest of `Retry`, `AmplifierComponent`, and the encodings of `Messages`.
   Every safety property the runs check is now a theorem.
5. Next: a composition of `Supervisor` with the services' loops (what a worker's restart does
   to the queue's position).
