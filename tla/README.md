# TLA+ models of the cortx-utils Kafka message broker

These modules model `KafkaMessageBroker` in
`src/py-utils/src/utils/message_bus/message_broker_collection.py`. It
implements the message-bus interface (topics, send, receive, ack, purge,
expiry) on top of confluent_kafka. The models cover two parts:
- the control plane: the client registry, the confirmation loops, the topic
  lifecycle, and the retention-flip purge;
- the data plane: send with its delivery reports, receive and ack. It is
  composed with the purge.

An abstract specification of the purge's contract, `RetentionSpec`, is
checked by refinement.

## 1. Inventory

### Components and their state

| Component | Code | State it keeps | Operations |
|---|---|---|---|
| ClientRegistry | `init_client` (66-152), `self._clients` (54) | handle maps `admin`/`producer`/`consumer` keyed by client_id; `self._resource` (the ConfigResource of the **last** producer initialised); `self._saved_retention` (its baseline retention) | `init_client(kind, id, ...)`: invalid kind; existing handle (the topic check only); new admin; new producer (handles, `_resource`, then `describe_configs` and the baseline); new consumer (required entries) |
| RetryPoller | loops at 223-237, 254-267, 292-306, 360-376, 381-392, 478-500 | a retry counter local to the call | poll `list_topics()` up to `_max_list_message_type_count + 1` times with `sleep(retry)`; retry `alter_configs()` up to `_max_config_retry_count` times |
| TopicLifecycleManager | `list_message_types`, `register_message_type`, `deregister_message_type`, `add_concurrency` (190-308), `_task_status`, `_get_metadata` | none (everything is in the cluster) | admin request, `_task_status` on the futures, then the confirmation loop |
| RetentionController | `delete` (348-395), `_configure_message_type` (456-503), `set_message_type_expire` (505-523) | none of its own; reads `_resource` and `_saved_retention` | purge: phase A sets `retention.ms=1` on `_resource`, sleep, phase B sets it back to `_saved_retention`; expiry: validation, then one `alter_configs` with retention, segment size and file-delete delay |
| Producer adapter | `send`, `delivery_callback` (310-346) | librdkafka's outbound queue | produce each message; `flush()` (sync) or `poll(timeout)` (async) |
| Consumer adapter | `receive`, `ack` (397-454) | librdkafka's consumer position | poll once or until a message arrives (timeout 0); synchronous commit |
| Error mapping | `MessageBusError` raises throughout; `_error_cb` (183-188) | — | wraps failures as errno kinds; some exceptions (KeyError, AttributeError, a future's KafkaException) escape unwrapped |
| Kafka cluster (external) | confluent_kafka and the brokers | partition counts, cluster metadata (lagging), per-topic configuration | CreateTopics, DeleteTopics, CreatePartitions, non-incremental AlterConfigs, DescribeConfigs, Metadata |
| Service validator test | `test/validator/test_service_validator.py` | — | unit test of an OS service check; unrelated to the broker |

### How they interact

Every public method looks up a handle in `self._clients` and then calls the
cluster. The cluster is shared by all processes. Each adapter object is
shared by the threads of its process (the MessageBus users). The two
attributes `_resource` and `_saved_retention` connect `init_client` and
`delete`. Each write to them replaces the previous value, and `delete` reads
them again on every attempt. Admin mutations are asynchronous, and their
effect appears in `list_topics()` later. The confirmation loops poll that
lagging metadata.

### What is hard

- **Interleavings**: several threads share one adapter object. Several
  processes share the cluster. A `sleep` sits between every poll and between
  the two purge phases.
- **Partial failure**: the purge is two `alter_configs` calls and is not
  atomic. A create or delete request may succeed for some names and fail for
  others. `init_client` stores handles before a call that can raise.
- **Crashes**: a process can die between the two purge phases. The cluster
  keeps the 1 ms retention, and the next `init_client` reads it back.
- **Stale state**: metadata lags the controller. The baseline is captured
  once and then used much later.
- **Retry bounds**: off-by-one guards (`tuned_retry > 1` inside
  `range(3)`).

### What makes each component correct

- ClientRegistry: the baseline `delete` restores belongs to the topic being
  purged and is never the purge value.
- Confirmation loops: they report success only when the metadata agrees, and
  always terminate.
- Purge: it targets the requested topic. It leaves the configuration as it
  found it. It never leaves a topic at 1 ms retention without reporting a
  failure.
- add_concurrency: a timeout means that the increase is not visible yet.

## 2. Modules

| Module | Models |
|---|---|
| `KafkaCluster` | The environment: `partitions` (controller), `metaPartitions` (what `list_topics()` returns, lagging; `MetadataRefresh` catches it up), `topicConfig`. It also holds the request semantics the adapter relies on: per-topic create/delete failures, upward-only `CreatePartitions`, and `AlterConfigs` reverting every key the request does not carry (Kafka's non-incremental AlterConfigs). |
| `KafkaMessageBroker` | The adapter's control plane. VARIABLES `admins`, `producers`, `consumers` (the three maps of `self._clients`), `resource`, `savedRetention` (per process), plus the callers' `pc`/`loc`/`ret`. Each public method is one action, or one action per cluster call it makes: `InitProducer` (the existence check), `InitProducerStore` (handles and `_resource` stored), `ProducerDescribe`; `RegisterMessageType` then `RegisterPoll`; `StartDelete`, `PurgePhaseA`, `PurgePhaseB`; `SetMessageTypeExpire` then `ConfigureAlter`. `Crash(p)` discards a process's adapter object and its calls. The module ends with the refinement mapping to `RetentionSpec`. |
| `KafkaDataPlane` | Extends `KafkaMessageBroker` with the data plane. `log[t]` and `start[t]` are a topic's log and its log start offset. `pending[p][id]` is librdkafka's outbound queue of a producer. `events[p][id]` holds the events not yet served: delivery reports and the broker-down error. `alert[p][id]` is a consumer's unserved broker-down error, and `outages` counts outages. `position` holds the consumers' fetch positions, and `committed` the group offsets. `dloc` holds send's and receive's locals. `fate`, `mark` and `returned` (the messages receive returned per group) are ghosts. The actions are: `Send`, then one `SendProduce` per message, then `SendPoll` (async) or `SendFlush` (sync); `Receive` then `ReceivePoll`, with `ReceiveInterrupt` for a KeyboardInterrupt, which arrives while poll waits or just after poll returned a message (the position is then past a message receive never returns); `Ack`. The environment has five actions: `BrokersDown` (every broker becomes unreachable, and librdkafka queues `_ALL_BROKERS_DOWN` for each producer and consumer), `Deliver` (librdkafka resolves the head of a queue, delivered or failed), `AutoCommit` (when `auto_ack`), `RetentionCleanup` (the broker deletes the retained messages of a topic at 1 ms retention), and the control plane's steps. |
| `RetentionSpec` | The abstract contract of delete and set_message_type_expire, in which every call is one atomic step (section 3). |
| `MC_KafkaMessageBroker`, `MC_KafkaDataPlane` | Model values and definitions for the cfgs, and the views `MCView` and `DataView`. |

Correspondence details:
- A loop iteration is one step. The `time.sleep` between iterations is the
  gap in which other callers and `MetadataRefresh` run. Sleep durations are
  not modelled.
- `ret` records how the call ended. Its values are the MessageBusError kinds,
  plus `"raised"` for the unwrapped exceptions: `KeyError` for an unknown
  client id or a topic missing from metadata in `add_concurrency`,
  `AttributeError` for `_resource`/`_saved_retention` not yet assigned, and
  `KafkaException` from a future's `result()`. `"nodata"` is receive's
  `None`.
- `AlterOutcomes` are the possible results of an `alter_configs` future:
  `ok` (the result is `None`), `error` (a non-`None` result, the case the
  code retries), and `raise` (`result()` raises). `raise` is forced when the
  topic does not exist. `error` over-approximates: confluent-kafka's alter_configs
  futures resolve to `None` or raise, so the retry branch (lines 365-373)
  is dead code with today's client. It is kept so that the loop's
  control, written for a client that reports failure as a result, is
  checked too. Without it the behaviours are a subset, so the safety
  properties that hold with it hold without it.
- `abandoned` and `loc[c].before` are ghosts. `abandoned` holds the fragile
  topics whose purge reported a failure or was cut by a crash.
  `loc[c].before` is the topic's configuration when `delete` was called.
- `Methods` restricts which public methods the callers of a run call.
- The data plane is composed with the control plane as
  `ControlStep == Next /\ DataFollows`. `DataFollows` empties the log of a
  topic the step deletes, and discards the queues and positions of a process
  that crashes. It also records in `mark` the messages retained when a purge
  starts.
- Data abstractions:
  - Messages are the numbers `1..MaxMsgs`, sent in increasing order.
  - A consumer's group is its client id, and it subscribes to every topic.
  - Delivery is FIFO per producer.
  - `flush()` serves events until the queue is empty. `poll()` serves the
    events that have arrived. In both, the first callback that raises
    (`delivery_callback` for a failed report, `_error_cb` for the broker-down
    event) ends the call with its exception, and the later events stay
    queued. This follows confluent-kafka's callback wrapper, which yields
    librdkafka's serving loop when a Python callback raises.
  - `consumer.poll()` serves the broker-down event by raising
    ERR_SERVICE_UNAVAILABLE out of `receive`, without taking a message
    (`PollServesErrorCb`).
  - `RetentionCleanup` deletes every retained message of a topic at once.
  - `Ack` commits the positions whether or not the consumer was created with
    `auto_ack`. The code does not check it, although spec.md says ack
    requires auto-ack to be off.

## 3. The contract and its refinement

`RetentionSpec` states what delete promises about a topic's `retention.ms`,
with every call one atomic step:
- set_message_type_expire sets it, or resets it to the default (the
  request is not incremental);
- a delete that returns ok leaves it as it was, or gives the default back
  to a topic an earlier purge left at 1 ms;
- only a delete that fails (its `result` is an error), or whose process
  dies, may leave 1 ms;
- a topic that is created or deleted has the default.

`RetentionContract == Retention!Spec`, with
`Retention == INSTANCE RetentionSpec WITH ...`, maps the control plane as
follows:
- `exists` is the controller's view.
- `busy` is `purge` for a caller in either phase, `config` in
  `ConfigureAlter`, and `idle` otherwise.
- `result` folds every error kind into `"error"`.
- `retention` is `topicConfig`, except for a topic a caller is purging
  between its phases. That topic shows the retention it had when delete was
  called. So phase A is a stutter, and phase B is the abstract purge step.

The refinement holds for one caller on one topic, under these calls:
init_client, register_message_type, deregister_message_type,
add_concurrency, delete, and a crash. It covers every alter outcome and
every crash point. Two parts of the code are what keep it true:
- the purge-value heuristic at line 132: without it, a purge after a crash
  restores 1 ms and returns ok;
- the raise on phase B's failed result: without it, phase B returns ok with
  1 ms left.

The refinement is not checked in two wider settings:
- With set_message_type_expire, it fails. That is the stale-baseline finding
  (`purge_config`).
- With two processes purging one topic, each purge's `before` may be the
  other's 1 ms, so the mapping is not defined. There, `two_processes`
  checks `NoSilentFragileTopic` instead.

## 4. Runs

All runs use the code's retention and segment values (1 ms, 604800000 ms,
1073741824 bytes), `MaxConfigRetry = 3` (the code's value) and
`MaxListRetry = 1`. With `MaxListRetry = 1`, a loop polls twice before it
times out. The code polls 16 times, but the loop's structure (poll, count,
time out) is the same, and every outcome (confirmed on the first poll,
confirmed after a retry, timed out) is reached. The control-plane runs use
the view `MCView`, which leaves out `ret`: `ret` is written on returns and
read only, primed, by the action properties and the refinement mapping on
that same step. The data-plane runs use `DataView`.

| Run | Setting | Properties | Result |
|---|---|---|---|
| `sequential` | 1 process, 1 caller, every control method, 2 topics, 1 client id, 2 partitions, 1 crash | TypeOK, NoSilentFragileTopic, ConfirmedMutationsVisible, CallsReturn | pass (180k states, 1 min) |
| `two_processes` | 2 processes with 1 caller each, `init_client`/`delete`/`set_message_type_expire` on 1 topic, 1 crash | NoSilentFragileTopic | pass (69k states) |
| `retention_contract` | 1 process, 1 caller, 1 topic, topic methods and delete, 1 crash | RetentionContract | pass (1.1k states) |
| `data_plane` | 1 process, 1 caller, init_client/send/receive/ack/delete on 1 topic, 2 messages, batches of up to 2, queue of 1, delivery may fail, 1 crash, 1 outage of every broker | DataTypeOK, SyncSendDelivered, SendsReturn | pass (171k states, 80 s) |
| `purge_target` | sequential | PurgeTargetsRequestedTopic | violated: delete purges the last producer's topic |
| `purge_config` | sequential | PurgeRestoresConfig | violated: delete undoes set_message_type_expire, resetting retention.ms to the init_client baseline and segment.bytes / file.delete.delay.ms to the defaults |
| `shared_adapter` | 1 process, 2 threads, 2 client ids | NoSilentFragileTopic | violated: `init_client` between the phases redirects phase B |
| `init_race` | 1 process, 2 threads, init_client only | ProducerStoredOnce | violated: two threads both pass the existence check for one producer id |
| `stale_partitions` | 2 processes, init_client/register_message_type/add_concurrency on 1 topic, 3 partitions, no deregister | ConcurrencyTimeoutMeansNotVisible | violated: the other process grows the topic past this call's request, and add_concurrency raises E2BIG although the topic has the partitions it asked for |
| `interrupt_loss` | data plane, 1 caller, send/receive/ack with auto-commit, no crash or outage | CommittedWereReturned | violated: a KeyboardInterrupt after poll returned a message drops it, and the next commit passes it |
| `send_attribution` | data plane, send only, queue of 2 | FailureReportedToItsSend | violated: an async send's failed delivery is raised by a later send |
| `purge_contents` | data plane, send and delete, delivery never fails | PurgeErasesMessages | violated: delete returns ok before the broker's retention check has run |

What the passing runs show:
- `NoSilentFragileTopic` holds when each adapter object has one caller, even
  across processes and crashes. It takes the purge-value heuristic at line
  132 together with the raise on the last retry. The mutant that drops the
  heuristic breaks it after a crash. The mutant that ignores phase B's
  result breaks it too.
- `CallsReturn` and `SendsReturn` hold: every loop is bounded, and
  `flush()` ends because librdkafka answers every queued message. A retry
  loop whose index never advances breaks the first. A produce retried on
  BufferError without serving the queue breaks the second.
- `SyncSendDelivered` holds: a sync send returns ok only when every message
  of its batch was delivered, outages included. A flush that returns with
  messages unanswered breaks it.
- `DataTypeOK` bounds the outbound queue by `MaxQueue`. A queue with no
  bound breaks it.
- `RetentionContract`: see section 3.

What the violations show is listed under "findings" in `PROJECT.json`.
`shared_adapter` and `init_race` come from one cause: `self._resource`, and
`self._clients`, belong to the object, and the object's threads do not
synchronise on them.

Bounds:
- 2 messages and batches of 2 let one batch hold two messages and let a
  second send follow a first. That is what attribution and FIFO need.
- A queue of 1 reaches BufferError in `data_plane`.
- `send_attribution` needs a queue of 2, so that the second send is
  accepted while the first's report is still queued.
- One crash reaches every crash point in both phases.
- One outage in `data_plane` puts the broker-down event in a producer
  queue, behind or ahead of reports, and in front of a consumer's poll.
  A second outage would only queue the same event again.
- The data-plane runs have one caller. With two callers, the run did not
  finish in 5 minutes.

Fairness:
- `Spec` gives weak fairness to every caller's in-progress steps
  (`Continue(c)`). A caller's thread stays inside the adapter until the call
  returns, and every step is a cluster call bounded by the socket timeout.
- `DataSpec` keeps this, and adds weak fairness to `DataContinue(c)` and to
  `Deliver`. librdkafka answers every message within `message.timeout.ms`.
- No fairness is given to starting calls, to `MetadataRefresh`, to
  `RetentionCleanup`, `ReceiveInterrupt`, or `BrokersDown`. Nothing in the code makes
  metadata converge within the retry budget. The broker's retention check
  has its own schedule (`log.retention.check.interval.ms`). An interrupt
  comes from outside and need never come.

## 5. Not modelled, and why

- `_error_cb` on admin clients: the adapter never polls an admin, so their
  error events are never served. An outage shows in the admin requests only
  as the failed outcomes they already have.
- The Python version: `consumer.commit(async=False)` (line 454) is a
  SyntaxError from Python 3.7, where `async` is a keyword. The model takes it
  as the synchronous commit it was written to be.
- The message payloads and `msg.value()` are abstracted to message numbers.
- Partitions inside the data plane: each topic's log is one partition.
  `add_concurrency` changes the count that the control plane checks.
- `auto.create.topics`: a send to a topic that does not exist fails its
  delivery.
- The validator test: it has no state, and the code it tests is not in this
  repository.
- Sleep durations and timeouts as time: only their order matters to the
  properties.
- Hazards without a property (see `PROJECT.json`): a register that
  partially fails (line 221; the model's only create failure is a topic
  that already exists, so every name exists afterwards by construction), a user's 1 ms expiry taken for the purge
  value (line 132), and the stale existence check of
  `_configure_message_type` (line 474; TLC reaches it in 7 states, and the
  run budget went to the purge and data-plane questions).
  - Line 132 cannot be a property. A topic left at 1 ms by a failed phase B
    and a topic a user set to 1 ms are the same state. The code repairs
    both to the default, and so does the contract (`RetentionSpec`'s
    `PurgeOk`). Telling them apart would need the user's intent, which no
    state of the code holds.
- Per-broker metadata: `list_topics()` is answered by any broker, and each
  broker's metadata cache lags on its own. The model has one metadata view
  that only moves toward the controller. A name that one confirmation saw
  and a later `list_message_types` misses is outside it (hazard at line
  168). Per-broker views would multiply the control plane's states beyond
  the 5-minute runs.
- `list_message_types` changes nothing, so it is not an action. It is the
  operator `ListMessageTypes`, which `_configure_message_type`'s existence
  check (line 473) uses.

## 6. Plan

1. Done: `KafkaCluster`, `KafkaMessageBroker`, `KafkaDataPlane`,
   `RetentionSpec`, with the runs above; the broker-down fault model and the
   at-least-once invariant `CommittedWereReturned`, which the interrupt
   path breaks (`interrupt_loss`); before that path was modelled it held
   in `data_plane` through a crash, auto-commit, ack, retention and the
   broker-down error.
2. Settled: a 1 ms expiry among the inputs (line 132). It cannot be told
   apart from a half-done purge (section 5).
3. Not worth a run: a refinement of the data plane against an abstract
   topic log. Per-producer order and at-most-once append would hold by the
   shape of `Deliver`, because librdkafka's internal retries, which could
   reorder, are not modelled.
4. Two further divergences from spec.md section 8, each needing a
   violation run of its own once the run budget allows:
   - a KafkaException from an alter future escapes unwrapped from both
     phases of delete, so their error kinds coincide;
   - `_configure_message_type` on a topic deleted after its existence check
     raises that exception instead of NotFound (line 474).
5. Per-broker metadata views (section 5), if a smaller control plane makes
   them affordable.
