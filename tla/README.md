# TLA+ models of the DataHub C++ SDK

The SDK has two layers. `src/` and `include/` hold a synchronous client: one HTTP request per
call. `client/` builds a producer and a consumer on it, with threads, queues, timers and state
that is shared with a service. What is concurrent is in `client/`, and is modelled thread by
thread. The client below it is modelled call by call: what each method sends, what a service does
with it, and what the caller is told, with the pool of curl handles that every request of every
thread goes through as a module of its own.

Paths such as `shard_writer.cpp` are relative to `client/src/` unless they name another directory.

## 1. The system

### Producer

| Part | State | Operations | Talks to |
|---|---|---|---|
| `DatahubProducer` | a `ShardGroupWriter` | Write, WriteAsync, Flush, Close | delegates |
| `ShardGroupWriter` | map of `ShardWriter`s, selector, coordinator | picks a shard, retries on another one, follows the topic's shards, flushes all | MetaData, selector, ShardWriter |
| `ShardWriterSelectStrategy` | active list, inactive list, index | next shard, invalidate, add, remove | ShardGroupWriter |
| `ShardWriter` | `mTotalTaskNum`, `mSendMutex`, `mTaskMutex`, `mTaskCV` | WriteAsync, Flush, SendNextTask, SendTaskOnce, TaskDone | RecordPackQueue, MessageWriter, the client |
| `RecordPackQueue`, `RecordPack` | current pack, ready packs | append, make ready, obtain, pop | ShardWriter |
| `MessageWriter` → `HashThreadPool` | one single-thread `ThreadPool` per thread | submit to `key % threads` | ThreadPool |

### Consumer

| Part | State | Operations | Talks to |
|---|---|---|---|
| `DatahubConsumer` | a `ShardGroupReader` | Read, Close | delegates |
| `ShardGroupReader` | map of `ShardReader`s, selector | Read, create and remove readers, end of a shard | coordinator, selector, readers |
| `ConsumerCoordinator` | heartbeat object, `mOffsetReset`, `mSubDeleted` | update of shards, leave and rejoin, SyncGroup, reactions to plans | heartbeat, SyncGroupMeta, OffsetManager, MetaData |
| `OffsetCoordinator` | subscription version | reads offsets, opens sessions | OffsetManager |
| `ConsumerHeartbeat` | held shards, `mConsumerNotFound` | one heartbeat, change of plan | service, coordinator |
| `SyncGroupMeta` | active, release and read-end lists | add, release, read end, heartbeat done | coordinator, heartbeat |
| `OffsetManager` | per shard: session, queue of keys, last offset | queue a key, commit loop, forced commit at release, reset | service, coordinator |
| `ShardReader` | cache queue, `mTaskRuning`, current offset | Read, ReadNext, FetchOnce, ResetOffset | MessageReader, service |
| `MessageReader` → `ThreadPool` | task queue, closed flag | submit, worker loop, shutdown | all readers of a consumer |
| `ShardReaderSelectStrategy`, `ShardOffsetHeap` | heap of shards by time | select, after read, add, remove | ShardGroupReader |

### Shared, and below

`MetaData` keeps the shards of a topic and tells the coordinators of one process that use it;
`MetaCache` and `DatahubClientFactory` are process-wide maps of such objects. `CurlHandleContainer`
is the pool of connections behind `CurlHttpClient`.

### Client

| Part | State | Operations | Talks to |
|---|---|---|---|
| `DatahubClient`, `DatahubClientJsonImpl`, `DatahubClientPbImpl` | endpoint, account, encoding | 58 methods: projects, topics, shards, records, connectors, subscriptions | requests, results, `CurlHttpClient` |
| requests and results (`src/model/`) | the arguments, the result | BuildPath, SerializePayload, DeserializePayload | `json_tool`, `protobuf_tool` |
| `AuthSigner` | account | sign a request | |
| `CurlHttpClient`, `CurlHandleContainer` | pool of handles | one exchange over a handle | service |
| `datahub_compressor`, `protobuf_parser`, `ErrorParser` | | pack, frame, classify an error | |

### Where the threads meet

A producer has user threads and the workers of the hash pool; a worker that finishes a pack sends
the shard's next one itself, under `mTaskMutex`. A consumer has the reading thread (serialised by
a mutex of `ShardGroupReader`), the heartbeat thread that a rejoin stops and replaces, the commit
thread, the fetch threads shared by all readers, and application threads that acknowledge.
Several flags and sizes are read without the lock that guards them. The service can forget a
consumer, rewind or delete a subscription, expire records, seal shards and list new ones at any
time, and any request can fail after it took effect.

### What makes each part correct

* Write path: records of a shard are sent in the order they were accepted, each accepted record
  gets exactly one answer; Flush returns once writes end, and, when a worker serves one shard only,
  not before what was accepted is answered.
* Offsets: the committed offset covers only acknowledged records; a release that is not cut short
  commits every record whose key was queued; commits of one session do not go back.
* Readers: one fetch at a time, no live record skipped, shard order kept, every record delivered.
* Group: held shards are valid and have readers, only planned shards are read, a lost member
  that has a valid shard tries to rejoin.
* Group writer: between updates the writers are those of the topic's shards; a shard that failed
  comes up again.
* Client: what a method returns or throws is true of what the service did; records it reports as
  failed are exactly those refused; nothing of one request stays on the handle for the next.
* Pools: every accepted task runs, a shutdown that ends loses nothing; handles are conserved and no
  waiter is left asleep beside a free handle.

`PROJECT.json` lists all parts (`components`), and every hazard of the code at its line
(`hazards`), with the properties that cover it or the reason why none does.

## 2. Modules

| Module | Models | Checked by | Proved in |
|---|---|---|---|
| `RecordPackQueue` | the buffer of a shard as a data type | `MCShardWriter` | `ShardWriter_proofs` |
| `ShardWriter` | the asynchronous write path, several producers, shards, workers | `MCShardWriter` | `ShardWriter_proofs` |
| `OrderedDelivery` | what that path promises (abstract) | refined by `ShardWriter` | `ShardWriter_proofs` (its refinement) |
| `ShardWriterProps` | properties of the write path and the refinement mapping | `MCShardWriter` | `ShardWriter_proofs` |
| `ThreadPool` | Submit, worker loop, Shutdown | `MCThreadPool` | `Pools_proofs` |
| `OffsetManager` | offsets, with the user, heartbeat and commit threads and the subscription | `MCOffsetManager` | `OffsetManager_proofs` |
| `ShardReader` | Read and FetchOnce of one shard, and the shard | `MCShardReader` | `ShardReader_proofs` |
| `ConsumerGroup` | SyncGroupMeta, heartbeat, coordinator, group reader, shard list | `MCConsumerGroup` | `ConsumerGroup_proofs` |
| `CurlHandleContainer` | the pool of handles and its user | `MCCurlHandleContainer` | `Pools_proofs` |
| `ShardWriterSelectStrategy` | the producer's round robin as operators | through the next | `ShardGroupWriter_proofs` |
| `ShardGroupWriter` | the producers of a topic over one MetaData | `MCShardGroupWriter` | `ShardGroupWriter_proofs` |
| `ShardReaderSelectStrategy` | the consumer's choice of a shard, with its heap | `MCShardReaderSelectStrategy` | `ShardReaderSelectStrategy_proofs` |
| `Json`, `DatahubRequest` | documents, and what requests have in common | through `DatahubClient` | `DatahubClient_proofs` |
| `TopicModel`, `RecordModel`, `ConnectorModel`, `SubscriptionModel` | every request and result of `src/model/` | through `DatahubClient` | `DatahubClient_proofs` |
| `DatahubService` | the service (external): documents by path | through `DatahubClient` | `DatahubClient_proofs` |
| `DatahubApi` | what the interface promises, in the caller's terms | through `DatahubClient` | |
| `DatahubClient` | the methods, the exchange, losses on the network | `MCDatahubClient` | `DatahubClient_proofs` |

Conventions. Variables carry the names of the members without the `m`; the comment beside a
declaration names the member when the two differ. A step is what a thread does between two points
at which another thread can observe or change something: a critical section of a mutex that no
other code looks into is one step, a lock that is held across a blocking call is a variable, an
unlocked read or an atomic is a step of its own. `pc` (or the `step` field of a record) is the
position of a thread; the header of each module gives the order of its labels. Timers do not
count: an expiry is a step that is possible while the code waits for it. Variables under
`history` are for the properties only. Definitions marked "Mutant" are the faults with which each
property is shown to be sensitive: a property is kept only if putting the mutant in place of the
definition after it makes TLC report that property.

### ShardWriter

`queue` is the `RecordPackQueue` of each shard, `tasks` the queue of each pool of one thread,
`totalTaskNum` the signed counter Flush waits for. `StartWriteAsync`, `PassLimit` /
`LimitTimeout` and `Accept` are WriteAsync: the limit is tested outside the lock. `ObtainPack`,
`Submit` / `SubmitFull`, `CountTask`, `PopPack` are the lines of SendNextTask under `mSendMutex`,
executed by producers and by workers; the task can run as soon as `Submit` is done, before it is
counted and before it leaves the ready queue. `TakeTask`, `PutSucceeds` / `PutRetries` /
`PutFails`, `TaskDone` are the worker; the service may have stored a pack although the request
failed. Records of one call are one unit, and bytes and record counts are one size limit.
`WorkerOf` says which worker serves a shard (`key % threads`). The pool is closed when no writer is
left, so that Submit does not meet a closed one.

`OrderedDelivery` has the log, the accepted calls and the promises only: accept, and attempt the
oldest unresolved calls together. The mapping is the identity on the three variables, so the
refinement says that everything else (packs, queues, counters, locks) cannot be seen in the
order or the number of answers.

### ThreadPool

`TakeTask`, `Exit`, `TestFails`, `Sleep` are the worker's wait on its condition variable: the test
and the wait are two steps, because Shutdown stores `mClosed` and notifies without the mutex
(thread_pool.cpp:71). `Push`, `Refuse` and the throwing start are Submit, which tests `mClosed`
before it locks. Workers submit to their own pool, as write tasks do.

### OffsetManager

The user thread reads a record and then queues its key (`ReadRecord`, `SendOffsetRequest`), with a
window between the two; `Ack` is in any order; `Rejoin` is what UpdateShardInfo does to the shard
lists. The same thread runs what MetaData calls back: `ListShard` and `CreateListedReader` make
readers for the shards a listing finds new, and `ReadEnd` takes the reader of a sealed shard away.
Opening a session (`OpenSession`) and adding readers (`AddReaders`) are the same code for both
callers, under mShardReaderMutex (`ReadersUnlocked`). The heartbeat thread runs OnShardChange as `Heartbeat`, `InitSession`, `CreateReaders`,
`RemoveReaders`, `ForceCommitDone` or `ForceCommitTimeout`, `EraseShards`, and a reset as
`ResetReaders`, `ClearOffsets`. The commit thread pops the acknowledged prefixes (`SyncOffset`)
and commits with the mutex held over the retries. The subscription keeps one session per shard and refuses offsets of
older ones. A shard is in `mixed` once its queue was replaced under a reader that stays: by a plan
after a rejoin, or by a plan for a shard whose reader MetaData had made, or the other way round; also
once a key was queued in a session that is not its reader's. `Restart` is the death of the process: only the service remembers, and unacknowledged
keys die with their holder.

### ShardReader

The reading thread goes through `test`, `exchange`, `send`, `look` and handles what the front
entry of the queue is: a record, a delay, or an error that resets the offset, ends the shard or is
rethrown. A fetch thread gets a cursor if it has none (by sequence, and by the oldest record when
the sequence has expired), gets records, pushes them, and clears `mTaskRuning`; the order of the
last two is what `FetchedInTurn` rests on. The shard appends, expires and seals.

### ConsumerGroup

One application thread in Read, one heartbeat thread. A heartbeat's answer runs through
`create`, `remove`, `release`, `done`; Read goes through the assignment, the update of the shard
list with its callbacks, and the rejoin: leave, stop, join, a new thread, and only then the
clearing of `mOffsetReset`. A join that throws leaves the member without a heartbeat (`~joined`). The active list is a bag, because the code pushes a held shard once
per heartbeat and erases one entry per release. A failing listing leaves `mUpdating` set, as the code does.

### CurlHandleContainer

`Acquire`, `Grow`, `Wait`, `Release` are the critical sections; a growth may get fewer handles
than it wants, or none. `pthread_cond_signal` wakes at least one waiter, and a new thread may take
the handle before the woken one does. Threads go on making requests for ever.

### ShardGroupWriter

Any thread that writes may find the timer of the shared MetaData expired and win the exchange of
`mUpdating`: it asks the service (`ListShard`), compares, and visits every registered coordinator
(`Notify`), whose producer creates and removes writers in two critical sections. `Select`,
`GetShardWriter`, `PutSucceeds` / `PutFails`, and `AppendRecord` / `QueueFull` are Write and
WriteAsync; between them the writer may be removed. `Flush` keeps the mutex of the writers while
it waits for each, so that callbacks wait too. `tasks` says which ShardWriters have something
under way, which may end after the writer has left the map. One producer is constructed and
destroyed while the other works: it registers, reads the map, and only then has a callback
(datahub_producer.cpp:23-30). The failed shards that `GetNextShard` appends stay in their set, so
that the list grows at each expiry; `MaxActive` bounds that.

### ShardReaderSelectStrategy

`nodes` is the array of the heap and `index`, `timestamp`, `valid` are the members of the infos in
it. Removing a shard only marks its info, which stays in the heap until it comes to the top, so an
info of the shard that was removed and one of the shard that was added again can lie there
together. A shard without a record is marked too, and pushed once more when nothing else is left
or the timer expires; if its node was not at the top by then, it now lies in the heap twice
(`doubled`), and the order of the heap is no longer kept: `OldestFirst` says what holds until then.
HeapUp and HeapDown call themselves, and GetNextShard pops and pushes in loops; each is its pass
(`UpCall`, `DownCall`, ...), made as often as there are nodes, and never has an effect after that
(`Iterate`).

### The client

A behaviour exercises one family of methods (`Parts`) with a small set of arguments for each. A
call is three steps or more: the request with its headers, encoding and signature goes on the wire;
the service handles it, or the network loses the request or the answer, cuts the answer short, or a
gateway answers instead; the result, or the error, is read. The service may refuse some records of
a put and names them by their positions, in any order (`Refusable`). The service is a map from paths to JSON
documents that keeps the members it is sent and knows nothing of the client's types, so a member
that is written under one name, or as a number, and read under another, or as a string, does not
come back. `DatahubApi` tells the same story in the caller's terms: objects, what a granted call
does to them (`Effect`), and what its result has to say (`Promises`). `ResultsAreTrue` compares the two, for
all 58 methods: it is the statement that the serialisation loses nothing the interface promises.
`OutcomesAreTrue` says what the caller may conclude from the end of a call: whether the service did
it (`ErrorsAreTrue`), which records of a put it took (`FailedRecordsAreRefused`), and whether the
shards waited for are there (`ShardsAreReady`).
In one place the code does something else than its interface says, an offset of one connector shard
that is applied to all shards, and `Effect` says what the code does, with a comment beside it. Text in
the JSON of a project's comment is put together without escaping; `Unquotable` names the texts for
which that matters. Documents are put together with `++` of `Json`, which is `@@` of the module TLC,
but with its definition where the provers can see it.

## 3. Runs

| Run | Question | Instance | States |
|---|---|---|---|
| `shard_writer` | can threads reorder or miscount packs, or make Flush wait or return wrongly? | 2 producers × 2 calls, 1 shard, limits 1, packs of ≤ 2 | 332,831 |
| `shard_writer_live` | does it implement `OrderedDelivery`; does every Flush return once writes end, and is every ready pack answered? | 2 producers × 1 call, 1 shard, 2 attempts | 24,835 |
| `offset_manager` | does the commit thread use data that is gone, or commit what is not acknowledged, or backwards; is anything skipped, or a queued key lost at a release? | 2 shards (2 records and 2 sessions, 1 and 1; one of them listed later), 2 attempts | 1,546,714 |
| `offset_manager_rejoin` (violation) | does that survive a rejoin? | 1 shard, 2 sessions | |
| `thread_pool` | can a task be slept over, lost at shutdown, or never run? | 2 workers, 2 clients, 4 submits, limit 2 | 1,623 |
| `shard_reader` | one fetch, no skip, order, delivery | 3 records, 2 fetch threads, 1 error, 1 refusal | 220,712 |
| `consumer_group` | are held shards valid and read, and only planned ones? | 1 shard + 1 from a split, 3 heartbeats, 1 fault | 2,280,414 |
| `consumer_group_live` | does an expelled member with a valid shard rejoin, or tell the application? | 1 shard, 3 heartbeats, 2 faults | 46,792 |
| `curl_pool` | are handles conserved, waiters woken, requests served once new ones stop? | 4 threads, ≤ 3 handles | 1,697 |
| `group_writer` | do writers follow the shards; is one ever forgotten? | 2 producers, 2 threads, 2 shards, 1 change | 1,332,495 |
| `reader_select` | does every shard come up again, and the oldest first? | 2 shards, 4 infos, 2 times | 459,317 |
| `client` | is what the caller is told true? | 6 families, 58 methods, quota 2 | 265,331 |

**Bounds, and why they are enough.** Limits of queues are 1 or 2, so that full, nearly full and
empty are all reached with few calls. Two producers and one worker are the smallest number for
which SendNextTask is contended from both sides and Flush has a rival; two calls each give packs
that overtake one another if they can, which is what the mutant of `PipelineInOrder` needs. In
the write path one attempt suffices for the safety run, since a retry only repeats the put; the
refinement run has two attempts. Two sessions are a new assignment over an old one; two
records are acknowledged out of order, and the second shard makes a commit of one meet the release
of the other; which of the two MetaData lists at first is `FirstShards`. `MaxPoolSize` 3 makes the
growth of the pool be cut (2, then 1) and with four threads leaves one to wait. Three heartbeats
are a plan, its confirmation and its withdrawal, the shortest history in which the active list
holds a duplicate of a released shard. One change of the topic
replaces its shards, by the other, both, or one of two, while an update with the old answer is
under way; `MaxActive` 2 lets a failed shard be appended and fail again. Four infos are two shards
and what is left of their earlier lives, and a heap of four nodes has two levels below its root.
A `Quota` of two lets the client's documents be absent, alone, and side by side, and ends what could
grow for ever: the service refuses more. Every mutant is found within these bounds.

Symmetry is used only in `shard_writer` (producers) and `reader_select` (shards and infos), which
check no liveness.
Deadlock checking is off where the system may stop for good: a shut-down pool, a reader at the end
of its shard, and the handle pool, whose threads can all be asleep once handles could not be created.

**Fairness.** Weak fairness for a thread that is not blocked: the operating system runs it, and
requests end because curl has a timeout (`CURLOPT_TIMEOUT_MS`). Strong fairness for the acquisition
of a mutex: every holder releases it after a bounded number of steps and no loop retakes one
without waiting in between. The reader's liveness assumes that the application goes on calling
Read; nothing is assumed of the service except that it answers: it need not append, expire or seal, and
a run has a bounded number of its errors. No fairness is put on starting a write, a flush, a request
or a shutdown. Where progress needs that traffic ends, the property says so (`WritesEnd`,
`RequestsEnd`), although `MaxCalls` ends the writes of a run in any case; requests have no bound.

### What the violation shows

* `offset_manager_rejoin`: a rejoin keeps the readers but replaces their queues of keys
  (offset_manager.cpp:58), so that the next acknowledgement commits past records that were handed
  out and never acknowledged. `AtLeastOnce` holds in one session and fails over two. The same
  replacement is made when a plan assigns a shard whose reader MetaData had made after a split.

Other things the models show of the code are recorded as hazards with a note, most of them because
no text of the repository promises otherwise: a released shard can stay in the active list; a member without a valid shard is never led back into its group; a failed listing of shards stops
all later ones; the size of the reader's queue is read without its mutex. So are these:

* Where shards share a worker, a pack that the pool refuses because it is full of another shard's
  packs stays in the ready queue uncounted (shard_writer.cpp:115). Flush finds the counter at 0 and
  returns early, and no TaskDone of the shard sends the pack later: who then waits for the futures, as
  example_async_produce.cpp:247-251 does, may wait for ever. `ReadyIsAnswered` and the theorem about
  `FlushComplete` have the hypothesis `OneShardPerWorker`, and the runs have one shard.
* A Flush may wait for as long as other threads write: TaskDone counts down and counts the next task
  up in one hold of `mTaskMutex` (shard_writer.cpp:168-171). `FlushReturns` needs `WritesEnd`.
* A thread that waits for a handle may wait for as long as others make requests, since they can take
  the handle before it does (curl_handle_container.cpp:60, :78). `RequestServed` needs `RequestsEnd`.
* After one JoinGroup that throws, mHeartbeatPtr is null, every later Read waits in WaitShardAssign
  (consumer_coordinator.cpp:42), and the test that would join again (:48) is never reached.
  `RejoinWhenAssigned` ends there (`JoinFailed`).
* A record between Read and SendOffsetRequest when its shard is released is handed out, its key is
  dropped (offset_manager.cpp:66), and the next owner reads it again.
* Shutdown of a ThreadPool may never return: a worker between its test and its wait misses both the
  flag and the notification (thread_pool.cpp:71).
* The result of SubmitTask is dropped (shard_reader.cpp:257); after one refusal `mTaskRuning` stays
  set and the reader fetches no more. `DeliveredUnlessRefused` has that exception, and needs it.
* Write may report "No valid shard to write" though a valid writer was never tried
  (shard_group_writer.cpp:69), and a producer constructed during an update misses the change.
* An info may lie in the heap twice (shard_select_strategy.cpp:75).
* `UpdateConnectorOffsetByShard` does not pass its shard on (datahub_client_json_impl.cpp:662-674).
* The reading of a partition configuration compares an iterator with the end of another object
  (datahub_connector.cpp:1364); std::stoi in the readers of configurations, and FindMember without a
  test in ListTopicSchemaResult, leave the program by an exception or an assertion that is not a
  DatahubException. The model has no such answers: the service sends back what it was sent.
* GetTopicMeteringInfoResult does not look at parse errors: on a garbled answer the library stops
  the program, which is the outcome `stopped` of the model.

## 4. Proofs

Each proof is for every value of the constants: any shards, threads, records, sessions, limits,
retries and bounds; of the client, any documents, arguments and configurations. The assumptions are the named ones in the module of the component: numbers are
naturals, special values such as `NoShard` are not members of the sets they stand beside, every
shard has a worker (`WorkerOf`) and every thread a producer (`ProducerOf`). The sets over which
something is counted are finite: the producers of `ShardWriter`, the threads of
`CurlHandleContainer`, the shards of `ShardGroupWriter`, whose selector makes a list of a set, the
paths of the client's documents at first (`DocsAssumption`). A put of the client is given a sequence
of records (`RecordsAssumption`), and the digits of a gateway's status are no error code of the
service (`StatusAssumption`).
Each `_proofs` module begins with its inductive invariant; TLC has checked it on the instance of
the component's run. What follows says what an invariant adds to the properties, and why these are
not inductive without it.

* **ShardWriter**: `TypesKept`, `OrderKept`, `TasksCounted`, `SleeperWoken`, `DeliveryImplemented`,
  `FlushIsComplete`. The order of the calls rests on who may touch the two ends of the ready queue:
  `sendMutex` and `taskMutex` are held over exactly the places of SendNextTask and TaskDone
  (`Owners`), so that at most one thread has a pack which is in the worker's queue and in the ready
  queue as well; that pack is the front one (`PacksFilled`), and a worker's queue has tasks of its
  own shards only (`TasksHashed`). `CallsDistinct` (a call is accepted once) is what lets the
  positions of `PipelineInOrder` be told apart when the promises of one pack are resolved.
  `SubmittedIsOutstanding` says that SendNextTask never finds the counter at 0 while a pack is
  between Submit and PopPack, which is why one task of a shard is under way at a time.
  `ReadyBound` counts the producers that are past the test of the limit, and gives the bound of
  `TypeOK`. A step of the path is an accept, an attempt, or changes none of the three variables of
  `OrderedDelivery`; the attempt is the case with content, where `PipelineInOrder` tells which run
  of `accepted` the worker holds.
  `FlushIsComplete` has the hypothesis `OneShardPerWorker`. Without it the statement is false, for
  the reason recorded as a hazard at shard_writer.cpp:115: a pool full of other shards' tasks
  leaves the pack ready and uncounted, and Flush returns. With it, the task that fills the pool is
  the shard's own, hence counted (`SubmitterHasTask`).
* **OffsetManager**: `TypeCorrect`, `MetaAlwaysFound`, `PopsOnlyAcked`, `CommitsOnlyAcked`,
  `CommitsForward`, `ReleaseIsComplete`. `MetaFound` is inductive by itself: the three maps gain
  and lose a shard in the same critical section, and the commit holds the mutex. `PoppedAcked` needs
  `SentOfShard`: the history of a shard's queue has keys of that shard only, otherwise what
  SyncOffset pops could belong to another; the queue is a suffix of that history (`SuffixOfAppend`,
  `SuffixOfSuffix`), and `AckedPrefixBounds` says what the CHOOSE in `AckedPrefix` returns.
  The others share `DeliveryInv`. A commit stores `lastOffset`, one record, and says nothing of
  those before it. It covers only acknowledged records because the keys of one reader are
  consecutive and begin right after what was committed when the session was opened (`KeysInRun`,
  `OffsetsAcked`), also while the user thread has read a record and not yet queued its key
  (`Pending`, `Follows`); what is to be committed is the last key popped (`LastIsPopped`). Keys of
  a replaced reader are told from the new one's by `SessionsGrow`: the session just opened is newer
  than every reader and key of the shard. `HeldHasMeta` ties the maps to
  the readers and to the shards the heartbeat thread holds, and `NothingHeldBack` says that the
  commit thread leaves nothing to be committed behind when it gives the mutex back, so that a reader
  which goes and comes again (`ReadEnd`, `CreateListedReader`) meets no old offset. The theorem is about the shards outside
  `mixed`, those that one reader at a time has served; `offset_manager_rejoin` shows a shard inside
  it for which the statement fails. `ReleaseIsComplete` is a property of the step that ends
  ForceCommitOffset in time; it is about the keys that were queued in the last session of a
  shard outside `mixed`, and follows from `ReturnedQueued` with `LastIsPopped`.
* **ThreadPool**: `PoolTypeOK`, `NoTaskSleptOver`, `ShutdownRunsAll`. The invariant adds: the mutex
  is held over a step exactly by a thread about to wait (`MutexHeld`); threads leave only a closed
  pool and all before Shutdown ends (`ExitedWhenClosed`); no client is inside once it is being
  destroyed (`ClientsGone`); a worker has a task exactly in its task labels (`Busy`); each accepted
  task was run, is running or is queued (`Conserved`). `WorkHasWorker` alone is not inductive: the
  step from test to sleep keeps it only because `MutexHeld` shuts Push out of the window.
  `ShutdownDrains` follows from the last three.
* **ShardReader**: `TypesKept`, `FetchesInTurn`, `NothingSkipped`. That one fetch is under way is a
  statement about whoever has set `mTaskRuning`: Read about to submit, the pool's queue, or one
  thread (`OneHolder`). A thread that is about to push has a run of consecutive records from its
  cursor (`FetchIsRun`), all before that cursor is delivered, expired or queued
  (`NothingMissing`), and nothing from the cursor on is, as long as no reset went back
  (`FetchFollows`, `QueueInOrder`). `RoomForFetch` bounds the queue: Read looks at its size before
  it exchanges the flag, so that the fetch of the time between fills it once more.
* **ConsumerGroup**: `TypesKept`, `HeldStaysValid`, `HeldStaysRead`, `ReadersKeepToPlan`.
  `HeldIsValid` speaks of the time between heartbeats only; what makes it true again at the end of
  one is `HeldIsActive`, that a held shard has an entry in `mActiveShards` all the time until its
  release is cleared, and `ListsFollowTopic`, that the list of shards loses sealed ones only, also
  while a listing is being carried out. `HeldAreRead` follows a plan through the four parts of its
  heartbeat. `ReadersInPlan` is about a run without a fault (`FaultlessStays`).
* **CurlHandleContainer**: `PoolTypeCorrect`, `PoolConserved`, `NoHandleStranded`. `HandlesTypeOK` and
  `HandlesConserved` need each other; `PopKeepsHandlesInv` is the common part of taking an idle handle and
  taking one of a growth. `NoStrandedHandle` compares two cardinalities, and a growth adds several
  handles at once; it is kept because the pool cannot grow any more once a thread sleeps, unless
  curl_easy_init has failed (`SleepersInv`).
* **ShardGroupWriter**: `TypesKept`, `WritersKeepUp`, `WritersKnown`. During an update each producer
  has either the old writers, the new ones, or both, depending on how far the one updating thread
  has come (`OneUpdater`, `ChangeIsDifference`, `WritersAsTold`); a producer that is constructed meanwhile
  may have missed it, and is in `late` (`LateUnderConstruction`). `NoWriterForgotten` is inductive
  with the types, once it is known what the operators of the selector do to the set of a list's
  entries.
* **ShardReaderSelectStrategy**: `TypesKept`, `ShardsRemembered`, `OldestOnTop`. Update goes to the
  node by the index that its info remembers, so `Pointing` (an index that an info has is one where it
  lies) has to be kept by every rearrangement, also when an info lies in the heap twice; that every
  node is indexed and in order (`Indexed`, `Ordered`) holds until then (`HeapInOrder`).
  Inside HeapUp and HeapDown the heap is out of order at one node and nowhere else, and the node's
  children are not older than its parent (`OrderedButUp`, `OrderedButDown`, `Bridged`); a call keeps
  that and moves the node, or ends with the order restored. `NoShardForgotten` needs `OwnInfo`: two
  shards never share an info, so that what is marked for one does not hide the other.
* **DatahubClient**: `ClientTypeOK`, `OutcomesTold`, with its parts `FailedRecordsTold` and
  `WaitTold`. What a caller is told depends on an answer that was made a step earlier, from a request
  made a step before that; the invariant (`Invariance`) says what is true of both while they are on
  the wire. A request carries the signature of what it carries (`RequestInv`), so that no answer
  to it is about the signature; it is the request of its call: a put carries its records in the
  encoding of the client, and a wait lists the shards of its topic. `AnswerInv` relates an answer to
  the state that the service left: a good status means granted, a bad one that nothing was done, a
  readable answer to a put names the refused records, and a listing that shows all shards active or
  closed came from documents in which they are. That the last stays true until it is read holds
  because no other request is made meanwhile; `OutcomesAreTrue` alone is not inductive, as it says
  nothing of an answer under way.
  The proof goes method by method: each of the 58 begins a call, exchanges, or ends one
  (`ProjectStepShape` and its like), which reduces `Next` to a few shapes. Every answer of the service
  is `Proper`: status 200 and finite documents, or a refusal that leaves the documents alone, shown
  for each operation of `DatahubService`. A put is then followed through both encodings: which
  operation its request names, what the service answers, what the network leaves of it, and
  what PutRecordResult or PutPBRecordResult reads. Finiteness of the documents is in the invariant
  because a listing makes a sequence of the shards of a topic, which has all of them only if they are
  finitely many.

Statements about all lengths of a sequence, and about all passes of a loop, are proved by a least
counterexample (`LeastNumber`, `IterateInduction`). What the other proofs need of the operators on
sequences stands at the head of the module that uses it: what FlattenSeq does to a concatenation, an
appended or a split pack and the positions of a task in a queue (`ShardWriter_proofs`), the set of a
sequence's entries and a sequence of a set's members (`ShardGroupWriter_proofs`).

Only model-checked: what liveness says (`FlushReturns`, `ReadyIsAnswered`, `AcceptedRuns`,
`DeliveredUnlessRefused`, `RejoinWhenAssigned`, `RequestServed`), because fairness and ENABLED are
out of the prover's reach; the violation of `AtLeastOnce`; and `ResultsAreTrue`. The last compares
what every pair of methods writes and reads, through nested documents whose members are sequences
of arguments of any length; its invariant would be a relation between `docs` and `objects` with a
case for each type of object and of connector. The instance goes through each of these cases.

## 5. Not modelled

`MetaCache` and `DatahubClientFactory` are maps behind a mutex with a first test outside it: their
one question is a data race inside std::map, which a model at the level of steps can name and not
examine. `Timer` is abstracted: an expiry is a step that may happen whenever the code looks for
it. `Logger`, configuration values, the C API and `datahub_client.cpp`, which forwards, have no
state that a property could be about; neither have the byte counters of `DatahubMetric`. Bytes are
abstract: the spelling of JSON, the wire format of protobuf, the CRC polynomial, the compressors
and OpenSSL; what depends on them (a checksum that differs, an answer that is not whole, an encoding
without the size it needs, a header that is not signed) is modelled. Exceptions that leave a thread
function end the process and are modelled only where something survives it (`Restart`). Uses of an
object after its end, such as by a queued task whose writer or reader was removed, are named as
hazards: `ShardGroupWriter` has the step, and nothing can be promised of it. In a producer,
OnRemoveAllShards is registered and never called; ClearAllShard runs in destructors only. Producers
that are built with shards of their own (SetAssignShards) and the exception of HashThreadPool::Submit
on a closed pool, which the owner closes after the last writer, are left out. `ConsumerGroup` begins
after the constructor of DatahubConsumer: that a plan could come before the callbacks are registered
is not a state of the model.

The client is modelled one call at a time: calls share only the pool of handles, which
`CurlHandleContainer` takes with several threads. `client/` is not composed with `DatahubClient`: its
models take the outcomes of a request (done, not done, unknown) that `ErrorsAreTrue` is about.

## 6. Plan

The modules, runs and proofs above are those that were planned: the write path and its refinement
first, then the offsets, the readers, the group, the pools, the group writer and the selection, and
the client last. What is left, by what it would add:

* `ResultsAreTrue` for one family of documents at a time, beginning with records, whose relation
  between `docs` and `objects` is the smallest;
* a refinement of `DatahubApi` by `DatahubClient`, in which a call is one step that is granted or
  not, to let the models of `client/` rest on it.
