-------------------------- MODULE ShardGroupWriter --------------------------
(***************************************************************************)
(* The producers of one topic in one process: their ShardGroupWriters      *)
(* (client/src/shard_group_writer.cpp), coordinators and selectors, and    *)
(* the MetaData they share (client/src/meta_data.cpp).  Any thread that    *)
(* writes may find the list of shards expired; it then asks the service    *)
(* and tells every registered coordinator, also those of other producers,  *)
(* what has come and gone.                                                 *)
(*                                                                         *)
(* A call of a thread runs through the stages                              *)
(*   list, notify, create, remove   UpdateShardMetaMap                     *)
(*   select, get, put               Write or WriteAsync                    *)
(*   flush                          Flush                                  *)
(* A producer is not destroyed while another thread is inside its callback *)
(* (Unregister): MetaData does not protect its coordinators.               *)
(***************************************************************************)
EXTENDS ShardWriterSelectStrategy, FiniteSets

CONSTANTS
    Shards, Producers, Threads,
    ProducerOf,     \* the producer a thread uses
    Calls,          \* the calls a thread makes: "Write", "WriteAsync", "Flush"
    Transient,      \* producers constructed and destroyed while others are at work
    InitialShards,  \* the ACTIVE shards at the start
    NoThread,       \* owner of a free mutex
    MaxReshards,    \* bound: changes of the topic's shards
    MaxActive       \* bound: length of a selector's list, which the code never trims

ASSUME ShardsAssumption == IsFiniteSet(Shards)
ASSUME ProducerOfAssumption == ProducerOf \in [Threads -> Producers]
ASSUME CallsAssumption == Calls \in [Threads -> SUBSET {"Write", "WriteAsync", "Flush"}]
ASSUME TransientAssumption == Transient \subseteq Producers
ASSUME InitialShardsAssumption == InitialShards \in (SUBSET Shards) \ {{}}
ASSUME NoThreadAssumption == NoThread \notin Threads
ASSUME BoundsAssumption == MaxReshards \in Nat /\ MaxActive \in Nat

VARIABLES
    \* the service
    topic,          \* the ACTIVE shards of the topic
    reshards,       \* how often they have changed
    \* MetaData
    shardMetas,     \* the shards in mShardMetaMap
    updating,       \* mUpdating
    coordinators,   \* mCoordinators: the producers registered
    \* producers
    life,           \* absent, registered, created (no callback yet), open, closed
    writers,        \* mShardWriterMap
    writerMutex,    \* owner of mShardWriterMutex
    selector,       \* mShardSelector
    \* threads
    stage, budget, async, chosen, change, visited, target, unflushed,
    \* the MessageWriter
    tasks,          \* <<producer, shard>> with an asynchronous write under way
    \* history
    late            \* producers constructed while the shards were updated

service == <<topic, reshards>>
meta == <<shardMetas, updating, coordinators>>
producer == <<life, writers, writerMutex, selector>>
call == <<budget, async, chosen>>
update == <<change, visited, target>>
vars == <<service, meta, producer, stage, call, update, unflushed, tasks, late>>

NoChange == [add |-> {}, del |-> {}, shards |-> {}]

Init ==
    /\ topic = InitialShards
    /\ reshards = 0
    /\ shardMetas = topic
    /\ updating = FALSE
    /\ coordinators = Producers \ Transient
    /\ life = [p \in Producers |-> IF p \in Transient THEN "absent" ELSE "open"]
    /\ writers = [p \in Producers |-> IF p \in coordinators THEN topic ELSE {}]
    /\ writerMutex = [p \in Producers |-> NoThread]
    /\ selector = [p \in Producers |-> AddShards(NewSelector, writers[p])]
    /\ stage = [t \in Threads |-> "idle"]
    /\ budget = [t \in Threads |-> 0]
    /\ async = [t \in Threads |-> FALSE]
    /\ chosen = [t \in Threads |-> CHOOSE s \in Shards : TRUE]
    /\ change = [t \in Threads |-> NoChange]
    /\ visited = [t \in Threads |-> {}]
    /\ target = ProducerOf
    /\ unflushed = [t \in Threads |-> {}]
    /\ tasks = {}
    /\ late = {}

Goto(t, s) == stage' = [stage EXCEPT ![t] = s]

IdleThreads(p) == {t \in Threads : ProducerOf[t] = p /\ stage[t] = "idle"}

\* The call returns to the application, with a result or an exception; its locals die.
Return(t) ==
    /\ Goto(t, "idle")
    /\ budget' = [budget EXCEPT ![t] = 0]
    /\ async' = [async EXCEPT ![t] = FALSE]
    /\ chosen' = [chosen EXCEPT ![t] = CHOOSE s \in Shards : TRUE]

----------------------------------------------------------------------------
(* UpdateShardMetaMap *)

\* Once the shards are up to date, Write counts the writers without their mutex.
Attempts(t, isAsync) == IF isAsync THEN 0 ELSE Cardinality(writers[ProducerOf[t]])

\* A thread enters Write or WriteAsync of its producer.
Enters(t, isAsync) ==
    /\ stage[t] = "idle"
    /\ life[ProducerOf[t]] = "open"
    /\ (IF isAsync THEN "WriteAsync" ELSE "Write") \in Calls[t]
    /\ async' = [async EXCEPT ![t] = isAsync]

\* The timer has not expired, another thread is at it, or the weak exchange fails.
StartWrite(t, isAsync) ==
    /\ Enters(t, isAsync)
    /\ budget' = [budget EXCEPT ![t] = Attempts(t, isAsync)]
    /\ Goto(t, "select")
    /\ UNCHANGED <<service, meta, producer, chosen, update, unflushed, tasks, late>>

\* Mutant: no compare_exchange.
MayUpdateAnyway == TRUE

MayUpdate == ~updating

\* A producer under construction now may have read the old map, and has no callback.
BeginUpdate(t, isAsync) ==
    /\ Enters(t, isAsync)
    /\ MayUpdate
    /\ updating' = TRUE
    /\ late' = late \cup {p \in Producers : life[p] \in {"registered", "created"}}
    /\ Goto(t, "list")
    /\ UNCHANGED <<service, shardMetas, coordinators, producer, budget, chosen, update,
                   unflushed, tasks>>

\* ListShard answers, and OnShardChange compares the answer with mShardMetaMap.
ListShard(t) ==
    /\ stage[t] = "list"
    /\ change' = [change EXCEPT ![t] = [add |-> topic \ shardMetas,
                                        del |-> shardMetas \ topic,
                                        shards |-> topic]]
    /\ visited' = [visited EXCEPT ![t] = IF topic = shardMetas THEN Producers ELSE {}]
    /\ Goto(t, "notify")
    /\ UNCHANGED <<service, meta, producer, call, unflushed, tasks, target, late>>

\* An exception leaves UpdateShardMetaMap past the line that clears mUpdating.
ListShardFails(t) ==
    /\ stage[t] = "list"
    /\ Return(t)
    /\ UNCHANGED <<service, meta, producer, update, unflushed, tasks, late>>

\* The update is over for this thread; its locals die.
Forget(t) ==
    /\ change' = [change EXCEPT ![t] = NoChange]
    /\ visited' = [visited EXCEPT ![t] = {}]
    /\ target' = [target EXCEPT ![t] = ProducerOf[t]]

Unvisited(t) == coordinators \ visited[t]

\* DoShardChange of another coordinator; its producer may have no callback yet.
Notify(t, p) ==
    /\ stage[t] = "notify"
    /\ p \in Unvisited(t)
    /\ life[p] # "closed"
    /\ visited' = [visited EXCEPT ![t] = @ \cup {p}]
    /\ IF life[p] = "open"
       THEN Goto(t, "create") /\ target' = [target EXCEPT ![t] = p]
       ELSE UNCHANGED <<stage, target>>
    /\ UNCHANGED <<service, meta, producer, call, change, unflushed, tasks, late>>

\* A coordinator that is being destroyed throws, out of the update.
NotifyClosed(t) ==
    /\ stage[t] = "notify"
    /\ \E p \in Unvisited(t) : life[p] = "closed"
    /\ Return(t)
    /\ Forget(t)
    /\ UNCHANGED <<service, meta, producer, unflushed, tasks, late>>

Unlocked(p) == writerMutex[p] = NoThread

CreateShardWriter(t) ==
    LET p == target[t]
        new == change[t].add \ writers[p]
    IN /\ stage[t] = "create"
       /\ Unlocked(p)
       /\ writers' = [writers EXCEPT ![p] = @ \cup new]
       /\ selector' = [selector EXCEPT ![p] = AddShards(@, new)]
       /\ Goto(t, "remove")
       /\ UNCHANGED <<service, meta, life, writerMutex, call, update, unflushed, tasks, late>>

RemoveShardWriter(t) ==
    LET p == target[t]
        gone == change[t].del \cap writers[p]
    IN /\ stage[t] = "remove"
       /\ Unlocked(p)
       /\ writers' = [writers EXCEPT ![p] = @ \ gone]
       /\ selector' = [selector EXCEPT ![p] = RemoveShards(@, gone)]
       /\ Goto(t, "notify")
       /\ UNCHANGED <<service, meta, life, writerMutex, call, update, unflushed, tasks, late>>

FinishUpdate(t) ==
    /\ stage[t] = "notify"
    /\ Unvisited(t) = {}
    /\ shardMetas' = change[t].shards
    /\ updating' = FALSE
    /\ budget' = [budget EXCEPT ![t] = Attempts(t, async[t])]
    /\ Goto(t, "select")
    /\ Forget(t)
    /\ UNCHANGED <<service, coordinators, producer, async, chosen, unflushed, tasks, late>>

----------------------------------------------------------------------------
(* Write and WriteAsync *)

\* Write gives up when it has failed once for every writer it has counted.
OutOfBudget(t) ==
    /\ stage[t] = "select"
    /\ ~async[t] /\ budget[t] = 0
    /\ Return(t)
    /\ UNCHANGED <<service, meta, producer, update, unflushed, tasks, late>>

\* GetNextShard, with mTimer expired or not; the bound is on the list it may extend.
Select(t, expired) ==
    LET p == ProducerOf[t]
    IN /\ stage[t] = "select"
       /\ async[t] \/ budget[t] > 0
       /\ expired => Len(selector[p].active) + Cardinality(selector[p].inactive) <= MaxActive
       /\ HasNextShard(selector[p], expired)
       /\ selector' = [selector EXCEPT ![p] = Advanced(@, expired)]
       /\ chosen' = [chosen EXCEPT ![t] = GetNextShard(selector[p], expired)]
       /\ Goto(t, "get")
       /\ UNCHANGED <<service, meta, life, writers, writerMutex, budget, async, update,
                      unflushed, tasks, late>>

\* The selector has no shard: the first writer there is, or an exception.
SelectNone(t) ==
    LET p == ProducerOf[t]
    IN /\ stage[t] = "select"
       /\ async[t] \/ budget[t] > 0
       /\ ~HasNextShard(selector[p], TRUE)
       /\ IF writers[p] = {}
          THEN Return(t)
          ELSE /\ \E s \in writers[p] : chosen' = [chosen EXCEPT ![t] = s]
               /\ Goto(t, "put")
               /\ UNCHANGED <<budget, async>>
       /\ UNCHANGED <<service, meta, producer, update, unflushed, tasks, late>>

\* GetShardWriter: a shard that has been removed meanwhile is an exception.
GetShardWriter(t) ==
    LET p == ProducerOf[t]
    IN /\ stage[t] = "get"
       /\ Unlocked(p)
       /\ IF chosen[t] \in writers[p]
          THEN Goto(t, "put") /\ UNCHANGED call
          ELSE Return(t)
       /\ UNCHANGED <<service, meta, producer, update, unflushed, tasks, late>>

PutSucceeds(t) ==
    /\ stage[t] = "put"
    /\ ~async[t]
    /\ chosen[t] \in topic
    /\ Return(t)
    /\ UNCHANGED <<service, meta, producer, update, unflushed, tasks, late>>

\* Any exception of ShardWriter::Write sets the shard aside.
PutFails(t) ==
    LET p == ProducerOf[t]
    IN /\ stage[t] = "put"
       /\ ~async[t]
       /\ selector' = [selector EXCEPT ![p] = AddInvalidShard(@, chosen[t])]
       /\ budget' = [budget EXCEPT ![t] = @ - 1]
       /\ Goto(t, "select")
       /\ UNCHANGED <<service, meta, life, writers, writerMutex, async, chosen, update,
                      unflushed, tasks, late>>

\* ShardWriter::WriteAsync takes the records, or its queue stays full for too long and
\* another writer is tried.
AppendRecord(t) ==
    /\ stage[t] = "put"
    /\ async[t]
    /\ tasks' = tasks \cup {<<ProducerOf[t], chosen[t]>>}
    /\ Return(t)
    /\ UNCHANGED <<service, meta, producer, update, unflushed, late>>

QueueFull(t) ==
    /\ stage[t] = "put"
    /\ async[t]
    /\ <<ProducerOf[t], chosen[t]>> \in tasks
    /\ Goto(t, "select")
    /\ UNCHANGED <<service, meta, producer, call, update, unflushed, tasks, late>>

\* SendTaskOnce of all that a ShardWriter has queued; the writer may have left the map.
SendTaskOnce(p, s, stored) ==
    /\ <<p, s>> \in tasks
    /\ stored => s \in topic
    /\ tasks' = tasks \ {<<p, s>>}
    /\ selector' = IF stored THEN selector
                             ELSE [selector EXCEPT ![p] = AddInvalidShard(@, s)]
    /\ UNCHANGED <<service, meta, life, writers, writerMutex, stage, call, update, unflushed,
                   late>>

----------------------------------------------------------------------------
(* Flush *)

StartFlush(t) ==
    LET p == ProducerOf[t]
    IN /\ stage[t] = "idle"
       /\ "Flush" \in Calls[t]
       /\ life[p] = "open"
       /\ Unlocked(p)
       /\ writerMutex' = [writerMutex EXCEPT ![p] = t]
       /\ unflushed' = [unflushed EXCEPT ![t] = writers[p]]
       /\ Goto(t, "flush")
       /\ UNCHANGED <<service, meta, life, writers, selector, call, update, tasks, late>>

\* ShardWriter::Flush waits until its writer has no task left.
FlushWriter(t, s) ==
    /\ stage[t] = "flush"
    /\ s \in unflushed[t]
    /\ <<ProducerOf[t], s>> \notin tasks
    /\ unflushed' = [unflushed EXCEPT ![t] = @ \ {s}]
    /\ UNCHANGED <<service, meta, producer, stage, call, update, tasks, late>>

\* Mutant: the mutex is kept.
KeepLocked(t) == UNCHANGED writerMutex

Unlock(t) == writerMutex' = [writerMutex EXCEPT ![ProducerOf[t]] = NoThread]

EndFlush(t) ==
    /\ stage[t] = "flush"
    /\ unflushed[t] = {}
    /\ Unlock(t)
    /\ Goto(t, "idle")
    /\ UNCHANGED <<service, meta, life, writers, selector, call, update, unflushed, tasks, late>>

----------------------------------------------------------------------------
(* Constructor and destructor of a producer; its threads do nothing else. *)

Register(p) ==
    /\ life[p] = "absent"
    /\ p \in Transient
    /\ coordinators' = coordinators \cup {p}
    /\ life' = [life EXCEPT ![p] = "registered"]
    /\ late' = IF updating THEN late \cup {p} ELSE late \ {p}
    /\ UNCHANGED <<service, shardMetas, updating, writers, writerMutex, selector, stage, call,
                   update, unflushed, tasks>>

CreateShardWriterWhenInit(p) ==
    /\ life[p] = "registered"
    /\ writers' = [writers EXCEPT ![p] = shardMetas]
    /\ selector' = [selector EXCEPT ![p] = AddShards(NewSelector, shardMetas)]
    /\ life' = [life EXCEPT ![p] = "created"]
    /\ UNCHANGED <<service, meta, writerMutex, stage, call, update, unflushed, tasks, late>>

RegisterOnShardChange(p) ==
    /\ life[p] = "created"
    /\ life' = [life EXCEPT ![p] = "open"]
    /\ UNCHANGED <<service, meta, writers, writerMutex, selector, stage, call, update,
                   unflushed, tasks, late>>

\* ~ShardCoordinator: mClosed, then Unregister, then the writers go with the callbacks.
Close(p) ==
    /\ life[p] = "open"
    /\ p \in Transient
    /\ \A t \in Threads : ProducerOf[t] = p => stage[t] = "idle"
    /\ life' = [life EXCEPT ![p] = "closed"]
    /\ UNCHANGED <<service, meta, writers, writerMutex, selector, stage, call, update,
                   unflushed, tasks, late>>

Unregister(p) ==
    /\ life[p] = "closed"
    /\ \A t \in Threads : target[t] = p => stage[t] \notin {"create", "remove"}
    /\ coordinators' = coordinators \ {p}
    /\ life' = [life EXCEPT ![p] = "absent"]
    /\ writers' = [writers EXCEPT ![p] = {}]
    /\ selector' = [selector EXCEPT ![p] = NewSelector]
    /\ tasks' = {task \in tasks : task[1] # p}
    /\ UNCHANGED <<service, shardMetas, updating, writerMutex, stage, call, update, unflushed,
                   late>>

\* Shards are split, merged or sealed; while the only one is closing, none is ACTIVE.
Reshard ==
    /\ reshards < MaxReshards
    /\ topic' \in (SUBSET Shards) \ {topic}
    /\ reshards' = reshards + 1
    /\ UNCHANGED <<meta, producer, stage, call, update, unflushed, tasks, late>>

UpdateStep(t) ==
    \/ ListShard(t) \/ ListShardFails(t)
    \/ \E p \in Producers : Notify(t, p)
    \/ NotifyClosed(t) \/ CreateShardWriter(t) \/ RemoveShardWriter(t) \/ FinishUpdate(t)

WriteStep(t) ==
    \/ OutOfBudget(t) \/ \E expired \in BOOLEAN : Select(t, expired)
    \/ SelectNone(t) \/ GetShardWriter(t)
    \/ PutSucceeds(t) \/ PutFails(t) \/ AppendRecord(t) \/ QueueFull(t)

FlushStep(t) == EndFlush(t) \/ \E s \in Shards : FlushWriter(t, s)

Next ==
    \/ \E t \in Threads :
          \/ \E isAsync \in BOOLEAN : StartWrite(t, isAsync) \/ BeginUpdate(t, isAsync)
          \/ StartFlush(t)
          \/ UpdateStep(t) \/ WriteStep(t) \/ FlushStep(t)
    \/ \E p \in Producers, s \in Shards, stored \in BOOLEAN : SendTaskOnce(p, s, stored)
    \/ \E p \in Producers :
          \/ Register(p) \/ CreateShardWriterWhenInit(p) \/ RegisterOnShardChange(p)
          \/ Close(p) \/ Unregister(p)
    \/ Reshard

Spec == Init /\ [][Next]_vars

----------------------------------------------------------------------------
\* The variables hold values of their types; mShardWriterMutex is held from one step to
\* the next by a thread in Flush only.
TypeOK ==
    /\ topic \in SUBSET Shards /\ reshards \in 0 .. MaxReshards
    /\ shardMetas \in SUBSET Shards
    /\ updating \in BOOLEAN
    /\ coordinators \in SUBSET Producers
    /\ life \in [Producers -> {"absent", "registered", "created", "open", "closed"}]
    /\ writers \in [Producers -> SUBSET Shards]
    /\ writerMutex \in [Producers -> Threads \cup {NoThread}]
    /\ selector \in [Producers -> Selector(Shards)]
    /\ stage \in [Threads -> {"idle", "list", "notify", "create", "remove",
                              "select", "get", "put", "flush"}]
    /\ budget \in [Threads -> 0 .. Cardinality(Shards)]
    /\ async \in [Threads -> BOOLEAN]
    /\ chosen \in [Threads -> Shards]
    /\ change \in [Threads -> [add : SUBSET Shards, del : SUBSET Shards,
                               shards : SUBSET Shards]]
    /\ visited \in [Threads -> SUBSET Producers]
    /\ target \in [Threads -> Producers]
    /\ unflushed \in [Threads -> SUBSET Shards]
    /\ tasks \in SUBSET (Producers \X Shards)
    /\ late \in SUBSET Producers
    /\ \A p \in Producers, t \in Threads : writerMutex[p] = t => stage[t] = "flush"

\* Between updates every producer has exactly the writers of the shards MetaData knows,
\* whichever thread has fetched them and whichever producers it had to tell
\* (meta_data.cpp:92-95: the map is replaced when the change has been passed on).  Not so
\* for a producer that was constructed during an update: it registers, reads the old map
\* and has no callback yet when the change comes.
WritersFollowMeta ==
    ~updating => \A p \in Producers \ late : life[p] = "open" => writers[p] = shardMetas

\* The selector never loses a writer: it is up for the next choice, or for the next but
\* one when the timer expires, however writes fail while shards come and go.
NoWriterForgotten ==
    \A p \in Producers :
        writers[p] \subseteq ToSet(selector[p].active) \cup selector[p].inactive
============================================================================
