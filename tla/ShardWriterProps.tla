------------------------- MODULE ShardWriterProps -------------------------
(***************************************************************************)
(* The properties of the asynchronous write path.                          *)
(***************************************************************************)
EXTENDS ShardWriter, SequencesExt

Places == {"idle", "check", "append", "send", "submit", "count", "pop", "wait", "asleep",
           "put", "done"}

\* mTotalTaskNum is a signed counter.
Typed ==
    /\ queue \in [Shards -> PackQueue(Call)]
    /\ tasks \in [Workers -> Seq(Task)]
    /\ totalTaskNum \in [Shards -> Int]
    /\ sendMutex \in [Shards -> Threads \cup {NoThread}]
    /\ taskMutex \in [Shards -> Workers \cup {NoThread}]
    /\ pc \in [Threads -> Places]
    /\ shard \in [Threads -> Shards]
    /\ flushing \in [Producers -> BOOLEAN]
    /\ pack \in [Threads -> Seq(Call)]
    /\ running \in [Workers -> Seq(Call)]
    /\ retryNum \in [Workers -> 0 .. RetryTimes]
    /\ promise \in [Call -> {"none", "pending", "value", "exception"}]
    /\ calls \in [Producers -> 0 .. MaxCalls]
    /\ log \in [Shards -> Seq(Seq(Call))]
    /\ accepted \in [Shards -> Seq(Call)]
    /\ target \in [Producers -> Nat]

\* The variables hold values of their types.  The ready queue can exceed its limit, by at
\* most one pack per user thread: AppendRecord tests the limit before it locks the queue,
\* and ObtainReadyRecordPack does not test it.
TypeOK ==
    /\ Typed
    /\ \A s \in Shards : Len(queue[s].ready) <= ReadyLimit + Cardinality(Producers)

At(t, s, labels) == pc[t] \in labels /\ shard[t] = s

\* Between Submit and PopPack a pack is in the worker's queue and still at the front of
\* the ready queue.
Submitted(s) == \E t \in Threads : At(t, s, {"count", "pop"})

\* The packs of a shard: the one in the worker's hands, those in the worker's queue (a slot
\* that another shard occupies holds no pack of this one), those in the ready queue.
InHand(s) == IF At(WorkerOf[s], s, {"put"}) THEN running[WorkerOf[s]] ELSE NoPack

Queued(s) ==
    LET queued == tasks[WorkerOf[s]]
    IN [i \in DOMAIN queued |-> IF queued[i].shard = s THEN queued[i].pack ELSE NoPack]

Waiting(s) == IF Submitted(s) THEN Tail(queue[s].ready) ELSE queue[s].ready

PacksInFlight(s) == <<InHand(s)>> \o Queued(s) \o Waiting(s)

\* The calls of a shard after the first k of them, in the order of acceptance.
CallsAfter(s, k) == SubSeq(accepted[s], k + 1, Len(accepted[s]))

\* The promises of the first k calls of a shard are resolved, the others are not.
ResolvedUpTo(s, k) ==
    \A i \in DOMAIN accepted[s] : promise[accepted[s][i]] = "pending" <=> i > k

\* No accepted call is lost, duplicated or overtaken on its way to the worker: the calls
\* of a shard are resolved in the order WriteAsync accepted them, and those that are not
\* resolved yet are exactly those in the worker's hands, in its queue, in the ready queue
\* and in the current pack, in this order (the comment at shard_writer.cpp:113: one write
\* task of a shard at a time, so that the data stays ordered).
PipelineInOrder ==
    \A s \in Shards : \E k \in 0 .. Len(accepted[s]) :
        /\ ResolvedUpTo(s, k)
        /\ FlattenSeq(PacksInFlight(s)) \o queue[s].current = CallsAfter(s, k)

\* The tasks of a shard that were submitted and are not done.
Outstanding(s) ==
    LET w == WorkerOf[s]
    IN Cardinality({i \in DOMAIN tasks[w] : tasks[w][i].shard = s})
           + (IF At(w, s, {"put", "done"}) THEN 1 ELSE 0)

\* mTotalTaskNum counts the tasks that were submitted and are not done, short of the
\* one whose fetch_add is still to come: Submit precedes fetch_add, so that the counter
\* may be -1 for a moment, when the worker is done with the task before it is counted.
TaskCountExact ==
    \A s \in Shards :
        totalTaskNum[s] = Outstanding(s)
                              - (IF \E t \in Threads : At(t, s, {"count"}) THEN 1 ELSE 0)

\* A Flush asleep on mTaskCV has a task to wait for, or its wake-up is lost.
SleeperHasTask ==
    \A p \in Producers : pc[p] = "asleep" => totalTaskNum[shard[p]] # 0

OneShardPerWorker == \A r, s \in Shards : WorkerOf[r] = WorkerOf[s] => r = s

Answered(c) == promise[c] \in {"value", "exception"}

\* When Flush returns, every call accepted before it was called is resolved
\* (shard_writer.cpp:70-77; example_async_produce.cpp:247-251 waits for all futures
\* after one Flush).  True as long as no two shards share a worker: a pool full of other
\* shards' tasks refuses the pack, which is then not counted (shard_writer.cpp:115).
FlushComplete ==
    [][\A p \in Producers :
          pc[p] = "wait" /\ pc'[p] = "idle" =>
              \A i \in 1 .. target[p] : Answered(accepted[shard[p]][i])]_vars

\* The write path implements ordered, all-or-nothing resolution of accepted calls.
Delivery == INSTANCE OrderedDelivery
                WITH accepted <- accepted, log <- log, promise <- promise
DeliverySpec == Delivery!ASpec

\* After some point no more calls are accepted.
WritesEnd == <>[][UNCHANGED accepted]_vars

\* A Flush returns once writes end: the counter reaches zero and the waiter learns of it.
\* With writers that always leave a pack ready it need not return: TaskDone counts down and
\* SendNextTask counts up again under one hold of mTaskMutex (shard_writer.cpp:168-172), so
\* that a waiter, however often it is woken, never sees the counter at zero.
FlushReturns ==
    WritesEnd => \A p \in Producers : pc[p] \in {"wait", "asleep"} ~> pc[p] = "idle"

InReadyPack(c) ==
    \E s \in Shards : \E i \in DOMAIN queue[s].ready : c \in Range(queue[s].ready[i])

\* A call in a ready pack is answered without another call or Flush, when no two shards
\* share a worker: a pack that the pool refuses has a task of its own shard ahead of it,
\* whose TaskDone sends the next one.  Where the tasks ahead of it are of another shard, it
\* stays ready until the next WriteAsync or Flush of its shard (shard_writer.cpp:115).
ReadyIsAnswered ==
    OneShardPerWorker => \A c \in Call : InReadyPack(c) ~> Answered(c)
============================================================================
