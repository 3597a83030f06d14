--------------------------- MODULE ShardWriter ---------------------------
(***************************************************************************)
(* The asynchronous write path of the producer: ShardWriter                *)
(* (client/src/shard_writer.cpp), its RecordPackQueue, and the             *)
(* single-threaded workers of the HashThreadPool behind MessageWriter      *)
(* (client/src/thread_pool.cpp).                                           *)
(*                                                                         *)
(* User threads (Producers) call WriteAsync and Flush.  A shard's packs    *)
(* are executed by the worker its key hashes to; a worker serves several   *)
(* shards.  Both kinds of thread run SendNextTask, the worker from         *)
(* TaskDone while it holds mTaskMutex.                                     *)
(*                                                                         *)
(* pc is the program counter of a thread:                                  *)
(*   Producers  idle -> check -> append -> send -> submit -> count -> pop  *)
(*              idle -> send -> submit -> count -> pop -> wait <-> asleep  *)
(*   Workers    idle -> put -> done -> send -> submit -> count -> pop      *)
(***************************************************************************)
EXTENDS RecordPackQueue, Integers, FiniteSets

CONSTANTS
    Shards, Producers, Workers,
    NoThread,           \* owner of a free mutex
    WorkerOf,           \* key % mThreadNum: the worker of every shard
    QueueLimit,         \* queue limit of one worker (mQueueLimit)
    RetryTimes,         \* attempts of WriteOnce (mRetryTimes)
    MaxCalls            \* bound: WriteAsync calls of one producer

ASSUME ShardsAssumption == Shards # {}
ASSUME ProducersAssumption == IsFiniteSet(Producers)
ASSUME WorkerOfAssumption == WorkerOf \in [Shards -> Workers]
ASSUME ThreadsAssumption == /\ Producers \cap Workers = {}
                            /\ NoThread \notin Producers \cup Workers
ASSUME QueueLimitAssumption == QueueLimit \in Nat \ {0}
ASSUME RetryTimesAssumption == RetryTimes \in Nat
ASSUME MaxCallsAssumption == MaxCalls \in Nat

Threads == Producers \cup Workers

Call == Producers \X (1 .. MaxCalls)

Task == [shard : Shards, pack : Seq(Call)]

VARIABLES
    queue,          \* the RecordPackQueue of every shard
    tasks,          \* mTaskQueue of every worker
    totalTaskNum,   \* mTotalTaskNum of every shard
    sendMutex,      \* owner of mSendMutex
    taskMutex,      \* owner of mTaskMutex
    pc,
    shard,          \* the ShardWriter a thread is in
    flushing,       \* the producer is in Flush: forceFlush of its SendNextTask
    pack,           \* readyPack, the local of SendNextTask
    running,        \* recordPack, the argument of SendTaskOnce
    retryNum,       \* the local of WriteOnce
    promise,        \* what the promise of every call holds
    calls,          \* calls of a producer that were accepted
    log,            \* the packs the service has stored, per shard
    accepted,       \* history: the calls of a shard in the order of acceptance
    target          \* history: Len(accepted) when the producer called Flush

locks == <<sendMutex, taskMutex>>
worker == <<running, retryNum, log>>
history == <<accepted, calls, target>>
vars == <<queue, tasks, totalTaskNum, locks, pc, shard, flushing, pack, worker,
          promise, history>>

Init ==
    /\ queue = [s \in Shards |-> EmptyQueue]
    /\ tasks = [w \in Workers |-> <<>>]
    /\ totalTaskNum = [s \in Shards |-> 0]
    /\ sendMutex = [s \in Shards |-> NoThread]
    /\ taskMutex = [s \in Shards |-> NoThread]
    /\ pc = [t \in Threads |-> "idle"]
    /\ shard = [t \in Threads |-> CHOOSE s \in Shards : TRUE]
    /\ flushing = [p \in Producers |-> FALSE]
    /\ pack = [t \in Threads |-> NoPack]
    /\ running = [w \in Workers |-> NoPack]
    /\ retryNum = [w \in Workers |-> 0]
    /\ promise = [c \in Call |-> "none"]
    /\ calls = [p \in Producers |-> 0]
    /\ log = [s \in Shards |-> <<>>]
    /\ accepted = [s \in Shards |-> <<>>]
    /\ target = [p \in Producers |-> 0]

Goto(t, label) == pc' = [pc EXCEPT ![t] = label]

----------------------------------------------------------------------------
(* WriteAsync *)

\* The group writer picks the shard; a rejected call is tried again on any shard.
StartWriteAsync(p, s) ==
    /\ pc[p] = "idle"
    /\ calls[p] < MaxCalls
    /\ Goto(p, "check")
    /\ shard' = [shard EXCEPT ![p] = s]
    /\ UNCHANGED <<queue, tasks, totalTaskNum, locks, flushing, pack, worker, promise, history>>

\* Timer::WaitFor finds the queue below its limit, without mQueueMutex.
PassLimit(p) ==
    /\ pc[p] = "check"
    /\ BelowLimit(queue[shard[p]])
    /\ Goto(p, "append")
    /\ UNCHANGED <<queue, tasks, totalTaskNum, locks, shard, flushing, pack, worker,
                   promise, history>>

\* The wait of 1000 ms ends with the queue still at its limit: nullptr.
LimitTimeout(p) ==
    /\ pc[p] = "check"
    /\ ~BelowLimit(queue[shard[p]])
    /\ Goto(p, "send")
    /\ UNCHANGED <<queue, tasks, totalTaskNum, locks, shard, flushing, pack, worker,
                   promise, history>>

Accept(p) ==
    LET s == shard[p]
        c == <<p, calls[p] + 1>>
    IN /\ pc[p] = "append"
       /\ \E timeUp \in BOOLEAN :
              queue' = [queue EXCEPT ![s] = AppendRecord(@, c, timeUp)]
       /\ promise' = [promise EXCEPT ![c] = "pending"]
       /\ calls' = [calls EXCEPT ![p] = @ + 1]
       /\ accepted' = [accepted EXCEPT ![s] = Append(@, c)]
       /\ Goto(p, "send")
       /\ UNCHANGED <<tasks, totalTaskNum, locks, shard, flushing, pack, worker, target>>

----------------------------------------------------------------------------
(* SendNextTask, by a producer or, from TaskDone, by a worker *)

Forced(t) == t \in Producers /\ flushing[t]

\* Where SendNextTask returns to; a worker leaves TaskDone and drops mTaskMutex.
Return(t) ==
    /\ Goto(t, IF Forced(t) THEN "wait" ELSE "idle")
    /\ pack' = [pack EXCEPT ![t] = NoPack]
    /\ taskMutex' = IF t \in Workers
                    THEN [taskMutex EXCEPT ![shard[t]] = NoThread]
                    ELSE taskMutex

\* Takes mSendMutex and the front pack; with none ready it returns at once.
ObtainPack(t) ==
    LET s == shard[t] IN
    /\ pc[t] = "send"
    /\ sendMutex[s] = NoThread
    /\ \E timeUp \in BOOLEAN :
           queue' = [queue EXCEPT ![s] = MakeReady(@, Forced(t), timeUp)]
    /\ IF FrontPack(queue'[s]) = NoPack
       THEN /\ Return(t)
            /\ UNCHANGED sendMutex
       ELSE /\ pack' = [pack EXCEPT ![t] = FrontPack(queue'[s])]
            /\ Goto(t, "submit")
            /\ sendMutex' = [sendMutex EXCEPT ![s] = t]
            /\ UNCHANGED taskMutex
    /\ UNCHANGED <<tasks, totalTaskNum, shard, flushing, worker, promise, history>>

\* HashThreadPool::Submit on the worker of the shard.  That it throws on a closed pool
\* (thread_pool.cpp:154) is not a step: ~MessageWriter closes it, when no writer is left.
Submit(t) ==
    LET w == WorkerOf[shard[t]] IN
    /\ pc[t] = "submit"
    /\ Len(tasks[w]) < QueueLimit
    /\ tasks' = [tasks EXCEPT ![w] =
                     Append(@, [shard |-> shard[t], pack |-> pack[t]])]
    /\ Goto(t, "count")
    /\ UNCHANGED <<queue, totalTaskNum, locks, shard, flushing, pack, worker, promise,
                   history>>

\* Mutant: a refused task is counted.
SubmitFullCounts(t) ==
    /\ pc[t] = "submit"
    /\ Len(tasks[WorkerOf[shard[t]]]) >= QueueLimit
    /\ sendMutex' = [sendMutex EXCEPT ![shard[t]] = NoThread]
    /\ totalTaskNum' = [totalTaskNum EXCEPT ![shard[t]] = @ + 1]
    /\ Return(t)
    /\ UNCHANGED <<queue, tasks, shard, flushing, worker, promise, history>>

\* The queue of the worker is full: the pack stays at the front of the ready queue.
SubmitFull(t) ==
    /\ pc[t] = "submit"
    /\ Len(tasks[WorkerOf[shard[t]]]) >= QueueLimit
    /\ sendMutex' = [sendMutex EXCEPT ![shard[t]] = NoThread]
    /\ Return(t)
    /\ UNCHANGED <<queue, tasks, totalTaskNum, shard, flushing, worker, promise,
                   history>>

\* fetch_add happens only now, when the worker may already have run the task.
CountTask(t) ==
    /\ pc[t] = "count"
    /\ totalTaskNum' = [totalTaskNum EXCEPT ![shard[t]] = @ + 1]
    /\ Goto(t, "pop")
    /\ UNCHANGED <<queue, tasks, locks, shard, flushing, pack, worker, promise, history>>

PopPack(t) ==
    /\ pc[t] = "pop"
    /\ queue' = [queue EXCEPT ![shard[t]] = PopBackRecordPack(@)]
    /\ sendMutex' = [sendMutex EXCEPT ![shard[t]] = NoThread]
    /\ Return(t)
    /\ UNCHANGED <<tasks, totalTaskNum, shard, flushing, worker, promise, history>>

SendNextTask(t) ==
    ObtainPack(t) \/ Submit(t) \/ SubmitFull(t) \/ CountTask(t) \/ PopPack(t)

----------------------------------------------------------------------------
(* Flush *)

StartFlush(p, s) ==
    /\ pc[p] = "idle"
    /\ Goto(p, "send")
    /\ shard' = [shard EXCEPT ![p] = s]
    /\ flushing' = [flushing EXCEPT ![p] = TRUE]
    /\ target' = [target EXCEPT ![p] = Len(accepted[s])]
    /\ UNCHANGED <<queue, tasks, totalTaskNum, locks, pack, worker, promise, accepted, calls>>

\* The wait on mTaskCV, entered and left with mTaskMutex held.
FlushWait(p) ==
    /\ pc[p] = "wait"
    /\ taskMutex[shard[p]] = NoThread
    /\ IF totalTaskNum[shard[p]] = 0
       THEN /\ Goto(p, "idle")
            /\ flushing' = [flushing EXCEPT ![p] = FALSE]
            /\ target' = [target EXCEPT ![p] = 0]
       ELSE /\ Goto(p, "asleep")
            /\ UNCHANGED <<flushing, target>>
    /\ UNCHANGED <<queue, tasks, totalTaskNum, locks, shard, pack, worker, promise,
                   accepted, calls>>

----------------------------------------------------------------------------
(* The worker: ThreadPool's loop, SendTaskOnce and TaskDone *)

TakeTask(w) ==
    /\ pc[w] = "idle"
    /\ tasks[w] # <<>>
    /\ tasks' = [tasks EXCEPT ![w] = Tail(@)]
    /\ shard' = [shard EXCEPT ![w] = Head(tasks[w]).shard]
    /\ running' = [running EXCEPT ![w] = Head(tasks[w]).pack]
    /\ Goto(w, "put")
    /\ UNCHANGED <<queue, totalTaskNum, locks, flushing, pack, retryNum, promise, log, history>>

\* Mutant: only the promise of the last call of the pack is resolved.
ResolveLast(w, result) == promise' = [promise EXCEPT ![running[w][Len(running[w])]] = result]

\* Every promise of the pack gets the same value or exception.
Resolve(w, result) ==
    promise' = [c \in Call |-> IF \E i \in DOMAIN running[w] : running[w][i] = c
                               THEN result ELSE promise[c]]

\* The service stores a pack before it answers; a lost answer leaves it stored.
Stores(w, stored) ==
    log' = IF stored THEN [log EXCEPT ![shard[w]] = Append(@, running[w])] ELSE log

PutSucceeds(w) ==
    /\ pc[w] = "put"
    /\ Stores(w, TRUE)
    /\ Resolve(w, "value")
    /\ Goto(w, "done")
    /\ UNCHANGED <<queue, tasks, totalTaskNum, locks, shard, flushing, pack, running,
                   retryNum, history>>

\* Mutant: an off-by-one in the number of attempts.
OneMoreAttempt(w) == retryNum[w] <= RetryTimes

AttemptsLeft(w) == retryNum[w] + 1 < RetryTimes

\* A DatahubException with attempts left: WriteOnce tries again.
PutRetries(w) ==
    /\ pc[w] = "put"
    /\ AttemptsLeft(w)
    /\ \E stored \in BOOLEAN : Stores(w, stored)
    /\ retryNum' = [retryNum EXCEPT ![w] = @ + 1]
    /\ UNCHANGED <<queue, tasks, totalTaskNum, locks, pc, shard, flushing, pack, running,
                   promise, history>>

\* The last DatahubException, or any other exception at any attempt.
PutFails(w) ==
    /\ pc[w] = "put"
    /\ \E stored \in BOOLEAN : Stores(w, stored)
    /\ Resolve(w, "exception")
    /\ Goto(w, "done")
    /\ UNCHANGED <<queue, tasks, totalTaskNum, locks, shard, flushing, pack, running,
                   retryNum, history>>

\* Mutant: TaskDone notifies one waiter only.
NotifyOneFlusher(w) ==
    LET waiters == {p \in Producers : pc[p] = "asleep" /\ shard[p] = shard[w]}
    IN IF waiters = {}
       THEN Goto(w, "send")
       ELSE \E p \in waiters : pc' = [pc EXCEPT ![w] = "send", ![p] = "wait"]

\* notify_all on mTaskCV, and on to SendNextTask, which runs with mTaskMutex held.
NotifyFlushers(w) ==
    pc' = [t \in Threads |-> CASE t = w -> "send"
                             [] pc[t] = "asleep" /\ shard[t] = shard[w] -> "wait"
                             [] OTHER -> pc[t]]

TaskDone(w) ==
    /\ pc[w] = "done"
    /\ taskMutex[shard[w]] = NoThread
    /\ taskMutex' = [taskMutex EXCEPT ![shard[w]] = w]
    /\ totalTaskNum' = [totalTaskNum EXCEPT ![shard[w]] = @ - 1]
    /\ NotifyFlushers(w)
    /\ running' = [running EXCEPT ![w] = NoPack]
    /\ retryNum' = [retryNum EXCEPT ![w] = 0]
    /\ UNCHANGED <<queue, tasks, sendMutex, shard, flushing, pack, promise, log, history>>

----------------------------------------------------------------------------
ProducerStep(p) ==
    \/ \E s \in Shards : StartWriteAsync(p, s) \/ StartFlush(p, s)
    \/ PassLimit(p) \/ LimitTimeout(p) \/ Accept(p)
    \/ FlushWait(p)

WorkerStep(w) ==
    TakeTask(w) \/ PutSucceeds(w) \/ PutRetries(w) \/ PutFails(w) \/ TaskDone(w)

Next ==
    \/ \E p \in Producers : ProducerStep(p)
    \/ \E w \in Workers : WorkerStep(w)
    \/ \E t \in Threads : SendNextTask(t)

Spec == Init /\ [][Next]_vars

(***************************************************************************)
(* Threads that are not blocked run on.  A blocked lock acquisition gets   *)
(* its mutex if it is free again and again: every holder releases it after *)
(* a bounded number of its own steps, and a thread that takes it in a loop *)
(* (a writer the full queue rejects) first waits for a second.             *)
(***************************************************************************)
Fairness ==
    /\ \A p \in Producers :
          /\ WF_vars(PassLimit(p) \/ LimitTimeout(p) \/ Accept(p))
          /\ SF_vars(FlushWait(p))
    /\ \A w \in Workers :
          /\ WF_vars(TakeTask(w))
          /\ WF_vars(PutSucceeds(w) \/ PutFails(w))
          /\ SF_vars(TaskDone(w))
    /\ \A t \in Threads :
          /\ SF_vars(ObtainPack(t))
          /\ WF_vars(Submit(t) \/ SubmitFull(t) \/ CountTask(t) \/ PopPack(t))

FairSpec == Spec /\ Fairness
============================================================================
