---------------------------- MODULE ThreadPool ----------------------------
(***************************************************************************)
(* The thread pool behind MessageReader and, with one thread per pool,     *)
(* behind the HashThreadPool of MessageWriter (client/src/thread_pool.cpp).*)
(*                                                                         *)
(* A task may submit further tasks to its own pool, as a write task of a   *)
(* shard does.  Clients are the threads that submit from outside.  The     *)
(* pool is shut down by its destructor, which nobody can run while a       *)
(* client is in Submit or could still call it.                             *)
(*                                                                         *)
(* pc of a worker:  loop -> task -> loop,  task <-> submit,                *)
(*                  loop -> tested -> asleep -> loop,  loop -> exited      *)
(* pc of a client:  idle <-> submit                                        *)
(* pc of Closer:    open -> notify -> join -> closed                       *)
(*                                                                         *)
(* Tasks are numbered in the order in which Submit accepts them.           *)
(***************************************************************************)
EXTENDS Naturals, Sequences

CONSTANTS
    Workers,            \* mThreadNum threads
    Clients,
    Closer,             \* the thread that destroys the pool
    NoThread,           \* owner of the free mutex
    QueueLimit,         \* mQueueLimit
    MaxSubmits          \* bound: calls of Submit

ASSUME ThreadsAssumption ==
    /\ Workers # {}
    /\ Workers \cap Clients = {}
    /\ Closer \notin Workers \cup Clients
    /\ NoThread \notin Workers
ASSUME QueueLimitAssumption == QueueLimit \in Nat
ASSUME MaxSubmitsAssumption == MaxSubmits \in Nat

Threads == Workers \cup Clients \cup {Closer}

VARIABLES
    closed,         \* mClosed
    queue,          \* mTaskQueue
    mutex,          \* mQueueMutex, where it is held from one step to the next
    pc,
    running,        \* the task a worker is in, 0 for none
    submits,        \* calls of Submit so far
    accepted,       \* history: how many tasks Submit returned true for
    done            \* history: the tasks that were run

history == <<accepted, done>>
vars == <<closed, queue, mutex, pc, running, submits, history>>

\* The pool after Start, with every thread about to enter its loop.
Init ==
    /\ closed = FALSE
    /\ queue = <<>>
    /\ mutex = NoThread
    /\ pc = [t \in Threads |->
                IF t \in Workers THEN "loop" ELSE IF t \in Clients THEN "idle" ELSE "open"]
    /\ running = [w \in Workers |-> 0]
    /\ submits = 0
    /\ accepted = 0
    /\ done = {}

\* Mutant: a closed pool's thread returns at once.
ExitWhenClosed == closed

\* When a thread that the predicate let through returns.
ExitCondition == closed /\ queue = <<>>

\* The predicate holds and there is a task, or none and the pool is closed.
TakeTask(w) ==
    /\ pc[w] = "loop"
    /\ mutex = NoThread
    /\ queue # <<>> /\ ~ExitCondition
    /\ queue' = Tail(queue)
    /\ running' = [running EXCEPT ![w] = Head(queue)]
    /\ pc' = [pc EXCEPT ![w] = "task"]
    /\ UNCHANGED <<closed, mutex, submits, history>>

Exit(w) ==
    /\ pc[w] = "loop"
    /\ mutex = NoThread
    /\ ExitCondition
    /\ pc' = [pc EXCEPT ![w] = "exited"]
    /\ UNCHANGED <<closed, queue, mutex, running, submits, history>>

\* The predicate is false: the thread is about to block, still with the mutex.
TestFails(w) ==
    /\ pc[w] = "loop"
    /\ mutex = NoThread
    /\ ~closed /\ queue = <<>>
    /\ mutex' = w
    /\ pc' = [pc EXCEPT ![w] = "tested"]
    /\ UNCHANGED <<closed, queue, running, submits, history>>

\* condition_variable::wait blocks and gives the mutex up in one step.
Sleep(w) ==
    /\ pc[w] = "tested"
    /\ mutex' = NoThread
    /\ pc' = [pc EXCEPT ![w] = "asleep"]
    /\ UNCHANGED <<closed, queue, running, submits, history>>

FinishTask(w) ==
    /\ pc[w] = "task"
    /\ done' = done \cup {running[w]}
    /\ running' = [running EXCEPT ![w] = 0]
    /\ pc' = [pc EXCEPT ![w] = "loop"]
    /\ UNCHANGED <<closed, queue, mutex, submits, accepted>>

\* Outside: a client between two calls, or a worker in the middle of its task.
MaySubmit(t) ==
    /\ pc[t] = IF t \in Workers THEN "task" ELSE "idle"
    /\ t \in Clients => pc[Closer] = "open"
    /\ submits < MaxSubmits

\* Submit reads mClosed, without mQueueMutex ...
StartSubmit(t) ==
    /\ MaySubmit(t)
    /\ ~closed
    /\ submits' = submits + 1
    /\ pc' = [pc EXCEPT ![t] = "submit"]
    /\ UNCHANGED <<closed, queue, mutex, running, history>>

\* ... and throws if it is set.
SubmitThrows(t) ==
    /\ MaySubmit(t)
    /\ closed
    /\ submits' = submits + 1
    /\ UNCHANGED <<closed, queue, mutex, pc, running, history>>

Returned(t) == IF t \in Workers THEN "task" ELSE "idle"

\* Mutant: the push is not made under mQueueMutex.
PushUnlocked(t) == TRUE

LockForPush(t) == mutex = NoThread

\* Mutant: the sleepers are not notified of a task.
NotifyNobody(t, label) == pc' = [pc EXCEPT ![t] = label]

\* notify_all by t, which goes on to label.
NotifyAll(t, label) ==
    pc' = [u \in Threads |-> IF u = t THEN label
                             ELSE IF pc[u] = "asleep" THEN "loop" ELSE pc[u]]

\* Mutant: an off-by-one in the test of the limit.
RoomForOneMore == Len(queue) <= QueueLimit

HasRoom == Len(queue) < QueueLimit

\* The queue has room.
Push(t) ==
    /\ pc[t] = "submit"
    /\ LockForPush(t)
    /\ HasRoom
    /\ queue' = Append(queue, accepted + 1)
    /\ accepted' = accepted + 1
    /\ NotifyAll(t, Returned(t))
    /\ UNCHANGED <<closed, mutex, running, submits, done>>

\* The queue is full: Submit returns false.
Refuse(t) ==
    /\ pc[t] = "submit"
    /\ LockForPush(t)
    /\ ~HasRoom
    /\ pc' = [pc EXCEPT ![t] = Returned(t)]
    /\ UNCHANGED <<closed, queue, mutex, running, submits, history>>

\* Shutdown exchanges mClosed, without mQueueMutex, ...
Shutdown ==
    /\ pc[Closer] = "open"
    /\ \A c \in Clients : pc[c] = "idle"
    /\ closed' = TRUE
    /\ pc' = [pc EXCEPT ![Closer] = "notify"]
    /\ UNCHANGED <<queue, mutex, running, submits, history>>

\* ... notifies the threads that are asleep by now, ...
ShutdownNotify ==
    /\ pc[Closer] = "notify"
    /\ NotifyAll(Closer, "join")
    /\ UNCHANGED <<closed, queue, mutex, running, submits, history>>

\* ... and joins them all.
Join ==
    /\ pc[Closer] = "join"
    /\ \A w \in Workers : pc[w] = "exited"
    /\ pc' = [pc EXCEPT ![Closer] = "closed"]
    /\ UNCHANGED <<closed, queue, mutex, running, submits, history>>

Submit(t) == StartSubmit(t) \/ SubmitThrows(t) \/ Push(t) \/ Refuse(t)

WorkerLoop(w) == TakeTask(w) \/ Exit(w) \/ TestFails(w) \/ Sleep(w)

Next ==
    \/ \E w \in Workers : WorkerLoop(w) \/ FinishTask(w)
    \/ \E t \in Workers \cup Clients : Submit(t)
    \/ Shutdown \/ ShutdownNotify \/ Join

Spec == Init /\ [][Next]_vars

(***************************************************************************)
(* The operating system runs every thread that is not blocked; the mutex   *)
(* is held for a bounded time and wanted by threads that each get it in    *)
(* the end.  Tasks end.  Nothing obliges a client to submit or the owner   *)
(* to destroy the pool.                                                    *)
(***************************************************************************)
Fairness ==
    /\ \A w \in Workers : /\ SF_vars(TakeTask(w) \/ Exit(w) \/ TestFails(w))
                          /\ WF_vars(Sleep(w))
                          /\ WF_vars(FinishTask(w))
    /\ \A t \in Workers \cup Clients : SF_vars(Push(t) \/ Refuse(t))
    /\ WF_vars(ShutdownNotify) /\ WF_vars(Join)

FairSpec == Spec /\ Fairness

----------------------------------------------------------------------------
WorkerLabels == {"loop", "tested", "asleep", "task", "submit", "exited"}

PcType ==
    /\ pc \in [Threads -> WorkerLabels \cup {"idle", "open", "notify", "join", "closed"}]
    /\ \A w \in Workers : pc[w] \in WorkerLabels
    /\ \A c \in Clients : pc[c] \in {"idle", "submit"}
    /\ pc[Closer] \in {"open", "notify", "join", "closed"}

\* The variables hold values of their types, and the queue stays within its limit.
TypeOK ==
    /\ PcType
    /\ closed \in BOOLEAN
    /\ queue \in Seq(1 .. accepted) /\ Len(queue) <= QueueLimit
    /\ mutex \in Workers \cup {NoThread}
    /\ running \in [Workers -> 0 .. accepted]
    /\ submits \in 0 .. MaxSubmits
    /\ accepted \in Nat
    /\ done \subseteq 1 .. accepted

\* No wake-up is lost to a Submit: while there is work no thread sleeps or is about to,
\* and some thread has not returned.
WorkHasWorker ==
    queue # <<>> => /\ \A w \in Workers : pc[w] \notin {"tested", "asleep"}
                    /\ \E w \in Workers : pc[w] # "exited"

\* When Shutdown returns every accepted task was run, those included that running tasks
\* submitted after they had read mClosed and before the pool was closed under them.
ShutdownDrains ==
    pc[Closer] = "closed" => queue = <<>> /\ done = 1 .. accepted

\* An accepted task is run, whether or not the pool is shut down meanwhile.
AcceptedRuns ==
    \A task \in 1 .. MaxSubmits : task <= accepted ~> task \in done
=============================================================================
