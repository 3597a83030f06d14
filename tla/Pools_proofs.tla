------------------------------ MODULE Pools_proofs ------------------------------
(***************************************************************************)
(* Proofs about the two pools that the threads of the client share.  The   *)
(* thread pool, for any number of threads and clients and any limit: no    *)
(* Submit is slept over, and Shutdown drains the queue.  The pool of curl  *)
(* handles, for any number of threads that request, any limit and whether  *)
(* or not curl_easy_init can fail: no handle is lost, shared or left lying *)
(* in front of sleepers.                                                   *)
(***************************************************************************)
EXTENDS ThreadPool, CurlHandleContainer, SequenceTheorems, FiniteSetTheorems, TLAPS

-----------------------------------------------------------------------------
(* The thread pool *)

\* The mutex is held over a step only by a thread about to block.
MutexHeld == \A w \in Workers : pc[w] = "tested" <=> mutex = w

\* Threads return only from a closed pool, and all of them before Shutdown does.
ExitedWhenClosed ==
    /\ \A w \in Workers : pc[w] = "exited" => closed
    /\ pc[Closer] = "closed" => \A w \in Workers : pc[w] = "exited"

\* Nobody outside submits once the pool is being destroyed.
ClientsGone ==
    /\ pc[Closer] = "open" <=> ~closed
    /\ \A c \in Clients : pc[c] = "submit" => pc[Closer] = "open"

Busy == \A w \in Workers : pc[w] \in {"task", "submit"} <=> running[w] # 0

\* Every accepted task was run, is being run or is in the queue.
Conserved ==
    \A k \in 1 .. accepted :
        \/ k \in done
        \/ \E i \in 1 .. Len(queue) : queue[i] = k
        \/ \E w \in Workers : running[w] = k

IInv ==
    /\ TypeOK
    /\ MutexHeld
    /\ WorkHasWorker
    /\ ExitedWhenClosed
    /\ ClientsGone
    /\ Busy
    /\ Conserved

LEMMA InitIInv == Init => IInv
<1> SUFFICES ASSUME Init PROVE IInv
  OBVIOUS
<1> USE ThreadsAssumption, QueueLimitAssumption, MaxSubmitsAssumption DEF Init
<1>1. \A w \in Workers : pc[w] = "loop"
  BY DEF Threads
<1>2. \A c \in Clients : pc[c] = "idle"
  BY DEF Threads
<1>3. pc[Closer] = "open"
  BY DEF Threads
<1>4. TypeOK
  <2>1. pc \in [Threads -> WorkerLabels \cup {"idle", "open", "notify", "join", "closed"}]
    BY DEF WorkerLabels
  <2>2. queue \in Seq(1 .. accepted) /\ Len(queue) <= QueueLimit
    OBVIOUS
  <2>3. closed \in BOOLEAN /\ mutex \in Workers \cup {NoThread}
    OBVIOUS
  <2>4. running \in [Workers -> 0 .. accepted] /\ submits \in 0 .. MaxSubmits
    OBVIOUS
  <2>5. accepted \in Nat /\ done \subseteq 1 .. accepted
    OBVIOUS
  <2>6. \A w \in Workers : pc[w] \in WorkerLabels
    BY <1>1 DEF WorkerLabels
  <2>7. PcType
    BY <1>2, <1>3, <2>1, <2>6 DEF PcType
  <2> QED
    BY <2>2, <2>3, <2>4, <2>5, <2>7 DEF TypeOK
<1>5. MutexHeld
  BY <1>1 DEF MutexHeld
<1>6. WorkHasWorker
  BY DEF WorkHasWorker
<1>7. ExitedWhenClosed
  BY <1>1, <1>3 DEF ExitedWhenClosed
<1>8. ClientsGone
  <2>1. \A c \in Clients : pc[c] # "submit"
    BY <1>2
  <2>2. pc[Closer] = "open" /\ ~closed
    BY <1>3
  <2> QED
    BY <2>1, <2>2 DEF ClientsGone
<1>9. Busy
  BY <1>1 DEF Busy
<1>10. Conserved
  BY DEF Conserved
<1> QED
  BY <1>4, <1>5, <1>6, <1>7, <1>8, <1>9, <1>10 DEF IInv

----------------------------------------------------------------------------
(* What moving one thread, or waking the sleepers, does to pc *)

LEMMA OneMoves ==
    ASSUME PcType, NEW t \in Threads, NEW label, pc' = [pc EXCEPT ![t] = label],
           t \in Workers => label \in WorkerLabels,
           t \in Clients => label \in {"idle", "submit"},
           t = Closer => label \in {"open", "notify", "join", "closed"}
    PROVE  /\ PcType'
           /\ pc'[t] = label
           /\ \A u \in Threads \ {t} : pc'[u] = pc[u]
  BY DEF PcType, Threads, WorkerLabels

LEMMA SleepersWake ==
    ASSUME PcType, NEW t \in Threads, NEW label, NotifyAll(t, label),
           t \in Workers => label \in WorkerLabels,
           t \in Clients => label \in {"idle", "submit"},
           t = Closer => label \in {"open", "notify", "join", "closed"}
    PROVE  /\ PcType'
           /\ pc'[t] = label
           /\ \A u \in Threads \ {t} : pc'[u] = IF pc[u] = "asleep" THEN "loop" ELSE pc[u]
  BY DEF NotifyAll, PcType, Threads, WorkerLabels

\* A sequence over a set is one over any larger set.
LEMMA SeqOfLarger ==
    ASSUME NEW S, NEW T, S \subseteq T, NEW s \in Seq(S)
    PROVE  s \in Seq(T)
<1>1. s \in [1 .. Len(s) -> T] /\ Len(s) \in Nat
  BY ElementOfSeq
<1> QED
  BY <1>1

\* The threads of the three kinds are distinct.
LEMMA ThreadKinds ==
    /\ Workers \subseteq Threads /\ Clients \subseteq Threads /\ Closer \in Threads
    /\ Closer \notin Workers /\ Closer \notin Clients
    /\ \A c \in Clients : c \notin Workers
    /\ NoThread \notin Workers
  BY ThreadsAssumption DEF Threads

\* A step that touches no task.
LEMMA TasksUntouched ==
    ASSUME IInv, UNCHANGED <<queue, running, accepted, done>>,
           PcType', closed' \in BOOLEAN, mutex' \in Workers \cup {NoThread},
           submits' \in 0 .. MaxSubmits
    PROVE  TypeOK' /\ Conserved'
<1>1. TypeOK'
  BY DEF IInv, TypeOK
<1>2. Conserved'
  BY DEF IInv, Conserved
<1> QED
  BY <1>1, <1>2

----------------------------------------------------------------------------
(* The thread's loop *)

LEMMA TakeTaskKeepsIInv ==
    ASSUME IInv, NEW w \in Workers, TakeTask(w)
    PROVE  IInv'
<1>1. /\ pc[w] = "loop" /\ mutex = NoThread /\ queue # <<>>
      /\ queue' = Tail(queue)
      /\ running' = [running EXCEPT ![w] = Head(queue)]
      /\ pc' = [pc EXCEPT ![w] = "task"]
      /\ UNCHANGED <<closed, mutex, submits, accepted, done>>
  BY DEF TakeTask, history
<1>2. PcType' /\ pc'[w] = "task" /\ \A u \in Threads \ {w} : pc'[u] = pc[u]
  BY <1>1, OneMoves, ThreadKinds DEF IInv, TypeOK, WorkerLabels
<1>3. queue \in Seq(1 .. accepted) /\ Len(queue) \in Nat \ {0}
  BY <1>1 DEF IInv, TypeOK
<1>4. Head(queue) \in 1 .. accepted /\ Head(queue) = queue[1]
  <2>1. 1 \in 1 .. Len(queue)
    BY <1>3
  <2>2. queue[1] \in 1 .. accepted
    BY <1>3, <2>1, ElementOfSeq
  <2>3. Head(queue) = queue[1]
    BY <1>1, <1>3
  <2> QED
    BY <2>2, <2>3
<1>5. /\ queue' \in Seq(1 .. accepted) /\ Len(queue') = Len(queue) - 1
      /\ \A i \in 1 .. Len(queue') : queue'[i] = queue[i + 1]
  BY <1>1, <1>3
<1>6. running \in [Workers -> 0 .. accepted]
  BY DEF IInv, TypeOK
<1>7. running' \in [Workers -> 0 .. accepted] /\ running'[w] = Head(queue)
      /\ \A v \in Workers \ {w} : running'[v] = running[v]
  BY <1>1, <1>4, <1>6
<1>8. TypeOK'
  <2>1. Len(queue') <= QueueLimit
    BY <1>3, <1>5, QueueLimitAssumption DEF IInv, TypeOK
  <2> QED
    BY <1>1, <1>2, <1>5, <1>7, <2>1 DEF IInv, TypeOK
<1>9. MutexHeld'
  BY <1>1, <1>2, ThreadKinds DEF IInv, MutexHeld
<1>10. WorkHasWorker'
  BY <1>1, <1>2, ThreadKinds DEF IInv, WorkHasWorker
<1>11. ExitedWhenClosed'
  BY <1>1, <1>2, ThreadKinds DEF IInv, ExitedWhenClosed
<1>12. ClientsGone'
  BY <1>1, <1>2, ThreadKinds DEF IInv, ClientsGone
<1>13. Busy'
  BY <1>2, <1>4, <1>7, ThreadKinds DEF IInv, Busy
<1>14. Conserved'
  <2>1. running[w] = 0
    BY <1>1 DEF IInv, Busy
  <2>2. ASSUME NEW k \in 1 .. accepted
        PROVE  \/ k \in done
               \/ \E i \in 1 .. Len(queue') : queue'[i] = k
               \/ \E v \in Workers : running'[v] = k
    <3>1. CASE \E i \in 1 .. Len(queue) : queue[i] = k
      <4>1. PICK i \in 1 .. Len(queue) : queue[i] = k
        BY <3>1
      <4>2. CASE i = 1
        BY <1>4, <1>7, <4>1, <4>2
      <4>3. CASE i # 1
        <5>1. i - 1 \in 1 .. Len(queue') /\ (i - 1) + 1 = i
          BY <1>3, <1>5, <4>3
        <5> QED
          BY <1>5, <4>1, <5>1
      <4> QED
        BY <4>2, <4>3
    <3>2. CASE \E v \in Workers : running[v] = k
      BY <1>7, <2>1, <3>2
    <3> QED
      BY <3>1, <3>2 DEF IInv, Conserved
  <2> QED
    BY <1>1, <2>2 DEF Conserved
<1> QED
  BY <1>8, <1>9, <1>10, <1>11, <1>12, <1>13, <1>14 DEF IInv

LEMMA ExitKeepsIInv ==
    ASSUME IInv, NEW w \in Workers, Exit(w)
    PROVE  IInv'
<1>1. /\ pc[w] = "loop" /\ closed /\ queue = <<>>
      /\ pc' = [pc EXCEPT ![w] = "exited"]
      /\ UNCHANGED <<closed, queue, mutex, running, submits, accepted, done>>
  BY DEF Exit, ExitCondition, history
<1>2. PcType' /\ pc'[w] = "exited" /\ \A u \in Threads \ {w} : pc'[u] = pc[u]
  BY <1>1, OneMoves, ThreadKinds DEF IInv, TypeOK, WorkerLabels
<1>3. TypeOK' /\ Conserved'
  BY <1>1, <1>2, TasksUntouched DEF IInv, TypeOK
<1>4. MutexHeld'
  BY <1>1, <1>2, ThreadKinds DEF IInv, MutexHeld
<1>5. WorkHasWorker'
  BY <1>1 DEF WorkHasWorker
<1>6. ExitedWhenClosed'
  BY <1>1, <1>2, ThreadKinds DEF IInv, ExitedWhenClosed
<1>7. ClientsGone'
  BY <1>1, <1>2, ThreadKinds DEF IInv, ClientsGone
<1>8. Busy'
  BY <1>1, <1>2, ThreadKinds DEF IInv, Busy
<1> QED
  BY <1>3, <1>4, <1>5, <1>6, <1>7, <1>8 DEF IInv

LEMMA TestFailsKeepsIInv ==
    ASSUME IInv, NEW w \in Workers, TestFails(w)
    PROVE  IInv'
<1>1. /\ pc[w] = "loop" /\ mutex = NoThread /\ queue = <<>> /\ mutex' = w
      /\ pc' = [pc EXCEPT ![w] = "tested"]
      /\ UNCHANGED <<closed, queue, running, submits, accepted, done>>
  BY DEF TestFails, history
<1>2. PcType' /\ pc'[w] = "tested" /\ \A u \in Threads \ {w} : pc'[u] = pc[u]
  BY <1>1, OneMoves, ThreadKinds DEF IInv, TypeOK, WorkerLabels
<1>3. TypeOK' /\ Conserved'
  BY <1>1, <1>2, TasksUntouched DEF IInv, TypeOK
<1>4. MutexHeld'
  BY <1>1, <1>2, ThreadKinds DEF IInv, MutexHeld
<1>5. WorkHasWorker'
  BY <1>1 DEF WorkHasWorker
<1>6. ExitedWhenClosed'
  BY <1>1, <1>2, ThreadKinds DEF IInv, ExitedWhenClosed
<1>7. ClientsGone'
  BY <1>1, <1>2, ThreadKinds DEF IInv, ClientsGone
<1>8. Busy'
  BY <1>1, <1>2, ThreadKinds DEF IInv, Busy
<1> QED
  BY <1>3, <1>4, <1>5, <1>6, <1>7, <1>8 DEF IInv

LEMMA SleepKeepsIInv ==
    ASSUME IInv, NEW w \in Workers, Sleep(w)
    PROVE  IInv'
<1>1. /\ pc[w] = "tested" /\ mutex' = NoThread
      /\ pc' = [pc EXCEPT ![w] = "asleep"]
      /\ UNCHANGED <<closed, queue, running, submits, accepted, done>>
  BY DEF Sleep, history
<1>2. PcType' /\ pc'[w] = "asleep" /\ \A u \in Threads \ {w} : pc'[u] = pc[u]
  BY <1>1, OneMoves, ThreadKinds DEF IInv, TypeOK, WorkerLabels
<1>3. TypeOK' /\ Conserved'
  BY <1>1, <1>2, TasksUntouched DEF IInv, TypeOK
<1>4. MutexHeld'
  BY <1>1, <1>2, ThreadKinds DEF IInv, MutexHeld
<1>5. WorkHasWorker'
  BY <1>1 DEF IInv, WorkHasWorker
<1>6. ExitedWhenClosed'
  BY <1>1, <1>2, ThreadKinds DEF IInv, ExitedWhenClosed
<1>7. ClientsGone'
  BY <1>1, <1>2, ThreadKinds DEF IInv, ClientsGone
<1>8. Busy'
  BY <1>1, <1>2, ThreadKinds DEF IInv, Busy
<1> QED
  BY <1>3, <1>4, <1>5, <1>6, <1>7, <1>8 DEF IInv

LEMMA FinishTaskKeepsIInv ==
    ASSUME IInv, NEW w \in Workers, FinishTask(w)
    PROVE  IInv'
<1>1. /\ pc[w] = "task"
      /\ done' = done \cup {running[w]}
      /\ running' = [running EXCEPT ![w] = 0]
      /\ pc' = [pc EXCEPT ![w] = "loop"]
      /\ UNCHANGED <<closed, queue, mutex, submits, accepted>>
  BY DEF FinishTask
<1>2. PcType' /\ pc'[w] = "loop" /\ \A u \in Threads \ {w} : pc'[u] = pc[u]
  BY <1>1, OneMoves, ThreadKinds DEF IInv, TypeOK, WorkerLabels
<1>3. accepted \in Nat /\ running \in [Workers -> 0 .. accepted] /\ running[w] # 0
  BY <1>1 DEF IInv, TypeOK, Busy
<1>4. running' \in [Workers -> 0 .. accepted] /\ running'[w] = 0
      /\ \A v \in Workers \ {w} : running'[v] = running[v]
  BY <1>1, <1>3
<1>5. TypeOK'
  <2>1. done' \subseteq 1 .. accepted
    <3>1. running[w] \in 1 .. accepted
      BY <1>3
    <3> QED
      BY <1>1, <3>1 DEF IInv, TypeOK
  <2> QED
    BY <1>1, <1>2, <1>4, <2>1 DEF IInv, TypeOK
<1>6. MutexHeld'
  BY <1>1, <1>2, ThreadKinds DEF IInv, MutexHeld
<1>7. WorkHasWorker'
  BY <1>1, <1>2, ThreadKinds DEF IInv, WorkHasWorker
<1>8. ExitedWhenClosed'
  BY <1>1, <1>2, ThreadKinds DEF IInv, ExitedWhenClosed
<1>9. ClientsGone'
  BY <1>1, <1>2, ThreadKinds DEF IInv, ClientsGone
<1>10. Busy'
  BY <1>2, <1>4, ThreadKinds DEF IInv, Busy
<1>11. Conserved'
  BY <1>1, <1>3, <1>4 DEF IInv, Conserved
<1> QED
  BY <1>5, <1>6, <1>7, <1>8, <1>9, <1>10, <1>11 DEF IInv

----------------------------------------------------------------------------
(* Submit *)

LEMMA StartSubmitKeepsIInv ==
    ASSUME IInv, NEW t \in Workers \cup Clients, StartSubmit(t)
    PROVE  IInv'
<1>1. /\ pc[t] = Returned(t)
      /\ ~closed
      /\ submits' \in 0 .. MaxSubmits
      /\ pc' = [pc EXCEPT ![t] = "submit"]
      /\ UNCHANGED <<closed, queue, mutex, running, accepted, done>>
  BY MaxSubmitsAssumption DEF StartSubmit, MaySubmit, Returned, history, IInv, TypeOK
<1>2. t \in Threads /\ t # Closer
  BY ThreadKinds
<1>3. PcType' /\ pc'[t] = "submit" /\ \A u \in Threads \ {t} : pc'[u] = pc[u]
  BY <1>1, <1>2, OneMoves DEF IInv, TypeOK, WorkerLabels
<1>4. TypeOK' /\ Conserved'
  BY <1>1, <1>3, TasksUntouched DEF IInv, TypeOK
<1>5. MutexHeld'
  BY <1>1, <1>3, ThreadKinds DEF IInv, MutexHeld, Returned
<1>6. WorkHasWorker'
  BY <1>1, <1>3, ThreadKinds DEF IInv, WorkHasWorker, Returned
<1>7. ExitedWhenClosed'
  BY <1>1, <1>2, <1>3, ThreadKinds DEF IInv, ExitedWhenClosed, ClientsGone
<1>8. ClientsGone'
  BY <1>1, <1>2, <1>3, ThreadKinds DEF IInv, ClientsGone
<1>9. Busy'
  BY <1>1, <1>3, ThreadKinds DEF IInv, Busy, Returned
<1> QED
  BY <1>4, <1>5, <1>6, <1>7, <1>8, <1>9 DEF IInv

LEMMA SubmitThrowsKeepsIInv ==
    ASSUME IInv, NEW t \in Workers \cup Clients, SubmitThrows(t)
    PROVE  IInv'
<1>1. /\ submits' \in 0 .. MaxSubmits
      /\ UNCHANGED <<closed, queue, mutex, pc, running, accepted, done>>
  BY MaxSubmitsAssumption DEF SubmitThrows, MaySubmit, history, IInv, TypeOK
<1>2. TypeOK' /\ Conserved'
  BY <1>1, TasksUntouched DEF IInv, TypeOK, PcType
<1>3. MutexHeld' /\ WorkHasWorker' /\ Busy'
  BY <1>1 DEF IInv, MutexHeld, WorkHasWorker, Busy
<1>4. ExitedWhenClosed' /\ ClientsGone'
  BY <1>1 DEF IInv, ExitedWhenClosed, ClientsGone
<1> QED
  BY <1>2, <1>3, <1>4 DEF IInv

LEMMA RefuseKeepsIInv ==
    ASSUME IInv, NEW t \in Workers \cup Clients, Refuse(t)
    PROVE  IInv'
<1>1. /\ pc[t] = "submit"
      /\ pc' = [pc EXCEPT ![t] = Returned(t)]
      /\ UNCHANGED <<closed, queue, mutex, running, submits, accepted, done>>
  BY DEF Refuse, history
<1>2. t \in Threads /\ t # Closer
  BY ThreadKinds
<1>3. PcType' /\ pc'[t] = Returned(t) /\ \A u \in Threads \ {t} : pc'[u] = pc[u]
  BY <1>1, <1>2, OneMoves, ThreadKinds DEF IInv, TypeOK, WorkerLabels, Returned
<1>4. TypeOK' /\ Conserved'
  BY <1>1, <1>3, TasksUntouched DEF IInv, TypeOK
<1>5. MutexHeld'
  BY <1>1, <1>3, ThreadKinds DEF IInv, MutexHeld, Returned
<1>6. WorkHasWorker'
  BY <1>1, <1>3, ThreadKinds DEF IInv, WorkHasWorker, Returned
<1>7. ExitedWhenClosed'
  BY <1>1, <1>2, <1>3, ThreadKinds DEF IInv, ExitedWhenClosed, Returned
<1>8. ClientsGone'
  BY <1>1, <1>2, <1>3, ThreadKinds DEF IInv, ClientsGone, Returned
<1>9. Busy'
  BY <1>1, <1>3, ThreadKinds DEF IInv, Busy, Returned
<1> QED
  BY <1>4, <1>5, <1>6, <1>7, <1>8, <1>9 DEF IInv

\* Whoever pushes, there is a thread left to take the task: the pushing worker itself, or,
\* under a client's push, all of them, for the pool is not closed.
LEMMA PushKeepsIInv ==
    ASSUME IInv, NEW t \in Workers \cup Clients, Push(t)
    PROVE  IInv'
<1>1. /\ pc[t] = "submit"
      /\ mutex = NoThread
      /\ Len(queue) < QueueLimit
      /\ queue' = Append(queue, accepted + 1)
      /\ accepted' = accepted + 1
      /\ NotifyAll(t, Returned(t))
      /\ UNCHANGED <<closed, mutex, running, submits, done>>
  BY DEF Push, LockForPush, HasRoom
<1>2. t \in Threads /\ t # Closer
  BY ThreadKinds
<1>3. /\ PcType' /\ pc'[t] = Returned(t)
      /\ \A u \in Threads \ {t} : pc'[u] = IF pc[u] = "asleep" THEN "loop" ELSE pc[u]
  BY <1>1, <1>2, SleepersWake, ThreadKinds DEF IInv, TypeOK, WorkerLabels, Returned
<1>4. accepted \in Nat /\ accepted' \in Nat /\ 1 .. accepted' = (1 .. accepted) \cup {accepted'}
  BY <1>1 DEF IInv, TypeOK
<1>5. queue \in Seq(1 .. accepted')
  <2>1. queue \in Seq(1 .. accepted) /\ 1 .. accepted \subseteq 1 .. accepted'
    BY <1>4 DEF IInv, TypeOK
  <2> QED
    BY <2>1, SeqOfLarger
<1>6. /\ queue' \in Seq(1 .. accepted') /\ Len(queue') = Len(queue) + 1
      /\ queue'[Len(queue')] = accepted'
      /\ \A i \in 1 .. Len(queue) : queue'[i] = queue[i]
  BY <1>1, <1>4, <1>5
<1>7. pc[Closer] # "asleep" /\ pc'[Closer] = pc[Closer]
  BY <1>2, <1>3, ThreadKinds DEF IInv, TypeOK, PcType
<1>8. TypeOK'
  <2>1. Len(queue') <= QueueLimit
    BY <1>1, <1>5, <1>6, QueueLimitAssumption
  <2>2. running' \in [Workers -> 0 .. accepted']
    <3>1. 0 .. accepted \subseteq 0 .. accepted'
      BY <1>1, <1>4
    <3> QED
      BY <1>1, <3>1 DEF IInv, TypeOK
  <2>3. done' \subseteq 1 .. accepted'
    BY <1>1, <1>4 DEF IInv, TypeOK
  <2> QED
    BY <1>1, <1>3, <1>4, <1>6, <2>1, <2>2, <2>3 DEF IInv, TypeOK
<1>9. MutexHeld'
  BY <1>1, <1>3, ThreadKinds DEF IInv, MutexHeld, Returned
<1>10. WorkHasWorker'
  <2>1. \A w \in Workers : pc'[w] \notin {"tested", "asleep"}
    BY <1>1, <1>3, ThreadKinds DEF IInv, MutexHeld, Returned
  <2>2. \E w \in Workers : pc'[w] # "exited"
    <3>1. CASE t \in Workers
      BY <1>3, <3>1 DEF Returned
    <3>2. CASE t \in Clients
      <4>1. ~closed
        BY <1>1, <3>2 DEF IInv, ClientsGone
      <4>2. \A w \in Workers : pc[w] # "exited"
        BY <4>1 DEF IInv, ExitedWhenClosed
      <4>3. \A w \in Workers : pc'[w] # "exited"
        BY <1>3, <3>2, <4>2, ThreadKinds
      <4> QED
        BY <4>3, ThreadsAssumption
    <3> QED
      BY <3>1, <3>2
  <2> QED
    BY <2>1, <2>2 DEF WorkHasWorker
<1>11. ExitedWhenClosed'
  BY <1>1, <1>3, <1>7, ThreadKinds DEF IInv, ExitedWhenClosed, Returned
<1>12. ClientsGone'
  BY <1>1, <1>3, <1>7, ThreadKinds DEF IInv, ClientsGone, Returned
<1>13. Busy'
  BY <1>1, <1>3, ThreadKinds DEF IInv, Busy, Returned
<1>14. Conserved'
  <2>1. ASSUME NEW k \in 1 .. accepted'
        PROVE  \/ k \in done
               \/ \E i \in 1 .. Len(queue') : queue'[i] = k
               \/ \E w \in Workers : running[w] = k
    <3>1. CASE k = accepted'
      <4>1. Len(queue') \in 1 .. Len(queue')
        BY <1>5, <1>6
      <4> QED
        BY <1>6, <3>1, <4>1
    <3>2. CASE \E i \in 1 .. Len(queue) : queue[i] = k
      <4>1. 1 .. Len(queue) \subseteq 1 .. Len(queue')
        BY <1>5, <1>6
      <4> QED
        BY <1>6, <3>2, <4>1
    <3> QED
      BY <1>4, <3>1, <3>2 DEF IInv, Conserved
  <2> QED
    BY <1>1, <2>1 DEF Conserved
<1> QED
  BY <1>8, <1>9, <1>10, <1>11, <1>12, <1>13, <1>14 DEF IInv

----------------------------------------------------------------------------
(* Shutdown *)

LEMMA ShutdownKeepsIInv ==
    ASSUME IInv, Shutdown
    PROVE  IInv'
<1>1. /\ pc[Closer] = "open" /\ \A c \in Clients : pc[c] = "idle"
      /\ closed'
      /\ pc' = [pc EXCEPT ![Closer] = "notify"]
      /\ UNCHANGED <<queue, mutex, running, submits, accepted, done>>
  BY DEF Shutdown, history
<1>2. closed' \in BOOLEAN
  BY DEF Shutdown
<1>3. PcType' /\ pc'[Closer] = "notify" /\ \A u \in Threads \ {Closer} : pc'[u] = pc[u]
  BY <1>1, OneMoves, ThreadKinds DEF IInv, TypeOK
<1>4. TypeOK' /\ Conserved'
  BY <1>1, <1>2, <1>3, TasksUntouched DEF IInv, TypeOK
<1>5. MutexHeld'
  BY <1>1, <1>3, ThreadKinds DEF IInv, MutexHeld
<1>6. WorkHasWorker'
  BY <1>1, <1>3, ThreadKinds DEF IInv, WorkHasWorker
<1>7. ExitedWhenClosed'
  BY <1>1, <1>3 DEF ExitedWhenClosed
<1>8. ClientsGone'
  BY <1>1, <1>3, ThreadKinds DEF ClientsGone
<1>9. Busy'
  BY <1>1, <1>3, ThreadKinds DEF IInv, Busy
<1> QED
  BY <1>4, <1>5, <1>6, <1>7, <1>8, <1>9 DEF IInv

LEMMA ShutdownNotifyKeepsIInv ==
    ASSUME IInv, ShutdownNotify
    PROVE  IInv'
<1>1. /\ pc[Closer] = "notify"
      /\ NotifyAll(Closer, "join")
      /\ UNCHANGED <<closed, queue, mutex, running, submits, accepted, done>>
  BY DEF ShutdownNotify, history
<1>2. /\ PcType' /\ pc'[Closer] = "join"
      /\ \A u \in Threads \ {Closer} : pc'[u] = IF pc[u] = "asleep" THEN "loop" ELSE pc[u]
  BY <1>1, SleepersWake, ThreadKinds DEF IInv, TypeOK
<1>3. TypeOK' /\ Conserved'
  BY <1>1, <1>2, TasksUntouched DEF IInv, TypeOK
<1>4. MutexHeld'
  BY <1>1, <1>2, ThreadKinds DEF IInv, MutexHeld
<1>5. WorkHasWorker'
  BY <1>1, <1>2, ThreadKinds DEF IInv, WorkHasWorker
<1>6. ExitedWhenClosed'
  BY <1>1, <1>2, ThreadKinds DEF IInv, ExitedWhenClosed
<1>7. ClientsGone'
  BY <1>1, <1>2, ThreadKinds DEF IInv, ClientsGone
<1>8. Busy'
  BY <1>1, <1>2, ThreadKinds DEF IInv, Busy
<1> QED
  BY <1>3, <1>4, <1>5, <1>6, <1>7, <1>8 DEF IInv

LEMMA JoinKeepsIInv ==
    ASSUME IInv, Join
    PROVE  IInv'
<1>1. /\ pc[Closer] = "join" /\ \A w \in Workers : pc[w] = "exited"
      /\ pc' = [pc EXCEPT ![Closer] = "closed"]
      /\ UNCHANGED <<closed, queue, mutex, running, submits, accepted, done>>
  BY DEF Join, history
<1>2. PcType' /\ pc'[Closer] = "closed" /\ \A u \in Threads \ {Closer} : pc'[u] = pc[u]
  BY <1>1, OneMoves, ThreadKinds DEF IInv, TypeOK
<1>3. TypeOK' /\ Conserved'
  BY <1>1, <1>2, TasksUntouched DEF IInv, TypeOK
<1>4. MutexHeld'
  BY <1>1, <1>2, ThreadKinds DEF IInv, MutexHeld
<1>5. WorkHasWorker'
  BY <1>1, <1>2, ThreadKinds DEF IInv, WorkHasWorker
<1>6. ExitedWhenClosed'
  BY <1>1, <1>2, ThreadKinds DEF IInv, ExitedWhenClosed
<1>7. ClientsGone'
  BY <1>1, <1>2, ThreadKinds DEF IInv, ClientsGone
<1>8. Busy'
  BY <1>1, <1>2, ThreadKinds DEF IInv, Busy
<1> QED
  BY <1>3, <1>4, <1>5, <1>6, <1>7, <1>8 DEF IInv

----------------------------------------------------------------------------
LEMMA NextIInv == IInv /\ [Next]_vars => IInv'
<1> SUFFICES ASSUME IInv, [Next]_vars PROVE IInv'
  OBVIOUS
<1>1. ASSUME NEW w \in Workers, WorkerLoop(w) \/ FinishTask(w) PROVE IInv'
  BY <1>1, TakeTaskKeepsIInv, ExitKeepsIInv, TestFailsKeepsIInv, SleepKeepsIInv,
     FinishTaskKeepsIInv DEF WorkerLoop
<1>2. ASSUME NEW t \in Workers \cup Clients, Submit(t) PROVE IInv'
  BY <1>2, StartSubmitKeepsIInv, SubmitThrowsKeepsIInv, PushKeepsIInv, RefuseKeepsIInv
     DEF Submit
<1>3. CASE Shutdown \/ ShutdownNotify \/ Join
  BY <1>3, ShutdownKeepsIInv, ShutdownNotifyKeepsIInv, JoinKeepsIInv
<1>4. CASE UNCHANGED vars
  BY <1>4 DEF vars, history, IInv, TypeOK, PcType, MutexHeld, WorkHasWorker,
     ExitedWhenClosed, ClientsGone, Busy, Conserved
<1> QED
  BY <1>1, <1>2, <1>3, <1>4 DEF Next

LEMMA SpecIInv == Spec => []IInv
  BY InitIInv, NextIInv, PTL DEF Spec

\* The variables keep their types, and the queue its limit, whichever threads submit.
THEOREM PoolTypeOK == Spec => []TypeOK
<1>1. IInv => TypeOK
  BY DEF IInv
<1> QED
  BY SpecIInv, <1>1, PTL

\* thread_pool.cpp:86-91 against 46 and 47: the push and the predicate test are under the same
\* mutex, and the mutex is given up with falling asleep, so no task is left to sleepers.
THEOREM NoTaskSleptOver == Spec => []WorkHasWorker
<1>1. IInv => WorkHasWorker
  BY DEF IInv
<1> QED
  BY SpecIInv, <1>1, PTL

\* thread_pool.cpp:48: a thread returns from a closed pool only when the queue is empty, so that
\* after the joins of Shutdown every accepted task was run.
THEOREM ShutdownRunsAll == Spec => []ShutdownDrains
<1>1. IInv => ShutdownDrains
  <2> SUFFICES ASSUME IInv, pc[Closer] = "closed" PROVE queue = <<>> /\ done = 1 .. accepted
    BY DEF ShutdownDrains
  <2>1. \A w \in Workers : pc[w] = "exited"
    BY DEF IInv, ExitedWhenClosed
  <2>2. queue = <<>>
    BY <2>1 DEF IInv, WorkHasWorker
  <2>3. \A w \in Workers : running[w] = 0
    BY <2>1 DEF IInv, Busy
  <2>4. 1 .. accepted \subseteq done
    BY <2>2, <2>3 DEF IInv, Conserved, TypeOK
  <2> QED
    BY <2>2, <2>4 DEF IInv, TypeOK
<1> QED
  BY SpecIInv, <1>1, PTL

-----------------------------------------------------------------------------
(* The handle pool *)

\* The inductive invariant: the types and the conservation of handles need each other,
\* since a lent handle is a number only while its thread performs a request.
HandlesInv == HandlesTypeOK /\ HandlesConserved

\* What CheckAndGrowPool may add never exceeds what the limit leaves.
LEMMA AddedFits ==
    ASSUME HandlesTypeOK, poolSize < MaxPoolSize, NEW n \in Added \ {0}
    PROVE  n \in Nat \ {0} /\ poolSize + n <= MaxPoolSize
<1>1. poolSize \in Nat /\ MaxPoolSize \in Nat
  BY MaxPoolSizeAssumption DEF HandlesTypeOK
<1>2. AmountToAdd \in Nat /\ poolSize + AmountToAdd <= MaxPoolSize
  BY <1>1 DEF AmountToAdd
<1>3. n \in 0 .. AmountToAdd /\ n # 0
  BY <1>2 DEF Added
<1> HIDE DEF AmountToAdd
<1> QED
  BY <1>1, <1>2, <1>3

LEMMA InitHandlesInv == HandlesInit => HandlesInv
<1> SUFFICES ASSUME HandlesInit PROVE HandlesInv
  OBVIOUS
<1>1. failed \in BOOLEAN
  BY DEF HandlesInit
<1>2. HandlesTypeOK
  BY <1>1, MaxPoolSizeAssumption DEF HandlesInit, HandlesTypeOK
<1>3. HandlesConserved
  BY DEF HandlesInit, HandlesConserved
<1> QED
  BY <1>2, <1>3 DEF HandlesInv

\* A thread that takes h, idle after the growth of the pool to `size`, keeps the
\* invariant: the common part of AcquireCurlHandle with and without growth.
LEMMA PopKeepsHandlesInv ==
    ASSUME HandlesInv,
           NEW t \in Requesters, at[t] = "acquire",
           NEW size \in poolSize .. MaxPoolSize,
           NEW from,
           from = idle \cup (poolSize + 1 .. size),
           poolSize' = size,
           Pop(t, from),
           failed' \in BOOLEAN
    PROVE  HandlesInv'
<1>0. poolSize \in Nat /\ MaxPoolSize \in Nat /\ size \in Nat /\ NoHandle \notin Nat
  BY MaxPoolSizeAssumption, NoHandleAssumption DEF HandlesInv, HandlesTypeOK
<1>1. PICK h \in from : /\ idle' = from \ {h}
                        /\ handle' = [handle EXCEPT ![t] = h]
                        /\ at' = [at EXCEPT ![t] = "perform"]
  BY DEF Pop
<1>2. from \subseteq 1 .. size /\ h \in 1 .. size /\ size \in 0 .. MaxPoolSize
  BY <1>0, <1>1 DEF HandlesInv, HandlesConserved
<1>3. HandlesTypeOK'
  BY <1>0, <1>1, <1>2 DEF HandlesInv, HandlesTypeOK
<1>4. \A u \in Requesters : handle[u] # h
  <2> SUFFICES ASSUME NEW u \in Requesters, handle[u] = h PROVE FALSE
    OBVIOUS
  <2>1. h # NoHandle
    BY <1>0, <1>2
  <2>2. handle[u] \in (1 .. poolSize) \ idle
    BY <2>1 DEF HandlesInv, HandlesConserved
  <2> QED
    BY <1>0, <1>1, <2>2
<1>5. handle \in [Requesters -> (1 .. MaxPoolSize) \cup {NoHandle}]
      /\ at \in [Requesters -> {"idle", "acquire", "asleep", "perform"}]
  BY DEF HandlesInv, HandlesTypeOK
<1>6. handle'[t] = h /\ at'[t] = "perform"
      /\ \A u \in Requesters \ {t} : handle'[u] = handle[u] /\ at'[u] = at[u]
  BY <1>1, <1>5
<1>7. ASSUME NEW u \in Requesters
      PROVE  IF at'[u] = "perform" THEN handle'[u] \in (1 .. poolSize') \ idle'
                                   ELSE handle'[u] = NoHandle
  <2>1. CASE u = t
    BY <1>1, <1>2, <1>6, <2>1
  <2>2. CASE u # t
    <3>1. IF at[u] = "perform" THEN handle[u] \in (1 .. poolSize) \ idle
                               ELSE handle[u] = NoHandle
      BY DEF HandlesInv, HandlesConserved
    <3> QED
      BY <1>0, <1>1, <1>6, <2>2, <3>1
  <2> QED
    BY <2>1, <2>2
<1>8. ASSUME NEW u \in Requesters, NEW v \in Requesters,
             handle'[u] = handle'[v], handle'[u] # NoHandle
      PROVE  u = v
  BY <1>4, <1>6, <1>8 DEF HandlesInv, HandlesConserved
<1>9. ASSUME NEW g \in 1 .. poolSize'
      PROVE  g \in idle' \/ \E u \in Requesters : handle'[u] = g
  <2>1. CASE g = h
    BY <1>6, <2>1
  <2>2. CASE g # h /\ g \in 1 .. poolSize
    <3>1. g \in idle \/ \E u \in Requesters : handle[u] = g
      BY <2>2 DEF HandlesInv, HandlesConserved
    <3>2. CASE g \in idle
      BY <1>1, <2>2, <3>2
    <3>3. CASE \E u \in Requesters : handle[u] = g
      <4>1. PICK u \in Requesters : handle[u] = g
        BY <3>3
      <4>2. u # t
        <5>1. handle[t] = NoHandle
          BY DEF HandlesInv, HandlesConserved
        <5> QED
          BY <1>0, <2>2, <4>1, <5>1
      <4> QED
        BY <1>6, <4>1, <4>2
    <3> QED
      BY <3>1, <3>2, <3>3
  <2>3. CASE g # h /\ g \notin 1 .. poolSize
    BY <1>0, <1>1, <2>3
  <2> QED
    BY <2>1, <2>2, <2>3
<1>10. idle' \subseteq 1 .. poolSize'
  BY <1>1, <1>2
<1> QED
  BY <1>3, <1>7, <1>8, <1>9, <1>10 DEF HandlesInv, HandlesConserved

\* A thread whose pc moves between labels outside a request disturbs nothing.
LEMMA MoveKeepsHandlesInv ==
    ASSUME HandlesInv, at' \in [Requesters -> {"idle", "acquire", "asleep", "perform"}],
           \A u \in Requesters : at'[u] = "perform" <=> at[u] = "perform",
           UNCHANGED <<idle, poolSize, handle>>,
           failed' \in BOOLEAN
    PROVE  HandlesInv'
  BY DEF HandlesInv, HandlesTypeOK, HandlesConserved

\* Giving a handle back moves it from its thread to the idle ones.
LEMMA ReleaseKeepsHandlesInv ==
    ASSUME HandlesInv, NEW t \in Requesters, Release(t)
    PROVE  HandlesInv'
<1>0. NoHandle \notin Nat /\ poolSize \in Nat
  BY NoHandleAssumption DEF HandlesInv, HandlesTypeOK
<1>1. /\ at[t] = "perform"
      /\ idle' = idle \cup {handle[t]}
      /\ handle' = [handle EXCEPT ![t] = NoHandle]
      /\ UNCHANGED <<poolSize, failed>>
  BY DEF Release
<1>2. PICK woken \in SUBSET {u \in Requesters : at[u] = "asleep"} :
         at' = [u \in Requesters |-> IF u = t THEN "idle"
                                  ELSE IF u \in woken THEN "acquire" ELSE at[u]]
  BY DEF Release, Signal
<1>3. handle \in [Requesters -> (1 .. MaxPoolSize) \cup {NoHandle}]
      /\ at \in [Requesters -> {"idle", "acquire", "asleep", "perform"}]
  BY DEF HandlesInv, HandlesTypeOK
<1>4. handle'[t] = NoHandle /\ \A u \in Requesters \ {t} : handle'[u] = handle[u]
  BY <1>1, <1>3
<1>5. at' \in [Requesters -> {"idle", "acquire", "asleep", "perform"}]
      /\ at'[t] = "idle"
      /\ \A u \in Requesters \ {t} : at'[u] = "perform" <=> at[u] = "perform"
  <2>1. at'[t] = "idle"
    BY <1>2
  <2>2. ASSUME NEW u \in Requesters \ {t}
        PROVE  at'[u] = IF u \in woken THEN "acquire" ELSE at[u]
    BY <1>2
  <2>3. \A u \in woken : at[u] = "asleep"
    OBVIOUS
  <2>4. ASSUME NEW u \in Requesters
        PROVE  at'[u] \in {"idle", "acquire", "asleep", "perform"}
    BY <1>3, <2>1, <2>2
  <2>5. at' \in [Requesters -> {"idle", "acquire", "asleep", "perform"}]
    BY <1>2, <2>4
  <2> QED
    BY <2>1, <2>2, <2>3, <2>5
<1>6. handle[t] \in (1 .. poolSize) \ idle
  BY <1>1 DEF HandlesInv, HandlesConserved
<1>7. HandlesTypeOK'
  <2>1. handle' \in [Requesters -> (1 .. MaxPoolSize) \cup {NoHandle}]
    BY <1>1, <1>3
  <2>2. idle' \in SUBSET (1 .. MaxPoolSize)
    <3>1. 1 .. poolSize \subseteq 1 .. MaxPoolSize
      BY MaxPoolSizeAssumption DEF HandlesInv, HandlesTypeOK
    <3> QED
      BY <1>1, <1>6, <3>1 DEF HandlesInv, HandlesTypeOK
  <2> QED
    BY <1>1, <1>5, <2>1, <2>2 DEF HandlesInv, HandlesTypeOK
<1>8. ASSUME NEW u \in Requesters
      PROVE  IF at'[u] = "perform" THEN handle'[u] \in (1 .. poolSize') \ idle'
                                   ELSE handle'[u] = NoHandle
  <2>1. CASE u = t
    BY <1>4, <1>5, <2>1
  <2>2. CASE u # t
    <3>1. IF at[u] = "perform" THEN handle[u] \in (1 .. poolSize) \ idle
                               ELSE handle[u] = NoHandle
      BY DEF HandlesInv, HandlesConserved
    <3>2. handle[u] # handle[t]
      BY <1>0, <1>6, <2>2 DEF HandlesInv, HandlesConserved
    <3> QED
      BY <1>1, <1>4, <1>5, <2>2, <3>1, <3>2
  <2> QED
    BY <2>1, <2>2
<1>9. ASSUME NEW u \in Requesters, NEW v \in Requesters,
             handle'[u] = handle'[v], handle'[u] # NoHandle
      PROVE  u = v
  BY <1>4, <1>9 DEF HandlesInv, HandlesConserved
<1>10. ASSUME NEW g \in 1 .. poolSize'
       PROVE  g \in idle' \/ \E u \in Requesters : handle'[u] = g
  <2>1. g \in idle \/ \E u \in Requesters : handle[u] = g
    BY <1>1 DEF HandlesInv, HandlesConserved
  <2> QED
    BY <1>1, <1>4, <2>1
<1>11. idle' \subseteq 1 .. poolSize'
  BY <1>1, <1>6 DEF HandlesInv, HandlesConserved
<1> QED
  BY <1>7, <1>8, <1>9, <1>10, <1>11 DEF HandlesInv, HandlesConserved

LEMMA NextHandlesInv == HandlesInv /\ [HandlesNext]_handlesVars => HandlesInv'
<1> SUFFICES ASSUME HandlesInv, [HandlesNext]_handlesVars PROVE HandlesInv'
  OBVIOUS
<1>1. CASE UNCHANGED handlesVars
  BY <1>1 DEF handlesVars, HandlesInv, HandlesTypeOK, HandlesConserved
<1>2. ASSUME NEW t \in Requesters, StartRequest(t) PROVE HandlesInv'
  <2>1. at' \in [Requesters -> {"idle", "acquire", "asleep", "perform"}]
        /\ \A u \in Requesters : at'[u] = "perform" <=> at[u] = "perform"
    BY <1>2 DEF StartRequest, HandlesInv, HandlesTypeOK
  <2>2. UNCHANGED <<idle, poolSize, handle>> /\ failed' \in BOOLEAN
    BY <1>2 DEF StartRequest, HandlesInv, HandlesTypeOK
  <2> QED
    BY <2>1, <2>2, MoveKeepsHandlesInv
<1>3. ASSUME NEW t \in Requesters, Acquire(t) PROVE HandlesInv'
  <2>1. poolSize \in poolSize .. MaxPoolSize /\ idle = idle \cup (poolSize + 1 .. poolSize)
    BY MaxPoolSizeAssumption DEF HandlesInv, HandlesTypeOK
  <2>2. at[t] = "acquire" /\ Pop(t, idle) /\ poolSize' = poolSize
        /\ failed' \in BOOLEAN
    BY <1>3 DEF Acquire, HandlesInv, HandlesTypeOK
  <2> QED
    BY <2>1, <2>2, PopKeepsHandlesInv
<1>4. ASSUME NEW t \in Requesters, Grow(t) PROVE HandlesInv'
  <2>1. PICK n \in Added \ {0} :
           /\ poolSize' = poolSize + n /\ Pop(t, poolSize + 1 .. poolSize + n)
           /\ failed' = (failed \/ n < AmountToAdd)
    BY <1>4 DEF Grow, CountAdded
  <2>2. at[t] = "acquire" /\ idle = {} /\ poolSize < MaxPoolSize
    BY <1>4 DEF Grow
  <2>3. poolSize + n \in poolSize .. MaxPoolSize
    BY <2>2, AddedFits, MaxPoolSizeAssumption DEF HandlesInv, HandlesTypeOK
  <2>4. failed' \in BOOLEAN
    BY <2>1 DEF HandlesInv, HandlesTypeOK
  <2>5. poolSize + 1 .. poolSize + n = idle \cup (poolSize + 1 .. poolSize + n)
    BY <2>2
  <2> QED
    BY <2>1, <2>2, <2>3, <2>4, <2>5, PopKeepsHandlesInv
<1>5. ASSUME NEW t \in Requesters, Wait(t) PROVE HandlesInv'
  <2>1. at' \in [Requesters -> {"idle", "acquire", "asleep", "perform"}]
        /\ \A u \in Requesters : at'[u] = "perform" <=> at[u] = "perform"
    BY <1>5 DEF Wait, HandlesInv, HandlesTypeOK
  <2>2. UNCHANGED <<idle, poolSize, handle>>
        /\ failed' \in BOOLEAN
    BY <1>5 DEF Wait, HandlesInv, HandlesTypeOK
  <2> QED
    BY <2>1, <2>2, MoveKeepsHandlesInv
<1>6. ASSUME NEW t \in Requesters, Release(t) PROVE HandlesInv'
  BY <1>6, ReleaseKeepsHandlesInv
<1> QED
  BY <1>1, <1>2, <1>3, <1>4, <1>5, <1>6 DEF HandlesNext

\* Type correctness: whatever curl_easy_init returns, the pool stays within its limit.
THEOREM PoolTypeCorrect == HandlesSpec => []HandlesTypeOK
<1>1. HandlesInv => HandlesTypeOK
  BY DEF HandlesInv
<1> QED
  BY <1>1, InitHandlesInv, NextHandlesInv, PTL DEF HandlesSpec

\* No handle is lost or shared (AcquireCurlHandle, ReleaseCurlHandle, CheckAndGrowPool).
THEOREM PoolConserved == HandlesSpec => []HandlesConserved
<1>1. HandlesInv => HandlesConserved
  BY DEF HandlesInv
<1> QED
  BY <1>1, InitHandlesInv, NextHandlesInv, PTL DEF HandlesSpec

----------------------------------------------------------------------------
(* No wake-up is lost *)

Acquiring == {t \in Requesters : at[t] = "acquire"}

Asleep == {t \in Requesters : at[t] = "asleep"}

\* NoStrandedHandle is kept by the growth of the pool because it cannot grow any more once a
\* thread is asleep, unless curl_easy_init has failed.
SleepersInv ==
    ~failed /\ Asleep # {} =>
        poolSize = MaxPoolSize /\ Cardinality(idle) <= Cardinality(Acquiring)

Countable ==
    /\ IsFiniteSet(idle) /\ IsFiniteSet(Acquiring)
    /\ Cardinality(idle) \in Nat /\ Cardinality(Acquiring) \in Nat

LEMMA TypesCountable == HandlesTypeOK => Countable
<1> SUFFICES ASSUME HandlesTypeOK PROVE Countable
  OBVIOUS
<1>1. IsFiniteSet(1 .. MaxPoolSize)
  BY MaxPoolSizeAssumption, FS_Interval
<1>2. idle \subseteq 1 .. MaxPoolSize /\ Acquiring \subseteq Requesters
  BY DEF HandlesTypeOK, Acquiring
<1>3. IsFiniteSet(idle) /\ IsFiniteSet(Acquiring)
  BY <1>1, <1>2, FS_Subset, RequestersAssumption DEF RequestersAssumption
<1> QED
  BY <1>3, FS_CardinalityType DEF Countable

LEMMA InitSleepers == HandlesInit => SleepersInv
  BY DEF HandlesInit, SleepersInv, Asleep

LEMMA NextSleepers ==
    ASSUME HandlesInv, SleepersInv, [HandlesNext]_handlesVars
    PROVE  SleepersInv'
<1>1. /\ HandlesTypeOK /\ HandlesTypeOK'
      /\ at \in [Requesters -> {"idle", "acquire", "asleep", "perform"}]
      /\ poolSize \in Nat /\ MaxPoolSize \in Nat /\ poolSize <= MaxPoolSize
  BY NextHandlesInv, MaxPoolSizeAssumption DEF HandlesInv, HandlesTypeOK
<1>2. /\ IsFiniteSet(idle) /\ IsFiniteSet(Acquiring)
      /\ Cardinality(idle) \in Nat /\ Cardinality(Acquiring) \in Nat
  BY <1>1, TypesCountable DEF Countable
<1>3. /\ IsFiniteSet(idle') /\ IsFiniteSet(Acquiring')
      /\ Cardinality(idle') \in Nat /\ Cardinality(Acquiring') \in Nat
  <2>1. Countable'
    BY <1>1, TypesCountable, PTL
  <2> QED
    BY <2>1 DEF Countable
<1>4. CASE UNCHANGED handlesVars
  BY <1>4 DEF handlesVars, SleepersInv, Asleep, Acquiring
<1>5. ASSUME NEW t \in Requesters, StartRequest(t) PROVE SleepersInv'
  <2>1. Acquiring' = Acquiring \cup {t} /\ Asleep' = Asleep
    BY <1>1, <1>5 DEF StartRequest, Acquiring, Asleep
  <2>2. Cardinality(Acquiring) <= Cardinality(Acquiring')
    BY <1>3, <2>1, FS_Subset
  <2>3. UNCHANGED <<idle, poolSize, failed>>
    BY <1>5 DEF StartRequest
  <2> QED
    BY <1>2, <1>3, <2>1, <2>2, <2>3 DEF SleepersInv
<1>6. ASSUME NEW t \in Requesters, Acquire(t) PROVE SleepersInv'
  <2>1. PICK h \in idle : idle' = idle \ {h} /\ at' = [at EXCEPT ![t] = "perform"]
    BY <1>6 DEF Acquire, Pop
  <2>2. t \in Acquiring /\ Acquiring' = Acquiring \ {t} /\ Asleep' = Asleep
    BY <1>1, <1>6, <2>1 DEF Acquire, Acquiring, Asleep
  <2>3. /\ Cardinality(idle') = Cardinality(idle) - 1
        /\ Cardinality(Acquiring') = Cardinality(Acquiring) - 1
    BY <1>2, <2>1, <2>2, FS_RemoveElement
  <2>4. UNCHANGED <<poolSize, failed>>
    BY <1>6 DEF Acquire
  <2> QED
    BY <1>2, <2>2, <2>3, <2>4 DEF SleepersInv
<1>7. ASSUME NEW t \in Requesters, Grow(t) PROVE SleepersInv'
  <2>1. PICK n \in Added \ {0} :
           /\ Pop(t, poolSize + 1 .. poolSize + n)
           /\ failed' = (failed \/ n < AmountToAdd)
    BY <1>7 DEF Grow
  <2>2. at' = [at EXCEPT ![t] = "perform"] /\ at[t] = "acquire" /\ poolSize < MaxPoolSize
    BY <1>7, <2>1 DEF Grow, Pop
  <2>3. Asleep' = Asleep
    BY <1>1, <2>2 DEF Asleep
  <2>4. failed \/ Asleep = {}
    BY <1>1, <2>2 DEF SleepersInv
  <2> QED
    BY <2>1, <2>3, <2>4 DEF SleepersInv
<1>8. ASSUME NEW t \in Requesters, Wait(t) PROVE SleepersInv'
  <2>1. idle' = {} /\ poolSize' = poolSize /\ failed' = (failed \/ poolSize < MaxPoolSize)
    BY <1>8 DEF Wait
  <2>2. Cardinality(idle') = 0
    BY <2>1, FS_EmptySet
  <2>3. ~failed' => ~ (poolSize < MaxPoolSize)
    BY <2>1, Zenon
  <2>4. ~failed' => poolSize' = MaxPoolSize /\ Cardinality(idle') <= Cardinality(Acquiring')
    BY <1>1, <1>3, <2>1, <2>2, <2>3
  <2> QED
    BY <2>4 DEF SleepersInv
<1>9. ASSUME NEW t \in Requesters, Release(t) PROVE SleepersInv'
  <2>1. /\ at[t] = "perform"
        /\ idle' = idle \cup {handle[t]}
        /\ UNCHANGED <<poolSize, failed>>
    BY <1>9 DEF Release
  <2>2. PICK woken \in SUBSET Asleep :
           /\ Asleep # {} => woken # {}
           /\ at' = [u \in Requesters |-> IF u = t THEN "idle"
                                       ELSE IF u \in woken THEN "acquire" ELSE at[u]]
    BY <1>9 DEF Release, Signal, Asleep
  <2>3. Asleep' \subseteq Asleep /\ Acquiring \cup woken \subseteq Acquiring'
    BY <1>1, <2>1, <2>2 DEF Asleep, Acquiring
  <2>4. handle[t] \notin idle
    BY <2>1 DEF HandlesInv, HandlesConserved
  <2>5. Cardinality(idle') = Cardinality(idle) + 1
    BY <1>2, <2>1, <2>4, FS_AddElement
  <2>6. Asleep # {} => Cardinality(Acquiring) + 1 <= Cardinality(Acquiring')
    <3> SUFFICES ASSUME Asleep # {} PROVE Cardinality(Acquiring) + 1 <= Cardinality(Acquiring')
      OBVIOUS
    <3>1. PICK u \in woken : u \in Asleep
      BY <2>2
    <3>2. u \notin Acquiring /\ Acquiring \cup {u} \subseteq Acquiring'
      BY <2>3, <3>1 DEF Asleep, Acquiring
    <3>3. Cardinality(Acquiring \cup {u}) = Cardinality(Acquiring) + 1
      BY <1>2, <3>2, FS_AddElement
    <3> QED
      BY <1>3, <3>2, <3>3, FS_Subset
  <2> QED
    BY <1>2, <1>3, <2>1, <2>3, <2>5, <2>6 DEF SleepersInv
<1> QED
  BY <1>4, <1>5, <1>6, <1>7, <1>8, <1>9 DEF HandlesNext

\* As long as curl_easy_init has not failed, an idle handle never lies in front of threads
\* that sleep: a thread that is awake is about to take it.  pthread_cond_signal may wake more
\* than one thread, and a thread that arrives later may be faster than the one woken.
THEOREM NoHandleStranded == HandlesSpec => []NoStrandedHandle
<1>1. HandlesInv /\ SleepersInv => NoStrandedHandle
  BY DEF SleepersInv, NoStrandedHandle, Asleep, Acquiring
<1>2. HandlesInv /\ SleepersInv /\ [HandlesNext]_handlesVars => HandlesInv' /\ SleepersInv'
  BY NextHandlesInv, NextSleepers
<1> QED
  BY <1>1, <1>2, InitHandlesInv, InitSleepers, PTL DEF HandlesSpec
=================================================================================
