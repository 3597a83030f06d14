---------------------------- MODULE ShardReader ----------------------------
(***************************************************************************)
(* One shard's reader (client/src/shard_reader.cpp): Read, which hands out *)
(* the records of a cache queue one by one, and FetchOnce, which fills the *)
(* queue from the service on a thread of the MessageReader's pool.         *)
(*                                                                         *)
(* The caller of Read is ShardGroupReader, under a mutex of its own: one   *)
(* thread reads at a time, and that thread also handles what Read throws.  *)
(*                                                                         *)
(* pc of the reader:  idle -> test -> exchange -> send -> look -> idle,    *)
(*                    look -> test, look -> reset -> idle, look -> ended   *)
(* step of a fetcher: idle -> get -> push -> notify -> idle                *)
(*                                                                         *)
(* Records are numbered in the order of the shard; a cursor is the number  *)
(* of the record it points at.  The record numbers below oldest have       *)
(* expired.  Timers are left out: what they delay or cut short can happen  *)
(* at any time.                                                            *)
(***************************************************************************)
EXTENDS Integers, Sequences, FiniteSets, SequencesExt

CONSTANTS
    Fetchers,       \* the threads of the MessageReader's pool
    FetchNum,       \* mFetchNum
    QueueLimit,     \* mRecordFetchQueueLimit
    Starts,         \* positions the reader may be created at, 0 for the oldest record
    MaxRecord,      \* bound: records of the shard
    MaxErrors,      \* bound: calls of the service that fail
    MaxRefusals     \* bound: tasks that the pool refuses

ASSUME FetchNumAssumption == FetchNum \in Nat \ {0}
ASSUME QueueLimitAssumption == QueueLimit \in Nat \ {0}
ASSUME BoundsAssumption == MaxRecord \in Nat /\ MaxErrors \in Nat /\ MaxRefusals \in Nat
ASSUME StartsAssumption == Starts \subseteq 0 .. MaxRecord + 1

VARIABLES
    \* ShardReader
    pc,
    queue,          \* mCompletedFetchCacheQueue
    taskRuning,     \* mTaskRuning
    nextCursor,     \* mCurrOffset.mNextCursor, 0 when it is empty
    offset,         \* mCurrOffset's sequence, or else timestamp, as a position; 0 when both are -1
    \* the pool
    pending,        \* FetchOnce tasks in its queue
    fetcher,        \* where each thread is in FetchOnce
    refusals,
    \* the service
    appended, oldest, sealed, errors,
    \* history
    start,          \* the position the reader was created at
    delivered,      \* the records Read has returned
    resets          \* calls of ResetOffset

reader == <<pc, queue, taskRuning, nextCursor, offset>>
pool == <<pending, fetcher, refusals>>
service == <<appended, oldest, sealed, errors>>
history == <<start, delivered, resets>>
vars == <<reader, pool, service, history>>

\* An entry of the queue.
Normal(r) == [type |-> "NORMAL", record |-> r]
Exception(code) == [type |-> "EXCEPTION", code |-> code]
Delay == [type |-> "DELAY"]

\* What a call of the service in FetchOnce ended with.
Thrown(code) == [error |-> code, records |-> <<>>, next |-> 0]
Fetched(records, next) == [error |-> "none", records |-> records, next |-> next]
NoResult == Fetched(<<>>, 0)

IdleFetcher == [step |-> "idle", cursor |-> 0, result |-> NoResult]

Init ==
    /\ pc = "idle" /\ queue = <<>> /\ taskRuning = FALSE
    /\ start \in Starts
    /\ nextCursor = 0 /\ offset = start
    /\ pending = 0 /\ refusals = 0
    /\ fetcher = [f \in Fetchers |-> IdleFetcher]
    /\ appended \in 0 .. MaxRecord
    /\ oldest = 1 /\ sealed = FALSE /\ errors = 0
    /\ delivered = {} /\ resets = 0

----------------------------------------------------------------------------
(* Read *)

Goto(label) == pc' = label

StartRead ==
    /\ pc = "idle"
    /\ Goto("test")
    /\ UNCHANGED <<queue, taskRuning, nextCursor, offset, pool, service, history>>

HasRoom == Len(queue) < QueueLimit

\* ReadNext reads the size of the queue without mFetchMutex, ...
TestSize ==
    /\ pc = "test"
    /\ IF HasRoom THEN Goto("exchange") ELSE Goto("look")
    /\ UNCHANGED <<queue, taskRuning, nextCursor, offset, pool, service, history>>

\* Mutant: the flag is set whatever it was.
StoreTrue == taskRuning' = TRUE /\ Goto("send")

\* Set the flag, and go on to send a task only if it was not set.
ExchangeTrue == taskRuning' = TRUE /\ IF taskRuning THEN Goto("look") ELSE Goto("send")

\* ... and then claims the one fetch task.
ExchangeTaskRuning ==
    /\ pc = "exchange"
    /\ ExchangeTrue
    /\ UNCHANGED <<queue, nextCursor, offset, pool, service, history>>

\* SubmitTask; the wait that follows ends at the latest when Read's timer expires.
SendNextTask ==
    /\ pc = "send"
    /\ pending' = pending + 1
    /\ Goto("look")
    /\ UNCHANGED <<queue, taskRuning, nextCursor, offset, fetcher, refusals, service, history>>

\* The pool is full and SubmitTask returns false, which nobody looks at.
SendRefused ==
    /\ pc = "send"
    /\ refusals < MaxRefusals
    /\ refusals' = refusals + 1
    /\ Goto("look")
    /\ UNCHANGED <<queue, taskRuning, nextCursor, offset, pending, fetcher, service, history>>

\* Nothing there: once more, or the timer has expired and Read returns null.
LookEmpty ==
    /\ pc = "look"
    /\ queue = <<>>
    /\ pc' \in {"test", "idle"}
    /\ UNCHANGED <<queue, taskRuning, nextCursor, offset, pool, service, history>>

\* Read returns a record.
LookRecord ==
    /\ pc = "look"
    /\ queue # <<>> /\ Head(queue).type = "NORMAL"
    /\ delivered' = delivered \cup {Head(queue).record}
    /\ queue' = Tail(queue)
    /\ Goto("idle")
    /\ UNCHANGED <<taskRuning, nextCursor, offset, pool, service, start, resets>>

\* Read returns null, and the next Read starts when the delay is over.
LookDelay ==
    /\ pc = "look"
    /\ queue # <<>> /\ Head(queue) = Delay
    /\ queue' = Tail(queue)
    /\ Goto("idle")
    /\ UNCHANGED <<taskRuning, nextCursor, offset, pool, service, history>>

\* Read throws, and ReadOnceByReader goes by the error code: the offset is reset, the reader
\* of the sealed shard is removed, or the exception goes on to the application.
LookException ==
    /\ pc = "look"
    /\ queue # <<>> /\ Head(queue).type = "EXCEPTION"
    /\ queue' = Tail(queue)
    /\ Goto(IF Head(queue).code = "InvalidCursor" THEN "reset"
            ELSE IF Head(queue).code = "InvalidShardOperation" THEN "ended" ELSE "idle")
    /\ UNCHANGED <<taskRuning, nextCursor, offset, pool, service, history>>

ResetTimestamp == nextCursor' = 0 /\ offset' = 0

\* Takes no mutex: a fetch may be running.
ResetOffset ==
    /\ pc = "reset"
    /\ ResetTimestamp
    /\ resets' = resets + 1
    /\ Goto("idle")
    /\ UNCHANGED <<queue, taskRuning, pool, service, start, delivered>>

----------------------------------------------------------------------------
(* FetchOnce *)

InRange(position) == oldest <= position /\ position <= appended + 1

\* Mutant: a position out of range is replaced by the end of the shard.
LatestIfOutOfRange ==
    IF nextCursor # 0 THEN nextCursor ELSE IF InRange(offset) THEN offset ELSE appended + 1

\* The cursor of the last fetch, or else that of the offset, with the oldest record for an
\* offset that is not set or answered with SeekOutOfRange.
GetNextCursor ==
    IF nextCursor # 0 THEN nextCursor ELSE IF InRange(offset) THEN offset ELSE oldest

TakeFetch(f) ==
    /\ pending > 0 /\ fetcher[f] = IdleFetcher
    /\ pending' = pending - 1
    /\ fetcher' = [fetcher EXCEPT ![f].step = "get", ![f].cursor = GetNextCursor]
    /\ UNCHANGED <<reader, refusals, service, history>>

\* GetCursor fails, for a reader that has no cursor yet.
TakeFetchFails(f) ==
    /\ pending > 0 /\ fetcher[f] = IdleFetcher
    /\ nextCursor = 0 /\ errors < MaxErrors
    /\ errors' = errors + 1
    /\ pending' = pending - 1
    /\ fetcher' = [fetcher EXCEPT ![f].step = "push", ![f].result = Thrown("other")]
    /\ UNCHANGED <<reader, refusals, appended, oldest, sealed, history>>

\* What the service answers to GetRecord at a cursor.
Answer(cursor) ==
    LET end == IF cursor + FetchNum > appended + 1 THEN appended + 1 ELSE cursor + FetchNum
    IN  IF cursor < oldest THEN Thrown("InvalidCursor")
        ELSE IF sealed /\ cursor > appended THEN Thrown("InvalidShardOperation")
        ELSE Fetched([i \in 1 .. end - cursor |-> cursor + i - 1], end)

\* Mutant: the flag is cleared before the records are in the queue.
ClearBeforePush(f) ==
    /\ fetcher[f].step = "get"
    /\ fetcher' = [fetcher EXCEPT ![f].step = "push", ![f].result = Answer(fetcher[f].cursor)]
    /\ taskRuning' = FALSE
    /\ UNCHANGED <<pc, queue, nextCursor, offset, pending, refusals, service, history>>

GetRecord(f) ==
    /\ fetcher[f].step = "get"
    /\ fetcher' = [fetcher EXCEPT ![f].step = "push", ![f].result = Answer(fetcher[f].cursor)]
    /\ UNCHANGED <<reader, pending, refusals, service, history>>

GetRecordFails(f) ==
    /\ fetcher[f].step = "get"
    /\ errors < MaxErrors
    /\ errors' = errors + 1
    /\ fetcher' = [fetcher EXCEPT ![f].step = "push", ![f].result = Thrown("other")]
    /\ UNCHANGED <<reader, pending, refusals, appended, oldest, sealed, history>>

\* NotifyAllFetchWait is still to be called.
Waiting(f) == fetcher' = [fetcher EXCEPT ![f].step = "notify"] /\ UNCHANGED taskRuning

\* Mutant: nobody clears the flag.
FlagStays(f) == fetcher' = [fetcher EXCEPT ![f] = IdleFetcher] /\ UNCHANGED taskRuning

Notified(f) == fetcher' = [fetcher EXCEPT ![f] = IdleFetcher] /\ taskRuning' = FALSE

\* The records and the cursor behind them, under mFetchMutex.
PushRecords(f) ==
    LET result == fetcher[f].result
    IN  /\ fetcher[f].step = "push" /\ result.records # <<>>
        /\ queue' = queue \o [i \in 1 .. Len(result.records) |-> Normal(result.records[i])]
        /\ nextCursor' = result.next
        /\ Waiting(f)
        /\ UNCHANGED <<pc, offset, pending, refusals, service, history>>

\* No record there yet.
PushDelay(f) ==
    LET result == fetcher[f].result
    IN  /\ fetcher[f].step = "push" /\ result.error = "none" /\ result.records = <<>>
        /\ queue' = Append(queue, Delay)
        /\ nextCursor' = result.next
        /\ Waiting(f)
        /\ UNCHANGED <<pc, offset, pending, refusals, service, history>>

EndsWithException == queue # <<>> /\ Last(queue).type = "EXCEPTION"

\* A DatahubException, unless the queue ends with one, and NotifyAllFetchWait under the same
\* mFetchMutex.
PushException(f) ==
    LET result == fetcher[f].result
    IN  /\ fetcher[f].step = "push" /\ result.error # "none"
        /\ queue' = IF EndsWithException THEN queue ELSE Append(queue, Exception(result.error))
        /\ Notified(f)
        /\ UNCHANGED <<pc, nextCursor, offset, pending, refusals, service, history>>

NotifyAllFetchWait(f) ==
    /\ fetcher[f].step = "notify"
    /\ Notified(f)
    /\ UNCHANGED <<pc, queue, nextCursor, offset, pending, refusals, service, history>>

----------------------------------------------------------------------------
(* The service *)

AppendRecord ==
    /\ ~sealed /\ appended < MaxRecord
    /\ appended' = appended + 1
    /\ UNCHANGED <<reader, pool, oldest, sealed, errors, history>>

ExpireRecord ==
    /\ oldest <= appended
    /\ oldest' = oldest + 1
    /\ UNCHANGED <<reader, pool, appended, sealed, errors, history>>

Seal ==
    /\ ~sealed
    /\ sealed' = TRUE
    /\ UNCHANGED <<reader, pool, appended, oldest, errors, history>>

----------------------------------------------------------------------------
ReadNext ==
    \/ TestSize \/ ExchangeTaskRuning \/ SendNextTask \/ SendRefused
    \/ LookEmpty \/ LookRecord \/ LookDelay \/ LookException

FetchOnce(f) ==
    \/ TakeFetch(f) \/ TakeFetchFails(f)
    \/ GetRecord(f) \/ GetRecordFails(f)
    \/ PushRecords(f) \/ PushDelay(f) \/ PushException(f)
    \/ NotifyAllFetchWait(f)

Next ==
    \/ StartRead \/ ReadNext \/ ResetOffset
    \/ \E f \in Fetchers : FetchOnce(f)
    \/ AppendRecord \/ ExpireRecord \/ Seal

Spec == Init /\ [][Next]_vars

(***************************************************************************)
(* The threads run, and the application goes on calling Read.  The service *)
(* answers, but nothing obliges it to append, expire or seal.              *)
(***************************************************************************)
FairSpec ==
    /\ Spec
    /\ WF_vars(StartRead \/ ReadNext \/ ResetOffset)
    /\ \A f \in Fetchers : WF_vars(FetchOnce(f))

----------------------------------------------------------------------------
Entries ==
    {Normal(r) : r \in 1 .. MaxRecord} \cup {Delay}
        \cup {Exception(code) : code \in {"InvalidCursor", "InvalidShardOperation", "other"}}

Busy == {f \in Fetchers : fetcher[f] # IdleFetcher}

\* The variables hold values of their types.  The size of the queue is read without
\* mFetchMutex: records of a fetch that was still running then can come on top of those of
\* the fetch the test lets through.
TypeOK ==
    /\ pc \in {"idle", "test", "exchange", "send", "look", "reset", "ended"}
    /\ queue \in Seq(Entries) /\ Len(queue) <= QueueLimit - 1 + 2 * FetchNum
    /\ taskRuning \in BOOLEAN
    /\ {nextCursor, offset, start} \subseteq 0 .. MaxRecord + 1
    /\ pending \in Nat /\ refusals \in 0 .. MaxRefusals /\ errors \in 0 .. MaxErrors
    /\ \A f \in Fetchers : fetcher[f].step \in {"idle", "get", "push", "notify"}
    /\ appended \in 0 .. MaxRecord /\ oldest \in 1 .. appended + 1 /\ sealed \in BOOLEAN
    /\ delivered \subseteq 1 .. MaxRecord /\ resets \in Nat

\* At most one fetch of the shard is on its way at any time, and mTaskRuning tells of it
\* until its records are in the queue: two would fetch the same records.
OneFetch ==
    /\ pending + Cardinality(Busy) <= 1
    /\ pending + Cardinality(Busy) = 1 => taskRuning

\* Whatever was fetched twice, failed, expired or was reset: a record is delivered only when
\* every record before it, from the reader's start on, was delivered or has expired.
NoRecordSkipped ==
    \A r \in delivered : \A q \in start .. r : q \in delivered \/ q < oldest

Queued == {i \in 1 .. Len(queue) : queue[i].type = "NORMAL"}

\* Until an expired cursor makes the reader start again, what is queued comes in the order of
\* the shard and behind all that was delivered.
QueueInOrder ==
    resets = 0 =>
        /\ \A i, j \in Queued : i < j => queue[i].record < queue[j].record
        /\ \A i \in Queued, r \in delivered : r < queue[i].record

\* What is fetched comes in turn (the exchange of mTaskRuning in Fetch).
FetchedInTurn == OneFetch /\ QueueInOrder

Delivered(r) == r \in delivered \/ r < oldest

\* Every record from the start on is delivered or expires, while Read is called and until
\* the reader is removed at the end of a sealed shard, as long as the pool takes every fetch
\* task: SendNextTask does not look at a refusal (shard_reader.cpp:257), after which
\* mTaskRuning stays set.
DeliveredUnlessRefused ==
    \A r \in 1 .. MaxRecord :
        (start <= r /\ r <= appended) ~> (Delivered(r) \/ refusals > 0)
============================================================================
