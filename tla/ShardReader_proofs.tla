------------------------ MODULE ShardReader_proofs ------------------------
(***************************************************************************)
(* The reader of a shard fetches in turn and skips no record, for any      *)
(* number of fetchers, sizes of fetches and queues, and failures.          *)
(***************************************************************************)
EXTENDS ShardReader, SequenceTheorems, FiniteSetTheorems, TLAPS

----------------------------------------------------------------------------
(* The inductive invariant *)

Codes == {"InvalidCursor", "InvalidShardOperation", "other"}

FetchResults ==
    [error : Codes \cup {"none"}, records : Seq(1 .. MaxRecord), next : 0 .. MaxRecord + 1]

FetcherStates ==
    [step : {"idle", "get", "push", "notify"}, cursor : 0 .. MaxRecord + 1, result : FetchResults]

FetcherTyped ==
    /\ fetcher \in [Fetchers -> FetcherStates]
    /\ \A f \in Fetchers : fetcher[f].step = "idle" => fetcher[f] = IdleFetcher

\* f is to fetch at its cursor, or has fetched there, and its records are not in the queue yet.
Live(f) ==
    \/ fetcher[f].step = "get"
    \/ fetcher[f].step = "push" /\ fetcher[f].result.error = "none"

\* What a fetch brings are the records from its cursor on, and the cursor behind them.
RunAtCursor(cursor, result) ==
    /\ Len(result.records) <= FetchNum
    /\ result.error # "none" => result.records = <<>>
    /\ result.error = "none" =>
           /\ result.next = cursor + Len(result.records)
           /\ result.next <= appended + 1
           /\ \A i \in 1 .. Len(result.records) : result.records[i] = cursor + i - 1

FetchIsRun ==
    /\ nextCursor <= appended + 1
    /\ offset \in {0, start}
    /\ \A f \in Fetchers :
           /\ Live(f) => fetcher[f].cursor \in 1 .. appended + 1
           /\ fetcher[f].step = "push" => RunAtCursor(fetcher[f].cursor, fetcher[f].result)

\* Whoever has set mTaskRuning holds the one fetch: Read, which is to send the task, the queue
\* of the pool, or a thread of it.
OneHolder ==
    /\ pc = "send" => taskRuning /\ pending = 0 /\ Busy = {}
    /\ pending > 0 => taskRuning /\ pending = 1 /\ Busy = {}
    /\ Busy # {} => taskRuning
    /\ \A f, g \in Busy : f = g

\* A fetch that has not filled the queue yet.
ToPush == pc = "send" \/ pending > 0 \/ \E f \in Fetchers : fetcher[f].step \in {"get", "push"}

\* When Read found room, at most the fetch that was on its way then has filled the queue since.
RoomForFetch ==
    /\ ToPush => Len(queue) <= QueueLimit - 1 + FetchNum
    /\ pc = "exchange" => Len(queue) <= QueueLimit - 1 + (IF ToPush THEN 0 ELSE FetchNum)

Seen(q) == q \in delivered \/ q < oldest

Reached(q) == Seen(q) \/ \E j \in Queued : queue[j].record = q

\* Every record from the start to before n was delivered, has expired, or is in the queue.
Covered(n) == \A q \in start .. n - 1 : Reached(q)

\* What a queued record follows comes before it, and what a fetch brings follows the queue.
NothingMissing ==
    /\ NoRecordSkipped
    /\ \A i \in Queued : \A q \in start .. queue[i].record :
           Seen(q) \/ \E j \in Queued : j <= i /\ queue[j].record = q
    /\ Covered(nextCursor)
    /\ \A f \in Fetchers : Covered(fetcher[f].cursor)

\* All that was delivered or is in the queue comes before n.
AllBefore(n) ==
    /\ \A i \in Queued : queue[i].record < n
    /\ \A r \in delivered : r < n

FetchFollows ==
    resets = 0 =>
        /\ AllBefore(nextCursor)
        /\ \A f \in Fetchers : Live(f) => AllBefore(fetcher[f].cursor)

IInv ==
    /\ TypeOK
    /\ FetcherTyped
    /\ FetchIsRun
    /\ OneHolder
    /\ RoomForFetch
    /\ NothingMissing
    /\ QueueInOrder
    /\ FetchFollows

----------------------------------------------------------------------------
(* Initial states, and what groups of steps have in common *)

LEMMA Numbers ==
    IInv => /\ {FetchNum, QueueLimit, MaxRecord} \subseteq Nat /\ FetchNum > 0 /\ QueueLimit > 0
            /\ {nextCursor, offset, start, appended, oldest, pending, resets} \subseteq Nat
            /\ queue \in Seq(Entries) /\ Len(queue) \in Nat
            /\ Len(queue) <= QueueLimit - 1 + 2 * FetchNum
            /\ appended <= MaxRecord /\ oldest >= 1 /\ oldest <= appended + 1
  BY FetchNumAssumption, QueueLimitAssumption, BoundsAssumption, LenProperties
     DEF FetchNumAssumption, QueueLimitAssumption, BoundsAssumption, IInv, TypeOK

LEMMA InitIInv == Init => IInv
<1> SUFFICES ASSUME Init PROVE IInv
  OBVIOUS
<1> USE FetchNumAssumption, QueueLimitAssumption, BoundsAssumption, StartsAssumption
    DEF FetchNumAssumption, QueueLimitAssumption, BoundsAssumption, StartsAssumption
<1>0. /\ queue = <<>> /\ Len(queue) = 0 /\ Queued = {} /\ delivered = {} /\ nextCursor = 0
      /\ offset = start /\ start \in 0 .. MaxRecord + 1 /\ appended \in 0 .. MaxRecord
  BY DEF Init, Queued
<1>1. FetcherTyped
  <2>1. IdleFetcher \in FetcherStates
    BY EmptySeq DEF IdleFetcher, NoResult, Fetched, FetcherStates, FetchResults
  <2> QED
    BY <2>1 DEF Init, FetcherTyped
<1>2. \A f \in Fetchers : fetcher[f].step = "idle" /\ fetcher[f].cursor = 0
  BY DEF Init, IdleFetcher
<1>3. TypeOK
  <2>1. queue \in Seq(Entries)
    BY <1>0, EmptySeq
  <2>2. 0 <= QueueLimit - 1 + 2 * FetchNum
    OBVIOUS
  <2>3. {nextCursor, offset, start} \subseteq 0 .. MaxRecord + 1
    BY <1>0
  <2>4. pending \in Nat /\ refusals \in 0 .. MaxRefusals /\ errors \in 0 .. MaxErrors /\ resets \in Nat
    BY DEF Init
  <2>5. oldest \in 1 .. appended + 1 /\ delivered \subseteq 1 .. MaxRecord
    BY <1>0 DEF Init
  <2> QED
    BY <1>0, <1>2, <2>1, <2>2, <2>3, <2>4, <2>5 DEF Init, TypeOK
<1>4. FetchIsRun
  BY <1>0, <1>2 DEF FetchIsRun, Live
<1>5. OneHolder
  BY DEF Init, OneHolder, Busy
<1>6. RoomForFetch
  BY <1>0, <1>2 DEF Init, RoomForFetch, ToPush
<1>7. NothingMissing
  BY <1>0, <1>2 DEF NothingMissing, NoRecordSkipped, Covered
<1>8. QueueInOrder /\ FetchFollows
  BY <1>0, <1>2 DEF QueueInOrder, FetchFollows, Live, AllBefore
<1> QED
  BY <1>1, <1>3, <1>4, <1>5, <1>6, <1>7, <1>8 DEF IInv

ReadGoesOn ==
    StartRead \/ TestSize \/ ExchangeTaskRuning \/ SendNextTask \/ SendRefused \/ LookEmpty

LookHead == LookRecord \/ LookDelay \/ LookException

StartFetch(f) == TakeFetch(f) \/ TakeFetchFails(f)

EndFetch(f) == GetRecord(f) \/ GetRecordFails(f)

PushNoRecord(f) == PushDelay(f) \/ PushException(f)

ServiceStep == AppendRecord \/ ExpireRecord \/ Seal

LEMMA Steps ==
    ASSUME [Next]_vars
    PROVE  \/ ReadGoesOn \/ LookHead \/ ResetOffset \/ ServiceStep \/ UNCHANGED vars
           \/ \E f \in Fetchers :
                  \/ StartFetch(f) \/ EndFetch(f)
                  \/ PushRecords(f) \/ PushNoRecord(f) \/ NotifyAllFetchWait(f)
  BY DEF Next, ReadNext, FetchOnce, ReadGoesOn, LookHead, StartFetch, EndFetch, PushNoRecord,
         ServiceStep

\* What Read leaves alone until it looks at the queue.
LEMMA ReadFrame ==
    ASSUME ReadGoesOn
    PROVE  UNCHANGED <<queue, nextCursor, offset, fetcher, service, history>>
  BY DEF ReadGoesOn, StartRead, TestSize, ExchangeTaskRuning, ExchangeTrue, SendNextTask,
         SendRefused, LookEmpty, pool

LEMMA LookFrame ==
    ASSUME LookHead
    PROVE  /\ UNCHANGED <<taskRuning, nextCursor, offset, pool, service, start, resets>>
           /\ pc = "look" /\ pc' \in {"idle", "reset", "ended"}
           /\ queue # <<>> /\ queue' = Tail(queue)
  BY DEF LookHead, LookRecord, LookDelay, LookException, Goto, history

LEMMA ServiceFrame ==
    ASSUME ServiceStep
    PROVE  /\ UNCHANGED <<reader, pool, errors, history>>
           /\ appended' # appended => appended < MaxRecord /\ appended' = appended + 1
           /\ oldest' # oldest => /\ oldest <= appended /\ oldest' = oldest + 1
                               /\ appended' = appended
           /\ sealed' \in {sealed, TRUE}
  BY DEF ServiceStep, AppendRecord, ExpireRecord, Seal

\* A step of a fetch that does not fill the queue.
LEMMA FetchFrame ==
    ASSUME NEW f \in Fetchers, StartFetch(f) \/ EndFetch(f)
    PROVE  /\ UNCHANGED <<reader, refusals, appended, oldest, sealed, history>>
           /\ errors' \in {errors, errors + 1}
           /\ errors' # errors => errors < MaxErrors
  BY DEF StartFetch, EndFetch, TakeFetch, TakeFetchFails, GetRecord, GetRecordFails, service

LEMMA PushFrame ==
    ASSUME NEW f \in Fetchers, PushRecords(f) \/ PushNoRecord(f) \/ NotifyAllFetchWait(f)
    PROVE  UNCHANGED <<pc, offset, pending, refusals, service, history>>
  BY DEF PushNoRecord, PushRecords, PushDelay, PushException, NotifyAllFetchWait

----------------------------------------------------------------------------
(* What the steps do to the queue *)

LEMMA LookEffect ==
    ASSUME IInv, LookHead
    PROVE  /\ queue' \in Seq(Entries) /\ Len(queue') = Len(queue) - 1
           /\ \A i \in Queued' : i + 1 \in Queued /\ queue'[i] = queue[i + 1]
           /\ \A i \in Queued \ {1} : i - 1 \in Queued' /\ queue'[i - 1] = queue[i]
           /\ delivered' = IF 1 \in Queued THEN delivered \cup {queue[1].record} ELSE delivered
           /\ 1 \in Queued => queue[1].record \in 1 .. MaxRecord
<1>0. /\ queue \in Seq(Entries) /\ queue # <<>> /\ queue' = Tail(queue)
      /\ Len(queue) \in Nat
  BY LookFrame, Numbers
<1>1. /\ queue' \in Seq(Entries) /\ Len(queue') = Len(queue) - 1 /\ Len(queue) > 0
      /\ \A i \in 1 .. Len(queue) - 1 : queue'[i] = queue[i + 1]
      /\ Head(queue) \in Entries /\ Head(queue) = queue[1]
  BY <1>0, HeadTailProperties, EmptySeq, LenProperties
<1>2. Queued' = {i \in 1 .. Len(queue') : queue'[i].type = "NORMAL"}
  BY DEF Queued
<1>3. \A i \in Queued' : i + 1 \in Queued /\ queue'[i] = queue[i + 1]
  BY <1>0, <1>1, <1>2 DEF Queued
<1>4. \A i \in Queued \ {1} : i - 1 \in Queued' /\ queue'[i - 1] = queue[i]
  <2> SUFFICES ASSUME NEW i \in Queued \ {1}
               PROVE  i - 1 \in Queued' /\ queue'[i - 1] = queue[i]
    OBVIOUS
  <2>1. i \in 1 .. Len(queue) /\ i # 1 /\ queue[i].type = "NORMAL"
    BY DEF Queued
  <2>2. i - 1 \in 1 .. Len(queue) - 1 /\ (i - 1) + 1 = i
    BY <1>0, <2>1
  <2> QED
    BY <1>1, <1>2, <2>1, <2>2
<1>5. 1 \in Queued <=> queue[1].type = "NORMAL"
  BY <1>0, <1>1 DEF Queued
<1>6. Head(queue) = Delay => queue[1].type # "NORMAL"
  BY <1>1 DEF Delay
<1>7. delivered' = IF 1 \in Queued THEN delivered \cup {queue[1].record} ELSE delivered
  BY <1>1, <1>5, <1>6 DEF LookHead, LookRecord, LookDelay, LookException, history
<1>8. 1 \in Queued => queue[1].record \in 1 .. MaxRecord
  BY <1>1, <1>5 DEF Entries, Normal, Delay, Exception
<1> QED
  BY <1>1, <1>3, <1>4, <1>7, <1>8

LEMMA PushNoRecordEffect ==
    ASSUME IInv, NEW f \in Fetchers, PushNoRecord(f)
    PROVE  /\ queue' \in Seq(Entries) /\ Len(queue') \in Nat /\ Len(queue') <= Len(queue) + 1
           /\ Queued' = Queued /\ \A i \in Queued : queue'[i] = queue[i]
<1>0. queue \in Seq(Entries) /\ Len(queue) \in Nat
  BY Numbers
<1>1. ASSUME NEW e \in Entries, e.type # "NORMAL", queue' = Append(queue, e)
      PROVE  /\ queue' \in Seq(Entries) /\ Len(queue') \in Nat /\ Len(queue') <= Len(queue) + 1
             /\ Queued' = Queued /\ \A i \in Queued : queue'[i] = queue[i]
  <2>1. /\ queue' \in Seq(Entries) /\ Len(queue') = Len(queue) + 1
        /\ \A i \in 1 .. Len(queue) : queue'[i] = queue[i]
        /\ queue'[Len(queue) + 1] = e
    BY <1>0, <1>1, AppendProperties
  <2>2. Queued' = {i \in 1 .. Len(queue') : queue'[i].type = "NORMAL"}
    BY DEF Queued
  <2>3. Queued' = Queued
    BY <1>0, <1>1, <2>1, <2>2 DEF Queued
  <2> QED
    BY <1>0, <2>1, <2>3 DEF Queued
<1>2. CASE PushDelay(f)
  <2>1. Delay \in Entries /\ Delay.type # "NORMAL"
    BY DEF Entries, Delay
  <2> QED
    BY <1>1, <1>2, <2>1 DEF PushDelay
<1>3. CASE PushException(f)
  <2> DEFINE code == fetcher[f].result.error
  <2>1. code \in Codes
    BY <1>3 DEF PushException, IInv, FetcherTyped, FetcherStates, FetchResults
  <2>2. Exception(code) \in Entries /\ Exception(code).type # "NORMAL"
    BY <2>1 DEF Entries, Exception, Codes
  <2>3. CASE queue' = queue
    BY <1>0, <2>3 DEF Queued
  <2>4. CASE queue' # queue
    BY <1>1, <1>3, <2>2, <2>4 DEF PushException
  <2> QED
    BY <2>3, <2>4
<1> QED
  BY <1>2, <1>3 DEF PushNoRecord

LEMMA PushRecordsEffect ==
    ASSUME IInv, NEW f \in Fetchers, PushRecords(f)
    PROVE  LET c == fetcher[f].cursor
               n == Len(fetcher[f].result.records)
           IN  /\ n \in Nat /\ c \in Nat
               /\ Live(f) /\ n \in 1 .. FetchNum /\ c \in 1 .. appended + 1 /\ c + n <= appended + 1
               /\ nextCursor' = c + n
               /\ queue' \in Seq(Entries) /\ Len(queue') = Len(queue) + n
               /\ Queued' = Queued \cup (Len(queue) + 1 .. Len(queue) + n)
               /\ \A i \in Queued : queue'[i] = queue[i]
               /\ \A k \in 1 .. n : queue'[Len(queue) + k].record = c + k - 1
<1> DEFINE c == fetcher[f].cursor
           records == fetcher[f].result.records
           n == Len(records)
           new == [i \in 1 .. n |-> Normal(records[i])]
<1>0. /\ queue \in Seq(Entries) /\ Len(queue) \in Nat /\ {FetchNum, MaxRecord, appended} \subseteq Nat
      /\ appended <= MaxRecord
  BY Numbers
<1>1. /\ fetcher[f].step = "push" /\ records # <<>> /\ queue' = queue \o new
      /\ nextCursor' = fetcher[f].result.next
  BY DEF PushRecords
<1>2. records \in Seq(1 .. MaxRecord) /\ n \in Nat /\ n # 0
        /\ \A i \in 1 .. n : records[i] \in 1 .. MaxRecord
  <2>1. records \in Seq(1 .. MaxRecord)
    BY DEF IInv, FetcherTyped, FetcherStates, FetchResults
  <2> QED
    BY <1>1, <2>1, EmptySeq, LenProperties
<1>3. /\ Live(f) /\ n <= FetchNum /\ c \in 1 .. appended + 1
      /\ fetcher[f].result.next = c + n /\ c + n <= appended + 1
      /\ \A i \in 1 .. n : records[i] = c + i - 1
  BY <1>1 DEF IInv, FetchIsRun, RunAtCursor, Live
<1>4. new \in Seq(Entries) /\ Len(new) = n
  <2>1. \A i \in 1 .. n : Normal(records[i]) \in Entries
    BY <1>2 DEF Entries
  <2> HIDE DEF n, records
  <2> QED
    BY <1>2, <2>1
<1>5. \A i \in 1 .. n : new[i].type = "NORMAL" /\ new[i].record = c + i - 1
  BY <1>3 DEF Normal
<1> HIDE DEF new, records, n, c
<1>6. /\ queue' \in Seq(Entries) /\ Len(queue') = Len(queue) + n
      /\ \A i \in 1 .. Len(queue) + n :
             queue'[i] = IF i <= Len(queue) THEN queue[i] ELSE new[i - Len(queue)]
  BY <1>0, <1>1, <1>4, ConcatProperties
<1>7. \A i \in 1 .. Len(queue) : queue'[i] = queue[i]
  BY <1>0, <1>2, <1>6
<1>8. \A k \in 1 .. n : queue'[Len(queue) + k] = new[k]
  <2> SUFFICES ASSUME NEW k \in 1 .. n PROVE queue'[Len(queue) + k] = new[k]
    OBVIOUS
  <2>1. Len(queue) + k \in 1 .. Len(queue) + n /\ ~ (Len(queue) + k <= Len(queue))
        /\ Len(queue) + k - Len(queue) = k
    BY <1>0, <1>2
  <2> QED
    BY <1>6, <2>1
<1>9. Queued' = Queued \cup (Len(queue) + 1 .. Len(queue) + n)
  <2>1. Queued' = {i \in 1 .. Len(queue') : queue'[i].type = "NORMAL"}
    BY DEF Queued
  <2>2. ASSUME NEW i \in Len(queue) + 1 .. Len(queue) + n PROVE queue'[i].type = "NORMAL"
    <3>1. i - Len(queue) \in 1 .. n /\ Len(queue) + (i - Len(queue)) = i
      BY <1>0, <1>2
    <3> QED
      BY <1>5, <1>8, <3>1
  <2>3. 1 .. Len(queue') = (1 .. Len(queue)) \cup (Len(queue) + 1 .. Len(queue) + n)
    BY <1>0, <1>2, <1>6
  <2>4. \A i \in 1 .. Len(queue) : i \in Queued' <=> i \in Queued
    BY <1>7, <2>1, <2>3 DEF Queued
  <2>5. \A i \in Len(queue) + 1 .. Len(queue) + n : i \in Queued'
    BY <2>1, <2>2, <2>3
  <2>6. Queued \subseteq 1 .. Len(queue) /\ Queued' \subseteq 1 .. Len(queue')
    BY <2>1 DEF Queued
  <2> QED
    BY <2>3, <2>4, <2>5, <2>6
<1>10. \A k \in 1 .. n : queue'[Len(queue) + k].record = c + k - 1
  BY <1>5, <1>8
<1>11. n \in 1 .. FetchNum
  BY <1>0, <1>2, <1>3 DEF n
<1>12. \A i \in Queued : queue'[i] = queue[i]
  BY <1>7 DEF Queued
<1>13. n \in Nat /\ c \in Nat
  BY <1>0, <1>2, <1>3
<1> QED
  BY <1>1, <1>3, <1>6, <1>9, <1>10, <1>11, <1>12, <1>13 DEF n, c, records

----------------------------------------------------------------------------
(* What the steps do to the fetchers *)

LEMMA NextCursorInRange == IInv => GetNextCursor \in 1 .. appended + 1
<1> SUFFICES ASSUME IInv PROVE GetNextCursor \in 1 .. appended + 1
  OBVIOUS
<1>1. nextCursor <= appended + 1
  BY DEF IInv, FetchIsRun
<1> QED
  BY <1>1, Numbers DEF GetNextCursor, InRange

LEMMA ThrownTyped == \A code \in Codes : Thrown(code) \in FetchResults
  BY BoundsAssumption, EmptySeq DEF BoundsAssumption, Thrown, FetchResults

\* The records of an answer are a run from the cursor on, and its next cursor is behind them.
LEMMA AnswerIsRun ==
    ASSUME IInv, NEW c \in 1 .. appended + 1
    PROVE  Answer(c) \in FetchResults /\ RunAtCursor(c, Answer(c))
<1> DEFINE end == IF c + FetchNum > appended + 1 THEN appended + 1 ELSE c + FetchNum
           run == [i \in 1 .. end - c |-> c + i - 1]
<1>0. {FetchNum, MaxRecord, appended} \subseteq Nat /\ appended <= MaxRecord
  BY Numbers
<1>1. CASE Answer(c) \in {Thrown("InvalidCursor"), Thrown("InvalidShardOperation")}
  <2>1. Answer(c).records = <<>> /\ Answer(c).error # "none"
    BY <1>1 DEF Thrown
  <2>2. Len(Answer(c).records) = 0
    BY <2>1
  <2>3. Answer(c) \in FetchResults
    BY <1>1, ThrownTyped DEF Codes
  <2> QED
    BY <1>0, <2>1, <2>2, <2>3 DEF RunAtCursor
<1>2. CASE Answer(c) = Fetched(run, end)
  <2>1. end \in c .. appended + 1 /\ end - c \in 0 .. FetchNum
    BY <1>0
  <2> HIDE DEF end
  <2>2. \A i \in 1 .. end - c : c + i - 1 \in 1 .. MaxRecord
    BY <1>0, <2>1
  <2>3. run \in Seq(1 .. MaxRecord) /\ Len(run) = end - c
    BY <2>1, <2>2
  <2>4. \A i \in 1 .. end - c : run[i] = c + i - 1
    OBVIOUS
  <2> HIDE DEF run
  <2>5. Answer(c).records = run /\ Answer(c).next = end /\ Answer(c).error = "none"
    BY <1>2 DEF Fetched
  <2>6. Answer(c) \in FetchResults
    BY <1>0, <1>2, <2>1, <2>3 DEF Fetched, FetchResults
  <2> QED
    BY <1>0, <2>1, <2>3, <2>4, <2>5, <2>6 DEF RunAtCursor
<1> QED
  BY <1>1, <1>2 DEF Answer

LEMMA StartEffect ==
    ASSUME IInv, NEW f \in Fetchers, StartFetch(f)
    PROVE  /\ pending > 0 /\ pending' = pending - 1 /\ fetcher[f] = IdleFetcher
           /\ fetcher' \in [Fetchers -> FetcherStates]
           /\ \A g \in Fetchers \ {f} : fetcher'[g] = fetcher[g]
           /\ \/ fetcher'[f].step = "get" /\ fetcher'[f].cursor = GetNextCursor
              \/ /\ fetcher'[f].step = "push" /\ fetcher'[f].cursor = 0
                 /\ fetcher'[f].result = Thrown("other")
<1>0. fetcher \in [Fetchers -> FetcherStates]
  BY DEF IInv, FetcherTyped
<1>1. fetcher[f] = IdleFetcher /\ pending > 0 /\ pending' = pending - 1
  BY DEF StartFetch, TakeFetch, TakeFetchFails
<1>2. CASE TakeFetch(f)
  <2> DEFINE new == [fetcher[f] EXCEPT !.step = "get", !.cursor = GetNextCursor]
  <2>1. GetNextCursor \in 0 .. MaxRecord + 1
    BY NextCursorInRange, Numbers
  <2>2. new \in FetcherStates /\ new.step = "get" /\ new.cursor = GetNextCursor
    BY <1>0, <2>1 DEF FetcherStates
  <2>3. fetcher' = [fetcher EXCEPT ![f] = new]
    BY <1>0, <1>2 DEF TakeFetch
  <2> HIDE DEF new
  <2> QED
    BY <1>0, <1>1, <2>2, <2>3
<1>3. CASE TakeFetchFails(f)
  <2> DEFINE new == [fetcher[f] EXCEPT !.step = "push", !.result = Thrown("other")]
  <2>1. Thrown("other") \in FetchResults
    BY ThrownTyped DEF Codes
  <2>2. /\ new \in FetcherStates /\ new.step = "push" /\ new.cursor = 0
        /\ new.result = Thrown("other")
    <3>1. fetcher[f] \in FetcherStates /\ fetcher[f].cursor = 0
      BY <1>0, <1>1 DEF IdleFetcher
    <3> QED
      BY <2>1, <3>1 DEF FetcherStates
  <2>3. fetcher' = [fetcher EXCEPT ![f] = new]
    BY <1>0, <1>3 DEF TakeFetchFails
  <2> HIDE DEF new
  <2> QED
    BY <1>0, <1>1, <2>2, <2>3
<1> QED
  BY <1>2, <1>3 DEF StartFetch

LEMMA EndEffect ==
    ASSUME IInv, NEW f \in Fetchers, EndFetch(f)
    PROVE  /\ fetcher[f].step = "get" /\ pending' = pending
           /\ fetcher' \in [Fetchers -> FetcherStates]
           /\ \A g \in Fetchers \ {f} : fetcher'[g] = fetcher[g]
           /\ fetcher'[f].step = "push" /\ fetcher'[f].cursor = fetcher[f].cursor
           /\ fetcher'[f].result \in {Answer(fetcher[f].cursor), Thrown("other")}
<1>0. /\ fetcher \in [Fetchers -> FetcherStates]
      /\ fetcher[f].step = "get" /\ pending' = pending
  BY DEF IInv, FetcherTyped, EndFetch, GetRecord, GetRecordFails
<1>1. fetcher[f].cursor \in 1 .. appended + 1
  BY <1>0 DEF IInv, FetchIsRun, Live
<1>2. PICK result \in FetchResults :
          /\ result \in {Answer(fetcher[f].cursor), Thrown("other")}
          /\ fetcher' = [fetcher EXCEPT ![f].step = "push", ![f].result = result]
  BY <1>1, AnswerIsRun, ThrownTyped DEF EndFetch, GetRecord, GetRecordFails, Codes
<1> DEFINE new == [fetcher[f] EXCEPT !.step = "push", !.result = result]
<1>3. /\ new \in FetcherStates /\ new.step = "push" /\ new.cursor = fetcher[f].cursor
      /\ new.result = result
  BY <1>0 DEF FetcherStates
<1>4. fetcher' = [fetcher EXCEPT ![f] = new]
  BY <1>0, <1>2
<1> HIDE DEF new
<1> QED
  BY <1>0, <1>2, <1>3, <1>4

LEMMA PushEffect ==
    ASSUME IInv, NEW f \in Fetchers,
           PushRecords(f) \/ PushNoRecord(f) \/ NotifyAllFetchWait(f)
    PROVE  /\ fetcher[f].step \in {"push", "notify"}
           /\ fetcher[f].step = "notify" => UNCHANGED <<queue, nextCursor>>
           /\ PushRecords(f) \/ PushNoRecord(f) => fetcher[f].step = "push"
           /\ fetcher' \in [Fetchers -> FetcherStates]
           /\ \A g \in Fetchers \ {f} : fetcher'[g] = fetcher[g]
           /\ \/ /\ taskRuning' = taskRuning
                 /\ fetcher'[f].step = "notify" /\ fetcher'[f].cursor = fetcher[f].cursor
              \/ fetcher'[f] = IdleFetcher /\ taskRuning' = FALSE
<1>0. fetcher \in [Fetchers -> FetcherStates]
  BY DEF IInv, FetcherTyped
<1>1. /\ fetcher[f].step \in {"push", "notify"}
      /\ fetcher[f].step = "notify" => UNCHANGED <<queue, nextCursor>>
      /\ PushRecords(f) \/ PushNoRecord(f) => fetcher[f].step = "push"
      /\ Waiting(f) \/ Notified(f)
  BY DEF PushRecords, PushNoRecord, PushDelay, PushException, NotifyAllFetchWait
<1>2. CASE Waiting(f)
  <2> DEFINE new == [fetcher[f] EXCEPT !.step = "notify"]
  <2>1. new \in FetcherStates /\ new.step = "notify" /\ new.cursor = fetcher[f].cursor
    BY <1>0 DEF FetcherStates
  <2>2. fetcher' = [fetcher EXCEPT ![f] = new] /\ taskRuning' = taskRuning
    BY <1>0, <1>2 DEF Waiting
  <2> HIDE DEF new
  <2> QED
    BY <1>0, <1>1, <2>1, <2>2
<1>3. CASE Notified(f)
  <2>1. IdleFetcher \in FetcherStates
    BY BoundsAssumption, EmptySeq
       DEF BoundsAssumption, IdleFetcher, NoResult, Fetched, FetcherStates, FetchResults
  <2>2. fetcher' = [fetcher EXCEPT ![f] = IdleFetcher] /\ taskRuning' = FALSE
    BY <1>3 DEF Notified
  <2> QED
    BY <1>0, <1>1, <2>1, <2>2
<1> QED
  BY <1>1, <1>2, <1>3

----------------------------------------------------------------------------
(* The steps keep the invariant *)

LEMMA NextFetchers == IInv /\ [Next]_vars => FetcherTyped' /\ FetchIsRun'
<1> SUFFICES ASSUME IInv, [Next]_vars PROVE FetcherTyped' /\ FetchIsRun'
  OBVIOUS
<1>0. /\ fetcher \in [Fetchers -> FetcherStates]
      /\ \A f \in Fetchers : fetcher[f].step = "idle" => fetcher[f] = IdleFetcher
      /\ nextCursor <= appended + 1 /\ offset \in {0, start}
      /\ \A f \in Fetchers :
             /\ Live(f) => fetcher[f].cursor \in 1 .. appended + 1
             /\ fetcher[f].step = "push" => RunAtCursor(fetcher[f].cursor, fetcher[f].result)
      /\ nextCursor \in Nat /\ appended \in Nat
  BY Numbers DEF IInv, FetcherTyped, FetchIsRun
<1>1. CASE UNCHANGED <<nextCursor, offset, start, fetcher, appended>>
  BY <1>0, <1>1 DEF FetcherTyped, FetchIsRun, RunAtCursor, Live
<1>2. CASE ReadGoesOn \/ LookHead \/ UNCHANGED vars
  BY <1>1, <1>2, ReadFrame, LookFrame DEF vars, reader, pool, service, history
<1>3. CASE ResetOffset
  BY <1>0, <1>3
     DEF ResetOffset, ResetTimestamp, pool, service, FetcherTyped, FetchIsRun, RunAtCursor, Live
<1>4. CASE ServiceStep
  <2>1. /\ UNCHANGED <<nextCursor, offset, start, fetcher>>
        /\ appended' \in Nat /\ appended <= appended'
    BY <1>0, <1>4, ServiceFrame DEF reader, pool, history
  <2>2. ASSUME NEW f \in Fetchers
        PROVE  /\ Live(f)' => fetcher'[f].cursor \in 1 .. appended' + 1
               /\ fetcher'[f].step = "push" =>
                      RunAtCursor(fetcher[f].cursor, fetcher[f].result)'
    <3>1. fetcher[f] \in FetcherStates
      BY <1>0
    <3>2. fetcher[f].result.next \in Nat
      <4>1. fetcher[f].result.next \in 0 .. MaxRecord + 1
        BY <3>1 DEF FetcherStates, FetchResults
      <4>2. MaxRecord \in Nat
        BY BoundsAssumption DEF BoundsAssumption
      <4> QED
        BY <4>1, <4>2
    <3>3. Live(f)' => fetcher'[f].cursor \in 1 .. appended' + 1
      BY <1>0, <2>1 DEF Live
    <3> QED
      BY <1>0, <2>1, <3>2, <3>3 DEF RunAtCursor
  <2>3. nextCursor' <= appended' + 1
    <3>1. /\ nextCursor \in Nat /\ appended \in Nat /\ nextCursor <= appended + 1
          /\ appended' \in Nat /\ appended <= appended' /\ nextCursor' = nextCursor
      BY <1>0, <2>1
    <3>2. \A n, a, b \in Nat : n <= a + 1 /\ a <= b => n <= b + 1
      OBVIOUS
    <3> QED
      BY <3>1, <3>2
  <2> QED
    BY <1>0, <2>1, <2>2, <2>3 DEF FetcherTyped, FetchIsRun
<1>5. ASSUME NEW f \in Fetchers, StartFetch(f)
      PROVE  FetcherTyped' /\ FetchIsRun'
  <2>1. /\ UNCHANGED <<nextCursor, offset, start, appended>>
        /\ fetcher' \in [Fetchers -> FetcherStates]
        /\ \A g \in Fetchers \ {f} : fetcher'[g] = fetcher[g]
        /\ \/ fetcher'[f].step = "get" /\ fetcher'[f].cursor = GetNextCursor
           \/ /\ fetcher'[f].step = "push" /\ fetcher'[f].cursor = 0
              /\ fetcher'[f].result = Thrown("other")
    BY <1>5, StartEffect, FetchFrame DEF reader, history
  <2>2. RunAtCursor(0, Thrown("other")) /\ Thrown("other").error = "other"
    BY Numbers DEF RunAtCursor, Thrown
  <2>3. ASSUME NEW g \in Fetchers
        PROVE  /\ fetcher'[g].step = "idle" => fetcher'[g] = IdleFetcher
               /\ Live(g)' => fetcher'[g].cursor \in 1 .. appended' + 1
               /\ fetcher'[g].step = "push" =>
                      RunAtCursor(fetcher[g].cursor, fetcher[g].result)'
    BY <1>0, <2>1, <2>2, NextCursorInRange DEF Live, RunAtCursor
  <2> QED
    BY <1>0, <2>1, <2>3 DEF FetcherTyped, FetchIsRun
<1>6. ASSUME NEW f \in Fetchers, EndFetch(f)
      PROVE  FetcherTyped' /\ FetchIsRun'
  <2>1. /\ UNCHANGED <<nextCursor, offset, start, appended>>
        /\ fetcher[f].step = "get"
        /\ fetcher' \in [Fetchers -> FetcherStates]
        /\ \A g \in Fetchers \ {f} : fetcher'[g] = fetcher[g]
        /\ fetcher'[f].step = "push" /\ fetcher'[f].cursor = fetcher[f].cursor
        /\ fetcher'[f].result \in {Answer(fetcher[f].cursor), Thrown("other")}
    BY <1>6, EndEffect, FetchFrame DEF reader, history
  <2>2. fetcher[f].cursor \in 1 .. appended + 1
    BY <1>0, <2>1 DEF Live
  <2>3. RunAtCursor(fetcher[f].cursor, fetcher[f].result)'
    <3>1. RunAtCursor(fetcher[f].cursor, Answer(fetcher[f].cursor))
      BY <2>2, AnswerIsRun
    <3>2. RunAtCursor(fetcher[f].cursor, Thrown("other"))
      BY Numbers DEF RunAtCursor, Thrown
    <3>3. RunAtCursor(fetcher[f].cursor, fetcher'[f].result)
      BY <2>1, <3>1, <3>2
    <3> QED
      BY <2>1, <3>3 DEF RunAtCursor
  <2>4. ASSUME NEW g \in Fetchers
        PROVE  /\ fetcher'[g].step = "idle" => fetcher'[g] = IdleFetcher
               /\ Live(g)' => fetcher'[g].cursor \in 1 .. appended' + 1
               /\ fetcher'[g].step = "push" =>
                      RunAtCursor(fetcher[g].cursor, fetcher[g].result)'
    <3>1. CASE g = f
      BY <2>1, <2>2, <2>3, <3>1
    <3>2. CASE g # f
      BY <1>0, <2>1, <3>2 DEF Live, RunAtCursor
    <3> QED
      BY <3>1, <3>2
  <2> QED
    BY <1>0, <2>1, <2>4 DEF FetcherTyped, FetchIsRun
<1>7. ASSUME NEW f \in Fetchers,
             PushRecords(f) \/ PushNoRecord(f) \/ NotifyAllFetchWait(f)
      PROVE  FetcherTyped' /\ FetchIsRun'
  <2>1. /\ UNCHANGED <<offset, start, appended>>
        /\ fetcher' \in [Fetchers -> FetcherStates]
        /\ \A g \in Fetchers \ {f} : fetcher'[g] = fetcher[g]
        /\ fetcher'[f].step = "notify" \/ fetcher'[f] = IdleFetcher
    BY <1>7, PushEffect, PushFrame DEF service, history
  <2>2. nextCursor' <= appended + 1
    <3>1. CASE PushRecords(f)
      BY <3>1, PushRecordsEffect
    <3>2. CASE PushDelay(f)
      BY <1>0, <3>2 DEF PushDelay, RunAtCursor
    <3>3. CASE PushException(f) \/ NotifyAllFetchWait(f)
      BY <1>0, <3>3 DEF PushException, NotifyAllFetchWait
    <3> QED
      BY <1>7, <3>1, <3>2, <3>3 DEF PushNoRecord
  <2>3. IdleFetcher.step = "idle"
    BY DEF IdleFetcher
  <2>4. ASSUME NEW g \in Fetchers
        PROVE  /\ fetcher'[g].step = "idle" => fetcher'[g] = IdleFetcher
               /\ Live(g)' => fetcher'[g].cursor \in 1 .. appended' + 1
               /\ fetcher'[g].step = "push" =>
                      RunAtCursor(fetcher[g].cursor, fetcher[g].result)'
    <3>1. CASE g = f
      BY <2>1, <2>3, <3>1 DEF Live
    <3>2. CASE g # f
      BY <1>0, <2>1, <3>2 DEF Live, RunAtCursor
    <3> QED
      BY <3>1, <3>2
  <2> QED
    BY <1>0, <2>1, <2>2, <2>4 DEF FetcherTyped, FetchIsRun
<1> QED
  BY <1>2, <1>3, <1>4, <1>5, <1>6, <1>7, Steps

LEMMA NextOneHolder == IInv /\ [Next]_vars => OneHolder'
<1> SUFFICES ASSUME IInv, [Next]_vars PROVE OneHolder'
  OBVIOUS
<1>0. /\ pc = "send" => taskRuning /\ pending = 0 /\ Busy = {}
      /\ pending > 0 => taskRuning /\ pending = 1 /\ Busy = {}
      /\ Busy # {} => taskRuning
      /\ \A f, g \in Busy : f = g
      /\ taskRuning \in BOOLEAN /\ pending \in Nat
  BY Numbers DEF IInv, OneHolder, TypeOK
<1>1. /\ Busy' = {f \in Fetchers : fetcher'[f] # IdleFetcher}
      /\ IdleFetcher.step = "idle"
  BY DEF Busy, IdleFetcher
<1>2. fetcher' = fetcher => Busy' = Busy
  BY DEF Busy
<1>3. CASE ReadGoesOn
  <2>1. Busy' = Busy
    BY <1>2, <1>3, ReadFrame
  <2>2. CASE StartRead \/ TestSize \/ SendRefused \/ LookEmpty
    BY <1>0, <2>1, <2>2
       DEF StartRead, TestSize, SendRefused, LookEmpty, Goto, pool, OneHolder
  <2>3. CASE ExchangeTaskRuning
    <3>1. CASE taskRuning
      BY <1>0, <2>1, <2>3, <3>1 DEF ExchangeTaskRuning, ExchangeTrue, Goto, pool, OneHolder
    <3>2. CASE ~taskRuning
      BY <1>0, <2>1, <2>3, <3>2 DEF ExchangeTaskRuning, ExchangeTrue, Goto, pool, OneHolder
    <3> QED
      BY <3>1, <3>2
  <2>4. CASE SendNextTask
    BY <1>0, <2>1, <2>4 DEF SendNextTask, Goto, OneHolder
  <2> QED
    BY <1>3, <2>2, <2>3, <2>4 DEF ReadGoesOn
<1>4. CASE LookHead \/ ResetOffset
  <2>1. pc' # "send" /\ UNCHANGED <<pending, fetcher, taskRuning>>
    BY <1>4, LookFrame DEF ResetOffset, Goto, pool
  <2> QED
    BY <1>0, <1>2, <2>1 DEF OneHolder
<1>5. CASE ServiceStep \/ UNCHANGED vars
  <2>1. UNCHANGED <<pc, pending, fetcher, taskRuning>>
    BY <1>5, ServiceFrame DEF vars, reader, pool
  <2> QED
    BY <1>0, <1>2, <2>1 DEF OneHolder
<1>6. ASSUME NEW f \in Fetchers, StartFetch(f)
      PROVE  OneHolder'
  <2>1. /\ UNCHANGED <<pc, taskRuning>> /\ pending' = pending - 1 /\ pending > 0
        /\ \A g \in Fetchers \ {f} : fetcher'[g] = fetcher[g]
    BY <1>6, StartEffect, FetchFrame DEF reader
  <2>2. Busy' \subseteq {f}
    BY <1>0, <1>1, <2>1 DEF Busy
  <2> QED
    BY <1>0, <2>1, <2>2 DEF OneHolder
<1>7. ASSUME NEW f \in Fetchers, EndFetch(f)
      PROVE  OneHolder'
  <2>1. /\ UNCHANGED <<pc, taskRuning, pending>>
        /\ \A g \in Fetchers \ {f} : fetcher'[g] = fetcher[g]
        /\ fetcher[f] # IdleFetcher
    BY <1>1, <1>7, EndEffect, FetchFrame DEF reader
  <2>2. Busy' \subseteq Busy /\ Busy # {}
    BY <1>1, <2>1 DEF Busy
  <2> QED
    BY <1>0, <2>1, <2>2 DEF OneHolder
<1>8. ASSUME NEW f \in Fetchers,
             PushRecords(f) \/ PushNoRecord(f) \/ NotifyAllFetchWait(f)
      PROVE  OneHolder'
  <2>1. /\ UNCHANGED <<pc, pending>>
        /\ \A g \in Fetchers \ {f} : fetcher'[g] = fetcher[g]
        /\ fetcher[f] # IdleFetcher
        /\ taskRuning' = taskRuning \/ fetcher'[f] = IdleFetcher
    BY <1>1, <1>8, PushEffect, PushFrame
  <2>2. Busy' \subseteq Busy /\ f \in Busy
    BY <1>1, <2>1 DEF Busy
  <2>3. fetcher'[f] = IdleFetcher => Busy' = {}
    BY <1>0, <1>1, <2>2
  <2> QED
    BY <1>0, <2>1, <2>2, <2>3 DEF OneHolder
<1> QED
  BY <1>3, <1>4, <1>5, <1>6, <1>7, <1>8, Steps

LEMMA NextRoom ==
    IInv /\ [Next]_vars => /\ RoomForFetch'
                           /\ Len(queue') <= QueueLimit - 1 + 2 * FetchNum
<1> SUFFICES ASSUME IInv, [Next]_vars
             PROVE  /\ RoomForFetch'
                    /\ Len(queue') <= QueueLimit - 1 + 2 * FetchNum
  OBVIOUS
<1> DEFINE Goal == /\ RoomForFetch'
                   /\ Len(queue') <= QueueLimit - 1 + 2 * FetchNum
<1>0. /\ FetchNum \in Nat /\ QueueLimit \in Nat /\ FetchNum > 0
      /\ Len(queue) \in Nat /\ pending \in Nat
      /\ Len(queue) <= QueueLimit - 1 + 2 * FetchNum
      /\ ToPush => Len(queue) <= QueueLimit - 1 + FetchNum
      /\ pc = "exchange" => Len(queue) <= QueueLimit - 1 + (IF ToPush THEN 0 ELSE FetchNum)
  BY Numbers DEF IInv, RoomForFetch
\* The queue does not grow, and no fetch begins.
<1>1. ASSUME Len(queue') \in Nat, Len(queue') <= Len(queue), ToPush' => ToPush,
             pc' = "exchange" => pc = "exchange"
      PROVE  Goal
  BY <1>0, <1>1 DEF RoomForFetch
<1>2. ASSUME pc' \in {pc, "idle", "look", "test", "reset", "ended"},
             UNCHANGED <<pending, fetcher>>
      PROVE  (ToPush' => ToPush) /\ (pc' = "exchange" => pc = "exchange")
  BY <1>2 DEF ToPush
<1>3. CASE ReadGoesOn
  <2>0. queue' = queue /\ fetcher' = fetcher
    BY <1>3, ReadFrame
  <2>1. CASE StartRead \/ SendRefused \/ LookEmpty
    <3>1. pc' \in {pc, "idle", "look", "test", "reset", "ended"} /\ pending' = pending
      BY <2>1 DEF StartRead, SendRefused, LookEmpty, Goto, pool
    <3> QED
      BY <1>0, <1>1, <1>2, <2>0, <3>1
  <2>2. CASE TestSize
    <3>1. pending' = pending /\ pc = "test"
      BY <2>2 DEF TestSize, pool
    <3>2. CASE HasRoom
      <4>1. pc' = "exchange" /\ Len(queue) <= QueueLimit - 1
        BY <1>0, <2>2, <3>2 DEF TestSize, Goto, HasRoom
      <4> QED
        BY <1>0, <2>0, <4>1 DEF RoomForFetch
    <3>3. CASE ~HasRoom
      <4>1. pc' = "look"
        BY <2>2, <3>3 DEF TestSize, Goto
      <4> QED
        BY <1>0, <1>1, <1>2, <2>0, <3>1, <4>1
    <3> QED
      BY <3>2, <3>3
  <2>3. CASE ExchangeTaskRuning
    <3>1. pending' = pending /\ pc = "exchange"
      BY <2>3 DEF ExchangeTaskRuning, pool
    <3>2. CASE taskRuning
      <4>1. pc' = "look"
        BY <2>3, <3>2 DEF ExchangeTaskRuning, ExchangeTrue, Goto
      <4> QED
        BY <1>0, <1>1, <1>2, <2>0, <3>1, <4>1
    <3>3. CASE ~taskRuning
      <4>1. pc' = "send"
        BY <2>3, <3>3 DEF ExchangeTaskRuning, ExchangeTrue, Goto
      <4>2. ~ToPush
        BY <1>0, <3>1, <3>3 DEF IInv, OneHolder, ToPush, Busy, IdleFetcher
      <4> QED
        BY <1>0, <2>0, <3>1, <4>1, <4>2 DEF RoomForFetch
    <3> QED
      BY <3>2, <3>3
  <2>4. CASE SendNextTask
    <3>1. ToPush /\ pc' = "look"
      BY <2>4 DEF SendNextTask, ToPush, Goto
    <3> QED
      BY <1>0, <2>0, <3>1 DEF RoomForFetch
  <2> QED
    BY <1>3, <2>1, <2>2, <2>3, <2>4 DEF ReadGoesOn
<1>4. CASE LookHead
  <2>1. /\ pc' \in {pc, "idle", "look", "test", "reset", "ended"} /\ pending' = pending
        /\ fetcher' = fetcher
    BY <1>4, LookFrame DEF pool
  <2>2. Len(queue') = Len(queue) - 1 /\ Len(queue') \in Nat
    BY <1>4, LookEffect, LenProperties
  <2> QED
    BY <1>0, <1>1, <1>2, <2>1, <2>2
<1>5. CASE ResetOffset \/ ServiceStep \/ UNCHANGED vars
  <2>1. pc' \in {pc, "idle"} /\ UNCHANGED <<pending, fetcher, queue>>
    BY <1>5, ServiceFrame DEF ResetOffset, Goto, vars, reader, pool
  <2> QED
    BY <1>0, <1>1, <1>2, <2>1
<1>6. ASSUME NEW f \in Fetchers, StartFetch(f) \/ EndFetch(f)
      PROVE  Goal
  <2>1. ToPush
    BY <1>6, StartEffect, EndEffect DEF ToPush
  <2>2. pc' = pc /\ queue' = queue
    BY <1>6, FetchFrame DEF reader
  <2> QED
    BY <1>0, <2>1, <2>2 DEF RoomForFetch
<1>7. ASSUME NEW f \in Fetchers, PushRecords(f) \/ PushNoRecord(f)
      PROVE  Goal
  <2>1. /\ fetcher[f].step = "push" /\ UNCHANGED <<pc, pending>>
        /\ \A g \in Fetchers \ {f} : fetcher'[g] = fetcher[g]
        /\ fetcher'[f].step = "notify" \/ fetcher'[f] = IdleFetcher
    BY <1>7, PushEffect, PushFrame
  <2>2. ToPush
    BY <2>1 DEF ToPush
  <2>3. ~ToPush'
    <3>1. IdleFetcher.step = "idle" /\ f \in Busy
      BY <2>1 DEF Busy, IdleFetcher
    <3>2. pc # "send" /\ pending = 0 /\ \A g \in Fetchers \ {f} : fetcher[g] = IdleFetcher
      BY <1>0, <3>1 DEF IInv, OneHolder, Busy
    <3> QED
      BY <2>1, <3>1, <3>2 DEF ToPush
  <2>4. Len(queue') \in Nat /\ Len(queue') <= Len(queue) + FetchNum
    <3>1. CASE PushRecords(f)
      <4>1. PICK n \in 1 .. FetchNum : Len(queue') = Len(queue) + n
        BY <3>1, PushRecordsEffect
      <4> QED
        BY <1>0, <4>1
    <3>2. CASE PushNoRecord(f)
      <4>1. Len(queue') \in Nat /\ Len(queue') <= Len(queue) + 1
        BY <3>2, PushNoRecordEffect
      <4> QED
        BY <1>0, <4>1
    <3> QED
      BY <1>7, <3>1, <3>2
  <2> QED
    BY <1>0, <2>1, <2>2, <2>3, <2>4 DEF RoomForFetch
<1>8. ASSUME NEW f \in Fetchers, NotifyAllFetchWait(f)
      PROVE  Goal
  <2>1. /\ UNCHANGED <<pc, pending, queue>>
        /\ \A g \in Fetchers \ {f} : fetcher'[g] = fetcher[g]
        /\ fetcher'[f].step \notin {"get", "push"}
    <3>1. queue' = queue
      BY <1>8 DEF NotifyAllFetchWait
    <3>2. IdleFetcher.step = "idle"
      BY DEF IdleFetcher
    <3> QED
      BY <1>8, <3>1, <3>2, PushEffect, PushFrame
  <2>2. ToPush' => ToPush
    BY <2>1 DEF ToPush
  <2> QED
    BY <1>0, <1>1, <2>1, <2>2
<1> QED
  BY <1>3, <1>4, <1>5, <1>6, <1>7, <1>8, Steps

LEMMA NextTypeOK == IInv /\ [Next]_vars => TypeOK'
<1> SUFFICES ASSUME IInv, [Next]_vars PROVE TypeOK'
  OBVIOUS
<1> DEFINE Control == /\ pc \in {"idle", "test", "exchange", "send", "look", "reset", "ended"}
                      /\ taskRuning \in BOOLEAN
                      /\ pending \in Nat
                      /\ refusals \in 0 .. MaxRefusals
                      /\ errors \in 0 .. MaxErrors
           Positioned == /\ offset \in 0 .. MaxRecord + 1
                         /\ start \in 0 .. MaxRecord + 1
                         /\ appended \in 0 .. MaxRecord
                         /\ oldest \in 1 .. appended + 1
                         /\ sealed \in BOOLEAN
                         /\ delivered \subseteq 1 .. MaxRecord
                         /\ resets \in Nat
<1>0. Control /\ Positioned /\ queue \in Seq(Entries) /\ nextCursor \in Nat
  BY Numbers DEF IInv, TypeOK
<1>1. Control'
  <2> USE BoundsAssumption DEF BoundsAssumption
  <2>1. CASE ReadGoesOn
    <3>1. CASE StartRead \/ TestSize \/ ExchangeTaskRuning \/ LookEmpty
      BY <1>0, <3>1
         DEF StartRead, TestSize, ExchangeTaskRuning, ExchangeTrue, LookEmpty, Goto, pool, service
    <3>2. CASE SendNextTask \/ SendRefused
      BY <1>0, <3>2 DEF SendNextTask, SendRefused, Goto, service
    <3> QED
      BY <2>1, <3>1, <3>2 DEF ReadGoesOn
  <2>2. CASE LookHead
    BY <1>0, <2>2, LookFrame DEF pool, service
  <2>3. CASE ResetOffset \/ ServiceStep \/ UNCHANGED vars
    BY <1>0, <2>3, ServiceFrame DEF ResetOffset, Goto, vars, reader, pool, service
  <2>4. ASSUME NEW f \in Fetchers, StartFetch(f) \/ EndFetch(f)
        PROVE  Control'
    <3>1. /\ UNCHANGED <<pc, taskRuning, refusals>>
          /\ pending' = pending \/ (pending > 0 /\ pending' = pending - 1)
          /\ errors' \in {errors, errors + 1} /\ (errors' # errors => errors < MaxErrors)
      BY <2>4, FetchFrame, StartEffect, EndEffect DEF reader
    <3> QED
      BY <1>0, <3>1
  <2>5. ASSUME NEW f \in Fetchers,
               PushRecords(f) \/ PushNoRecord(f) \/ NotifyAllFetchWait(f)
        PROVE  Control'
    BY <1>0, <2>5, PushFrame, PushEffect DEF service
  <2> QED
    BY <2>1, <2>2, <2>3, <2>4, <2>5, Steps
<1>2. Positioned'
  <2>1. CASE UNCHANGED <<offset, service, history>>
    BY <1>0, <2>1 DEF service, history
  <2>2. CASE LookHead
    <3>1. UNCHANGED <<offset, service, start, resets>> /\ delivered' \subseteq 1 .. MaxRecord
      BY <1>0, <2>2, LookFrame, LookEffect
    <3> QED
      BY <1>0, <3>1 DEF service
  <2>3. CASE ResetOffset
    BY <1>0, <2>3, BoundsAssumption
       DEF BoundsAssumption, ResetOffset, ResetTimestamp, service
  <2>4. CASE ServiceStep
    <3>1. /\ UNCHANGED <<offset, history>> /\ sealed' \in {sealed, TRUE}
          /\ (appended' # appended => appended < MaxRecord /\ appended' = appended + 1)
          /\ (oldest' # oldest => /\ oldest <= appended /\ oldest' = oldest + 1
                                 /\ appended' = appended)
      BY <2>4, ServiceFrame DEF reader
    <3>2. \A a \in 0 .. MaxRecord, o \in Nat :
              o \in 1 .. a + 1 =>
                  /\ a < MaxRecord => a + 1 \in 0 .. MaxRecord /\ o \in 1 .. (a + 1) + 1
                  /\ o <= a => o + 1 \in 1 .. a + 1
      BY BoundsAssumption DEF BoundsAssumption
    <3>3. appended' \in 0 .. MaxRecord
      <4>1. appended \in 0 .. MaxRecord /\ oldest \in Nat /\ oldest \in 1 .. appended + 1
        BY <1>0, Numbers
      <4>2. CASE appended' = appended
        BY <4>1, <4>2
      <4>3. CASE appended' # appended
        <5>1. appended < MaxRecord /\ appended' = appended + 1
          BY <3>1, <4>3
        <5>2. appended + 1 \in 0 .. MaxRecord
          BY <3>2, <4>1, <5>1
        <5> QED
          BY <5>1, <5>2
      <4> QED
        BY <4>2, <4>3
    <3>4. oldest' \in 1 .. appended' + 1
      <4>1. CASE oldest' = oldest
        BY <1>0, <3>1, <3>2, <4>1
      <4>2. CASE oldest' # oldest
        <5>1. oldest <= appended /\ oldest' = oldest + 1 /\ appended' = appended
          BY <3>1, <4>2
        <5>2. oldest + 1 \in 1 .. appended + 1
          BY <1>0, <3>2, <5>1
        <5> QED
          BY <5>1, <5>2
      <4> QED
        BY <4>1, <4>2
    <3> QED
      BY <1>0, <3>1, <3>3, <3>4 DEF history
  <2>5. ASSUME NEW f \in Fetchers, StartFetch(f) \/ EndFetch(f)
        PROVE  Positioned'
    BY <1>0, <2>5, FetchFrame DEF reader, history
  <2> QED
    BY <2>1, <2>2, <2>3, <2>4, <2>5, ReadFrame, PushFrame, Steps DEF vars, reader
<1>3. queue' \in Seq(Entries)
  BY <1>0, Steps, ReadFrame, LookEffect, ServiceFrame, FetchFrame, PushRecordsEffect,
     PushNoRecordEffect DEF ResetOffset, NotifyAllFetchWait, vars, reader
<1>4. nextCursor' \in 0 .. MaxRecord + 1
  <2>1. nextCursor' \in Nat
    <3>1. CASE ResetOffset
      BY <3>1 DEF ResetOffset, ResetTimestamp
    <3>2. ASSUME NEW f \in Fetchers, PushRecords(f)
          PROVE  nextCursor' \in Nat
      BY <3>2, PushRecordsEffect
    <3>3. ASSUME NEW f \in Fetchers, PushNoRecord(f)
          PROVE  nextCursor' \in Nat
      <4>1. fetcher[f].result.next \in 0 .. MaxRecord + 1
        BY DEF IInv, FetcherTyped, FetcherStates, FetchResults
      <4>2. nextCursor' \in {nextCursor, fetcher[f].result.next}
        BY <3>3 DEF PushNoRecord, PushDelay, PushException
      <4> QED
        BY <1>0, <4>1, <4>2, BoundsAssumption DEF BoundsAssumption
    <3>4. ASSUME NEW f \in Fetchers, StartFetch(f) \/ EndFetch(f) \/ NotifyAllFetchWait(f)
          PROVE  nextCursor' \in Nat
      BY <1>0, <3>4, FetchFrame DEF reader, NotifyAllFetchWait
    <3>5. CASE ReadGoesOn \/ LookHead \/ ServiceStep \/ UNCHANGED vars
      BY <1>0, <3>5, ReadFrame, LookFrame, ServiceFrame DEF vars, reader
    <3> QED
      BY <3>1, <3>2, <3>3, <3>4, <3>5, Steps
  <2>2. nextCursor' <= appended' + 1 /\ appended' \in 0 .. MaxRecord
    BY <1>2, NextFetchers DEF FetchIsRun
  <2>3. \A m \in Nat : \A a \in 0 .. m, n \in Nat : n <= a + 1 => n \in 0 .. m + 1
    OBVIOUS
  <2>4. MaxRecord \in Nat
    BY BoundsAssumption DEF BoundsAssumption
  <2> HIDE DEF Positioned
  <2> QED
    BY <2>1, <2>2, <2>3, <2>4
<1>5. \A f \in Fetchers : fetcher'[f].step \in {"idle", "get", "push", "notify"}
  BY NextFetchers DEF FetcherTyped, FetcherStates
<1> QED
  BY <1>1, <1>2, <1>3, <1>4, <1>5, NextRoom DEF TypeOK

LEMMA QueuedTyped == IInv => /\ \A i \in Queued : queue[i].record \in 1 .. MaxRecord
                            /\ Queued \subseteq 1 .. Len(queue)
                            /\ delivered \subseteq 1 .. MaxRecord
<1> SUFFICES ASSUME IInv, NEW i \in Queued
             PROVE  queue[i].record \in 1 .. MaxRecord
  BY DEF Queued, IInv, TypeOK
<1>1. queue[i] \in Entries /\ queue[i].type = "NORMAL"
  BY Numbers DEF Queued
<1> QED
  BY <1>1 DEF Entries, Normal, Delay, Exception

\* What was delivered or has expired stays so; what was queued does, or is delivered.
LEMMA ReachedKept ==
    ASSUME IInv, [Next]_vars
    PROVE  /\ start' = start
           /\ \A q \in Nat : Seen(q) => Seen(q)'
           /\ \A q \in Nat : Reached(q) => Reached(q)'
<1>0. oldest \in Nat
  BY Numbers
<1>1. /\ start' = start /\ delivered \subseteq delivered'
      /\ oldest' = oldest \/ oldest' = oldest + 1
  <2>1. CASE UNCHANGED <<service, history>>
    BY <2>1 DEF service, history
  <2>2. CASE LookHead
    BY <2>2, LookFrame, LookEffect DEF service
  <2>3. CASE ResetOffset
    BY <2>3 DEF ResetOffset, service
  <2>4. CASE ServiceStep
    BY <2>4, ServiceFrame DEF history
  <2>5. ASSUME NEW f \in Fetchers, StartFetch(f) \/ EndFetch(f)
        PROVE  UNCHANGED <<start, delivered, oldest>>
    BY <2>5, FetchFrame DEF history
  <2> QED
    BY <2>1, <2>2, <2>3, <2>4, <2>5, Steps, ReadFrame, PushFrame DEF vars
<1>2. \A q \in Nat : Seen(q) => Seen(q)'
  BY <1>0, <1>1 DEF Seen
<1>3. ASSUME NEW q \in Nat, NEW j \in Queued, queue[j].record = q
      PROVE  Reached(q)'
  <2>0. queue' = queue => Reached(q)'
    BY <1>3 DEF Reached, Queued
  <2>1. CASE LookHead
    <3>1. CASE j = 1
      BY <1>3, <2>1, <3>1, LookEffect DEF Reached, Seen
    <3>2. CASE j # 1
      BY <1>3, <2>1, <3>2, LookEffect DEF Reached
    <3> QED
      BY <3>1, <3>2
  <2>2. CASE ReadGoesOn \/ ResetOffset \/ ServiceStep \/ UNCHANGED vars
    BY <2>0, <2>2, ReadFrame, ServiceFrame DEF ResetOffset, vars, reader
  <2>3. ASSUME NEW f \in Fetchers, StartFetch(f) \/ EndFetch(f) \/ NotifyAllFetchWait(f)
        PROVE  Reached(q)'
    BY <2>0, <2>3, FetchFrame DEF NotifyAllFetchWait, reader
  <2>4. ASSUME NEW f \in Fetchers, PushNoRecord(f)
        PROVE  Reached(q)'
    <3>1. j \in Queued' /\ queue'[j] = queue[j]
      BY <2>4, PushNoRecordEffect
    <3> QED
      BY <1>3, <3>1 DEF Reached
  <2>5. ASSUME NEW f \in Fetchers, PushRecords(f)
        PROVE  Reached(q)'
    <3>1. j \in Queued' /\ queue'[j] = queue[j]
      BY <2>5, PushRecordsEffect
    <3> QED
      BY <1>3, <3>1 DEF Reached
  <2> QED
    BY <2>1, <2>2, <2>3, <2>4, <2>5, Steps
<1>4. \A q \in Nat : Reached(q) => Reached(q)'
  BY <1>2, <1>3 DEF Reached
<1> QED
  BY <1>1, <1>2, <1>4

\* The places in the queue of the records that a fetch brings.
LEMMA PushedAt ==
    ASSUME IInv, NEW f \in Fetchers, PushRecords(f),
           NEW q \in fetcher[f].cursor .. nextCursor' - 1
    PROVE  \E k \in 1 .. Len(fetcher[f].result.records) :
               /\ q = fetcher[f].cursor + k - 1
               /\ Len(queue) + k \in Queued' /\ queue'[Len(queue) + k].record = q
<1> DEFINE c == fetcher[f].cursor
           n == Len(fetcher[f].result.records)
           k == q - c + 1
<1>1. /\ n \in Nat /\ c \in Nat /\ nextCursor' = c + n /\ Len(queue) \in Nat
      /\ Queued' = Queued \cup (Len(queue) + 1 .. Len(queue) + n)
      /\ \A m \in 1 .. n : queue'[Len(queue) + m].record = c + m - 1
  BY PushRecordsEffect, Numbers
<1>2. k \in 1 .. n /\ q = c + k - 1
  <2>1. \A a, b \in Nat : \A x \in a .. (a + b) - 1 :
            x - a + 1 \in 1 .. b /\ x = a + (x - a + 1) - 1
    OBVIOUS
  <2>2. q \in c .. (c + n) - 1
    BY <1>1
  <2> HIDE DEF n, c
  <2> QED
    BY <1>1, <2>1, <2>2
<1> HIDE DEF k, n, c
<1>3. Len(queue) + k \in Len(queue) + 1 .. Len(queue) + n
  BY <1>1, <1>2
<1> QED
  BY <1>1, <1>2, <1>3 DEF n, c

LEMMA NextNothingMissing == IInv /\ [Next]_vars => NothingMissing'
<1> SUFFICES ASSUME IInv, [Next]_vars PROVE NothingMissing'
  OBVIOUS
<1> DEFINE Before(i, q) == Seen(q) \/ \E j \in Queued : j <= i /\ queue[j].record = q
<1>0. /\ \A r \in delivered : \A q \in start .. r : Seen(q)
      /\ \A i \in Queued : \A q \in start .. queue[i].record : Before(i, q)
      /\ \A q \in start .. nextCursor - 1 : Reached(q)
      /\ \A f \in Fetchers : \A q \in start .. fetcher[f].cursor - 1 : Reached(q)
  BY DEF IInv, NothingMissing, NoRecordSkipped, Covered, Seen
<1>00. /\ start \in Nat /\ oldest \in Nat /\ oldest >= 1 /\ Len(queue) \in Nat /\ nextCursor \in Nat
       /\ MaxRecord \in Nat /\ Queued \subseteq 1 .. Len(queue)
       /\ \A i \in Queued : queue[i].record \in Nat
       /\ \A f \in Fetchers : fetcher[f].cursor \in Nat
  <2>1. \A i \in Queued : queue[i].record \in Nat
    <3>1. \A i \in Queued : queue[i].record \in 1 .. MaxRecord
      BY QueuedTyped
    <3> QED
      BY <3>1
  <2>2. \A f \in Fetchers : fetcher[f].cursor \in Nat
    <3>1. \A f \in Fetchers : fetcher[f].cursor \in 0 .. MaxRecord + 1
      BY DEF IInv, FetcherTyped, FetcherStates
    <3> QED
      BY <3>1, Numbers
  <2> QED
    BY <2>1, <2>2, QueuedTyped, Numbers
<1>1. /\ start' = start
      /\ \A q \in Nat : Seen(q) => Seen(q)'
      /\ \A q \in Nat : Reached(q) => Reached(q)'
  BY ReachedKept
<1> HIDE DEF Before
\* What is delivered.
<1>2. NoRecordSkipped'
  <2> SUFFICES ASSUME NEW r \in delivered', NEW q \in start .. r
               PROVE  Seen(q)'
    BY <1>1 DEF NoRecordSkipped, Seen
  <2>0. q \in Nat
    <3>1. r \in 1 .. MaxRecord
      BY NextTypeOK DEF TypeOK
    <3> QED
      BY <1>00, <3>1
  <2>1. CASE r \in delivered
    BY <1>0, <1>1, <2>0, <2>1
  <2>2. CASE r \notin delivered
    <3>1. CASE LookHead
      <4>1. /\ 1 \in Queued /\ r = queue[1].record
            /\ delivered' = delivered \cup {queue[1].record}
        BY <2>2, <3>1, LookEffect
      <4>2. Before(1, q)
        BY <1>0, <4>1
      <4>3. CASE Seen(q)
        BY <1>1, <2>0, <4>3
      <4>4. CASE ~Seen(q)
        <5>1. PICK j \in Queued : j <= 1 /\ queue[j].record = q
          BY <4>2, <4>4 DEF Before
        <5>2. j = 1
          BY <1>00, <5>1
        <5> QED
          BY <4>1, <5>1, <5>2 DEF Seen
      <4> QED
        BY <4>3, <4>4
    <3>2. CASE ~LookHead
      <4>1. delivered' = delivered
        BY <3>2, Steps, ReadFrame, ServiceFrame, FetchFrame, PushFrame
           DEF vars, history, ResetOffset
      <4> QED
        BY <2>2, <4>1
    <3> QED
      BY <3>1, <3>2
  <2> QED
    BY <2>1, <2>2
\* What is in the queue.
<1>3. ASSUME NEW i \in Queued', NEW q \in start .. queue'[i].record
      PROVE  Before(i, q)'
  <2>0. q \in Nat
    <3>1. queue' \in Seq(Entries) /\ i \in 1 .. Len(queue') /\ queue'[i].type = "NORMAL"
      BY NextTypeOK DEF TypeOK, Queued
    <3>2. queue'[i] \in Entries
      BY <3>1, LenProperties
    <3>3. queue'[i].record \in 1 .. MaxRecord
      BY <3>1, <3>2 DEF Entries, Normal, Delay, Exception
    <3> QED
      BY <1>00, <3>3
  <2>1. Seen(q) => Before(i, q)'
    BY <1>1, <2>0 DEF Before
  <2>2. CASE LookHead
    <3>0. i \in Nat
      <4>1. i \in 1 .. Len(queue')
        BY DEF Queued
      <4> QED
        BY <4>1
    <3>1. i + 1 \in Queued /\ queue'[i] = queue[i + 1] /\ i \in Nat
      BY <2>2, <3>0, LookEffect
    <3>2. Before(i + 1, q)
      BY <1>0, <3>1
    <3>3. ASSUME NEW j \in Queued, j <= i + 1, queue[j].record = q
          PROVE  Before(i, q)'
      <4>1. CASE j = 1
        BY <2>2, <3>3, <4>1, LookEffect DEF Before, Seen
      <4>2. CASE j # 1
        <5>1. j - 1 \in Queued' /\ queue'[j - 1] = queue[j]
          BY <2>2, <4>2, LookEffect
        <5>2. j - 1 <= i
          BY <1>00, <3>1, <3>3
        <5> QED
          BY <3>3, <5>1, <5>2 DEF Before
      <4> QED
        BY <4>1, <4>2
    <3> QED
      BY <2>1, <3>2, <3>3 DEF Before
  <2>3. ASSUME Queued' = Queued, \A j \in Queued : queue'[j] = queue[j]
        PROVE  Before(i, q)'
    <3>1. Before(i, q)
      BY <1>0, <2>3
    <3> QED
      BY <2>1, <2>3, <3>1 DEF Before
  <2>4. CASE queue' = queue
    BY <2>3, <2>4 DEF Queued
  <2>5. ASSUME NEW f \in Fetchers, PushNoRecord(f)
        PROVE  Before(i, q)'
    BY <2>3, <2>5, PushNoRecordEffect
  <2>6. ASSUME NEW f \in Fetchers, PushRecords(f)
        PROVE  Before(i, q)'
    <3> DEFINE c == fetcher[f].cursor
               n == Len(fetcher[f].result.records)
    <3>1. /\ n \in Nat /\ c \in Nat /\ nextCursor' = c + n
          /\ Queued' = Queued \cup (Len(queue) + 1 .. Len(queue) + n)
          /\ \A j \in Queued : queue'[j] = queue[j]
          /\ \A k \in 1 .. n : queue'[Len(queue) + k].record = c + k - 1
      BY <1>00, <2>6, PushRecordsEffect
    <3>2. CASE i \in Queued
      <4>1. Before(i, q)
        BY <1>0, <3>1, <3>2
      <4> QED
        BY <2>1, <3>1, <4>1 DEF Before
    <3>3. CASE i \notin Queued
      <4> DEFINE m == i - Len(queue)
      <4>1. m \in 1 .. n /\ i = Len(queue) + m
        BY <1>00, <3>1, <3>3
      <4>2. queue'[i].record = c + m - 1
        BY <3>1, <4>1
      <4>3. CASE q < c
        <5>1. Reached(q)
          BY <1>0, <1>00, <2>0, <3>1, <4>3
        <5>2. ASSUME NEW j \in Queued, queue[j].record = q
              PROVE  Before(i, q)'
          <6>1. j \in Queued' /\ queue'[j].record = q
            BY <3>1, <5>2
          <6>2. j <= i
            BY <1>00, <4>1
          <6> QED
            BY <6>1, <6>2 DEF Before
        <5> QED
          BY <2>1, <5>1, <5>2 DEF Reached
      <4>4. CASE ~ (q < c)
        <5>1. q \in c .. c + m - 1
          BY <2>0, <3>1, <4>1, <4>2, <4>4
        <5>2. q \in c .. nextCursor' - 1
          <6>1. \A x, y \in Nat : \A z \in 1 .. y : \A w \in x .. x + z - 1 : w \in x .. (x + y) - 1
            OBVIOUS
          <6> HIDE DEF m, n, c
          <6>2. q \in c .. (c + n) - 1
            BY <3>1, <4>1, <5>1, <6>1
          <6> QED
            BY <3>1, <6>2
        <5>3. PICK k \in 1 .. n : /\ q = c + k - 1
                                  /\ Len(queue) + k \in Queued' /\ queue'[Len(queue) + k].record = q
          BY <2>6, <5>2, PushedAt
        <5>4. Len(queue) + k <= i
          BY <1>00, <3>1, <4>1, <5>1, <5>3
        <5> QED
          BY <5>3, <5>4 DEF Before
      <4> QED
        BY <4>3, <4>4
    <3> QED
      BY <3>2, <3>3
  <2>7. ASSUME NEW f \in Fetchers, StartFetch(f) \/ EndFetch(f) \/ NotifyAllFetchWait(f)
        PROVE  Before(i, q)'
    BY <2>4, <2>7, FetchFrame DEF NotifyAllFetchWait, reader
  <2>8. CASE ReadGoesOn \/ ResetOffset \/ ServiceStep \/ UNCHANGED vars
    BY <2>4, <2>8, ReadFrame, ServiceFrame DEF ResetOffset, vars, reader
  <2> QED
    BY <2>2, <2>5, <2>6, <2>7, <2>8, Steps
\* What comes before the cursor of the reader.
<1>4. ASSUME NEW q \in start .. nextCursor' - 1
      PROVE  Reached(q)'
  <2>0. q \in Nat /\ q \in start .. nextCursor' - 1
    <3>1. \A a \in Nat : \A b : \A x \in a .. b : x \in Nat
      OBVIOUS
    <3> QED
      BY <1>00, <3>1
  <2>1. CASE nextCursor' = nextCursor
    BY <1>0, <1>1, <2>0, <2>1
  <2>2. CASE ResetOffset
    <3>1. nextCursor' = 0
      BY <2>2 DEF ResetOffset, ResetTimestamp
    <3> QED
      BY <1>00, <2>0, <3>1
  <2>3. ASSUME NEW f \in Fetchers, PushRecords(f)
        PROVE  Reached(q)'
    <3>1. CASE q < fetcher[f].cursor
      BY <1>0, <1>00, <1>1, <2>0, <3>1
    <3>2. CASE ~ (q < fetcher[f].cursor)
      <4>1. q \in fetcher[f].cursor .. nextCursor' - 1
        BY <1>00, <2>0, <3>2
      <4>2. \E j \in Queued' : queue'[j].record = q
        BY <2>3, <4>1, PushedAt
      <4> QED
        BY <4>2 DEF Reached
    <3> QED
      BY <3>1, <3>2
  <2>4. ASSUME NEW f \in Fetchers, PushNoRecord(f)
        PROVE  Reached(q)'
    <3>1. CASE PushDelay(f)
      <4>1. nextCursor' = fetcher[f].cursor
        <5>1. /\ nextCursor' = fetcher[f].cursor + Len(fetcher[f].result.records)
              /\ fetcher[f].result.records = <<>>
          BY <3>1 DEF PushDelay, IInv, FetchIsRun, RunAtCursor
        <5>2. Len(fetcher[f].result.records) = 0
          BY <5>1
        <5> QED
          BY <1>00, <5>1, <5>2
      <4> QED
        BY <1>0, <1>1, <2>0, <4>1
    <3>2. CASE PushException(f)
      BY <2>1, <3>2 DEF PushException
    <3> QED
      BY <2>4, <3>1, <3>2 DEF PushNoRecord
  <2>5. ASSUME NEW f \in Fetchers, StartFetch(f) \/ EndFetch(f) \/ NotifyAllFetchWait(f)
        PROVE  Reached(q)'
    BY <2>1, <2>5, FetchFrame DEF NotifyAllFetchWait, reader
  <2>6. CASE ReadGoesOn \/ LookHead \/ ServiceStep \/ UNCHANGED vars
    BY <2>1, <2>6, ReadFrame, LookFrame, ServiceFrame DEF vars, reader
  <2> QED
    BY <2>2, <2>3, <2>4, <2>5, <2>6, Steps
\* What comes before the cursors of the fetches.
<1>5. ASSUME NEW f \in Fetchers, NEW q \in start .. fetcher'[f].cursor - 1
      PROVE  Reached(q)'
  <2>0. q \in Nat /\ q \in start .. fetcher'[f].cursor - 1
    <3>1. fetcher'[f].cursor \in 0 .. MaxRecord + 1
      BY NextFetchers DEF FetcherTyped, FetcherStates
    <3> QED
      BY <1>00, <3>1
  <2>1. CASE fetcher'[f].cursor = fetcher[f].cursor
    BY <1>0, <1>1, <2>0, <2>1
  <2>2. CASE fetcher'[f].cursor = 0
    BY <1>00, <2>0, <2>2
  <2>3. CASE fetcher'[f].cursor = GetNextCursor
    <3>1. CASE nextCursor # 0
      BY <1>0, <1>1, <2>0, <2>3, <3>1 DEF GetNextCursor
    <3>2. CASE nextCursor = 0 /\ InRange(offset)
      <4>1. offset = start
        BY <1>00, <3>2 DEF InRange, IInv, FetchIsRun
      <4> QED
        BY <1>00, <2>0, <2>3, <3>2, <4>1 DEF GetNextCursor
    <3>3. CASE nextCursor = 0 /\ ~InRange(offset)
      <4>1. q < oldest
        BY <1>00, <2>0, <2>3, <3>3 DEF GetNextCursor
      <4>2. Seen(q)'
        BY <1>1, <2>0, <4>1 DEF Seen
      <4> QED
        BY <4>2 DEF Reached
    <3> QED
      BY <3>1, <3>2, <3>3
  <2>4. \/ fetcher'[f].cursor = fetcher[f].cursor
        \/ fetcher'[f].cursor = 0
        \/ fetcher'[f].cursor = GetNextCursor
    <3>1. CASE UNCHANGED fetcher
      BY <3>1
    <3>2. ASSUME NEW g \in Fetchers, StartFetch(g) \/ EndFetch(g)
          PROVE  \/ fetcher'[f].cursor = fetcher[f].cursor
                 \/ fetcher'[f].cursor = 0
                 \/ fetcher'[f].cursor = GetNextCursor
      BY <3>2, StartEffect, EndEffect
    <3>3. ASSUME NEW g \in Fetchers,
                 PushRecords(g) \/ PushNoRecord(g) \/ NotifyAllFetchWait(g)
          PROVE  fetcher'[f].cursor = fetcher[f].cursor \/ fetcher'[f].cursor = 0
      <4>1. IdleFetcher.cursor = 0
        BY DEF IdleFetcher
      <4> QED
        BY <3>3, <4>1, PushEffect
    <3> QED
      BY <3>1, <3>2, <3>3, Steps, ReadFrame, LookFrame, ServiceFrame
         DEF ResetOffset, vars, pool
  <2> QED
    BY <2>1, <2>2, <2>3, <2>4
<1>6. \A i \in Queued' : \A q \in start' .. queue'[i].record : Before(i, q)'
  BY <1>1, <1>3
<1>7. Covered(nextCursor)' /\ \A f \in Fetchers : Covered(fetcher[f].cursor)'
  BY <1>1, <1>4, <1>5 DEF Covered
<1> QED
  BY <1>2, <1>6, <1>7 DEF NothingMissing, Before

LEMMA NextInOrder == IInv /\ [Next]_vars => QueueInOrder' /\ FetchFollows'
<1> DEFINE Ordered == /\ \A i, j \in Queued : i < j => queue[i].record < queue[j].record
                      /\ \A i \in Queued, r \in delivered : r < queue[i].record
<1> SUFFICES ASSUME IInv, [Next]_vars, resets' = 0
             PROVE  /\ Ordered' /\ AllBefore(nextCursor)'
                    /\ \A f \in Fetchers : Live(f)' => AllBefore(fetcher[f].cursor)'
  BY DEF QueueInOrder, FetchFollows
<1>0. ~ResetOffset /\ resets = 0
  <2>1. ~ResetOffset
    <3>1. resets \in Nat
      BY Numbers
    <3> QED
      BY <3>1 DEF ResetOffset
  <2>2. resets' = resets
    BY <2>1, Steps, ReadFrame, LookFrame, ServiceFrame, FetchFrame, PushFrame DEF vars, history
  <2> QED
    BY <2>1, <2>2
<1>1. /\ Ordered /\ AllBefore(nextCursor)
      /\ \A f \in Fetchers : Live(f) => AllBefore(fetcher[f].cursor)
  BY <1>0 DEF IInv, QueueInOrder, FetchFollows
<1>2. /\ nextCursor \in Nat /\ Len(queue) \in Nat /\ Queued \subseteq 1 .. Len(queue)
      /\ \A i \in Queued : queue[i].record \in Nat /\ queue[i].record # 0
      /\ \A r \in delivered : r \in Nat /\ r # 0
  <2>1. /\ \A i \in Queued : queue[i].record \in 1 .. MaxRecord
        /\ Queued \subseteq 1 .. Len(queue) /\ delivered \subseteq 1 .. MaxRecord
    BY QueuedTyped
  <2>2. \A x \in 1 .. MaxRecord : x \in Nat /\ x # 0
    OBVIOUS
  <2>3. nextCursor \in Nat /\ Len(queue) \in Nat
    BY Numbers
  <2> QED
    BY <2>1, <2>2, <2>3
\* A step that neither fills nor empties the queue.
<1>3. ASSUME UNCHANGED <<queue, delivered, nextCursor>>,
             \A f \in Fetchers : Live(f)' => \/ Live(f) /\ fetcher'[f].cursor = fetcher[f].cursor
                                             \/ fetcher'[f].cursor = GetNextCursor
      PROVE  /\ Ordered' /\ AllBefore(nextCursor)'
             /\ \A f \in Fetchers : Live(f)' => AllBefore(fetcher[f].cursor)'
  <2>1. Queued' = Queued /\ \A n : AllBefore(n) => /\ \A i \in Queued' : queue'[i].record < n
                                                 /\ \A r \in delivered' : r < n
    BY <1>3 DEF Queued, AllBefore
  <2>2. AllBefore(GetNextCursor)
    <3>1. CASE nextCursor # 0
      BY <1>1, <3>1 DEF GetNextCursor
    <3>2. CASE nextCursor = 0
      <4>1. Queued = {} /\ delivered = {}
        BY <1>1, <1>2, <3>2 DEF AllBefore
      <4> QED
        BY <4>1 DEF AllBefore
    <3> QED
      BY <3>1, <3>2
  <2>3. ASSUME NEW f \in Fetchers, Live(f)'
        PROVE  AllBefore(fetcher[f].cursor)'
    <3>1. AllBefore(fetcher'[f].cursor)
      BY <1>1, <1>3, <2>2, <2>3
    <3> QED
      BY <2>1, <3>1 DEF AllBefore
  <2>4. AllBefore(nextCursor)'
    BY <1>1, <1>3, <2>1 DEF AllBefore
  <2>5. Ordered'
    BY <1>1, <1>3, <2>1
  <2> QED
    BY <2>3, <2>4, <2>5
<1>4. CASE ReadGoesOn \/ ServiceStep \/ UNCHANGED vars
  <2>1. UNCHANGED <<queue, delivered, nextCursor, fetcher>>
    BY <1>4, ReadFrame, ServiceFrame DEF vars, reader, pool, history
  <2>2. \A f \in Fetchers : Live(f)' => Live(f) /\ fetcher'[f].cursor = fetcher[f].cursor
    BY <2>1 DEF Live
  <2> QED
    BY <1>3, <2>1, <2>2
<1>5. CASE LookHead
  <2>1. UNCHANGED <<nextCursor, fetcher>>
    BY <1>5, LookFrame DEF pool
  <2>2. /\ \A i \in Queued' : i \in Nat /\ i + 1 \in Queued /\ queue'[i] = queue[i + 1]
        /\ \A r \in delivered' : r \in delivered \/ (1 \in Queued /\ r = queue[1].record)
    <3>1. \A i \in Queued' : i \in 1 .. Len(queue')
      BY DEF Queued
    <3>2. \A i \in Queued' : i \in Nat
      BY <3>1
    <3> QED
      BY <1>5, <3>2, LookEffect
  <2>3. \A i, j \in Queued' : i < j => queue'[i].record < queue'[j].record
    <3>1. \A i, j \in Nat : i < j => i + 1 < j + 1
      OBVIOUS
    <3> QED
      BY <1>1, <2>2, <3>1
  <2>4. ASSUME NEW i \in Queued', NEW r \in delivered'
        PROVE  r < queue'[i].record
    <3>1. i \in Nat /\ i + 1 \in Queued /\ queue'[i] = queue[i + 1] /\ i # 0
      BY <1>2, <2>2 DEF Queued
    <3>2. 1 < i + 1
      BY <3>1
    <3> QED
      BY <1>1, <2>2, <3>1, <3>2
  <2>5. ASSUME NEW n, AllBefore(n)
        PROVE  /\ \A i \in Queued' : queue'[i].record < n
               /\ \A r \in delivered' : r < n
    BY <2>2, <2>5 DEF AllBefore
  <2>6. AllBefore(nextCursor)'
    BY <1>1, <2>1, <2>5 DEF AllBefore
  <2>7. ASSUME NEW f \in Fetchers, Live(f)'
        PROVE  AllBefore(fetcher[f].cursor)'
    <3>1. AllBefore(fetcher[f].cursor)
      BY <1>1, <2>1, <2>7 DEF Live
    <3> QED
      BY <2>1, <2>5, <3>1 DEF AllBefore
  <2> QED
    BY <2>3, <2>4, <2>6, <2>7
<1>6. ASSUME NEW f \in Fetchers, StartFetch(f) \/ EndFetch(f)
      PROVE  /\ Ordered' /\ AllBefore(nextCursor)'
             /\ \A g \in Fetchers : Live(g)' => AllBefore(fetcher[g].cursor)'
  <2>1. UNCHANGED <<queue, delivered, nextCursor>>
    BY <1>6, FetchFrame DEF reader, history
  <2>2. ASSUME NEW g \in Fetchers, Live(g)'
        PROVE  \/ Live(g) /\ fetcher'[g].cursor = fetcher[g].cursor
               \/ fetcher'[g].cursor = GetNextCursor
    <3>1. CASE g # f
      BY <1>6, <2>2, <3>1, StartEffect, EndEffect DEF Live
    <3>2. CASE g = f /\ EndFetch(f)
      BY <3>2, EndEffect DEF Live
    <3>3. CASE g = f /\ StartFetch(f)
      <4>1. Thrown("other").error # "none"
        BY DEF Thrown
      <4> QED
        BY <2>2, <3>3, <4>1, StartEffect DEF Live
    <3> QED
      BY <1>6, <3>1, <3>2, <3>3
  <2> QED
    BY <1>3, <2>1, <2>2
<1>7. ASSUME NEW f \in Fetchers, NotifyAllFetchWait(f)
      PROVE  /\ Ordered' /\ AllBefore(nextCursor)'
             /\ \A g \in Fetchers : Live(g)' => AllBefore(fetcher[g].cursor)'
  <2>1. UNCHANGED <<queue, delivered, nextCursor>>
    BY <1>7 DEF NotifyAllFetchWait, history
  <2>2. IdleFetcher.step = "idle"
    BY DEF IdleFetcher
  <2>3. ASSUME NEW g \in Fetchers, Live(g)'
        PROVE  Live(g) /\ fetcher'[g].cursor = fetcher[g].cursor
    BY <1>7, <2>2, <2>3, PushEffect DEF Live
  <2> QED
    BY <1>3, <2>1, <2>3
\* A step that fills the queue is that of the one fetch.
<1>8. ASSUME NEW f \in Fetchers, PushRecords(f) \/ PushNoRecord(f)
      PROVE  /\ \A g \in Fetchers : ~Live(g)'
             /\ delivered' = delivered
  <2>1. /\ fetcher[f].step = "push"
        /\ \A g \in Fetchers \ {f} : fetcher'[g] = fetcher[g]
        /\ fetcher'[f].step = "notify" \/ fetcher'[f] = IdleFetcher
    BY <1>8, PushEffect
  <2>2. IdleFetcher.step = "idle" /\ f \in Busy
    BY <2>1 DEF Busy, IdleFetcher
  <2>3. \A g \in Fetchers \ {f} : fetcher[g] = IdleFetcher
    BY <2>2 DEF IInv, OneHolder, Busy
  <2>4. delivered' = delivered
    BY <1>8, PushFrame DEF history
  <2> QED
    BY <2>1, <2>2, <2>3, <2>4 DEF Live
<1>9. ASSUME NEW f \in Fetchers, PushNoRecord(f)
      PROVE  Ordered' /\ AllBefore(nextCursor)'
  <2>1. /\ Queued' = Queued /\ delivered' = delivered
        /\ \A i \in Queued : queue'[i] = queue[i]
    BY <1>8, <1>9, PushNoRecordEffect
  <2>2. AllBefore(nextCursor')
    <3>1. CASE PushException(f)
      BY <1>1, <3>1 DEF PushException
    <3>2. CASE PushDelay(f)
      <4>1. nextCursor' = fetcher[f].cursor
        <5>1. /\ nextCursor' = fetcher[f].cursor + Len(fetcher[f].result.records)
              /\ fetcher[f].result.records = <<>>
          BY <3>2 DEF PushDelay, IInv, FetchIsRun, RunAtCursor
        <5>2. Len(fetcher[f].result.records) = 0
          BY <5>1
        <5>3. fetcher[f].cursor \in 0 .. MaxRecord + 1
          BY DEF IInv, FetcherTyped, FetcherStates
        <5> QED
          BY <5>1, <5>2, <5>3
      <4>2. Live(f)
        BY <3>2 DEF PushDelay, Live
      <4> QED
        BY <1>1, <4>1, <4>2
    <3> QED
      BY <1>9, <3>1, <3>2 DEF PushNoRecord
  <2> QED
    BY <1>1, <2>1, <2>2 DEF AllBefore
<1>10. ASSUME NEW f \in Fetchers, PushRecords(f)
       PROVE  Ordered' /\ AllBefore(nextCursor)'
  <2> DEFINE c == fetcher[f].cursor
             n == Len(fetcher[f].result.records)
             New == Len(queue) + 1 .. Len(queue) + n
  <2>1. /\ n \in Nat /\ n # 0 /\ c \in Nat /\ Live(f) /\ nextCursor' = c + n
        /\ Queued' = Queued \cup New
        /\ \A i \in Queued : queue'[i] = queue[i]
        /\ \A k \in 1 .. n : queue'[Len(queue) + k].record = c + k - 1
    BY <1>10, PushRecordsEffect
  <2>2. AllBefore(c)
    BY <1>1, <2>1
  <2> HIDE DEF c, n
  <2>3. \A i \in New : /\ i \in Nat /\ i > Len(queue)
                       /\ queue'[i].record = c + (i - Len(queue)) - 1
                       /\ queue'[i].record >= c /\ queue'[i].record < c + n
    <3> SUFFICES ASSUME NEW i \in New
                 PROVE  /\ i \in Nat /\ i > Len(queue)
                        /\ queue'[i].record = c + (i - Len(queue)) - 1
                        /\ queue'[i].record >= c /\ queue'[i].record < c + n
      OBVIOUS
    <3>1. i - Len(queue) \in 1 .. n /\ Len(queue) + (i - Len(queue)) = i /\ i \in Nat
      BY <1>2, <2>1
    <3>2. queue'[i].record = c + (i - Len(queue)) - 1
      BY <2>1, <3>1
    <3> QED
      BY <1>2, <2>1, <3>1, <3>2
  <2>4. \A i \in Queued : /\ i \in Nat /\ i <= Len(queue) /\ queue'[i].record \in Nat
                          /\ queue'[i].record < c
    BY <1>2, <2>1, <2>2 DEF AllBefore
  <2>5. ASSUME NEW i \in Queued', NEW j \in Queued', i < j
        PROVE  queue'[i].record < queue'[j].record
    <3>1. CASE i \in Queued /\ j \in Queued
      BY <1>1, <2>1, <2>5, <3>1
    <3>2. CASE i \in Queued /\ j \in New
      <4>1. queue'[i].record < c /\ queue'[i].record \in Nat
        BY <2>4, <3>2
      <4>2. queue'[j].record >= c /\ queue'[j].record = c + (j - Len(queue)) - 1 /\ j \in Nat
        BY <2>3, <3>2
      <4>3. queue'[j].record \in Int
        BY <1>2, <2>1, <4>2
      <4>4. \A x, y, z \in Int : x < z /\ y >= z => x < y
        OBVIOUS
      <4> QED
        BY <2>1, <4>1, <4>2, <4>3, <4>4
    <3>3. CASE i \in New /\ j \in New
      <4>1. /\ queue'[i].record = c + (i - Len(queue)) - 1 /\ i \in Nat
            /\ queue'[j].record = c + (j - Len(queue)) - 1 /\ j \in Nat
        BY <2>3, <3>3
      <4> QED
        BY <1>2, <2>1, <2>5, <4>1
    <3>4. CASE i \in New /\ j \in Queued
      BY <1>2, <2>3, <2>4, <2>5, <3>4
    <3> QED
      BY <2>1, <3>1, <3>2, <3>3, <3>4
  <2>6. ASSUME NEW i \in Queued', NEW r \in delivered'
        PROVE  r < queue'[i].record
    <3>1. r \in delivered /\ r \in Nat /\ r < c
      BY <1>2, <1>8, <1>10, <2>2 DEF AllBefore
    <3>2. CASE i \in Queued
      BY <1>1, <2>1, <3>1, <3>2
    <3>3. CASE i \in New
      <4>1. queue'[i].record >= c /\ queue'[i].record = c + (i - Len(queue)) - 1 /\ i \in Nat
        BY <2>3, <3>3
      <4> QED
        BY <1>2, <2>1, <3>1, <4>1
    <3> QED
      BY <2>1, <3>2, <3>3
  <2>7. \A i \in Queued' : queue'[i].record < c + n
    <3>1. \A x, y, z \in Nat : x < y => x < y + z
      OBVIOUS
    <3> QED
      BY <2>1, <2>3, <2>4, <3>1
  <2>8. \A r \in delivered' : r < c + n
    <3>1. \A r \in delivered' : r \in Nat /\ r < c
      BY <1>2, <1>8, <1>10, <2>2 DEF AllBefore
    <3>2. \A x, y, z \in Nat : x < y => x < y + z
      OBVIOUS
    <3> QED
      BY <2>1, <3>1, <3>2
  <2>9. AllBefore(nextCursor)'
    BY <2>1, <2>7, <2>8 DEF AllBefore
  <2> QED
    BY <2>5, <2>6, <2>9
<1>11. ASSUME NEW f \in Fetchers, PushRecords(f) \/ PushNoRecord(f)
       PROVE  /\ Ordered' /\ AllBefore(nextCursor)'
              /\ \A g \in Fetchers : Live(g)' => AllBefore(fetcher[g].cursor)'
  BY <1>8, <1>9, <1>10, <1>11
<1> HIDE DEF Ordered
<1> QED
  BY <1>0, <1>4, <1>5, <1>6, <1>7, <1>11, Steps

----------------------------------------------------------------------------
(* The theorems *)

LEMMA InductiveInvariant == Spec => []IInv
<1>1. IInv /\ [Next]_vars => IInv'
  BY NextTypeOK, NextFetchers, NextOneHolder, NextRoom, NextNothingMissing, NextInOrder DEF IInv
<1> QED
  BY InitIInv, <1>1, PTL DEF Spec

\* Every variable keeps to its type; the queue never grows beyond its limit by more than two
\* fetches, however the test of its size and the fetches interleave.
THEOREM TypesKept == Spec => []TypeOK
<1>1. IInv => TypeOK
  BY DEF IInv
<1> QED
  BY <1>1, InductiveInvariant, PTL

\* The exchange of mTaskRuning lets one fetch at a time through, whatever the number of threads
\* of the pool, and so the queue has the records in the order of the shard.
THEOREM FetchesInTurn == Spec => []FetchedInTurn
<1>1. IInv => FetchedInTurn
  <2> SUFFICES ASSUME IInv PROVE OneFetch
    BY DEF FetchedInTurn, IInv
  <2>0. /\ pending > 0 => taskRuning /\ pending = 1 /\ Busy = {}
        /\ Busy # {} => taskRuning
        /\ \A f, g \in Busy : f = g
        /\ pending \in Nat
    BY Numbers DEF IInv, OneHolder
  <2>1. CASE Busy = {}
    <3>1. Cardinality(Busy) = 0
      BY <2>1, FS_EmptySet
    <3> QED
      BY <2>0, <3>1 DEF OneFetch
  <2>2. CASE Busy # {}
    <3>1. PICK f \in Busy : TRUE
      BY <2>2
    <3>2. Busy = {f}
      BY <2>0, <3>1
    <3>3. Cardinality(Busy) = 1
      BY <3>2, FS_Singleton
    <3>4. pending = 0
      BY <2>0, <2>2
    <3> QED
      BY <2>0, <2>2, <3>3, <3>4 DEF OneFetch
  <2> QED
    BY <2>1, <2>2
<1> QED
  BY <1>1, InductiveInvariant, PTL

\* Whatever fails, expires or is reset, in the middle of a fetch included: Read hands out a
\* record only after all those before it, except the ones that have expired.
THEOREM NothingSkipped == Spec => []NoRecordSkipped
<1>1. IInv => NoRecordSkipped
  BY DEF IInv, NothingMissing
<1> QED
  BY <1>1, InductiveInvariant, PTL

=============================================================================
