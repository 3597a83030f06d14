------------------------- MODULE RecordPackQueue -------------------------
(***************************************************************************)
(* The buffer of one shard writer (client/src/record_pack_queue.cpp and    *)
(* record_pack.cpp) as a data type.                                        *)
(*                                                                         *)
(* A call is one WriteAsync of the user.  A pack is the sequence of calls  *)
(* whose records and promises a RecordPack holds.  Every call carries one  *)
(* record, so the size limit and the count limit of a pack are one limit,  *)
(* MaxPackRecords; 0 stands for calls that exceed the limit on their own.  *)
(*                                                                         *)
(* A RecordPack sets mIsReady only inside AppendRecord, which pushes it to *)
(* the ready queue before it unlocks, so the flag needs no state of its    *)
(* own.  A pack that exists is never empty: <<>> is the null pointer.      *)
(*                                                                         *)
(* Whether a time limit (mMaxBufferTimeMs) has elapsed is the Boolean      *)
(* timeUp of the operators, which the caller chooses.                      *)
(***************************************************************************)
EXTENDS Naturals, Sequences

CONSTANTS
    MaxPackRecords,     \* mMaxBufferRecordCount
    ReadyLimit          \* mMaxRecordPackQueueLimit

ASSUME MaxPackRecordsAssumption == MaxPackRecords \in Nat
ASSUME ReadyLimitAssumption == ReadyLimit \in Nat \ {0}

NoPack == <<>>

\* mCurrentRecordPack and mReadyRecordPacks, as the constructor leaves them.
EmptyQueue == [current |-> NoPack, ready |-> <<>>]

PackQueue(Call) == [current : Seq(Call), ready : Seq(Seq(Call))]

\* RecordPack::TryAppend: the records fit, or the pack is still empty.
Fits(pack) == pack = NoPack \/ Len(pack) + 1 <= MaxPackRecords

\* The predicate AppendRecord waits for; it is read without the queue's lock.
BelowLimit(q) == Len(q.ready) < ReadyLimit

(***************************************************************************)
(* The part of AppendRecord under mQueueMutex.  The call goes into the     *)
(* current pack if it has room, and the pack is pushed when its time is up;*)
(* a full pack is pushed and the call opens a new one.                     *)
(***************************************************************************)
AppendRecord(q, call, timeUp) ==
    LET fits == q.current # NoPack /\ Fits(q.current)
        pack == IF fits THEN Append(q.current, call) ELSE q.current
        done == q.current # NoPack /\ (~fits \/ timeUp)
    IN [current |-> IF ~fits THEN <<call>> ELSE IF done THEN NoPack ELSE pack,
        ready   |-> IF done THEN Append(q.ready, pack) ELSE q.ready]

\* Mutants: the current pack is not taken out of the buffer; a flush is ignored.
MakeReadyKeepsCurrent(q, force, timeUp) ==
    IF (force \/ timeUp) /\ q.current # NoPack
    THEN [q EXCEPT !.ready = Append(@, q.current)]
    ELSE q
MakeReadyUnforced(q, force, timeUp) ==
    IF timeUp /\ q.current # NoPack
    THEN [current |-> NoPack, ready |-> Append(q.ready, q.current)]
    ELSE q

\* ObtainReadyRecordPack: a flush, or the time limit, makes the current pack ready.
MakeReady(q, force, timeUp) ==
    IF (force \/ timeUp) /\ q.current # NoPack
    THEN [current |-> NoPack, ready |-> Append(q.ready, q.current)]
    ELSE q

\* Mutant: the last ready pack is not returned.
FrontPackButLast(q) == IF Len(q.ready) <= 1 THEN NoPack ELSE Head(q.ready)

\* ... and the front pack is returned without being removed.
FrontPack(q) == IF q.ready = <<>> THEN NoPack ELSE Head(q.ready)

\* Mutant: the newest pack is removed.
PopNewestPack(q) ==
    IF q.ready = <<>> THEN q ELSE [q EXCEPT !.ready = SubSeq(@, 1, Len(@) - 1)]

PopBackRecordPack(q) ==
    IF q.ready = <<>> THEN q ELSE [q EXCEPT !.ready = Tail(@)]
============================================================================
