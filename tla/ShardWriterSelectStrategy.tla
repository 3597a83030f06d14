-------------------- MODULE ShardWriterSelectStrategy --------------------
(***************************************************************************)
(* The round robin of a producer over its shards                           *)
(* (client/src/shard_select_strategy.cpp).  A selector is a record: the    *)
(* list of active shards, the set of those that failed, and the index of   *)
(* the last choice.  Every operation is one critical section of mMutex.    *)
(* Indices start at 0, as in the code; mTimer is the caller's choice.      *)
(***************************************************************************)
EXTENDS Integers, Sequences, SequencesExt

Selector(Shard) == [active : Seq(Shard), inactive : SUBSET Shard, index : Int]

NewSelector == [active |-> <<>>, inactive |-> {}, index |-> -1]

AddShard(selector, s) ==
    [selector EXCEPT !.active = Append(@, s), !.inactive = @ \ {s}]

AddShards(selector, shards) ==
    [selector EXCEPT !.active = @ \o SetToSeq(shards), !.inactive = @ \ shards]

WithoutShards(active, shards) ==
    LET first[i \in 0 .. Len(active)] ==
            IF i = 0 THEN <<>>
            ELSE IF active[i] \in shards THEN first[i - 1] ELSE Append(first[i - 1], active[i])
    IN  first[Len(active)]

RemoveShards(selector, shards) ==
    [selector EXCEPT !.active = WithoutShards(@, shards), !.inactive = @ \ shards]

\* Mutant: the failed shard is forgotten.
DropInvalidShard(selector, s) ==
    [selector EXCEPT !.active = WithoutShards(@, {s})]

AddInvalidShard(selector, s) ==
    [selector EXCEPT !.active = WithoutShards(@, {s}), !.inactive = @ \cup {s}]

\* The failed shards are appended, in the order of their set, and stay in the set.
Reactivated(selector, expired) ==
    IF selector.active = <<>> \/ expired
    THEN [selector EXCEPT !.active = @ \o SetToSeq(selector.inactive)]
    ELSE selector

\* GetNextShard has a shard to return.
HasNextShard(selector, expired) == Reactivated(selector, expired).active # <<>>

\* The selector after GetNextShard ...
Advanced(selector, expired) ==
    LET next == Reactivated(selector, expired)
    IN [next EXCEPT !.index = (@ + 1) % Len(next.active)]

\* ... and the shard it returns.
GetNextShard(selector, expired) ==
    LET next == Advanced(selector, expired)
    IN next.active[next.index + 1]
============================================================================
