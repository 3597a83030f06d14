--------------------- MODULE ShardReaderSelectStrategy ---------------------
(***************************************************************************)
(* The choice of the shard a consumer reads next                           *)
(* (client/src/shard_select_strategy.cpp, shard_offset_heap.cpp): the one  *)
(* whose last record is the oldest.  A heap holds OffsetInfo objects,      *)
(* which know their index in it; a shard that had no record is marked      *)
(* invalid where it lies and remembered in mEmptyShards until no other     *)
(* shard is left or a timer expires.  Every operation is one critical      *)
(* section of mMutex.  ShardGroupReader::Read keeps a mutex of its own     *)
(* from the choice of a shard to the end of the reading                    *)
(* (client/src/shard_group_reader.cpp:66); the heartbeat, or another       *)
(* consumer's update of the shards, adds and removes shards meanwhile.     *)
(*                                                                         *)
(* Indices start at 0, as in the code; -1 stands for -1u, which both       *)
(* HeapUp and HeapDown take for an index out of range.                     *)
(***************************************************************************)
EXTENDS Integers, Sequences, FiniteSets, SequencesExt

CONSTANTS
    Shards,
    Infos,          \* bound: OffsetInfo objects alive at a time
    NoInfo, NoShard,
    MaxTime,        \* bound: system times of records
    MaxNodes        \* bound: nodes of the heap, where an info may lie more than once

ASSUME NoneAssumption == NoInfo \notin Infos /\ NoShard \notin Shards
ASSUME BoundsAssumption == MaxTime \in Nat /\ MaxNodes \in Nat

VARIABLES
    nodes,          \* mNodes of the heap
    valid, index, timestamp, shardOf,   \* the members of the infos
    shardOffset,    \* mShardOffsetMap; its domain is also that of mShardReaderMap
    emptyShards,    \* mEmptyShards
    reading,        \* the shard that is being read from
    doubled         \* history: an info has been pushed while it was in the heap

info == <<valid, timestamp, shardOf>>
Held == ToSet(nodes) \cup ToSet(shardOffset)    \* the infos a shared_ptr points to
vars == <<nodes, index, info, shardOffset, emptyShards, reading, doubled>>

\* The members of the infos once those that nobody holds any more are deleted.
Kept(member, none) == [i \in Infos |-> IF i \in Held' THEN member[i] ELSE none]
KeepInfos(newValid) ==
    /\ valid' = Kept(newValid, FALSE)
    /\ timestamp' = Kept(timestamp, -1)
    /\ shardOf' = Kept(shardOf, NoShard)

Init ==
    /\ nodes = <<>>
    /\ valid = [i \in Infos |-> FALSE]
    /\ index = [i \in Infos |-> -1]
    /\ timestamp = [i \in Infos |-> -1]
    /\ shardOf = [i \in Infos |-> NoShard]
    /\ shardOffset = [s \in Shards |-> NoInfo]
    /\ emptyShards = {}
    /\ reading = NoShard
    /\ doubled = FALSE

----------------------------------------------------------------------------
(* The heap: its nodes and the indices the infos hold. *)

Heaps == [nodes : Seq(Infos), index : [Infos -> Int]]

NodeAt(heap, i) == heap.nodes[i + 1]
Size(heap) == Len(heap.nodes)

\* std::swap of two nodes; each then learns its index.
Swapped(heap, i, j) ==
    [nodes |-> [heap.nodes EXCEPT ![i + 1] = NodeAt(heap, j), ![j + 1] = NodeAt(heap, i)],
     index |-> [heap.index EXCEPT ![NodeAt(heap, j)] = i, ![NodeAt(heap, i)] = j]]

\* What n passes of a loop make of a; a pass that finds the loop at its end changes nothing.
Iterate(pass, a, n) ==
    LET after[k \in 0 .. n] == IF k = 0 THEN a ELSE pass[after[k - 1]]
    IN  after[n]

\* A heap and the index that HeapUp or HeapDown is called with; each calls itself with the
\* index of the node that the one at this index was swapped with.
Calls == [heap : Heaps, at : Int]

Parent(i) == (i - 1) \div 2

UpCall(time) ==
    [c \in Calls |->
        IF \/ c.at <= 0 \/ c.at >= Size(c.heap)
           \/ time[NodeAt(c.heap, c.at)] >= time[NodeAt(c.heap, Parent(c.at))]
        THEN c
        ELSE [heap |-> Swapped(c.heap, c.at, Parent(c.at)), at |-> Parent(c.at)]]

\* No recursion is deeper than the heap has nodes.
HeapUp(heap, time, i) == Iterate(UpCall(time), [heap |-> heap, at |-> i], Size(heap)).heap

\* Mutant: the right child is not looked at.
LeftChild(heap, time, i) ==
    LET left == 2 * i + 1
    IN IF left < Size(heap) /\ time[NodeAt(heap, left)] < time[NodeAt(heap, i)]
       THEN left ELSE i

\* The smaller child of a node, or the node itself, as HeapDown finds it.
Child(heap, time, i) ==
    LET Smaller(j, k) ==
            IF k < Size(heap) /\ time[NodeAt(heap, k)] < time[NodeAt(heap, j)] THEN k ELSE j
    IN Smaller(Smaller(i, 2 * i + 1), 2 * i + 2)

DownCall(time) ==
    [c \in Calls |->
        IF c.at < 0 \/ c.at >= Size(c.heap) THEN c
        ELSE LET smallest == Child(c.heap, time, c.at)
             IN IF smallest = c.at THEN c
                ELSE [heap |-> Swapped(c.heap, c.at, smallest), at |-> smallest]]

HeapDown(heap, time, i) == Iterate(DownCall(time), [heap |-> heap, at |-> i], Size(heap)).heap

Push(heap, time, node) ==
    HeapUp([nodes |-> Append(heap.nodes, node),
            index |-> [heap.index EXCEPT ![node] = Size(heap)]], time, Size(heap))

\* Mutant: the node that leaves keeps its index.
PopUnmarked(heap, time) ==
    LET swapped == Swapped(heap, 0, Size(heap) - 1)
    IN HeapDown([nodes |-> Front(swapped.nodes), index |-> swapped.index], time, 0)

Pop(heap, time) ==
    LET swapped == Swapped(heap, 0, Size(heap) - 1)
    IN HeapDown([nodes |-> Front(swapped.nodes),
                 index |-> [swapped.index EXCEPT ![heap.nodes[1]] = -1]], time, 0)

\* Update of the node with a timestamp it already has in time.
Updated(heap, time, node, isDown) ==
    IF isDown THEN HeapDown(heap, time, heap.index[node])
              ELSE HeapUp(heap, time, heap.index[node])

Heap == [nodes |-> nodes, index |-> index]
SetHeap(heap) == nodes' = heap.nodes /\ index' = heap.index
Distinct(heap) == Cardinality(ToSet(heap.nodes)) = Size(heap)

----------------------------------------------------------------------------
(* The strategy *)

Known(s) == shardOffset[s] # NoInfo

AddShard(s) ==
    /\ ~Known(s)
    /\ \E i \in Infos \ Held :
          /\ valid' = [valid EXCEPT ![i] = TRUE]
          /\ timestamp' = [timestamp EXCEPT ![i] = -1]
          /\ shardOf' = [shardOf EXCEPT ![i] = s]
          /\ shardOffset' = [shardOffset EXCEPT ![s] = i]
          /\ SetHeap(Push(Heap, timestamp', i))
    /\ emptyShards' = emptyShards \ {s}
    /\ UNCHANGED <<reading, doubled>>

RemoveShard(s) ==
    /\ Known(s)
    /\ shardOffset' = [shardOffset EXCEPT ![s] = NoInfo]
    /\ emptyShards' = emptyShards \ {s}
    /\ UNCHANGED <<nodes, index, reading, doubled>>
    /\ KeepInfos([valid EXCEPT ![shardOffset[s]] = FALSE])

\* GetNextShard pops what is no longer valid ...
Valid(heap) ==
    LET pass == [h \in Heaps |-> IF h.nodes = <<>> \/ valid[h.nodes[1]] THEN h
                                 ELSE Pop(h, timestamp)]
    IN  Iterate(pass, heap, Size(heap))

\* ... and pushes the infos of the empty shards, in the order of their names.
PushAll(heap, infos) ==
    LET pass == [c \in Calls |-> [heap |-> Push(c.heap, timestamp, infos[c.at]),
                                  at |-> c.at + 1]]
    IN  Iterate(pass, [heap |-> heap, at |-> 1], Len(infos)).heap

Emptied == {shardOffset[s] : s \in emptyShards}

\* Mutant: an empty shard that is pushed again stays invalid.
StayInvalid(infos) == valid

Revived(infos) == [i \in Infos |-> i \in infos \/ valid[i]]

\* The shard to read from, and the reader of some shard when there is none to choose.
Chosen(heap) ==
    IF heap.nodes # <<>> THEN {shardOf[heap.nodes[1]]} ELSE {s \in Shards : Known(s)}

GetNextShard(expired) ==
    LET heap == Valid(Heap)
    IN /\ reading = NoShard
       /\ expired => Size(heap) + Cardinality(Emptied) <= MaxNodes
       /\ IF heap.nodes = <<>> \/ expired
          THEN \E order \in SetToSeqs(Emptied) :
                  LET next == PushAll(heap, order)
                  IN /\ SetHeap(next)
                     /\ doubled' = (doubled \/ ~Distinct(next))
                     /\ emptyShards' = {}
          ELSE SetHeap(heap) /\ UNCHANGED <<emptyShards, doubled>>
       /\ IF Chosen(heap) = {}
          THEN UNCHANGED reading
          ELSE \E s \in Chosen(heap) : reading' = s
       /\ UNCHANGED shardOffset
       /\ KeepInfos(IF heap.nodes = <<>> \/ expired THEN Revived(Emptied) ELSE valid)

\* The application names the shard.
ReadShard(s) ==
    /\ reading = NoShard
    /\ Known(s)
    /\ reading' = s
    /\ UNCHANGED <<nodes, index, info, shardOffset, emptyShards, doubled>>

\* AfterRead of a record, of none in time, and an exception, which skips it.
AfterRecord(systemTime) ==
    LET s == reading
        i == shardOffset[s]
    IN /\ s # NoShard
       /\ Known(s)
       /\ timestamp' = [timestamp EXCEPT ![i] = systemTime]
       /\ SetHeap(Updated(Heap, timestamp', i, systemTime > timestamp[i]))
       /\ reading' = NoShard
       /\ UNCHANGED <<valid, shardOf, shardOffset, emptyShards, doubled>>

AfterNoRecord ==
    /\ reading # NoShard
    /\ Known(reading)
    /\ emptyShards' = emptyShards \cup {reading}
    /\ valid' = [valid EXCEPT ![shardOffset[reading]] = FALSE]
    /\ reading' = NoShard
    /\ UNCHANGED <<nodes, index, timestamp, shardOf, shardOffset, doubled>>

ReadFails ==
    /\ reading # NoShard
    /\ reading' = NoShard
    /\ UNCHANGED <<nodes, index, info, shardOffset, emptyShards, doubled>>

Next ==
    \/ \E s \in Shards : AddShard(s) \/ RemoveShard(s) \/ ReadShard(s)
    \/ \E expired \in BOOLEAN : GetNextShard(expired)
    \/ \E time \in 0 .. MaxTime : AfterRecord(time)
    \/ AfterNoRecord
    \/ ReadFails

Spec == Init /\ [][Next]_vars

----------------------------------------------------------------------------
\* The variables hold values of their types, no index points past the heap, and a shard that
\* counts as empty is a shard there is.
TypeOK ==
    /\ nodes \in Seq(Infos)
    /\ valid \in [Infos -> BOOLEAN]
    /\ index \in [Infos -> -1 .. Len(nodes) - 1]
    /\ timestamp \in [Infos -> -1 .. MaxTime]
    /\ shardOf \in [Infos -> Shards \cup {NoShard}]
    /\ shardOffset \in [Shards -> Infos \cup {NoInfo}]
    /\ emptyShards \in SUBSET {s \in Shards : Known(s)}
    /\ reading \in Shards \cup {NoShard}
    /\ doubled \in BOOLEAN

\* Every shard with a reader comes up again: it is valid and in the heap, or remembered as
\* empty and pushed when the others are exhausted (shard_select_strategy.cpp:67-79), however
\* a reading ends while shards are assigned and released.
NoShardForgotten ==
    \A s \in Shards : Known(s) =>
        \/ s \in emptyShards
        \/ valid[shardOffset[s]] /\ shardOffset[s] \in ToSet(nodes)

\* As long as no info lies in the heap twice, the oldest comes first: a node is not older
\* than its parent, and every node knows its index, on which Update relies
\* (shard_offset_heap.cpp:78-91).
OldestFirst ==
    ~doubled =>
        \A i \in 0 .. Len(nodes) - 1 :
            /\ index[nodes[i + 1]] = i
            /\ i > 0 => timestamp[nodes[(i - 1) \div 2 + 1]] <= timestamp[nodes[i + 1]]
============================================================================
