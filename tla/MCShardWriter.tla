-------------------------- MODULE MCShardWriter --------------------------
(* Instances of ShardWriter for TLC. *)
EXTENDS ShardWriterProps

CONSTANTS s1, p1, p2, w1

OneShard == {s1}
TwoProducers == {p1, p2}
OneWorker == {w1}
AllOnOneWorker == [s \in Shards |-> w1]

Symmetry == Permutations(TwoProducers)
============================================================================
