-------------------- MODULE MCShardReaderSelectStrategy --------------------
(* Instances of ShardReaderSelectStrategy for TLC. *)
EXTENDS ShardReaderSelectStrategy, TLC

CONSTANTS s1, s2, i1, i2, i3, i4

TwoShards == {s1, s2}
FourInfos == {i1, i2, i3, i4}
Symmetric == Permutations(TwoShards) \cup Permutations(FourInfos)
============================================================================
