------------------------- MODULE MCOffsetManager -------------------------
(* Instances of OffsetManager for TLC. *)
EXTENDS OffsetManager

CONSTANTS s1, s2

OneShard == {s1}
TwoShards == {s1, s2}

\* The first shard comes from a split: MetaData and a plan may each have its reader made.
SecondShard == {s2}

\* The first shard is read to the bounds, the second has one record and one session.
FullAndOne(bound) == [s \in Shards |-> IF s = s1 THEN bound ELSE 1]
Records == FullAndOne(MaxSequence)
Sessions == FullAndOne(MaxSession)
============================================================================
