-------------------------- MODULE MCConsumerGroup --------------------------
(* Instances of ConsumerGroup for TLC. *)
EXTENDS ConsumerGroup

CONSTANTS s1, s2

OneShard == {s1}
TwoShards == {s1, s2}
============================================================================
