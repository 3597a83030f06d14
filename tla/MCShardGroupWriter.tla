------------------------ MODULE MCShardGroupWriter ------------------------
(* Instances of ShardGroupWriter for TLC: the first producer writes        *)
(* asynchronously and flushes, the second comes and goes and waits for     *)
(* its writes.                                                             *)
EXTENDS ShardGroupWriter

CONSTANTS s1, s2, p1, p2, t1, t2

TwoShards == {s1, s2}
TwoProducers == {p1, p2}
TwoThreads == {t1, t2}
OneProducerEach == [t \in Threads |-> IF t = t1 THEN p1 ELSE p2]
OneKindEach == [t \in Threads |-> IF t = t1 THEN {"WriteAsync", "Flush"} ELSE {"Write"}]
OneShard == {s1}
OneTransient == {p2}
============================================================================
