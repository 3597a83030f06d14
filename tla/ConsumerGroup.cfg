CONSTANTS
    s1 = s1
    s2 = s2
    Shards <- TwoShards
    FirstShards <- OneShard
    NoShard = NoShard
    MaxBeats = 3
    MaxFaults = 1
SPECIFICATION Spec

INVARIANTS TypeOK HeldIsValid HeldHasReader ReadersInPlan
