SPECIFICATION Spec
CONSTANTS
    s1 = s1
    s2 = s2
    i1 = i1
    i2 = i2
    i3 = i3
    i4 = i4
    NoInfo = NoInfo
    NoShard = NoShard
    Shards <- TwoShards
    Infos <- FourInfos
    MaxTime = 1
    MaxNodes = 4
SYMMETRY Symmetric
INVARIANTS
    TypeOK
    NoShardForgotten
    OldestFirst
