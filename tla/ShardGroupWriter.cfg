SPECIFICATION Spec
CONSTANTS
    s1 = s1
    s2 = s2
    p1 = p1
    p2 = p2
    t1 = t1
    t2 = t2
    NoThread = NoThread
    Shards <- TwoShards
    Producers <- TwoProducers
    Threads <- TwoThreads
    ProducerOf <- OneProducerEach
    Calls <- OneKindEach
    Transient <- OneTransient
    InitialShards <- OneShard
    MaxReshards = 1
    MaxActive = 2
INVARIANTS
    TypeOK
    WritersFollowMeta
    NoWriterForgotten
