SPECIFICATION Spec
CONSTANTS
    s1 = s1
    s2 = s2
    Shards <- TwoShards
    MaxRetry = 2
    MaxSequence = 2
    MaxSession = 2
    LastRecord <- Records
    LastSession <- Sessions
    FirstShards <- SecondShard
INVARIANTS
    TypeOK
    MetaFound
    PoppedAcked
    OneReaderAtLeastOnce
PROPERTIES
    ReleaseCommitsAll
    CommittedMonotonic
