SPECIFICATION Spec
CONSTANTS
    s1 = s1
    s2 = s2
    Shards <- OneShard
    MaxRetry = 2
    MaxSequence = 2
    MaxSession = 2
    LastRecord <- Records
    LastSession <- Sessions
    FirstShards <- OneShard
INVARIANTS
    AtLeastOnce
