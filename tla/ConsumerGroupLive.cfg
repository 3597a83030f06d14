CONSTANTS
    s1 = s1
    s2 = s2
    Shards <- OneShard
    FirstShards <- OneShard
    NoShard = NoShard
    MaxBeats = 3
    MaxFaults = 2
SPECIFICATION FairSpec
PROPERTIES RejoinWhenAssigned
