SPECIFICATION FairSpec
CONSTANTS
    s1 = s1
    p1 = p1
    p2 = p2
    w1 = w1
    NoThread = NoThread
    Shards <- OneShard
    Producers <- TwoProducers
    Workers <- OneWorker
    WorkerOf <- AllOnOneWorker
    MaxPackRecords = 2
    ReadyLimit = 1
    QueueLimit = 1
    RetryTimes = 2
    MaxCalls = 1
PROPERTIES
    FlushReturns
    ReadyIsAnswered
    DeliverySpec
