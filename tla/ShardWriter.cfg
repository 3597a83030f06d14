SPECIFICATION Spec
CONSTANTS
    s1 = s1
    p1 = p1
    p2 = p2
    w1 = w1
    NoThread = NoThread
    Shards <- OneShard
    Producers <- TwoProducers
    Workers <- OneWorker
    WorkerOf <- AllOnOneWorker
    MaxPackRecords = 2
    ReadyLimit = 1
    QueueLimit = 1
    RetryTimes = 1
    MaxCalls = 2
INVARIANTS
    TypeOK
    PipelineInOrder
    TaskCountExact
    SleeperHasTask
PROPERTIES
    FlushComplete
SYMMETRY Symmetry
