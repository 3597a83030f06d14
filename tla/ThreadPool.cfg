SPECIFICATION FairSpec
CONSTANTS
    w1 = w1
    w2 = w2
    c1 = c1
    c2 = c2
    Closer = Closer
    NoThread = NoThread
    Workers <- TwoWorkers
    Clients <- TwoClients
    QueueLimit = 2
    MaxSubmits = 4
INVARIANTS
    TypeOK
    WorkHasWorker
    ShutdownDrains
PROPERTIES
    AcceptedRuns
CHECK_DEADLOCK FALSE
