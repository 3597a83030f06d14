CONSTANTS
    Fetchers = {f1, f2}
    FetchNum = 2
    QueueLimit = 1
    Starts <- MCStarts
    MaxRecord = 3
    MaxErrors = 1
    MaxRefusals = 1
SPECIFICATION FairSpec
INVARIANTS
    TypeOK
    FetchedInTurn
    NoRecordSkipped
PROPERTIES
    DeliveredUnlessRefused
CHECK_DEADLOCK FALSE
