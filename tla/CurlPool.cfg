SPECIFICATION HandlesFairSpec
CONSTANTS
    t1 = t1
    t2 = t2
    t3 = t3
    t4 = t4
    NoHandle = NoHandle
    Requesters <- FourThreads
    MaxPoolSize = 3
INVARIANTS
    HandlesTypeOK
    HandlesConserved
    NoStrandedHandle
PROPERTIES
    RequestServed
CHECK_DEADLOCK FALSE
