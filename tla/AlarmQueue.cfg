SPECIFICATION FairSpec
CONSTANTS
    w1 = w1
    w2 = w2
    timer = timer
    unknown = unknown
    bad = bad
    Keys <- MCKeys
    Consumed <- MCConsumed
    Bad = bad
    Workers <- MCWorkers
    Batches <- MCBatches
    Limit = 2
    MaxRequests = 3
INVARIANTS
    TypeOK
    QueueBound
    RequestOrder
    PrefixHandled
PROPERTIES
    Answered
    Drained
CHECK_DEADLOCK FALSE
