SPECIFICATION FairSpec
CONSTANTS
    t1 = t1
    t2 = t2
    t3 = t3
    Threads <- MCThreads
    MaxQueries = 5
    MaxErrors = 2
INVARIANTS
    TypeOK
    OneStatement
    AloneAnswered
PROPERTY Returns
CHECK_DEADLOCK FALSE
