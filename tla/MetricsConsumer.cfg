SPECIFICATION FairSpec
CONSTANTS
    main = main
    relay = relay
    t1 = t1
    t2 = t2
    ip1 = ip1
    ip2 = ip2
    Dbs <- MCDbs
    Relay <- MCRelay
    Modes <- MCModes
    Alarms <- MCAlarms
    Step = 2
    CacheNum = 1
    MaxAlarms = 4
    MaxFailures = 2
INVARIANTS
    TypeOK
    BoundedLoss
    RowsListed
    BoundedRepeats
PROPERTIES
    DeliverySpec
    CacheKept
    Drained
CHECK_DEADLOCK FALSE
