SPECIFICATION FairSpec
CONSTANTS
    main = main
    relay = relay
    t1 = t1
    t2 = t2
    ip1 = ip1
    ip2 = ip2
    Dbs <- MCDbs
    Relay <- MCRelay
    Modes <- CounterMode
    Alarms <- MCFewAlarms
    Step = 2
    CacheNum = 1
    MaxAlarms = 3
    MaxFailures = 1
PROPERTY FetchReturns
CHECK_DEADLOCK FALSE
