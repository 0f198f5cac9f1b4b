SPECIFICATION Spec
CONSTANTS
    db1 = db1
    db2 = db2
    t1 = t1
    t2 = t2
    ip1 = ip1
    Dbs <- MCDbs
    Modes <- MCModes
    Alarms <- MCAlarms
    Step = 2
    MaxAlarms = 4
    MaxFailures = 2
INVARIANTS
    TypeOK
    BoundedUnlisted
PROPERTY DeliverySpec
CHECK_DEADLOCK FALSE
