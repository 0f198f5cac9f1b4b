SPECIFICATION FairSpec
CONSTANTS
    old = old
    new = new
    Dbs <- MCDbs
    Yesterday <- MCYesterday
    MaxCreates = 2
    MaxRemovals = 1
    MaxClicks = 1
    MaxKills = 1
    MaxCrashes = 1
INVARIANTS
    TypeOK
PROPERTIES
    ReportedOnce
    DropsEarned
    ReserveRespected
    ExistingListed
