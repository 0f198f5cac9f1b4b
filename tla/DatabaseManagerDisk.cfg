SPECIFICATION Spec
CONSTANTS
    old = old
    new = new
    Dbs <- MCDbs
    Yesterday <- MCYesterday
    MaxCreates = 2
    MaxRemovals = 0
    MaxClicks = 2
    MaxKills = 0
    MaxCrashes = 0
PROPERTY CleanedWhenFull
