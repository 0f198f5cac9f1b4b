SPECIFICATION FairCreationSpec
CONSTANTS
    p1 = p1
    p2 = p2
    p3 = p3
    Procs <- TwoProcs
    Keepers <- MCKeepers
    NTables = 2
    Lookalike = TRUE
    MaxKills = 0
    MaxDrops = 0
PROPERTY MissingIsCreated
CHECK_DEADLOCK FALSE
