SPECIFICATION FairCreationSpec
CONSTANTS
    p1 = p1
    p2 = p2
    p3 = p3
    Procs <- MCProcs
    Keepers <- MCKeepers
    NTables = 3
    Lookalike = FALSE
    MaxKills = 1
    MaxDrops = 2
INVARIANTS
    CreationTypeOK
    NoTableForgotten
PROPERTIES
    Completed
    AllConnected
CHECK_DEADLOCK FALSE
