SPECIFICATION FairSupervisionSpec
CONSTANTS
    Types <- MCTypes
    Workers = 1
    restart_dashboard_interval = 1
    MaxFaults = 1
    MaxRestarts = 7
INVARIANTS
    SupervisionTypeOK
    RestartsEarned
    DashFresh
PROPERTIES
    Settles
