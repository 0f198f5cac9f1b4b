SPECIFICATION Spec
CONSTANTS
    ip1 = ip1
    ip2 = ip2
    Nodes <- MCNodes
    MaxValue = 4
    MaxRows = 3
    MaxUnseen = 1
SYMMETRY MCSymmetry
INVARIANTS
    TypeOK
    SumsRight
    ReportRight
CHECK_DEADLOCK FALSE
