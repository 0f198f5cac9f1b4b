SPECIFICATION FairSpec
CONSTANTS
    m1 = m1
    m2 = m2
    m3 = m3
    n1 = n1
    n2 = n2
    Hashes = {m1, m2, m3}
    Nodes <- MCNodes
    Packets <- MCPackets
    Traffic <- MCTraffic
    Modes = {TRUE, FALSE}
    Step = 2
    CacheNum = 2
    MaxPosts = 3
    MaxQueue = 1
    MaxFailures = 1
    MaxRaises = 2
INVARIANTS
    TypeOK
    DumpsBounded
    ReceptionsKept
PROPERTY SentDumped
CHECK_DEADLOCK FALSE
