SPECIFICATION FairSpec
CONSTANTS
    Peer = {p1, p2}
    NoPeer = NoPeer
    MaxConnect = 2
    FirstTip = 3
    MaxTip = 4
    Pays <- MCPays
    Gap = 1
    Spare = 2
    Degraded = {3}
    MaxLosses = 2
INVARIANTS
    TypeOK
    ScanComplete
PROPERTIES
    CatchesUp
    FilterComesBack
CHECK_DEADLOCK FALSE
