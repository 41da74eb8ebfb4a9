SPECIFICATION Spec
CONSTANTS
    g0 = g0
    a1 = a1
    a2 = a2
    a3 = a3
    b3 = b3
    b4 = b4
    b5 = b5
    t1 = t1
    t2 = t2
    p1 = p1
    p2 = p2
    NoBlock = NoBlock
    Block <- MCBlock
    Parent <- MCParent
    Height <- MCHeight
    Checkpoint = {g0, a2}
    Interval = 2
    Old = {a1, a2}
    Tx = {t1, t2}
    MinedIn <- MCMinedIn
    Unconfirmed = 99
    Peer = {p1, p2}
    LastOf <- MCLastOf
    MaxQueue = 1
    MaxBreaks = 1
SYMMETRY Peers
INVARIANTS
    TypeOK
    LastBlockRooted
    HonestAccepted
    MinedHaveHeights
PROPERTIES
    ReorgUnconfirms
CHECK_DEADLOCK FALSE
