SPECIFICATION Spec
CONSTANTS
    g0 = g0
    a1 = a1
    a2 = a2
    a3 = a3
    b3 = b3
    b4 = b4
    b5 = b5
    t1 = t1
    t2 = t2
    p1 = p1
    p2 = p2
    NoBlock = NoBlock
    Block <- TailBlock
    Parent <- TailParent
    Height <- TailHeight
    Checkpoint = {a1}
    Interval = 2
    Old = {a1, a2}
    Tx = {t1, t2}
    MinedIn <- MCMinedIn
    Unconfirmed = 99
    Peer = {p1, p2}
    LastOf <- MCLastOf
    MaxQueue = 2
    MaxBreaks = 1
INVARIANT HonestAccepted
CHECK_DEADLOCK FALSE
