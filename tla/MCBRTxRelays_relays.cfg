SPECIFICATION RelaysSpec
CONSTANTS
    pay = pay
    spend = spend
    Tx <- MCTx
    Foreign = Foreign
    Inputs <- MCInputs
    Outputs <- MCOutputs
    Postdated = {}
    LockHeight <- MCLock
    TX_UNCONFIRMED = 9
    GapLimit <- MCGapLimit
    MaxTip = 1
    MaxBlockTx = 1
    MaxChain = 3
    Peer = {p1, p2}
    NoPeer = NoPeer
    MaxConnect = 2
    Stored <- MCStored
    MaxEvents = 3
INVARIANTS
    RelaysTypeOK
PROPERTIES
    CountedAreKept
SYMMETRY Peers
CHECK_DEADLOCK FALSE
