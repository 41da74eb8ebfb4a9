CONSTANTS
    Tx <- LedgerTx
    Foreign = "foreign"
    Inputs <- LedgerInputs
    Outputs <- FamilyOutputs
    Postdated = {"spend"}
    LockHeight <- LedgerLock
    TX_UNCONFIRMED = 9
    GapLimit <- MCGapLimit
    MaxTip = 2
    MaxBlockTx = 2
    MaxChain = 5
SPECIFICATION Spec
INVARIANTS
    SortedByHeight
    NoDangling
    FlaggedAreUnconfirmed
    DoubleSpendsExcluded
    BalanceIsUnspent
    SavedMatches
    HeightsFollowChain
CHECK_DEADLOCK FALSE
