SPECIFICATION FairSpec
CONSTANTS
    MaxPayments = 3
    Limit = 2
    Amounts = {1, 2}
    MaxScreens = 2
    MaxTimeouts = 1
INVARIANTS
    TypeOK
    
    FailureIsFinal
PROPERTIES
    ClosedIsOver
    SendIsAnswered
CHECK_DEADLOCK FALSE
