CONSTANTS
    TX_FEE_PER_KB = 1000
    TX_OUTPUT_SIZE = 34
    TX_INPUT_SIZE = 148
    TX_MAX_SIZE = 540
    Coin <- MCCoin
    Rate <- MCRate
    Wanted <- MCWanted
    OpsFee = 550
    MaxCoins = 4
    MaxChanges = 1
SPECIFICATION Spec
CHECK_DEADLOCK FALSE
INVARIANTS
    FeeIsRight
    MaxIsSendable
PROPERTIES
    RefusedOnlyIfShort
