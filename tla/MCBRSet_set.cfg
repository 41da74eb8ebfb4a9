SPECIFICATION SetSpec
CONSTANTS
    Item = {1, 2, 3, 4, 5, 6}
    Key <- MCKey
    NULL = NULL
    TableSizes <- MCSizes
    Hashes <- MCHashes
    Others <- MCOthers
INVARIANTS
    SetTypeOK
PROPERTIES
    SetKept
