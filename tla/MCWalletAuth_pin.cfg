SPECIFICATION Spec
CONSTANTS
    Pin = {pa, pb, pc, pd}
    NoPin = NoPin
    Phrase = {w1, w2}
    NoPhrase = NoPhrase
    MaxFailures = 3
    Free = 2
    Base = 2
    MaxTime = 3
    MaxFaults = 2
INVARIANTS
    AttemptsCounted
    SeedBehindKey
    PhraseKept
PROPERTIES
    LockoutHolds
CHECK_DEADLOCK FALSE
