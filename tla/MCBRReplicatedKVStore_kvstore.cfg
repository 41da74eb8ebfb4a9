SPECIFICATION FairSpec
CONSTANTS
    Keys = {k1, k2}
    MaxEdits = 3
    MaxFaults = 1
INVARIANTS
    RecordedMeansEqual
PROPERTIES
    EditKept
    Converges
