CONSTANTS
    Peer = {"low", "high"}
    NoPeer = "nobody"
    Tx = {"t"}
    Reported <- Equal
    Unfit = {}
    Lag = 0
    MaxConnect = 2
    MaxFailures = 2
    MaxHeight = 2
    MaxThreads = 2
    MaxPongs = 1
    MaxCalls = 1
    MayRescan = FALSE
SPECIFICATION FairSpec
PROPERTIES
    StalledSyncIsReplaced
    OfferEnds
