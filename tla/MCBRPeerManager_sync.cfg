CONSTANTS
    Peer = {"low", "high"}
    NoPeer = "nobody"
    Tx = {"t"}
    Reported <- Ahead
    Unfit = {}
    Lag = 0
    MaxConnect = 2
    MaxFailures = 2
    MaxHeight = 2
    MaxThreads = 2
    MaxPongs = 2
    MaxCalls = 2
    MayRescan = TRUE
SPECIFICATION Spec
INVARIANTS
    DownloadPeerHeld
    SyncHasDriver
PROPERTIES
    PublicationKept
