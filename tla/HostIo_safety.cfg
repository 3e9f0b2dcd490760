\* Two guest threads, each with a file of its own or with raw transfers.
SPECIFICATION HostSpec
CONSTANTS
    Paths = {"save", "udata"}
    Disc <- MCDisc
    Handles = {h1, h2}
    Slots = {1, 2}
    MaxSize = 1
    ClusterSize = 1
    DvdInput = "xbe"
    Extents <- MCNoExtents
    OpenRequests <- MCOpens
    RawDirents <- MCNoRaw
    HostFaults = FALSE
    Sharing = FALSE
    Stray = FALSE
    Clients = {t1, t2}
    NoRequest = NoRequest
SYMMETRY MCSymmetry
INVARIANTS NoLostWakeup AcceptedIsQueued DirentBackedByHost
PROPERTIES ImplementsService
CHECK_DEADLOCK FALSE
