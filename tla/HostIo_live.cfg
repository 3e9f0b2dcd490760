SPECIFICATION FairHostSpec
CONSTANTS
    Paths = {"save"}
    Disc <- MCDisc
    Handles = {h1}
    Slots = {1, 2}
    MaxSize = 1
    ClusterSize = 1
    DvdInput = "xbe"
    Extents <- MCExtents
    OpenRequests <- MCNoOpens
    RawDirents <- MCNoRaw
    HostFaults = FALSE
    Sharing = FALSE
    Stray = FALSE
    Clients = {t1, t2}
    NoRequest = NoRequest
CHECK_DEADLOCK FALSE
PROPERTIES EveryPacketAnswered
