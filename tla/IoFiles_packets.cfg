\* Every packet the handlers tell apart, with failures of the host at any point.
SPECIFICATION Spec
CONSTANTS
    Paths = {"save", "udata"}
    Disc <- MCDisc
    Handles = {h1, h2}
    Slots = {1, 2}
    MaxSize = 2
    ClusterSize = 2
    DvdInput = "xiso"
    Extents <- MCExtents
    OpenRequests <- MCOpens
    RawDirents <- MCRaw
    HostFaults = TRUE
    Sharing = FALSE
    Stray = TRUE
SYMMETRY MCSymmetry
CONSTRAINT MCWhileIntact
INVARIANTS HandleMapSound
PROPERTIES  ImplementsStore
