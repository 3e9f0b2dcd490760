CONSTANTS
    Paths <- APaths
    Dirs <- ADirs
    TotClusters = 5
    Padding = 1
    PerStream = 2
    ClusterSize = 2
    Sizes <- ASizes
    MaxStreams = 3
    MaxCount = 9
    Fat16 = FALSE
    Uses <- AUses
SPECIFICATION Spec
INVARIANTS ListingAgrees PartitionSound TypesAgree NeverFalselyFull
CHECK_DEADLOCK FALSE
