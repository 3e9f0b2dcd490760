\* Eight titles, from one that stops the puller at times to one that disables the engine.
CONSTANTS
    Games <- AllGames
    Subchannels = {"s0", "s1"}
    Objects <- TheObjects
    CacheSize = 2
    Inactive = Inactive
SPECIFICATION FairSpec
CHECK_DEADLOCK FALSE
INVARIANTS InOrder RegistersSound NoLostDoorbell FaultHasCause
PROPERTIES AllDelivered StopEnds
