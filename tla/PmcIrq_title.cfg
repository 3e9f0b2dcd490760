\* The CPU and the graph thread, and time that goes on.
CONSTANTS
    Order <- TwoOrder
    Raisers <- TwoRaisers
    Periodic = {"pcrtc"}
    Writes = {"ack", "enable", "software", "mode", "engines"}
SPECIFICATION FairPmcSpec
INVARIANTS RegistersFollow
PROPERTIES LostIsFound
