\* Titles that answer every switch, write INTR when they like, or disable the engine.
CONSTANTS
    Channels = {c1, c2}
    NoChannel = NoChannel
    Capacity = 1
    Titles = {{}, {"fails"}, {"stray", "fails"}, {"stray", "disables", "fails"}}
SPECIFICATION FairSpec
CHECK_DEADLOCK FALSE
INVARIANTS NoLostWork SteadyRightChannel WaitHasCause
PROPERTIES SwitchResumes StopsUnlessTrapped
