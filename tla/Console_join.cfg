\* Files opened at any time; two threads call Fatal.
CONSTANTS
    Sessions = 3
    Opens = TRUE
    Fatals = {"cpu", "dev"}
    MayFail = TRUE
    Prompt = TRUE
SPECIFICATION FairSpec
CHECK_DEADLOCK FALSE
INVARIANTS SessionsSound
PROPERTIES JoinReturns
