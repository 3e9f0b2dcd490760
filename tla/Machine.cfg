\* Each title uses one part of the machine.
CONSTANTS
    Second = 4
    Freqs = {2, 4}
    AlarmSecs = {1}
    Frame = 2
    Ports = {0, 1}
    Causes = {"SF", "RD"}
    Lows = {1, 3}
    Highs = {0, 2}
    AlarmPeriods = {3, 4}
    Alarms = {0, 5}
    Vblank = 3
    MaxTime = 8
    MaxLate = 1
    Uses <- MCUses
    Cells = 2
    Ring = 3
    Bytes = {0, 1}
    Counts = {2, 4}
    SmbusUses <- MCSmbusUses
    NumPlanes = 2
    NumBits = 1
    Addresses = {0, 1}
    Colors = {0, 1}
    Titles <- MCTitles
    Dwords = 2
    Units = 2
    UnitSize = 4
    Contents = {0, 1}
    WindowTitles <- MCWindowTitles
    Images <- MCImages
    Names <- MCNames
    Paths <- MCPaths
SPECIFICATION Spec
INVARIANTS
    DeadlineCovers
    TimeIsKept
    LinesFollow
    StoredAsMeant
    VgaFollows
    SearchFinds
CHECK_DEADLOCK FALSE
