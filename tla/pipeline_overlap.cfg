CONSTANTS
    Files = {1, 2, 3}
    Runs = {r1, r2}
    Modified <- MCModified
    Moved = {1}
    Checksum <- MCDistinct
    Scan <- BareScan
    First <- BareFirst
    Last <- BareLast
    Parse <- BareParse
    Net <- BareNet
    Delta <- BareDelta
    OneAtATime = FALSE
    Attended = FALSE
    MaxFailures = 0
    MaxCrashes = 0
SPECIFICATION FairSpec
CHECK_DEADLOCK FALSE
INVARIANTS CursorNeverSkips ProcessedHasRows
PROPERTIES NoneIsStranded
