CONSTANTS
    Files = {1, 2, 3}
    Runs = {r1, r2, r3}
    Modified <- MCModified
    Moved = {}
    Checksum <- MCDistinct
    Scan <- MixedScan
    First <- MixedFirst
    Last <- MixedLast
    Parse <- MixedParse
    Net <- MixedNet
    Delta <- MixedDelta
    OneAtATime = TRUE
    Attended = TRUE
    MaxFailures = 1
    MaxCrashes = 1
SPECIFICATION Spec
CHECK_DEADLOCK FALSE
SYMMETRY Symmetric
INVARIANTS TypeOK ProcessedIsBalanced FailureIsReported
PROPERTIES ImplementsBook
