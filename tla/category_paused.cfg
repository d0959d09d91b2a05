CONSTANTS
    Txns = {t1, t2}
    Keys = {k1}
    KeyOf <- OneKey
    Runs = {r1, r2}
    Categories = {food}
    Names = {food, other}
    None = None
    Overlap = "paused"
    MaxFailures = 0
    MaxCrashes = 0
SPECIFICATION FairSpec
CHECK_DEADLOCK FALSE
INVARIANTS AutoIsConfident
PROPERTIES SelectedIsJudged
