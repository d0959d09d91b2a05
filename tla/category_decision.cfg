CONSTANTS
    Txns = {t1}
    Keys = {k1}
    KeyOf <- OneKey
    Runs = {r1}
    Categories = {food, rent}
    Names = {food, rent}
    None = None
    Overlap = "free"
    MaxFailures = 0
    MaxCrashes = 0
SPECIFICATION Spec
CHECK_DEADLOCK FALSE
PROPERTIES DecisionIsStored
