CONSTANTS
    Txns = {t1, t2}
    Keys = {k1}
    KeyOf <- OneKey
    Runs = {r1, r2}
    Categories = {food}
    Names = {food}
    None = None
    Overlap = "free"
    MaxFailures = 1
    MaxCrashes = 1
SPECIFICATION Spec
CHECK_DEADLOCK FALSE
SYMMETRY Symmetric
INVARIANTS TypeOK ConfirmedIsLearned
PROPERTIES CategorisedStays ConfirmationStands
