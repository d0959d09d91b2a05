CONSTANTS
    Threads = {t1, t2}
    Requests = {q1, q2, q3, q4, q5}
    Client = "attentive"
    MaxFailures = 1
    MaxOutages = 1
    MaxCrashes = 1
SPECIFICATION Spec
CHECK_DEADLOCK FALSE
SYMMETRY Symmetric
INVARIANTS DeletedStaysDeleted SettledIsTruthful
PROPERTIES NoDeleteUnderTask ImplementsRecord
