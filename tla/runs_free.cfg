CONSTANTS
    Threads = {t1}
    Requests = {q1, q2, q3}
    Client = "free"
    MaxFailures = 1
    MaxOutages = 0
    MaxCrashes = 0
SPECIFICATION FairSpec
CHECK_DEADLOCK FALSE
INVARIANTS RunningIsBacked
PROPERTIES RunningSettles
