CONSTANTS
    Txns = {}
    Costs = {}
    None = None
    Amount <- MCAmount
    CategoryOf <- OneCategory
    Expected <- MCExpected
    SafetyBuffer = 4800
    Instruments = {"etf", "term_deposit"}
    Runs = {r1, r2}
    Statements = {1}
    EndDay <- MCEndDay
    MonthLength <- MCMonthLength
    StatementOf <- MCStatementOf
    Surplus <- MCSurplus
    Closing <- MCClosing
    Answers <- MCAnswers
    OneAtATime = FALSE
    Attended = FALSE
    MaxInterruptions = 0
    MaxLosses = 1
SPECIFICATION FairSpec
CHECK_DEADLOCK FALSE
INVARIANTS SentWasMailed ShownIsAttached
PROPERTIES PendingIsSettled
