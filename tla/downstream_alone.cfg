CONSTANTS
    Txns = {1, 2, 3}
    Costs = {11, 12}
    None = None
    Amount <- MCAmount
    CategoryOf <- OneCategory
    Expected <- MCExpected
    SafetyBuffer = 4800
    Instruments = {"etf", "term_deposit"}
    Runs = {r1, r2}
    Statements = {1, 2}
    EndDay <- MCEndDay
    MonthLength <- MCMonthLength
    StatementOf <- MCStatementOf
    Surplus <- MCSurplus
    Closing <- MCClosing
    Answers <- MCAnswers
    OneAtATime = TRUE
    Attended = TRUE
    MaxInterruptions = 1
    MaxLosses = 0
SPECIFICATION Spec
CHECK_DEADLOCK FALSE
SYMMETRY Symmetric
INVARIANTS PendingHasCarrier OneStory MissingIsUnpaid ClosestIsShown MailedOnce ProposalCovered
    AllocationAddsUp
PROPERTIES ImplementsReportBook
