SPECIFICATION Spec
CONSTANTS
    Runs = {r1, r2}
    Statements <- MCStatements
    First <- MCFirst
    Last <- MCLast
    Txns <- MCTxns
    StatementOf <- MCStatementOf
    Day <- MCDay
    Amount <- MCAmount
    Earlier = {1, 2}
    Categories = {food}
    MonthStarts <- MCMonthStarts
    None = None
INVARIANTS
    TypeOK
    EveryRowCounts
    RollingFollowsWeeks
    ComparisonIsLastMonth
SYMMETRY MCSymmetry
CHECK_DEADLOCK FALSE
