CONSTANTS
    N = 4
    Amount <- MCAmount
    Rest <- MCRest
    Balance <- MCBalance
    Total = 70001
    MaxMisprints = 2
SPECIFICATION Spec
CHECK_DEADLOCK FALSE
INVARIANTS TypeOK OrderKept NothingFromSummary ConsistentIsGapless ReadAsPrinted SoundPasses
