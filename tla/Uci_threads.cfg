SPECIFICATION FairSpec
CONSTANTS
    start = start
    other = other
    mated = mated
    StartPos = start
    Commands <- Everything
    Positions <- MCPositions
    NoMoves <- MatedOnly
    Limits <- AllLimits
    DefaultDepth = 3
INVARIANT TypeOK
INVARIANT Exclusive
INVARIANT OneAnswerPerGo
INVARIANT EmptyOnlyIfStopped
PROPERTY SearchKeepsStop
PROPERTY ContractSpec
PROPERTY ContractFinishes
PROPERTY MainReturns
