SPECIFICATION Spec
CONSTANTS
    MaxDepth = 4
    Values <- MateValues
    RootMoves <- MCMoves
    Soft = 10
    Hard = 10
    NodeLimit = FALSE
    MateDepth = 2
    RootPly = 2
    Times <- MCTimes
INVARIANT StopsAtMate
CHECK_DEADLOCK FALSE
