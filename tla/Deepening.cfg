SPECIFICATION FairSpec
CONSTANTS
    MaxDepth = 4
    Values <- MCValues
    RootMoves <- MCMoves
    Soft <- MCSoft
    Hard <- MCHard
    NodeLimit = FALSE
    MateDepth = 15
    RootPly = 0
    Times <- MCTimes
INVARIANT TypeOK
INVARIANT ScoreIsExact
PROPERTY NoIterationPastTime
PROPERTY FirstIterationKept
PROPERTY Terminates
CHECK_DEADLOCK FALSE
