SPECIFICATION Spec
CONSTANTS
    start = start
    other = other
    mated = mated
    StartPos = start
    Commands <- GoStop
    Positions <- OpenPositions
    NoMoves <- None
    Limits <- OnlyPlain
    DefaultDepth = 3
INVARIANT NotTerminatedOwing
