SPECIFICATION Spec
CONSTANTS
    Moves <- MCMoves
    Type <- MCType
    Slot <- MCSlot
    Plies <- MCPlies
    Depths <- MCDepths
    SeeValues <- MCSeeValues
    MaxHistory = 170000
INVARIANT TypeOK
INVARIANT KillersDistinct
INVARIANT KillersQuiet
INVARIANT OrderBands
PROPERTY QueueSpec
