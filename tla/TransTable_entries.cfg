SPECIFICATION Spec
CONSTANTS
    Hashes <- MCHashes
    HashOptions <- MCOptions
    HashDefault = 3
    HashMax = 8
    Wrap = 4
    EntriesPerMiB = 1
    BitFloor <- MCBitFloor
    Evals <- MCEvals
    Depths <- MCDepths
    Moves <- MCMoves
    Plies <- MCPlies
    MaxEpoch = 1
INVARIANT TypeOK
INVARIANT InItsSlot
INVARIANT ReadBack
INVARIANT TableFits
PROPERTY NeverWorse
