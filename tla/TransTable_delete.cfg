SPECIFICATION Spec
CONSTANTS
    Hashes <- FewHashes
    HashOptions <- DefaultOnly
    HashDefault = 3
    HashMax = 8
    Wrap = 4
    EntriesPerMiB = 1
    BitFloor <- MCBitFloor
    Evals <- FewEvals
    Depths <- TwoDepths
    Moves <- MCMoves
    Plies <- MCPlies
    MaxEpoch = 1
INVARIANT OldGivesWay
