SPECIFICATION AccSpec
CONSTANTS
    Fens <- EpFens
INVARIANT EnPassentForeseen
