SPECIFICATION AccSpec
CONSTANTS
    Fens <- MCFens
INVARIANT TypeOK
INVARIANT CountsTracked
INVARIANT HashTracked
INVARIANT RightsHold
INVARIANT MovesAreLegal
INVARIANT ChecksForeseen
INVARIANT AccumulatorTracked
INVARIANT DrawsAreReal
INVARIANT ExchangeIsBest
INVARIANT ThresholdAgrees
PROPERTY UnmakeRestores
