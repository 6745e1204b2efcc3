SPECIFICATION FairSpec
CONSTANTS
    Game <- MCGame
    Hash <- MCHash
    Asks <- MCAsks
    MaxCalls = 2
    Slots = 8
    quiet_reduction <- MCQuiet
    capture_reduction <- MCCapture
    contempt = 10
    TbEnable = TRUE
INVARIANT TypeOK
INVARIANT AnswerHolds
INVARIANT EntriesHold
INVARIANT LineBrings
INVARIANT BoardRestored
PROPERTY Returns
CHECK_DEADLOCK FALSE
