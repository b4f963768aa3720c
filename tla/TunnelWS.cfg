CONSTANTS
    Transport = "ws"
    Mode = "splice"
    Cap = 1
    MaxUp = 0
    MaxDown = 4
    CanFail = TRUE
SPECIFICATION CourteousSpec
INVARIANT FinIsFaithful
PROPERTIES
    ImplementsPipe
    SessionEnds
    CutEndsAgent
CHECK_DEADLOCK FALSE
