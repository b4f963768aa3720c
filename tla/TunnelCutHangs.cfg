CONSTANTS
    Transport = "connect"
    Mode = "splice"
    Cap = 1
    MaxUp = 1
    MaxDown = 1
    CanFail = TRUE
SPECIFICATION CourteousSpec
PROPERTY CutEndsClient
CHECK_DEADLOCK FALSE
