CONSTANTS
    Transport = "connect"
    Mode = "splice"
    Cap = 1
    MaxUp = 0
    MaxDown = 4
    CanFail = FALSE
SPECIFICATION CourteousSpec
PROPERTY CloseReleases
CHECK_DEADLOCK FALSE
