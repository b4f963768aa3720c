CONSTANTS
    Transport = "connect"
    Mode = "proxy"
    Cap = 1
    MaxUp = 1
    MaxDown = 3
    CanFail = TRUE
SPECIFICATION CourteousSpec
PROPERTIES
    ImplementsPipe
    CutEndsClient
    CloseReleases
CHECK_DEADLOCK FALSE
