CONSTANTS
    Transport = "connect"
    Mode = "splice"
    Cap = 1
    MaxUp = 1
    MaxDown = 3
    CanFail = TRUE
SPECIFICATION CourteousSpec
INVARIANTS
    TypeOK
    InOrder
    CleanCopyIsComplete
    CutIsNotAnEnd
PROPERTIES
    HalfCloseCrosses
    DownloadCompletes
CHECK_DEADLOCK FALSE
