CONSTANTS
    Transport = "ws"
    Mode = "splice"
    Cap = 1
    MaxUp = 1
    MaxDown = 1
    CanFail = FALSE
SPECIFICATION Spec
INVARIANT CutIsNotAnEnd
CHECK_DEADLOCK FALSE
