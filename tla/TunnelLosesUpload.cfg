CONSTANTS
    Transport = "connect"
    Mode = "splice"
    Cap = 1
    MaxUp = 1
    MaxDown = 1
    CanFail = FALSE
SPECIFICATION Spec
INVARIANT NoLossWithoutFault
CHECK_DEADLOCK FALSE
