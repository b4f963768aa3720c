\* A Ctrl-C while a local application is idle.
CONSTANT Conn = {c1}
SPECIFICATION Spec
PROPERTY
    CtrlCEnds
CHECK_DEADLOCK FALSE
