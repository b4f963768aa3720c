\* A shell whose client is gone: nothing tells it.
CONSTANTS
    MaxOut = 1
    MaxIn = 1
    Buffer = 1
SPECIFICATION Spec
PROPERTY
    DroppedConnectionKills
CHECK_DEADLOCK FALSE
