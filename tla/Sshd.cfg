\* One session of each kind, with a child and a client that do what they like.
CONSTANTS
    MaxOut = 2
    MaxIn = 2
    Buffer = 1
SPECIFICATION Spec
INVARIANT
    OutputComplete
PROPERTIES
    SessionEndsWithChild
    CopiesEnd
    InputEnd
CHECK_DEADLOCK FALSE
