CONSTANTS
    Closers <- TwoClosers
    MaxWrite = 2
    MaxByte = 3
    MaxChunk = 2
    MaxRead = 2
SPECIFICATION FairSpec
INVARIANTS
    EveryByteOnce
    WritesStop
    ClosedIsUnusable
    OneEndOfStream
    CloseAlwaysReleases
PROPERTIES
    CloseReturns
    CloseWakesReader
CHECK_DEADLOCK FALSE
