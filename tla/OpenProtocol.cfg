CONSTANTS
    Name <- Names
    Allowed <- OnAllowlist
    Up <- Reachable
SPECIFICATION FairSpec
INVARIANTS
    TruthfulAnswer
    OpenMeansConnected
    FailedDialIsSeen
    NoUpstreamLeak
PROPERTIES
    CallReturns
    ClientGoneIsNoticed
CHECK_DEADLOCK FALSE
