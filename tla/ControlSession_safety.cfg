SPECIFICATION FairSpec
CONSTANTS
    Remote = {r1}
    Local = {l1}
    WarningSeconds = 2
    RemoteRequests <- AllRequests
    LocalRequests <- AllRequests
INVARIANTS
    TypeOK
    FileShowsTheSession
PROPERTIES
    KillHolds
    KillBlocks
    ActsAsGranted
    StopIsFinal
    WarningEnds
