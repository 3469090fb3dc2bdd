SPECIFICATION Spec
CONSTANTS
    Remote = {r1}
    Local = {l1}
    WarningSeconds = 2
    RemoteRequests <- OnlyKill
    LocalRequests <- OnlyStart
INVARIANT
    KilledStaysDown
