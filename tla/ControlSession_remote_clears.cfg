SPECIFICATION Spec
CONSTANTS
    Remote = {r1}
    Local = {l1}
    WarningSeconds = 2
    RemoteRequests <- OnlyStart
    LocalRequests <- OnlyKill
PROPERTY
    RemoteCannotClearKill
