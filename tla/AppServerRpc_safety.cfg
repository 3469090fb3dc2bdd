SPECIFICATION FairSpec
CONSTANTS
    Transports = {"stdio", "proxy", "websocket"}
    Goals = {"probe", "subscribe"}
    Timeout = 2
    Duration = 1
    MaxEvents = 2
    MaxMessages = 3
    None = None
CHECK_DEADLOCK FALSE
INVARIANTS
    TypeOK
    SuccessIsGranted
    EventsFollowTheAnswer
PROPERTIES
    AnsweredIsNotGivenUp
    ServerIsReaped
    SessionEnds
