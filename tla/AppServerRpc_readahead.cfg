SPECIFICATION FairSpec
CONSTANTS
    Transports = {"stdio"}
    Goals = {"request"}
    Timeout = 2
    Duration = 1
    MaxEvents = 1
    MaxMessages = 3
    None = None
PROPERTIES OnlyTheUnansweredIsGivenUp
CHECK_DEADLOCK FALSE
