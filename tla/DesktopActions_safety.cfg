SPECIFICATION FairSpec
CONSTANTS
    App = Safari
    Mail = Mail
    Mirror = Mirror
    p1 = p1
    p2 = p2
    p3 = p3
    Apps = {Safari, Mail, Mirror}
    Sensitive = {Mail}
    Browsers = {Safari}
    Phone = Mirror
    Pids = {p1, p2, p3}
    Processes <- OneEach
    None = None
    MaxMoves = 1
    Commands <- AllPlans
    MaxCommands = 1
CHECK_DEADLOCK FALSE
INVARIANTS
    TypeOK
    HelperHasTheLastWord
PROPERTIES
    SensitiveSpared
    PhoneGetsItsInput
    AddressedSpared
    DoneOnce
    CommandEnds
