SPECIFICATION Spec
CONSTANTS
    Remote = {r1}
    Local = {l1}
    RemoteRequests <- FromTheVm
    LocalRequests <- FromATerminal
    down = down
    home = home
    tilde = tilde
    padded = padded
    Text <- FewTexts
    NoText = NoText
    Default = down
    Risky <- Buttons
    Redact <- RedactHome
    Normal <- Strip
    MaxAge = 1
    MaxRecords = 2
    WarningSeconds = 1
INVARIANTS
    TypeOK
    ApprovedByDryRun
    GatesAgree
PROPERTIES
    RerunIsAccepted
