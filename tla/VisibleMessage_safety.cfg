SPECIFICATION Spec
CONSTANTS
    a = a
    b = b
    Plans = Plans
    Notes = Notes
    Threads = {a, b}
    Titles = {Plans, Notes}
    Title <- Titled
    Hidden = Hidden
    Current = Current
    Wait = 2
    MaxMoves = 2
    None = None
CHECK_DEADLOCK FALSE
INVARIANTS
    TypeOK
    ReportTellsSent
    VerdictIsEarned
PROPERTIES
    MessageReachesTarget
    SelectsTheRowFound
    DryRunOnlyLooks
    PicturesShowCodex
