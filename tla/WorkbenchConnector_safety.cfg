SPECIFICATION FairSpec
CONSTANTS
    Starts = {s1, s2, s3}
    Hosts = {loopback}
    None = None
INVARIANTS
    TypeOK
    NothingLeftBehind
PROPERTIES
    LaunchedForHelper
    StopEndsAll
