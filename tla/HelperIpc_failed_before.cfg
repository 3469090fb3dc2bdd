SPECIFICATION Spec
CONSTANTS
    Commands = {c1}
    Launches = {h1}
    Backlog = 1
    None = None
CHECK_DEADLOCK FALSE
INVARIANTS
    FailedBeforePerforming
