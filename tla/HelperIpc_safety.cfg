SPECIFICATION Spec
CONSTANTS
    Commands = {c1, c2}
    Launches = {h1, h2}
    Backlog = 1
    None = None
SYMMETRY Alike
CHECK_DEADLOCK FALSE
INVARIANTS
    TypeOK
    SoleHelperReachable
PROPERTIES
    ActuationIsAudited
