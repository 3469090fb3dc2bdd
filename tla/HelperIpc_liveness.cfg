SPECIFICATION FairSpec
CONSTANTS
    Commands = {c1, c2}
    Launches = {h1}
    Backlog = 2
    None = None
CHECK_DEADLOCK FALSE
PROPERTIES
    FramesAreServed
