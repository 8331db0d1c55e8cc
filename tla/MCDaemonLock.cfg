SPECIFICATION FairSpec
CONSTANTS
    Procs = {d1, d2, d3}
    Dead = Dead
    Torn = Torn
    None = None
    MaxAttempts = 3
    UnknownRetries = 1
INVARIANTS
    TheftNeedsTheWindow
    NotEveryoneLoses
PROPERTIES
    Settles
CHECK_DEADLOCK FALSE
