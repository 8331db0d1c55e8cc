SPECIFICATION Spec
CONSTANTS
    Procs = {d1, d2}
    Dead = Dead
    Torn = Torn
    None = None
    MaxAttempts = 3
    UnknownRetries = 1
SYMMETRY MCSymmetry
INVARIANTS
    OneHolder
CHECK_DEADLOCK FALSE
