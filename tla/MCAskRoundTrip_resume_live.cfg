SPECIFICATION Spec
CONSTANTS
    Reqs = {a}
    Decisions = {allow}
    MaxGens = 1
    MaxDowns = 0
    Enabled = {"resume-live"}
CHECK_DEADLOCK FALSE
INVARIANTS LiveIsListed
