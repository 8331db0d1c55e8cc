SPECIFICATION FairSpec
CONSTANTS
    Reqs = {a}
    Decisions = {allow}
    MaxGens = 2
    MaxDowns = 1
    Enabled = {"reap", "resume-live", "turn-errors", "turn-aborts", "stop"}
INVARIANTS
    NoStrandedAsk
    OpenMeansParked
PROPERTIES
    AskSettles
CHECK_DEADLOCK FALSE
