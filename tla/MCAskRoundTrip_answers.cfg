SPECIFICATION Spec
CONSTANTS
    Reqs = {a}
    Decisions = {allow, deny}
    MaxGens = 2
    MaxDowns = 1
    Enabled = {"identity-rejects", "reap", "crash-in-reap", "write-fails", "retry", "stop", "stop-ended", "turn-aborts"}
SYMMETRY Renamed
INVARIANTS
    BlockedMeansAsked
    HeardByItsAsker
    DeadlineMeansEnded
    ExitEndsStream
    AnswerIntact
PROPERTIES
    ImplementsAskBook
CHECK_DEADLOCK FALSE
