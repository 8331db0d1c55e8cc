SPECIFICATION Spec
CONSTANTS
    r1 = r1
    r2 = r2
    Runs <- MCRuns
    MaxServers = 2
    MaxTurns <- MCTurns
    MaxDowns = 1
    Patient = TRUE
PROPERTIES NoCollateral OneEndPerTurn TurnsAreBooked OrphansGo
CHECK_DEADLOCK FALSE
