SPECIFICATION Spec
CONSTANTS
    Callers = {c1}
    bg = bg
    free = free
    Ops <- UserOnly
    RestoreStartAttempts = 1
    AutoRestartMaxAttempts = 1
    SaveFails = TRUE
    StopFails = FALSE
    SessionEnds = FALSE
    MaxAppRestarts = 0
PROPERTY StopWins
