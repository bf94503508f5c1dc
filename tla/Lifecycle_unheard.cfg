SPECIFICATION ListenSpec
CONSTANTS
    Callers = {c1}
    bg = bg
    free = free
    Ops <- RestartsOnly
    RestoreStartAttempts = 1
    AutoRestartMaxAttempts = 1
    SaveFails = FALSE
    StopFails = FALSE
    SessionEnds = FALSE
    MaxAppRestarts = 0
PROPERTY StatusSettles
