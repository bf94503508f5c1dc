SPECIFICATION ListenSpec
CONSTANTS
    Callers = {c1}
    bg = bg
    free = free
    Ops <- UserOnly
    RestoreStartAttempts = 1
    AutoRestartMaxAttempts = 1
    SaveFails = FALSE
    StopFails = FALSE
    SessionEnds = FALSE
    MaxAppRestarts = 0
PROPERTIES CrashLoopEnds StatusSettles
