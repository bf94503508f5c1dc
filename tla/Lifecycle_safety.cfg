SPECIFICATION Spec
CONSTANTS
    Callers = {c1}
    bg = bg
    free = free
    Ops <- EveryOp
    RestoreStartAttempts = 2
    AutoRestartMaxAttempts = 1
    SaveFails = FALSE
    StopFails = TRUE
    SessionEnds = TRUE
    MaxAppRestarts = 1
INVARIANTS DownWhileSwapped
PROPERTY StopWins
