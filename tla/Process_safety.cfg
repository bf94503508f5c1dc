SPECIFICATION Spec
CONSTANTS
    Own = {p1, p2, p3}
    Earlier = {e1}
    Elevated = {x1}
    Unelevated = {u1}
    Helpers = {h1}
    none = none
    CheckFails = TRUE
    KillFails = TRUE
SYMMETRY OwnSymmetry
INVARIANTS OwnedWhileAlive LastExitIsNews
PROPERTIES ImplementsContract StopFailsForCause
