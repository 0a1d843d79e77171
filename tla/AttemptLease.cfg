SPECIFICATION Spec
CONSTANTS
    Runs = {r1, r2}
    Viewers = {v1, v2}
    Old = old
SYMMETRY Symmetry
INVARIANTS
    TypeOK
    OneAttempt
    ReportsHold
CHECK_DEADLOCK FALSE
