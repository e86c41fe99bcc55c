SPECIFICATION Spec
CONSTANTS
    Absent = Absent
    NoRun = NoRun
    Contents = {a, b}
    Direction = "bi"
    Deletes = "propagate"
    Faults = {}
    MaxUser = 0
    MaxForeign = 1
    MaxFaults = 0
SYMMETRY Symmetry
CHECK_DEADLOCK FALSE
INVARIANTS
    ViewCurrent
