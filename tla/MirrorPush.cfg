SPECIFICATION Spec
CONSTANTS
    Absent = Absent
    NoRun = NoRun
    Contents = {a, b}
    Direction = "push"
    Deletes = "keep"
    Faults = {}
    MaxUser = 1
    MaxForeign = 1
    MaxFaults = 0
SYMMETRY Symmetry
CHECK_DEADLOCK FALSE
PROPERTIES
    PushNeverWritesLocal
