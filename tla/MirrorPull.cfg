SPECIFICATION Spec
CONSTANTS
    Absent = Absent
    NoRun = NoRun
    Contents = {a, b}
    Direction = "pull"
    Deletes = "propagate"
    Faults = {"crash", "offline"}
    MaxUser = 1
    MaxForeign = 2
    MaxFaults = 1
SYMMETRY Symmetry
CHECK_DEADLOCK FALSE
PROPERTIES
    PullNeverWritesHub
    LocalBytesKept
