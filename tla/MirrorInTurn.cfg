SPECIFICATION InTurnSpec
CONSTANTS
    Absent = Absent
    NoRun = NoRun
    Contents = {a, b}
    Direction = "bi"
    Deletes = "propagate"
    Faults = {"stop", "lost"}
    MaxUser = 2
    MaxForeign = 2
    MaxFaults = 1
CHECK_DEADLOCK FALSE
PROPERTIES
    Converges
