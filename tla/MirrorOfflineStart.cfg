SPECIFICATION FairSpec
CONSTANTS
    Absent = Absent
    NoRun = NoRun
    Contents = {a, b}
    Direction = "bi"
    Deletes = "propagate"
    Faults = {"offline start"}
    MaxUser = 0
    MaxForeign = 1
    MaxFaults = 1
CHECK_DEADLOCK FALSE
PROPERTIES
    Converges
