SPECIFICATION Spec
CONSTANTS
    Absent = Absent
    NoRun = NoRun
    Contents = {a, b}
    Direction = "bi"
    Deletes = "propagate"
    Faults = {"crash", "stop", "offline", "lost"}
    MaxUser = 2
    MaxForeign = 1
    MaxFaults = 1
SYMMETRY Symmetry
CHECK_DEADLOCK FALSE
INVARIANTS
    TypeOK
    ForgetsNothing
PROPERTIES
    NoBlindHubWrite
    LocalBytesKept
    DeleteFollowsUser
