SPECIFICATION Spec
CONSTANTS
  Keys = {"x", "y"}
  Contents = {"c1", "c2"}
  Dir = "d"
  OnDisk <- MCDisk
  Kinds = {"remove", "propagate", "write", "restore", "discard", "folder"}
  MaxItems = 2
  MaxCalls = 3
  MaxEvents = 2
  Absent = Absent
  None = None
INVARIANTS TypeOK Restorable StillRecoverable PoolBacked
PROPERTIES PurgeFinal
CHECK_DEADLOCK FALSE
