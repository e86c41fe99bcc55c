SPECIFICATION Spec
CONSTANTS
  Keys = {"x", "y"}
  Contents = {"c1", "c2"}
  Dir = "d"
  OnDisk <- MCDisk
  Kinds = {"propagate", "restore"}
  MaxItems = 1
  MaxCalls = 2
  MaxEvents = 2
  Absent = Absent
  None = None
INVARIANT CapturedKept
CHECK_DEADLOCK FALSE
