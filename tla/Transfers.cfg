SPECIFICATION Spec
CONSTANTS
  Locs <- MCLocs
  Contents = {"c1", "c2"}
  i1 = i1
  i2 = i2
  i3 = i3
  Inodes = {i1, i2, i3}
  Home = {"a", "b"}
  Nas = {"n"}
  Cloud = {"r"}
  OnDisk <- MCDisk
  Indexed <- MCIndex
  Kinds = {"copy", "move", "put"}
  MaxEvents = 2
  MaxActs = 4
  Absent = Absent
  None = None
SYMMETRY Symmetry
INVARIANTS TypeOK LogExplains OneOwner QuietAgrees
PROPERTIES SourceLast MovesKept
CHECK_DEADLOCK FALSE
