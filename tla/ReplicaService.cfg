SPECIFICATION FairSpec
CONSTANTS
  Owners = {"doc1", "doc2"}
  Keys = {"a", "b", "a1", "in1", "in2"}
  ForeignKeys = {"a", "b"}
  SourceKeys = {"in1", "in2", "a"}
  Contents = {"c1", "c2"}
  Shapes <- MCShapes
  Spare <- MCSpare
  OnDisk <- MCDisk
  MaxOps = 2
  MaxEdits = 1
  MaxForeign = 2
  MaxFaults = 1
  MaxEvents = 2
  Absent = Absent
  None = None
INVARIANTS TypeOK LedgerHolds NothingLost
PROPERTIES OthersBytesKept RemovesLast KeepsPromise Settles
CHECK_DEADLOCK FALSE
