SPECIFICATION FairSpec
CONSTANTS
  Folders = {"A", "B"}
  Names = {"x", "y"}
  Absent = Absent
  Dir = Dir
  None = None
  PathOrder <- Order
  InitTrees <- Trees
  MaxOps = 2
  MaxFaults = 0
  Modes = {"movesBack"}
INVARIANT ContentKept
