SPECIFICATION FairSpec
CONSTANTS
  Folders = {"A", "B"}
  Names = {"x", "y"}
  Absent = Absent
  Dir = Dir
  None = None
  PathOrder <- Order
  InitTrees <- Trees
  MaxOps = 2
  MaxFaults = 1
  Modes = {}
INVARIANTS ContentKept QuietMeansEqual SameAsPlain
PROPERTY Converges
