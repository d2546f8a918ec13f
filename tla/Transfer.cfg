CONSTANTS
  Absent = Absent
  Unknown = Unknown
  MaxEdits = 3
  MaxStops = 1
  Windows = {}
SPECIFICATION FairSpec
INVARIANTS
  NoEditLost
  EditsNoticed
  QuietMeansEqual
PROPERTIES
  SidesMeet
CHECK_DEADLOCK FALSE
