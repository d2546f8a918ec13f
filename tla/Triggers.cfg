CONSTANTS
  Paths = {p1, p2}
  Events = {"rescan", "pull", "clear", "pauseWhenOffline", "connect", "syncNow"}
  Losses = {}
  MaxActs = 4
SPECIFICATION FairSpec
PROPERTIES
  EditsReachACycle
  RescansReachACycle
  ReturnsReachACycle
