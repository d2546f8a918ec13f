CONSTANTS
  Path = {p1, p2}
  Version <- Contents
  Absent = 0
  Fingerprint = {{p1, p2}, {p1}}
  NoFingerprint = NoFp
  Events = {"scanThrows", "commitThrows", "fetchFails", "actionFails", "actionFailsLate", "reload", "rescan", "setScope", "fileOpen"}
  MaxTick = 3
  MaxEvents = 2
  MaxRetries = 2
  MaxDeletions = 0
  VelocityBlocks = {FALSE}
  ListingFloor = 10
SPECIFICATION FairSpec
INVARIANTS
  CheckpointHonest
PROPERTIES
  Converges
