CONSTANTS
  Path = {p1, p2}
  Version <- Contents
  Absent = 0
  Fingerprint = {{p1, p2}}
  NoFingerprint = NoFp
  Events = {"scanThrows","commitThrows","fetchFails","actionFails","actionFailsLate","quarantine","reload","approve","rescan","fileOpen"}
  MaxTick = 3
  MaxEvents = 2
  MaxRetries = 2
  MaxDeletions = 1
  VelocityBlocks = {FALSE}
  ListingFloor = 10
SPECIFICATION Spec
SYMMETRY Symmetry
INVARIANTS
  CheckpointHonest
  SessionHonest
  StoreFaithful
  CacheFaithful
  TouchedCoversDrift
