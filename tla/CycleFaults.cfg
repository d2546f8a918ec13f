CONSTANTS
  Path = {p1, p2}
  Version <- Contents
  Absent = 0
  Fingerprint = {{p1, p2}, {}}
  NoFingerprint = NoFp
  Events = {"loadFails", "cursorExpires", "scanThrows", "pageThrows", "commitThrows", "fetchFails", "detectThrows", "actionFails", "actionFailsLate", "quarantine", "authFails", "saveFails", "crash", "reload", "approve", "setScope", "scopeRace", "rescan", "fileOpen", "fileOpenMisses", "directDelete"}
  MaxTick = 2
  MaxEvents = 2
  MaxRetries = 2
  MaxDeletions = 1
  VelocityBlocks = {FALSE, TRUE}
  ListingFloor = 2
SPECIFICATION Spec
SYMMETRY Symmetry
INVARIANTS
  TypeOK
  DeleteLocalOnEvidence
  MissesOnlyDeletions
PROPERTIES
  FsSpec
