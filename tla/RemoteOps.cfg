CONSTANTS
  Path = {p1, p2}
  Thread = {t1, t2}
  None = None
  NoFingerprint = NoFp
  Fingerprint = {fp}
  MaxStamp = 3
  Modes = {"renames", "restarts"}
SPECIFICATION Spec
SYMMETRY Symmetry
INVARIANTS
  MemoryFaithful
PROPERTIES
  PromiseKept
