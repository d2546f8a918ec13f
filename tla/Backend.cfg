SPECIFICATION Spec
CONSTANTS
  Types <- MCTypes
  Targets <- MCTargets
  TypeOf <- MCTypeOf
  KeepsFolder <- MCKeepsFolder
  None = None
  Modes = {}
  Faults = {"revoke", "save", "clear"}
INVARIANTS
  OwnRecords
  ResumesWhole
PROPERTY ConnectingEnds
