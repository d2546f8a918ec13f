SPECIFICATION Spec
CONSTANTS
  Request = {r1, r2}
  Managers = 2
  Worlds <- Backends
  Modes = {}
  MaxGrants = 2
  MaxRefresh = 3
  MaxAccess = 3
  MaxEnded = 1
  MaxEvents = 1
INVARIANTS NoFalseSignOut OneGrant
CHECK_DEADLOCK FALSE
PROPERTY RequestsEnd
