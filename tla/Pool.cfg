CONSTANTS
  Task <- Transfers
  Size <- Bytes
  MinLimit = 1
  MaxLimit = 3
  Start = 2
  RampAfter = 2
  ByteBudget = 5
SPECIFICATION FairSpec
INVARIANTS
  PoolTypeOK
  Accounting
  Bounded
  BudgetRespected
  NoLostWakeup
PROPERTIES
  ShedsLoad
  EveryTaskRuns
