CONSTANTS
  Required = 2
  Trigger = 2
  MaxRequired = 6
  MaxConcurrent = 2
  Total = 12
  PendingSize = 1
  SaveFreq = 2
  TestFreq = 2
  TasksMayFail = TRUE
SPECIFICATION FairSpec
CHECK_DEADLOCK FALSE
INVARIANTS BudgetOverByOne OneLostPerSync AllSamplesUsed SavedIsSynced
PROPERTIES TrainerIsFed ResetReturns
