CONSTANTS
  E = 4
  TotalEpochs = 2
  TotalSteps = 8
  CriticWarmup = 2
  SaveFreq = 3
  MayExpire = TRUE
  MaxRuns = 4
SPECIFICATION Spec
CHECK_DEADLOCK FALSE
INVARIANTS OneStepBehind ShortByRestarts
