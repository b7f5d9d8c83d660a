CONSTANTS
  E = 4
  TotalEpochs = 2
  TotalSteps = 8
  B = 2
  G = 2
  Filter = FALSE
  MaxNumGen = 3
  CriticWarmup = 2
  SaveFreq = 2
  FreeCacheEngine = FALSE
  MayExpire = FALSE
  MaxRuns = 3
SPECIFICATION Spec
CHECK_DEADLOCK FALSE
INVARIANT DataPosition
INVARIANT FullTraining
