CONSTANTS
  E = 4
  TotalEpochs = 2
  TotalSteps = 4
  B = 3
  G = 2
  Filter = TRUE
  MaxNumGen = 3
  CriticWarmup = 0
  SaveFreq = 2
  FreeCacheEngine = TRUE
  MayExpire = TRUE
  MaxRuns = 3
SPECIFICATION FairSpec
CHECK_DEADLOCK FALSE
INVARIANT BatchAccounting
INVARIANT OnPolicy
INVARIANT LogsOfLineage
INVARIANT DoneSaved
PROPERTY RunEnds
