CONSTANTS
  RoleOrder <- ActorOnly
  Keep = 0
  SaveHF = FALSE
  ResumePath = FALSE
  FilesMayFail = TRUE
  MaxStep = 3
  MaxRuns = 1
SPECIFICATION Spec
CHECK_DEADLOCK FALSE
INVARIANT WeightsNeverLost
