CONSTANTS
  RoleOrder <- ActorAndCritic
  Keep = 0
  SaveHF = FALSE
  ResumePath = FALSE
  FilesMayFail = FALSE
  MaxStep = 4
  MaxRuns = 1
SPECIFICATION Spec
CHECK_DEADLOCK FALSE
INVARIANT OneTrainingState
