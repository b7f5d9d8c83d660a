CONSTANTS
  RoleOrder <- ActorAndCritic
  Keep = 2
  SaveHF = TRUE
  ResumePath = FALSE
  FilesMayFail = TRUE
  MaxStep = 3
  MaxRuns = 3
SPECIFICATION Spec
CHECK_DEADLOCK FALSE
INVARIANT TrackedRestorable
INVARIANT RunRetention
PROPERTY ShardsDropOnlyWithHF
PROPERTY ImplementsPromise
