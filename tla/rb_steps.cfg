SPECIFICATION Spec
CONSTANTS
  Steps = 2
  ValBatches = 1
  TrainSize = 1
  ValSize = 1
  N = 2
  ValN = 1
INVARIANTS TakenIsStored WholeGroups KeysHaveSteps
PROPERTY TrainingEnds
CHECK_DEADLOCK FALSE
