SPECIFICATION Spec
CONSTANTS
  Workers = {w1, w2}
  Sizes <- SomeSizes
  BucketSize = 2
INVARIANTS WholeInOrder BuffersApart
PROPERTY TransferEnds
CHECK_DEADLOCK FALSE
