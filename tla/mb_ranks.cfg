SPECIFICATION Spec
CONSTANTS
  Dp = 2
  Received = 5
  Mini = 4
  MaxTokens = 5
  Lengths = {1, 4}
  Tokens <- SumOf
INVARIANTS SameCollective EachRowOnce Balanced RoundTrip
PROPERTY CallsReturn
CHECK_DEADLOCK FALSE
