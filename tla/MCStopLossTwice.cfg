SPECIFICATION Spec
CONSTANTS
  Stops = {s1, s2}
  Pairs = {}
  Cancelers = {}
  Amount = 2
  MaxPlaced = 2
  None = None
INVARIANT FilledWithinAmount
CHECK_DEADLOCK FALSE
