SPECIFICATION Spec
CONSTANTS
  Stops = {s1, s2}
  Pairs = {s1}
  Cancelers = {c1}
  Amount = 2
  MaxPlaced = 2
  None = None
INVARIANTS SoldOnce FilledIsSold OpenIsFunded
CHECK_DEADLOCK FALSE
