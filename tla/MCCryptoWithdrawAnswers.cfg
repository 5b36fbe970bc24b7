SPECIFICATION FairSpec
CONSTANTS
  Transfers = {t1}
  Workers = {w1, w2}
  Cancellers = {}
  Callbacks = {n1, n2}
  MaxSaves = 2
  None = None
INVARIANTS PaymentsCovered
PROPERTIES EventuallyAsked
CHECK_DEADLOCK FALSE
