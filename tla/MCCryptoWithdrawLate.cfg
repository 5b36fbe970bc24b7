SPECIFICATION Spec
CONSTANTS
  Transfers = {t1}
  Workers = {w1}
  Cancellers = {c1}
  Callbacks = {n1}
  MaxSaves = 0
  None = None
PROPERTIES NotCanceledLate
CHECK_DEADLOCK FALSE
