SPECIFICATION Spec
CONSTANTS
  Transfers = {t1}
  Workers = {w1, w2}
  Cancellers = {c1, c2}
  Callbacks = {n1, n2}
  MaxSaves = 2
  None = None
SYMMETRY Interchangeable
INVARIANTS LedgerMatchesStatus AskedWhileHeld
PROPERTIES OutcomeIsFinal SettledOnce
CHECK_DEADLOCK FALSE
