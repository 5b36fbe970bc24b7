SPECIFICATION Spec
CONSTANTS
  Trades = {limit, market}
  Limits = {limit}
  Assets = {a1, a2}
  Handlers = {h1, h2}
  None = None
SYMMETRY Alike
INVARIANTS HeldWhilePending StatusTrue HedgedWasOrdered
PROPERTIES ChargedOnce
CHECK_DEADLOCK FALSE
