SPECIFICATION FairSpec
CONSTANTS
  Trades = {limit, market}
  Limits = {limit}
  Assets = {a1}
  Handlers = {h1, h2}
  None = None
CONSTRAINT OneTrade
PROPERTIES PendingEnds
CHECK_DEADLOCK FALSE
