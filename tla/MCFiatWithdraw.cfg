SPECIFICATION FairSpec
CONSTANTS
  Requests = {r}
  Handlers = {h1, h2}
  None = None
INVARIANTS StatusTrue PaidCovered
PROPERTIES SettledOnce AcceptedEnds
CHECK_DEADLOCK FALSE
