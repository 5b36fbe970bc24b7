SPECIFICATION Spec
CONSTANTS
  alice = alice
  bob = bob
  carol = carol
  c1 = c1
  c2 = c2
  Accounts = {alice, bob, carol}
  Tickets <- MatchingTickets
  MaxOrders = 3
  Cancellers = {}
  Unit = 3
  OpeningAsset <- MatchingAsset
  OpeningBase <- MatchingBase
  Nobody = Nobody
  Bulk = Bulk
INVARIANTS LockBacksOrder BookNotCrossed PriceProtected FilledIsTraded TimeInForceKept
PROPERTIES BestFirst FreeFundsKept
CHECK_DEADLOCK FALSE
