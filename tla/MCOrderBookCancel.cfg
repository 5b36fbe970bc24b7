SPECIFICATION FairSpec
CONSTANTS
  alice = alice
  bob = bob
  carol = carol
  c1 = c1
  c2 = c2
  Accounts = {alice, bob}
  Tickets <- CancelTickets
  MaxOrders = 3
  Cancellers = {c1, c2}
  Unit = 3
  OpeningAsset <- CancelAsset
  OpeningBase <- CancelBase
  Nobody = Nobody
  Bulk = Bulk
CONSTRAINT CancelsAmongTwo
INVARIANTS RequestedIsClosed
PROPERTIES ClosedIsFinal CancelsEnd DustFreed
CHECK_DEADLOCK FALSE
