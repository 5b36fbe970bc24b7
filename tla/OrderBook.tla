----------------------------- MODULE OrderBook -----------------------------
(***************************************************************************)
(* The spot order book of one symbol: market/models/order.py with its      *)
(* callers.  An order is placed (its row is created and gets its id), then *)
(* submitted under the row lock of its PairSymbol: it locks funds, is      *)
(* matched with the resting orders one by one, and everything is committed *)
(* at once by the WalletPipeline around it.  Orders are closed by single   *)
(* cancel requests and by bulk cancellation, which take the same row lock  *)
(* after reads made without it, and the free_missing_locks task releases,  *)
(* with no symbol lock at all, what is left on the locks of closed orders. *)
(*                                                                         *)
(* Amounts of the asset count steps of the symbol; amounts of the base     *)
(* asset are rounded down to the pipeline's precision (Unit).  Fees,       *)
(* referral rewards, margin orders, stop-losses and OCO orders are left    *)
(* out.  Wallet.locked is the sum of the wallet's locks: that is           *)
(* LockedIsBacked of WalletPipeline.tla.                                   *)
(***************************************************************************)
EXTENDS Integers, FiniteSets, FiniteSetsExt

CONSTANTS
  Accounts,
  Tickets,       \* what clients may ask for: a set of Ticket records
  MaxOrders,     \* bound: orders ever placed
  Cancellers,    \* concurrent cancel requests
  Unit,          \* precision of amounts of the base asset
  OpeningAsset, OpeningBase,  \* [Accounts -> Nat]: wallets before any order
  Nobody, Bulk

Ids == 1 .. MaxOrders
Sides == {"buy", "sell"}
TimesInForce == {"GTC", "FOK", "IOC", "ME_IOC"}

(* An order as it is asked for; the price of a market order is set when it is *)
(* placed.                                                                    *)
Ticket == [account : Accounts, side : Sides, type : {"limit", "market"},
           tif : TimesInForce, price : Nat, amount : Nat \ {0}]

ASSUME BookAssumption ==
  /\ MaxOrders \in Nat /\ Tickets \subseteq Ticket
  /\ \A t \in Tickets : t.type = "limit" => t.price > 0
  /\ Unit \in Nat \ {0}
  /\ OpeningAsset \in [Accounts -> Nat] /\ OpeningBase \in [Accounts -> Nat]
  /\ Nobody \notin Ids /\ Bulk \notin Ids /\ Nobody # Bulk

VARIABLES
  order,         \* the Order rows; "unsent", "placing" and "refused" are rows
                 \* nobody else sees: not yet created, uncommitted, rolled back
  lock,          \* committed BalanceLock.amount of each order's group_id
  asset, base,   \* committed Wallet.balance of each account
  trades,        \* committed trades, one for each matched pair
  symbolHolder,  \* who holds the row lock of the PairSymbol
  left,          \* make_match's unfilled_amount
  matched,       \* make_match: the amount taken from each maker so far
  takerLock,     \* the taker's pending lock in the pipeline
  requests,      \* orders with a committed CancelRequest row
  cancel,        \* the cancel requests in progress
  bulk,          \* bulk_cancel_simple_orders in progress
  janitor        \* free_missing_locks in progress

book == <<order, lock, asset, base, trades>>
matching == <<left, matched, takerLock>>
cancelling == <<requests, cancel, bulk>>
vars == <<order, lock, asset, base, trades, symbolHolder, left, matched, takerLock,
          requests, cancel, bulk, janitor>>

-----------------------------------------------------------------------------
(* Amounts.                                                                   *)

(* floor_precision. *)
Floor(x) == x - (x % Unit)

(* get_to_lock_amount, as the pipeline rounds it. *)
ToLock(o, amount) == IF o.side = "buy" THEN Floor(amount * o.price) ELSE amount

Unfilled(i) == order[i].amount - order[i].filled

Open == {i \in Ids : order[i].status = "new"}

(* Wallet.get_free of the wallet that orders of a side pay from, for given    *)
(* locks and balances.                                                        *)
LockedFor(locks, i, a, side) ==
  IF order[i].account = a /\ order[i].side = side THEN locks[i] ELSE 0
FreeIn(locks, assets, bases, a, side) ==
  (IF side = "buy" THEN bases[a] ELSE assets[a])
  - SumFunctionOnSet([i \in Ids |-> LockedFor(locks, i, a, side)], Ids)

Free(a, side) == FreeIn(lock, asset, base, a, side)

(* get_market_price: 1% beyond the best limit price of the other side.        *)
Against(side) == {m \in Open : order[m].side # side /\ order[m].type = "limit"}

MarketPrice(side) ==
  LET prices == {order[m].price : m \in Against(side)} IN
  IF side = "buy" THEN (Min(prices) * 101) \div 100 ELSE (Max(prices) * 99) \div 100

-----------------------------------------------------------------------------
NoOrder == [account |-> CHOOSE a \in Accounts : TRUE, side |-> "buy", type |-> "limit",
               tif |-> "GTC", price |-> 0, amount |-> 1, filled |-> 0, status |-> "unsent"]

Idle == [pc |-> "idle", order |-> 0]

NoBulk == [pc |-> "idle", ids |-> {}, inserted |-> {}]

Init ==
  /\ order = [i \in Ids |-> NoOrder]
  /\ lock = [i \in Ids |-> 0]
  /\ asset = OpeningAsset /\ base = OpeningBase
  /\ trades = {}
  /\ symbolHolder = Nobody
  /\ left = 0 /\ matched = [i \in Ids |-> 0] /\ takerLock = 0
  /\ requests = {}
  /\ cancel = [c \in Cancellers |-> Idle]
  /\ bulk = NoBulk
  /\ janitor = [pc |-> "idle", keys |-> {}]

(* A request reads the market price, if it needs one, and creates the row:    *)
(* ids are given out in this order, before the symbol is locked.              *)
Place(i, t) ==
  /\ order[i].status = "unsent"
  /\ \A j \in Ids : j < i => order[j].status # "unsent"
  /\ t.type = "market" => Against(t.side) # {}
  /\ order' = [order EXCEPT ![i] =
       [account |-> t.account, side |-> t.side, type |-> t.type, tif |-> t.tif,
        price |-> IF t.type = "market" THEN MarketPrice(t.side) ELSE t.price,
        amount |-> t.amount, filled |-> 0, status |-> "placing"]]
  /\ UNCHANGED <<lock, asset, base, trades, symbolHolder, matching, cancelling, janitor>>

SymbolFreed ==
  /\ symbolHolder' = Nobody
  /\ left' = 0 /\ matched' = [m \in Ids |-> 0] /\ takerLock' = 0

(* The transaction of i is rolled back; nobody has seen its order.            *)
Refuse(i) ==
  /\ order' = [order EXCEPT ![i].status = "refused"]
  /\ IF symbolHolder = i THEN SymbolFreed ELSE UNCHANGED <<symbolHolder, matching>>
  /\ UNCHANGED <<lock, asset, base, trades, cancelling, janitor>>

(* acquire_lock: a market buy is content with 95% of what it asked for.       *)
WantedLock(i) ==
  LET o == order[i]
      full == IF o.side = "buy" THEN o.amount * o.price ELSE o.amount
      free == Free(o.account, o.side)
  IN IF o.type = "market" /\ o.side = "buy" /\ 100 * free > 95 * full
       THEN Min({full, free}) ELSE full

(* submit: what make_match is to fill.  An overriding amount of 0 counts as   *)
(* none.                                                                      *)
ToFill(i) ==
  LET o == order[i]
      overriding == IF o.type = "market" /\ o.side = "buy" THEN WantedLock(i) \div o.price ELSE 0
  IN IF overriding # 0 THEN overriding ELSE o.amount

(* Mutant: prices that are equal do not meet. *)
CrossesStrictly(taker, maker) ==
  IF taker.side = "buy" THEN maker.price < taker.price ELSE maker.price > taker.price

(* Mutant: the makers are not filtered by price. *)
CrossesAnyPrice(taker, maker) == TRUE

Crosses(taker, maker) ==
  IF taker.side = "buy" THEN maker.price <= taker.price ELSE maker.price >= taker.price

(* The resting orders that i may still be matched with. *)
Makers(i) ==
  {m \in Open : /\ order[m].side # order[i].side
                /\ Crosses(order[i], order[m])
                /\ matched[m] = 0}

(* Of two resting orders of one side, m comes before n: price, then id. *)
Before(m, n) ==
  \/ /\ order[m].price # order[n].price
     /\ (order[m].side = "sell") <=> (order[m].price < order[n].price)
  \/ order[m].price = order[n].price /\ m < n

(* Mutant: the makers are sorted by id alone. *)
NextMakerOldest(i, m) == m \in Makers(i) /\ \A n \in Makers(i) \ {m} : m < n

NextMaker(i, m) == m \in Makers(i) /\ \A n \in Makers(i) \ {m} : Before(m, n)

(* Fill-or-kill looks at the whole amount on the other side. *)
CannotFill(i) ==
  /\ order[i].tif = "FOK"
  /\ ToFill(i) > SumFunctionOnSet([m \in Ids |-> Unfilled(m)], Makers(i))

(* has_balance in acquire_lock: a buy reads its wallet here; the wallet of a  *)
(* sell was read before the symbol was locked, and what it said then may hold *)
(* no more, either way.  The pipeline's constraints have the last word.       *)
MayPass(i) ==
  order[i].side = "sell" \/ Free(order[i].account, order[i].side) >= WantedLock(i)
MayFail(i) ==
  order[i].side = "sell" \/ Free(order[i].account, order[i].side) < WantedLock(i)

(* submit: with the symbol locked, funds are locked and matching starts.      *)
Submit(i) ==
  /\ order[i].status = "placing" /\ symbolHolder = Nobody
  /\ MayPass(i)
  /\ ~ CannotFill(i)
  /\ symbolHolder' = i
  /\ left' = ToFill(i)
  /\ takerLock' = IF order[i].side = "buy" THEN Floor(WantedLock(i)) ELSE WantedLock(i)
  /\ UNCHANGED <<book, matched, cancelling, janitor>>

(* submit of a fill-or-kill order that cannot be filled: committed, canceled. *)
Kill(i) ==
  /\ order[i].status = "placing" /\ symbolHolder = Nobody
  /\ MayPass(i)
  /\ CannotFill(i)
  /\ order' = [order EXCEPT ![i].status = "canceled"]
  /\ UNCHANGED <<lock, asset, base, trades, symbolHolder, matching, cancelling, janitor>>

(* acquire_lock raises InsufficientBalance. *)
RefuseUnfunded(i) ==
  /\ order[i].status = "placing" /\ symbolHolder = Nobody
  /\ MayFail(i)
  /\ Refuse(i)

(* A match-own order stops at the first maker of another account. *)
Stops(i, m) == order[i].tif = "ME_IOC" /\ order[m].account # order[i].account

(* Mutant: the taker's lock is reduced by the value of the trade. *)
MatchReleasesValue(i, m) ==
  LET amount == Min({Unfilled(m), left}) IN
  /\ symbolHolder = i /\ left > 0 /\ NextMaker(i, m) /\ ~ Stops(i, m)
  /\ matched' = [matched EXCEPT ![m] = amount]
  /\ left' = left - amount
  /\ takerLock' = takerLock - ToLock([order[i] EXCEPT !.price = order[m].price], amount)
  /\ UNCHANGED <<book, symbolHolder, cancelling, janitor>>

(* One turn of make_match's loop. *)
Match(i, m) ==
  LET amount == Min({Unfilled(m), left}) IN
  /\ symbolHolder = i
  /\ left > 0
  /\ NextMaker(i, m)
  /\ ~ Stops(i, m)
  /\ matched' = [matched EXCEPT ![m] = amount]
  /\ left' = left - amount
  /\ takerLock' = takerLock - ToLock(order[i], amount)
  /\ UNCHANGED <<book, symbolHolder, cancelling, janitor>>

LoopOver(i) ==
  \/ left = 0
  \/ Makers(i) = {}
  \/ \E m \in Makers(i) : NextMaker(i, m) /\ Stops(i, m)

(* Mutant: only market orders are canceled when they cannot be filled. *)
OutcomeOfMarketOnly(i) ==
  IF left = 0 THEN "filled" ELSE IF order[i].type = "market" THEN "canceled" ELSE "new"

(* What becomes of the taker: market, IOC and match-own orders never rest.    *)
Outcome(i) ==
  IF left = 0 THEN "filled"
  ELSE IF order[i].type = "market" \/ order[i].tif \in {"IOC", "ME_IOC"} THEN "canceled"
  ELSE "new"

(* Canceled takers and filled market orders have the rest of their lock       *)
(* released.                                                                  *)
TakerLockLeft(i) ==
  IF Outcome(i) = "canceled" \/ (Outcome(i) = "filled" /\ order[i].type = "market")
    THEN 0 ELSE takerLock

TradeWith(i, m) ==
  [taker |-> i, maker |-> m, price |-> order[m].price, amount |-> matched[m]]
NewTrades(i) == {TradeWith(i, m) : m \in {n \in Ids : matched[n] # 0}}

Buyer(t) == IF order[t.taker].side = "buy" THEN t.taker ELSE t.maker
Seller(t) == IF order[t.taker].side = "buy" THEN t.maker ELSE t.taker
Value(t) == Floor(t.price * t.amount)

(* register_transactions: asset from seller to buyer, base the other way.     *)
MovedTo(payer, payee, x, a) ==
  (IF order[payee].account = a THEN x ELSE 0) - (IF order[payer].account = a THEN x ELSE 0)
AssetMoved(i, a) ==
  SumFunctionOnSet([m \in Ids |-> LET t == TradeWith(i, m) IN
                                  MovedTo(Seller(t), Buyer(t), t.amount, a)], Ids)
BaseMoved(i, a) ==
  SumFunctionOnSet([m \in Ids |-> LET t == TradeWith(i, m) IN
                                  MovedTo(Buyer(t), Seller(t), Value(t), a)], Ids)

(* Mutant: filled_amount is updated for the taker only. *)
SettledOrderTakerOnly(i) ==
  [n \in Ids |->
     IF n = i
       THEN [order[i] EXCEPT !.filled = SumFunctionOnSet(matched, Ids),
                             !.status = Outcome(i)]
     ELSE IF matched[n] # 0 /\ matched[n] = Unfilled(n)
       THEN [order[n] EXCEPT !.status = "filled"]
     ELSE order[n]]

(* Mutant: the maker's lock is not reduced. *)
SettledLockTakerOnly(i) ==
  [n \in Ids |-> IF n = i THEN TakerLockLeft(i) ELSE lock[n]]

(* What the transaction of i is to commit. *)
SettledOrder(i) ==
  [n \in Ids |->
     IF n = i
       THEN [order[i] EXCEPT !.filled = SumFunctionOnSet(matched, Ids),
                             !.status = Outcome(i)]
     ELSE IF matched[n] # 0
       THEN [order[n] EXCEPT !.filled = @ + matched[n],
                             !.status = IF matched[n] = Unfilled(n) THEN "filled" ELSE @]
     ELSE order[n]]
SettledLock(i) ==
  [n \in Ids |-> IF n = i THEN TakerLockLeft(i) ELSE lock[n] - ToLock(order[n], matched[n])]
SettledAsset(i) == [a \in Accounts |-> asset[a] + AssetMoved(i, a)]
SettledBase(i) == [a \in Accounts |-> base[a] + BaseMoved(i, a)]

(* The CHECK constraints on locks and wallets, at the end of the pipeline.    *)
Funded(i) ==
  /\ \A n \in Ids : SettledLock(i)[n] >= 0
  /\ \A a \in Accounts, side \in Sides :
       FreeIn(SettledLock(i), SettledAsset(i), SettledBase(i), a, side) >= 0

Commit(i) ==
  /\ symbolHolder = i /\ LoopOver(i) /\ Funded(i)
  /\ order' = SettledOrder(i)
  /\ lock' = SettledLock(i)
  /\ asset' = SettledAsset(i)
  /\ base' = SettledBase(i)
  /\ trades' = trades \cup NewTrades(i)
  /\ SymbolFreed
  /\ UNCHANGED <<cancelling, janitor>>

RefuseUnpaid(i) == symbolHolder = i /\ LoopOver(i) /\ ~ Funded(i) /\ Refuse(i)

(* The worker dies, or anything else raises, before the commit. *)
Crash(i) == order[i].status = "placing" /\ Refuse(i)

-----------------------------------------------------------------------------
(* A client cancels one order: CancelRequestSerializer.                       *)

(* create: the order is open when it is read, with no lock. *)
AskCancel(c, i) ==
  /\ cancel[c].pc = "idle"
  /\ i \in Open
  /\ cancel' = [cancel EXCEPT ![c] = [pc |-> "asked", order |-> i]]
  /\ UNCHANGED <<book, symbolHolder, matching, requests, bulk, janitor>>

(* cancel_order: get_or_create of the CancelRequest.  Its row is unique, so   *)
(* another transaction that is inserting it is waited for.                    *)
Inserting(i) ==
  \/ \E c \in Cancellers : cancel[c] = [pc |-> "inserted", order |-> i]
  \/ i \in bulk.inserted

InsertRequest(c) ==
  LET i == cancel[c].order IN
  /\ cancel[c].pc = "asked" /\ i \notin requests /\ ~ Inserting(i)
  /\ cancel' = [cancel EXCEPT ![c].pc = "inserted"]
  /\ UNCHANGED <<book, symbolHolder, matching, requests, bulk, janitor>>

FoundRequest(c) ==
  /\ cancel[c].pc = "asked" /\ cancel[c].order \in requests
  /\ cancel' = [cancel EXCEPT ![c] = Idle]
  /\ UNCHANGED <<book, symbolHolder, matching, requests, bulk, janitor>>

(* The orders in S are canceled and their locks released. *)
Closed(S) ==
  /\ order' = [i \in Ids |-> IF i \in S THEN [order[i] EXCEPT !.status = "canceled"]
                             ELSE order[i]]
  /\ lock' = [i \in Ids |-> IF i \in S THEN 0 ELSE lock[i]]

(* Mutant: the order is not read again once the symbol is locked. *)
CancelOrderStale(c) ==
  LET i == cancel[c].order IN
  /\ cancel[c].pc = "inserted" /\ symbolHolder = Nobody
  /\ Closed({i})
  /\ requests' = requests \cup {i}
  /\ cancel' = [cancel EXCEPT ![c] = Idle]
  /\ UNCHANGED <<asset, base, trades, symbolHolder, matching, bulk, janitor>>

(* Mutant: it waits for an order that is not open any more. *)
CancelOrderOnlyOpen(c) ==
  LET i == cancel[c].order IN
  /\ cancel[c].pc = "inserted" /\ symbolHolder = Nobody /\ i \in Open
  /\ Closed({i})
  /\ requests' = requests \cup {i}
  /\ cancel' = [cancel EXCEPT ![c] = Idle]
  /\ UNCHANGED <<asset, base, trades, symbolHolder, matching, bulk, janitor>>

(* Order.cancel: with the symbol locked the order is read again; the request  *)
(* is committed whether or not it is still open.                              *)
CancelOrder(c) ==
  LET i == cancel[c].order IN
  /\ cancel[c].pc = "inserted" /\ symbolHolder = Nobody
  /\ Closed({i} \cap Open)
  /\ requests' = requests \cup {i}
  /\ cancel' = [cancel EXCEPT ![c] = Idle]
  /\ UNCHANGED <<asset, base, trades, symbolHolder, matching, bulk, janitor>>

(* Mutant: the request is committed before the order is canceled. *)
CancelFailsHalfway(c) ==
  /\ cancel[c].pc # "idle"
  /\ cancel' = [cancel EXCEPT ![c] = Idle]
  /\ requests' = IF cancel[c].pc = "inserted" THEN requests \cup {cancel[c].order} ELSE requests
  /\ UNCHANGED <<book, symbolHolder, matching, bulk, janitor>>

(* The transaction around both is rolled back. *)
CancelFails(c) ==
  /\ cancel[c].pc # "idle"
  /\ cancel' = [cancel EXCEPT ![c] = Idle]
  /\ UNCHANGED <<book, symbolHolder, matching, requests, bulk, janitor>>

-----------------------------------------------------------------------------
(* Order.bulk_cancel_simple_orders.                                           *)

(* The open ones among the orders the caller names are read, with no lock.    *)
BulkRead(S) ==
  /\ bulk.pc = "idle"
  /\ S # {} /\ S \subseteq Open
  /\ \A i, j \in S : order[i].account = order[j].account
  /\ bulk' = [NoBulk EXCEPT !.pc = "read", !.ids = S]
  /\ UNCHANGED <<book, symbolHolder, matching, requests, cancel, janitor>>

BulkLock ==
  /\ bulk.pc = "read" /\ symbolHolder = Nobody
  /\ symbolHolder' = Bulk
  /\ bulk' = [bulk EXCEPT !.pc = "locked"]
  /\ UNCHANGED <<book, matching, requests, cancel, janitor>>

(* With the symbol locked the orders are read again: a request is inserted    *)
(* for each that is open and has none, waiting for whoever is inserting it.   *)
BulkRequests == (bulk.ids \cap Open) \ requests

BulkInsert(i) ==
  /\ bulk.pc = "locked"
  /\ i \in BulkRequests /\ ~ Inserting(i)
  /\ bulk' = [bulk EXCEPT !.inserted = @ \cup {i}]
  /\ UNCHANGED <<book, symbolHolder, matching, requests, cancel, janitor>>

BulkEnd ==
  /\ bulk' = NoBulk
  /\ symbolHolder' = IF symbolHolder = Bulk THEN Nobody ELSE symbolHolder

BulkCommit ==
  /\ bulk.pc = "locked" /\ bulk.inserted = BulkRequests
  /\ Closed(bulk.ids \cap Open)
  /\ requests' = requests \cup bulk.inserted
  /\ BulkEnd
  /\ UNCHANGED <<asset, base, trades, matching, cancel, janitor>>

BulkFails ==
  /\ bulk.pc # "idle"
  /\ BulkEnd
  /\ UNCHANGED <<book, matching, requests, cancel, janitor>>

(* bulk waits for the request row of c, c for the symbol: after one second    *)
(* PostgreSQL's deadlock detector rolls back one of them.                     *)
BreakDeadlock(c) ==
  /\ bulk.pc = "locked" /\ cancel[c].pc = "inserted"
  /\ cancel[c].order \in BulkRequests \ bulk.inserted
  /\ CancelFails(c) \/ BulkFails

-----------------------------------------------------------------------------
(* ledger/tasks/locks.py: free_missing_locks, every 15 seconds.               *)

JanitorReadLocks ==
  /\ janitor.pc = "idle"
  /\ janitor' = [pc |-> "locks read", keys |-> {i \in Ids : lock[i] > 0}]
  /\ UNCHANGED <<book, symbolHolder, matching, cancelling>>

(* Mutant: the locks of filled orders are spared too. *)
JanitorSparesFilled ==
  /\ janitor.pc = "locks read"
  /\ janitor' = [pc |-> "orders read",
                 keys |-> {i \in janitor.keys : order[i].status \notin {"new", "filled"}}]
  /\ UNCHANGED <<book, symbolHolder, matching, cancelling>>

JanitorReadOrders ==
  /\ janitor.pc = "locks read"
  /\ janitor' = [pc |-> "orders read", keys |-> janitor.keys \ Open]
  /\ UNCHANGED <<book, symbolHolder, matching, cancelling>>

JanitorRelease ==
  /\ janitor.pc = "orders read"
  /\ lock' = [i \in Ids |-> IF i \in janitor.keys THEN 0 ELSE lock[i]]
  /\ janitor' = [pc |-> "idle", keys |-> {}]
  /\ UNCHANGED <<order, asset, base, trades, symbolHolder, matching, cancelling>>

-----------------------------------------------------------------------------
Submission(i) ==
  \/ Submit(i) \/ Kill(i) \/ RefuseUnfunded(i)
  \/ \E m \in Ids : Match(i, m)
  \/ Commit(i) \/ RefuseUnpaid(i)

CancelStep(c) == InsertRequest(c) \/ FoundRequest(c) \/ CancelOrder(c)

BulkStep == BulkLock \/ (\E i \in Ids : BulkInsert(i)) \/ BulkCommit

Janitor == JanitorReadLocks \/ JanitorReadOrders \/ JanitorRelease

Next ==
  \/ \E i \in Ids, t \in Tickets : Place(i, t)
  \/ \E i \in Ids : Submission(i) \/ Crash(i)
  \/ \E c \in Cancellers, i \in Ids : AskCancel(c, i)
  \/ \E c \in Cancellers : CancelStep(c) \/ CancelFails(c) \/ BreakDeadlock(c)
  \/ \E S \in SUBSET Ids : BulkRead(S)
  \/ BulkStep \/ BulkFails
  \/ Janitor

Spec == Init /\ [][Next]_vars

(* Requests are served to their end; waiters for a row lock are queued by     *)
(* PostgreSQL, so none is passed over for ever; celery beat runs the janitor. *)
Fairness ==
  /\ \A i \in Ids : SF_vars(Submission(i))
  /\ \A c \in Cancellers : SF_vars(CancelStep(c))
  /\ SF_vars(BulkStep)
  /\ \A c \in Cancellers : WF_vars(BreakDeadlock(c))
  /\ WF_vars(Janitor)

FairSpec == Spec /\ Fairness

-----------------------------------------------------------------------------
TradesOf(i) == {t \in trades : i \in {t.taker, t.maker}}

(* Whatever was matched, canceled or swept meanwhile, an open order holds at  *)
(* least the funds for the rest of it; a canceled or refused one holds        *)
(* nothing, and a filled one only what rounding each match left over.         *)
LockBacksOrder ==
  \A i \in Ids :
    CASE order[i].status = "new" -> lock[i] >= ToLock(order[i], Unfilled(i))
      [] order[i].status = "filled" -> lock[i] \in 0 .. Unit * Cardinality(TradesOf(i)) - 1
      [] OTHER -> lock[i] = 0

(* Nothing that could be traded is left waiting on both sides of the book.    *)
BookNotCrossed ==
  \A b, s \in Open :
    order[b].side = "buy" /\ order[s].side = "sell" => order[b].price < order[s].price

(* No trade at a price either party did not accept: for a market order, the   *)
(* 1% around the best price it saw, however the book has moved since.         *)
PriceProtected ==
  \A t \in trades : order[Seller(t)].price <= t.price /\ t.price <= order[Buyer(t)].price

(* filled_amount is what was traded, and the status agrees with it: only a    *)
(* market buy short of funds is "filled" with less than its amount.           *)
FilledIsTraded ==
  \A i \in Ids :
    LET o == order[i] IN
    /\ o.filled = SumFunctionOnSet([t \in TradesOf(i) |-> t.amount], TradesOf(i))
    /\ o.filled <= o.amount
    /\ o.status = "new" => o.filled < o.amount
    /\ o.status = "filled" => o.filled = o.amount \/ (o.type = "market" /\ o.side = "buy")

(* Fill-or-kill orders are filled or untouched, and only good-till-canceled   *)
(* limit orders rest in the book.                                             *)
TimeInForceKept ==
  \A i \in Ids :
    /\ order[i].tif = "FOK" /\ order[i].status # "filled" => order[i].filled = 0
    /\ i \in Open => order[i].type = "limit" /\ order[i].tif = "GTC"

(* Price-time priority: a taker trades with a maker only after it has used up *)
(* every open order that comes before it.                                     *)
BestFirst ==
  [][\A t \in trades' \ trades, n \in Open :
       order[n].side = order[t.maker].side /\ Before(n, t.maker)
         => order'[n].status = "filled"]_vars

(* Only submitting an order of one's own can lower one's free funds: being    *)
(* matched, canceled or swept never does.                                     *)
FreeFundsKept ==
  [][\A a \in Accounts, side \in Sides :
       \/ Free(a, side)' >= Free(a, side)
       \/ \E i \in Ids : order[i].account = a /\ order[i].status = "placing"
                         /\ order'[i].status # "placing"]_vars

(* A closed order never changes again, whoever still holds a stale copy.      *)
ClosedIsFinal ==
  [][\A i \in Ids : order[i].status \in {"filled", "canceled", "refused"} =>
                      order'[i] = order[i]]_vars

(* An order whose cancellation was acknowledged is not left open.             *)
RequestedIsClosed == requests \cap Open = {}

(* Cancel requests end although they may deadlock with a bulk cancellation.   *)
CancelsEnd ==
  /\ \A c \in Cancellers : cancel[c].pc # "idle" ~> cancel[c].pc = "idle"
  /\ bulk.pc # "idle" ~> bulk.pc = "idle"

(* What rounding leaves on the lock of a filled order is given back.          *)
DustFreed == \A i \in Ids : order[i].status = "filled" ~> lock[i] = 0
=============================================================================
