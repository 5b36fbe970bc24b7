---------------------------- MODULE MCOrderBook ----------------------------
(* Prices are in hundredths, which leaves room for the 1% around a market     *)
(* price is exact; with Unit = 3 an amount of base loses up to 2 when it is   *)
(* rounded.                                                                   *)
EXTENDS OrderBook

CONSTANTS alice, bob, carol, c1, c2

Limit(a, side, tif, price, amount) ==
  [account |-> a, side |-> side, type |-> "limit", tif |-> tif, price |-> price,
   amount |-> amount]
MarketOrder(a, side, amount) ==
  [account |-> a, side |-> side, type |-> "market", tif |-> "GTC", price |-> 0,
   amount |-> amount]

(* Sells of bob meet buys of alice of every kind.  She can afford two of the  *)
(* dearer units, or almost; carol can afford 95% of a market buy of one, and  *)
(* not the unit itself.                                                       *)
MatchingTickets ==
  {Limit(bob, "sell", "GTC", p, 1) : p \in {101, 200}}
  \cup {Limit(alice, "buy", "GTC", 101, 2), Limit(alice, "buy", "GTC", 200, 2),
        Limit(alice, "buy", "FOK", 101, 2), Limit(alice, "buy", "IOC", 200, 2),
        Limit(bob, "buy", "ME_IOC", 200, 2),
        MarketOrder(alice, "buy", 2), MarketOrder(bob, "sell", 1),
        MarketOrder(carol, "buy", 1)}
MatchingAsset == [a \in Accounts |-> IF a = bob THEN 3 ELSE 0]
MatchingBase == [a \in Accounts |-> IF a = carol THEN 98 ELSE 400]

(* A large buy, and the sells that fill it in parts. *)
CancelTickets ==
  {Limit(alice, "buy", "GTC", 101, 2), Limit(bob, "sell", "GTC", 101, 1)}
CancelAsset == [a \in Accounts |-> IF a = bob THEN 2 ELSE 0]
CancelBase == [a \in Accounts |-> IF a = alice THEN 202 ELSE 0]

(* The third order is placed and matched while no customer's cancel request   *)
(* is in progress (bulk cancellations may be).                                *)
CancelsAmongTwo ==
  (\E i \in Ids : order[i].status = "unsent") \/ (\A c \in Cancellers : cancel[c] = Idle)
=============================================================================
