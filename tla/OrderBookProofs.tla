-------------------------- MODULE OrderBookProofs --------------------------
(* Theorems about OrderBook.tla, for any number of orders, tickets and        *)
(* requests.  Inv is about the rows and who may write them: it needs no fact  *)
(* about amounts.  BookInv, further down, is about the amounts.               *)
EXTENDS OrderBook, SumTheorems, FiniteSetTheorems, TLAPS

ClosedStatuses == {"filled", "canceled", "refused"}
Public == {"new", "filled", "canceled"}

(* Rows have the fields of Order; what they hold follows where it matters.    *)
Rows ==
  /\ order = [i \in Ids |-> order[i]]
  /\ \A i \in Ids :
       order[i] = [account |-> order[i].account, side |-> order[i].side, type |-> order[i].type,
                   tif |-> order[i].tif, price |-> order[i].price, amount |-> order[i].amount,
                   filled |-> order[i].filled, status |-> order[i].status]

(* The price of a limit order is a number, and what rests is a limit order.   *)
Resting ==
  \A i \in Ids :
    /\ order[i].type \in {"limit", "market"}
    /\ order[i].type = "limit" => order[i].price \in Nat
    /\ order[i].status = "new" => order[i].type = "limit"

(* Only an order that is being placed holds the symbol, and while it does the *)
(* makers it has matched stay open and cross it.                              *)
Matching ==
  /\ symbolHolder \in Ids \cup {Nobody, Bulk}
  /\ symbolHolder \in Ids => order[symbolHolder].status = "placing"
  /\ matched = [m \in Ids |-> matched[m]]
  /\ \A m \in Ids : matched[m] # 0 =>
       /\ symbolHolder \in Ids
       /\ order[m].status = "new"
       /\ order[m].side # order[symbolHolder].side
       /\ Crosses(order[symbolHolder], order[m])

(* Cancellations are about orders that were open once.                        *)
Cancels ==
  /\ cancel \in [Cancellers -> [pc : {"idle", "asked", "inserted"}, order : Ids \cup {0}]]
  /\ \A c \in Cancellers : cancel[c].pc # "idle" =>
       cancel[c].order \in Ids /\ order[cancel[c].order].status \in Public
  /\ requests \subseteq Ids
  /\ \A i \in requests : order[i].status \in {"filled", "canceled"}

Bulks ==
  /\ bulk \in [pc : {"idle", "read", "locked"}, ids : SUBSET Ids, inserted : SUBSET Ids]
  /\ symbolHolder = Bulk <=> bulk.pc = "locked"
  /\ \A i \in bulk.ids : order[i].status \in Public

(* Trades are between a buy and a sell that had these prices all along.       *)
Trades ==
  \A t \in trades :
    /\ t.taker \in Ids /\ t.maker \in Ids
    /\ order[t.taker].status \notin {"unsent", "placing"}
    /\ order[t.maker].status \notin {"unsent", "placing"}
    /\ order[Seller(t)].price <= t.price /\ t.price <= order[Buyer(t)].price

Inv == Rows /\ Resting /\ Matching /\ Cancels /\ Bulks /\ Trades

(* What every step does to the rows: an order that was submitted keeps its    *)
(* terms, and a closed one all of its row.                                    *)
Updated ==
  /\ Rows'
  /\ \A j \in Ids :
       /\ order[j].status \notin {"unsent", "placing"} =>
            /\ order'[j].status \notin {"unsent", "placing"}
            /\ order'[j].side = order[j].side /\ order'[j].price = order[j].price
       /\ order[j].status = "new" => order'[j].status \in Public
       /\ order[j].status \in ClosedStatuses => order'[j] = order[j]

-----------------------------------------------------------------------------
(* Init: there is no order yet. *)
LEMMA InitInv == Init => Inv
<1> SUFFICES ASSUME Init PROVE Inv
  OBVIOUS
<1> USE BookAssumption
<1>1. Rows
  BY DEF Init, Rows, NoOrder
<1>2. Resting
  BY DEF Init, Resting, NoOrder
<1>3. Matching
  BY DEF Init, Matching
<1>4. Cancels
  BY DEF Init, Cancels, Idle
<1>5. Bulks
  BY DEF Init, Bulks, NoBulk
<1>6. Trades
  BY DEF Init, Trades
<1> QED
  BY <1>1, <1>2, <1>3, <1>4, <1>5, <1>6 DEF Inv

(* Trades, requests and reads of open orders outlive any update of the rows.  *)
LEMMA UpdateKeeps ==
  ASSUME Inv, Updated
  PROVE  /\ trades' = trades => Trades'
         /\ cancel' = cancel /\ requests' = requests => Cancels'
         /\ bulk' = bulk /\ (symbolHolder' = Bulk <=> symbolHolder = Bulk) => Bulks'
<1>1. trades' = trades => Trades'
  BY DEF Inv, Trades, Updated, Buyer, Seller
<1>2. cancel' = cancel /\ requests' = requests => Cancels'
  BY DEF Inv, Cancels, Updated, Public, ClosedStatuses
<1>3. bulk' = bulk /\ (symbolHolder' = Bulk <=> symbolHolder = Bulk) => Bulks'
  BY DEF Inv, Bulks, Updated, Public, ClosedStatuses
<1> QED
  BY <1>1, <1>2, <1>3

(* A step that writes no row updates none. *)
LEMMA SameRows == ASSUME Inv, order' = order PROVE Updated /\ Resting'
BY DEF Inv, Rows, Resting, Updated, Public

-----------------------------------------------------------------------------
(* Placing, and the ends of a submission without a trade.                     *)

LEMMA PlaceKeeps ==
  ASSUME Inv, NEW i \in Ids, NEW t \in Tickets, Place(i, t)
  PROVE  Inv' /\ Updated
<1> USE BookAssumption DEF Place
<1> DEFINE row == [account |-> t.account, side |-> t.side, type |-> t.type, tif |-> t.tif,
                   price |-> IF t.type = "market" THEN MarketPrice(t.side) ELSE t.price,
                   amount |-> t.amount, filled |-> 0, status |-> "placing"]
<1>1. order' = [j \in Ids |-> IF j = i THEN row ELSE order[j]]
  <2> HIDE DEF row
  <2> QED BY DEF Inv, Rows, row
<1>2. order'[i] = row /\ \A j \in Ids : j # i => order'[j] = order[j]
  BY <1>1
<1>3. row.type \in {"limit", "market"} /\ (row.type = "limit" => row.price \in Nat)
  BY DEF Ticket
<1>4. Rows'
  BY <1>1, <1>2 DEF Rows, Inv
<1>5. order[i].status = "unsent" /\ order'[i].status = "placing"
  BY <1>2
<1> HIDE DEF row
<1>6. Updated
  BY <1>2, <1>4, <1>5 DEF Updated, Public, ClosedStatuses
<1>7. Resting'
  BY <1>2, <1>3, <1>5 DEF Resting, Inv
<1>8. Matching'
  BY <1>2, <1>5 DEF Matching, matching, Inv, Crosses
<1>9. Trades' /\ Cancels' /\ Bulks'
  BY <1>6, UpdateKeeps DEF cancelling
<1> QED
  BY <1>4, <1>6, <1>7, <1>8, <1>9 DEF Inv

(* Kill and Refuse end an order that is being placed. *)
LEMMA EndedKeeps ==
  ASSUME Inv, NEW i \in Ids, order[i].status = "placing",
         NEW s \in {"refused", "canceled"}, order' = [order EXCEPT ![i].status = s],
         UNCHANGED <<trades, cancelling>>,
         \/ UNCHANGED <<symbolHolder, matching>> /\ symbolHolder # i
         \/ symbolHolder = i /\ SymbolFreed
  PROVE  Inv' /\ Updated
<1> USE BookAssumption
<1>1. order'[i] = [order[i] EXCEPT !.status = s] /\ \A j \in Ids : j # i => order'[j] = order[j]
  BY DEF Inv, Rows
<1>2. /\ order'[i].status = s /\ order'[i].side = order[i].side /\ order'[i].type = order[i].type
      /\ order'[i].price = order[i].price
  BY <1>1 DEF Inv, Rows
<1>3. Rows'
  BY <1>1 DEF Inv, Rows
<1>4. Updated
  BY <1>1, <1>2, <1>3 DEF Updated, Public, ClosedStatuses
<1>5. Resting'
  BY <1>1, <1>2 DEF Resting, Inv
<1>6. Matching'
  BY <1>1, <1>2 DEF Matching, matching, Inv, Crosses, SymbolFreed
<1>7. symbolHolder' = Bulk <=> symbolHolder = Bulk
  BY DEF SymbolFreed
<1>8. Trades' /\ Cancels' /\ Bulks'
  BY <1>4, <1>7, UpdateKeeps DEF cancelling
<1> QED
  BY <1>3, <1>4, <1>5, <1>6, <1>8 DEF Inv

(* The order whose transaction is rolled back was being placed. *)
LEMMA RefuseKeeps ==
  ASSUME Inv, NEW i \in Ids, Refuse(i), order[i].status = "placing"
  PROVE  Inv' /\ Updated
BY EndedKeeps DEF Refuse

(* A fill-or-kill order is canceled while nobody holds the symbol. *)
LEMMA KillKeeps == ASSUME Inv, NEW i \in Ids, Kill(i) PROVE Inv' /\ Updated
BY EndedKeeps, BookAssumption DEF Kill

-----------------------------------------------------------------------------
(* Matching.                                                                  *)

(* The symbol's lock is taken when nothing is matched. *)
LEMMA SubmitKeeps == ASSUME Inv, NEW i \in Ids, Submit(i) PROVE Inv' /\ Updated
<1> USE BookAssumption
<1>1. order' = order /\ trades' = trades /\ symbolHolder = Nobody /\ symbolHolder' = i
  BY DEF Submit, book
<1>2. Updated /\ Resting'
  BY <1>1, SameRows
<1>3. Matching'
  BY <1>1 DEF Submit, Matching, Inv, Crosses
<1>4. Trades' /\ Cancels' /\ Bulks'
  BY <1>1, <1>2, UpdateKeeps DEF Submit, cancelling
<1> QED
  BY <1>2, <1>3, <1>4 DEF Inv, Updated

(* A maker that is matched is open, of the other side, and crosses the taker. *)
LEMMA MatchKeeps ==
  ASSUME Inv, NEW i \in Ids, NEW m \in Ids, Match(i, m)
  PROVE  Inv' /\ Updated
<1> USE BookAssumption
<1>1. order' = order /\ trades' = trades /\ symbolHolder = i /\ symbolHolder' = i
  BY DEF Match, book
<1>2. Updated /\ Resting'
  BY <1>1, SameRows
<1>3. order[m].status = "new" /\ order[m].side # order[i].side /\ Crosses(order[i], order[m])
  BY DEF Match, NextMaker, Makers, Open
<1>4. PICK n : matched' = [matched EXCEPT ![m] = n]
  BY DEF Match
<1>5. Matching'
  BY <1>1, <1>3, <1>4 DEF Matching, Inv, Crosses
<1>6. Trades' /\ Cancels' /\ Bulks'
  BY <1>1, <1>2, UpdateKeeps DEF Match, cancelling
<1> QED
  BY <1>2, <1>5, <1>6 DEF Inv, Updated

(* The rows a commit writes keep their terms; makers are filled or stay open. *)
LEMMA SettledRows ==
  ASSUME Inv, NEW i \in Ids, order[i].status = "placing", symbolHolder = i,
         order' = SettledOrder(i)
  PROVE  /\ Rows'
         /\ \A n \in Ids :
              /\ order'[n].side = order[n].side /\ order'[n].price = order[n].price
              /\ order'[n].type = order[n].type
              /\ order'[n].account = order[n].account /\ order'[n].tif = order[n].tif
              /\ order'[n].amount = order[n].amount
              /\ order'[n].filled = IF n = i THEN SumFunctionOnSet(matched, Ids)
                                    ELSE IF matched[n] # 0 THEN order[n].filled + matched[n]
                                    ELSE order[n].filled
              /\ order'[n].status = IF n = i THEN Outcome(i)
                                    ELSE IF matched[n] # 0 /\ matched[n] = Unfilled(n) THEN "filled"
                                    ELSE order[n].status
              /\ n # i /\ matched[n] = 0 => order'[n] = order[n]
<1> DEFINE row(n) ==
      [account |-> order[n].account, side |-> order[n].side, type |-> order[n].type,
       tif |-> order[n].tif, price |-> order[n].price, amount |-> order[n].amount,
       filled |-> order'[n].filled, status |-> order'[n].status]
<1>1. order' = [n \in Ids |-> order'[n]]
  BY DEF SettledOrder
<1>2. ASSUME NEW n \in Ids
      PROVE  /\ order'[n] = row(n)
             /\ order'[n].filled = IF n = i THEN SumFunctionOnSet(matched, Ids)
                                   ELSE IF matched[n] # 0 THEN order[n].filled + matched[n]
                                   ELSE order[n].filled
             /\ order'[n].status = IF n = i THEN Outcome(i)
                                   ELSE IF matched[n] # 0 /\ matched[n] = Unfilled(n) THEN "filled"
                                   ELSE order[n].status
             /\ n # i /\ matched[n] = 0 => order'[n] = order[n]
  <2> DEFINE base_(f, s) == [order[n] EXCEPT !.filled = f, !.status = s]
  <2>1. order[n] = [account |-> order[n].account, side |-> order[n].side, type |-> order[n].type,
                    tif |-> order[n].tif, price |-> order[n].price, amount |-> order[n].amount,
                    filled |-> order[n].filled, status |-> order[n].status]
    BY DEF Inv, Rows
  <2>2. ASSUME NEW f, NEW s
        PROVE  base_(f, s) = [account |-> order[n].account, side |-> order[n].side,
                 type |-> order[n].type, tif |-> order[n].tif, price |-> order[n].price,
                 amount |-> order[n].amount, filled |-> f, status |-> s]
    <3>1. PICK r : r = [order[n] EXCEPT !.filled = f]
      OBVIOUS
    <3>2. r = [account |-> order[n].account, side |-> order[n].side, type |-> order[n].type,
               tif |-> order[n].tif, price |-> order[n].price, amount |-> order[n].amount,
               filled |-> f, status |-> order[n].status]
      BY <2>1, <3>1
    <3>3. [r EXCEPT !.status = s] =
              [account |-> order[n].account, side |-> order[n].side, type |-> order[n].type,
               tif |-> order[n].tif, price |-> order[n].price, amount |-> order[n].amount,
               filled |-> f, status |-> s]
      BY <3>2
    <3>4. base_(f, s) = [r EXCEPT !.status = s]
      BY <3>1
    <3> QED
      BY <3>3, <3>4
  <2> HIDE DEF base_
  <2>3. CASE n = i
    <3>1. order'[n] = base_(SumFunctionOnSet(matched, Ids), Outcome(i))
      BY <2>3 DEF SettledOrder, base_
    <3> QED BY <2>2, <2>3, <3>1
  <2>4. CASE n # i /\ matched[n] # 0
    <3>1. order'[n] = base_(order[n].filled + matched[n],
                            IF matched[n] = Unfilled(n) THEN "filled" ELSE order[n].status)
      BY <2>4 DEF SettledOrder, base_
    <3> QED BY <2>2, <2>4, <3>1
  <2>5. CASE n # i /\ matched[n] = 0
    <3>1. order'[n] = order[n]
      BY <2>5 DEF SettledOrder
    <3> QED BY <2>1, <2>5, <3>1
  <2> QED
    BY <2>3, <2>4, <2>5
<1>3. ASSUME NEW n \in Ids
      PROVE  /\ order'[n].side = order[n].side /\ order'[n].price = order[n].price
             /\ order'[n].type = order[n].type
             /\ order'[n].account = order[n].account /\ order'[n].tif = order[n].tif
             /\ order'[n].amount = order[n].amount
  <2>1. order'[n] = row(n)
    BY <1>2
  <2>2. /\ row(n).side = order[n].side /\ row(n).price = order[n].price
        /\ row(n).type = order[n].type /\ row(n).account = order[n].account
        /\ row(n).tif = order[n].tif /\ row(n).amount = order[n].amount
    OBVIOUS
  <2> HIDE DEF row
  <2> QED
    BY <2>1, <2>2
<1>4. Rows'
  BY <1>1, <1>2 DEF Rows
<1> HIDE DEF row
<1> QED
  BY <1>2, <1>3, <1>4

(* The makers that were matched are the ones committed, at their own prices.  *)
LEMMA CommitKeeps == ASSUME Inv, NEW i \in Ids, Commit(i) PROVE Inv' /\ Updated
<1> USE BookAssumption
<1>1. /\ symbolHolder = i /\ order[i].status = "placing"
      /\ order' = SettledOrder(i) /\ trades' = trades \cup NewTrades(i) /\ SymbolFreed
  BY DEF Commit, Inv, Matching
<1>2. /\ Outcome(i) \in {"new", "filled", "canceled"}
      /\ Outcome(i) = "new" => order[i].type = "limit"
  BY DEF Outcome, Inv, Resting
<1>3. /\ Rows'
      /\ \A n \in Ids :
           /\ order'[n].side = order[n].side /\ order'[n].price = order[n].price
           /\ order'[n].type = order[n].type
           /\ order'[n].status = IF n = i THEN Outcome(i)
                                 ELSE IF matched[n] # 0 /\ matched[n] = Unfilled(n) THEN "filled"
                                 ELSE order[n].status
           /\ n # i /\ matched[n] = 0 => order'[n] = order[n]
  BY <1>1, SettledRows
<1>4. \A m \in Ids : matched[m] # 0 =>
        /\ order[m].status = "new" /\ order[m].type = "limit" /\ order[m].price \in Nat
        /\ order[m].side # order[i].side /\ Crosses(order[i], order[m]) /\ m # i
  BY <1>1 DEF Inv, Matching, Resting
<1>5. Updated
  BY <1>1, <1>2, <1>3, <1>4 DEF Updated, Public, ClosedStatuses
<1>6. Resting'
  BY <1>1, <1>2, <1>3 DEF Resting, Inv
<1>7. Matching'
  BY DEF Matching, SymbolFreed, Commit
<1>8. symbolHolder' = Bulk <=> symbolHolder = Bulk
  BY <1>1 DEF SymbolFreed
<1>9. Cancels' /\ Bulks'
  BY <1>5, <1>8, UpdateKeeps DEF Commit, cancelling
<1>10. Trades'
  <2> SUFFICES ASSUME NEW t \in trades'
               PROVE  /\ t.taker \in Ids /\ t.maker \in Ids
                      /\ order'[t.taker].status \notin {"unsent", "placing"}
                      /\ order'[t.maker].status \notin {"unsent", "placing"}
                      /\ order'[Seller(t)'].price <= t.price /\ t.price <= order'[Buyer(t)'].price
    BY DEF Trades
  <2>1. CASE t \in trades
    BY <2>1, <1>5 DEF Updated, Inv, Trades, Buyer, Seller
  <2>2. CASE t \in NewTrades(i)
    <3>1. PICK m \in Ids : matched[m] # 0 /\ t = [taker |-> i, maker |-> m,
                                price |-> order[m].price, amount |-> matched[m]]
      BY <2>2 DEF NewTrades, TradeWith
    <3>2. t.taker = i /\ t.maker = m /\ t.price = order[m].price
      BY <3>1
    <3>3. order'[i].status \notin {"unsent", "placing"} /\ order'[m].status \notin {"unsent", "placing"}
      BY <1>2, <1>3, <1>4, <3>1
    <3>4. CASE order[i].side = "buy"
      <4>1. Buyer(t)' = i /\ Seller(t)' = m
        BY <3>2, <3>4, <1>3 DEF Buyer, Seller
      <4> QED
        BY <4>1, <3>1, <3>2, <3>3, <3>4, <1>3, <1>4 DEF Crosses
    <3>5. CASE order[i].side # "buy"
      <4>1. Buyer(t)' = m /\ Seller(t)' = i
        BY <3>2, <3>5, <1>3 DEF Buyer, Seller
      <4> QED
        BY <4>1, <3>1, <3>2, <3>3, <3>5, <1>3, <1>4 DEF Crosses
    <3> QED
      BY <3>4, <3>5
  <2> QED
    BY <1>1, <2>1, <2>2
<1> QED
  BY <1>3, <1>5, <1>6, <1>7, <1>9, <1>10 DEF Inv

-----------------------------------------------------------------------------
(* Cancellations.                                                             *)

(* Open orders are closed while nobody matches. *)
LEMMA ClosedKeeps ==
  ASSUME Inv, NEW S \in SUBSET Open, Closed(S), symbolHolder \in {Nobody, Bulk},
         symbolHolder' \in {Nobody, Bulk}, UNCHANGED <<trades, matching>>
  PROVE  /\ Rows' /\ Updated /\ Resting' /\ Matching' /\ Trades'
         /\ \A j \in S : order'[j].status = "canceled"
<1> USE BookAssumption
<1>1. /\ order' = [j \in Ids |-> order'[j]]
      /\ \A j \in Ids : order'[j] = IF j \in S THEN [order[j] EXCEPT !.status = "canceled"] ELSE order[j]
  BY DEF Closed
<1>2. S \subseteq Ids /\ \A j \in S : order[j].status = "new"
  BY DEF Open
<1>3. ASSUME NEW j \in S
      PROVE  order'[j] = [account |-> order[j].account, side |-> order[j].side,
               type |-> order[j].type, tif |-> order[j].tif, price |-> order[j].price,
               amount |-> order[j].amount, filled |-> order[j].filled, status |-> "canceled"]
  <2>1. order'[j] = [order[j] EXCEPT !.status = "canceled"]
    BY <1>1, <1>2
  <2>2. order[j] = [account |-> order[j].account, side |-> order[j].side, type |-> order[j].type,
                    tif |-> order[j].tif, price |-> order[j].price, amount |-> order[j].amount,
                    filled |-> order[j].filled, status |-> order[j].status]
    BY <1>2 DEF Inv, Rows
  <2> QED
    BY <2>1, <2>2
<1>4. ASSUME NEW j \in S
      PROVE  /\ order'[j].status = "canceled" /\ order'[j].side = order[j].side
             /\ order'[j].price = order[j].price /\ order'[j].type = order[j].type
             /\ order'[j] = [account |-> order'[j].account, side |-> order'[j].side,
                  type |-> order'[j].type, tif |-> order'[j].tif, price |-> order'[j].price,
                  amount |-> order'[j].amount, filled |-> order'[j].filled,
                  status |-> order'[j].status]
  <2>1. PICK row : /\ row = order'[j]
                   /\ row = [account |-> order[j].account, side |-> order[j].side,
                        type |-> order[j].type, tif |-> order[j].tif, price |-> order[j].price,
                        amount |-> order[j].amount, filled |-> order[j].filled,
                        status |-> "canceled"]
    BY <1>3
  <2>2. /\ row.status = "canceled" /\ row.side = order[j].side
        /\ row.price = order[j].price /\ row.type = order[j].type
        /\ row = [account |-> row.account, side |-> row.side, type |-> row.type,
             tif |-> row.tif, price |-> row.price, amount |-> row.amount,
             filled |-> row.filled, status |-> row.status]
    BY <2>1
  <2> QED
    BY <2>1, <2>2
<1>5. \A j \in Ids \ S : order'[j] = order[j]
  BY <1>1
<1>6. Rows'
  <2>1. ASSUME NEW j \in Ids
        PROVE order'[j] = [account |-> order'[j].account, side |-> order'[j].side,
               type |-> order'[j].type, tif |-> order'[j].tif, price |-> order'[j].price,
               amount |-> order'[j].amount, filled |-> order'[j].filled, status |-> order'[j].status]
    <3>1. CASE j \in S
      BY <1>4, <3>1
    <3>2. CASE j \notin S
      BY <1>5, <3>2 DEF Inv, Rows
    <3> QED BY <3>1, <3>2
  <2> QED
    BY <1>1, <2>1 DEF Rows
<1>7. Updated
  <2>1. ASSUME NEW j \in Ids
        PROVE  /\ order[j].status \notin {"unsent", "placing"} =>
                    /\ order'[j].status \notin {"unsent", "placing"}
                    /\ order'[j].side = order[j].side /\ order'[j].price = order[j].price
               /\ order[j].status = "new" => order'[j].status \in Public
               /\ order[j].status \in ClosedStatuses => order'[j] = order[j]
    <3>1. CASE j \in S
      BY <1>2, <1>4, <3>1 DEF Public, ClosedStatuses
    <3>2. CASE j \notin S
      BY <1>5, <3>2 DEF Public
    <3> QED
      BY <3>1, <3>2
  <2> QED
    BY <1>6, <2>1 DEF Updated
<1>8. Resting'
  BY <1>2, <1>4, <1>5 DEF Resting, Inv
<1>9. Matching'
  BY DEF Matching, matching, Inv
<1>10. Trades'
  BY <1>7, UpdateKeeps
<1> QED
  BY <1>4, <1>6, <1>7, <1>8, <1>9, <1>10

(* The order is read again under the symbol's lock. *)
LEMMA CancelOrderKeeps ==
  ASSUME Inv, NEW c \in Cancellers, CancelOrder(c)
  PROVE  Inv' /\ Updated
<1> USE BookAssumption
<1> DEFINE i == cancel[c].order
<1>1. i \in Ids /\ order[i].status \in Public
  BY DEF CancelOrder, Inv, Cancels
<1>2. /\ Rows' /\ Updated /\ Resting' /\ Matching' /\ Trades'
      /\ \A j \in {i} \cap Open : order'[j].status = "canceled"
  BY ClosedKeeps DEF CancelOrder
<1>3. order'[i].status \in {"filled", "canceled"}
  BY <1>1, <1>2 DEF Open, Public, Updated, ClosedStatuses
<1>4. Bulks'
  BY <1>2, UpdateKeeps DEF CancelOrder
<1>5. requests' = requests \cup {i} /\ cancel' = [cancel EXCEPT ![c] = Idle]
  BY DEF CancelOrder
<1>6. \A j \in requests : order'[j].status \in {"filled", "canceled"}
  BY <1>2 DEF Inv, Cancels, Updated, ClosedStatuses
<1>7. \A j \in Ids : order[j].status \in Public => order'[j].status \in Public
  BY <1>2 DEF Updated, Public, ClosedStatuses
<1> HIDE DEF i
<1>8. Cancels'
  BY <1>1, <1>3, <1>5, <1>6, <1>7 DEF Cancels, Inv, Idle
<1> QED
  BY <1>2, <1>4, <1>8 DEF Inv

(* Every order with a request is canceled. *)
LEMMA BulkCommitKeeps == ASSUME Inv, BulkCommit PROVE Inv' /\ Updated
<1> USE BookAssumption
<1>1. symbolHolder = Bulk /\ symbolHolder' = Nobody /\ bulk' = NoBulk
  BY DEF BulkCommit, BulkEnd, Inv, Bulks
<1>2. /\ Rows' /\ Updated /\ Resting' /\ Matching' /\ Trades'
      /\ \A j \in bulk.ids \cap Open : order'[j].status = "canceled"
  BY <1>1, ClosedKeeps DEF BulkCommit
<1>3. \A j \in bulk.inserted : j \in Ids /\ order'[j].status = "canceled"
  BY <1>2 DEF BulkCommit, BulkRequests, Open
<1>4. requests' = requests \cup bulk.inserted /\ cancel' = cancel
  BY DEF BulkCommit
<1>5. \A j \in requests : order'[j].status \in {"filled", "canceled"}
  BY <1>2 DEF Inv, Cancels, Updated, ClosedStatuses
<1>6. \A j \in Ids : order[j].status \in Public => order'[j].status \in Public
  BY <1>2 DEF Updated, Public, ClosedStatuses
<1>7. Cancels'
  BY <1>3, <1>4, <1>5, <1>6 DEF Cancels, Inv
<1>8. Bulks'
  BY <1>1 DEF Bulks, NoBulk
<1> QED
  BY <1>2, <1>7, <1>8 DEF Inv

(* What the requests and the janitor do besides touches no row of an order. *)
LEMMA CancelStepKeeps ==
  ASSUME Inv, NEW c \in Cancellers,
         \/ \E i \in Ids : AskCancel(c, i)
         \/ InsertRequest(c) \/ FoundRequest(c) \/ CancelFails(c)
  PROVE  Inv' /\ Updated
<1> USE BookAssumption
<1>1. UNCHANGED <<book, symbolHolder, matching, requests, bulk>>
  BY DEF AskCancel, InsertRequest, FoundRequest, CancelFails
<1>2. Updated /\ Resting'
  BY <1>1, SameRows DEF book
<1>3. Matching'
  BY <1>1 DEF book, matching, Matching, Inv, Crosses
<1>4. Trades' /\ Bulks'
  BY <1>1, <1>2, UpdateKeeps DEF book
<1>5. Cancels'
  <2>1. ASSUME NEW i \in Ids, AskCancel(c, i) PROVE Cancels'
    BY <2>1 DEF AskCancel, Open, book, Cancels, Inv, Public
  <2>2. CASE InsertRequest(c)
    BY <2>2 DEF InsertRequest, book, Cancels, Inv
  <2>3. CASE FoundRequest(c)
    BY <2>3 DEF FoundRequest, book, Cancels, Inv, Idle
  <2>4. CASE CancelFails(c)
    BY <2>4 DEF CancelFails, book, Cancels, Inv, Idle
  <2> QED
    BY <2>1, <2>2, <2>3, <2>4
<1> QED
  BY <1>2, <1>3, <1>4, <1>5 DEF Inv, Updated

(* A bulk cancellation reads, locks, inserts requests, or is rolled back. *)
LEMMA BulkStepKeeps ==
  ASSUME Inv,
         \/ \E S \in SUBSET Ids : BulkRead(S)
         \/ BulkLock \/ (\E i \in Ids : BulkInsert(i)) \/ BulkFails
  PROVE  Inv' /\ Updated
<1> USE BookAssumption
<1>1. UNCHANGED <<book, matching, requests, cancel>>
  BY DEF BulkRead, BulkLock, BulkInsert, BulkFails
<1>2. Updated /\ Resting'
  BY <1>1, SameRows DEF book
<1>3. Trades' /\ Cancels'
  BY <1>1, <1>2, UpdateKeeps DEF book
<1>4. Matching' /\ Bulks'
  <2>1. ASSUME NEW S \in SUBSET Ids, BulkRead(S) PROVE Matching' /\ Bulks'
    BY <2>1 DEF BulkRead, book, matching, Matching, Bulks, Inv, Crosses, NoBulk, Open, Public
  <2>2. CASE BulkLock
    BY <2>2 DEF BulkLock, book, matching, Matching, Bulks, Inv, Crosses
  <2>3. ASSUME NEW i \in Ids, BulkInsert(i) PROVE Matching' /\ Bulks'
    BY <2>3 DEF BulkInsert, book, matching, Matching, Bulks, Inv, Crosses
  <2>4. CASE BulkFails
    BY <2>4 DEF BulkFails, BulkEnd, NoBulk, book, matching, Matching, Bulks, Inv, Crosses
  <2> QED
    BY <2>1, <2>2, <2>3, <2>4
<1> QED
  BY <1>2, <1>3, <1>4 DEF Inv, Updated

(* The janitor changes locks only. *)
LEMMA JanitorKeeps == ASSUME Inv, Janitor PROVE Inv' /\ Updated
<1>1. UNCHANGED <<order, trades, symbolHolder, matching, cancelling>>
  BY DEF Janitor, JanitorReadLocks, JanitorReadOrders, JanitorRelease, book
<1>2. Updated /\ Resting'
  BY <1>1, SameRows
<1>3. Matching'
  BY <1>1 DEF matching, Matching, Inv, Crosses
<1>4. Trades' /\ Cancels' /\ Bulks'
  BY <1>1, <1>2, UpdateKeeps DEF cancelling
<1> QED
  BY <1>2, <1>3, <1>4 DEF Inv, Updated

-----------------------------------------------------------------------------
(* Every step keeps the invariant and updates rows as it may. *)
LEMMA StepKeeps == Inv /\ [Next]_vars => Inv' /\ Updated
<1> SUFFICES ASSUME Inv, [Next]_vars PROVE Inv' /\ Updated
  OBVIOUS
<1>1. ASSUME NEW i \in Ids, NEW t \in Tickets, Place(i, t) PROVE Inv' /\ Updated
  BY <1>1, PlaceKeeps
<1>2. ASSUME NEW i \in Ids, Submission(i) PROVE Inv' /\ Updated
  <2>1. CASE RefuseUnfunded(i)
    BY <2>1, RefuseKeeps DEF RefuseUnfunded
  <2>2. CASE RefuseUnpaid(i)
    <3>1. order[i].status = "placing"
      BY <2>2 DEF RefuseUnpaid, Inv, Matching
    <3> QED
      BY <2>2, <3>1, RefuseKeeps DEF RefuseUnpaid
  <2> QED
    BY <1>2, <2>1, <2>2, SubmitKeeps, KillKeeps, MatchKeeps, CommitKeeps DEF Submission
<1>3. ASSUME NEW i \in Ids, Crash(i) PROVE Inv' /\ Updated
  BY <1>3, RefuseKeeps DEF Crash
<1>4. ASSUME NEW c \in Cancellers, NEW i \in Ids, AskCancel(c, i) PROVE Inv' /\ Updated
  BY <1>4, CancelStepKeeps
<1>5. ASSUME NEW c \in Cancellers, CancelStep(c) \/ CancelFails(c) PROVE Inv' /\ Updated
  BY <1>5, CancelStepKeeps, CancelOrderKeeps DEF CancelStep
<1>6. ASSUME NEW c \in Cancellers, BreakDeadlock(c) PROVE Inv' /\ Updated
  BY <1>6, CancelStepKeeps, BulkStepKeeps DEF BreakDeadlock
<1>7. ASSUME NEW S \in SUBSET Ids, BulkRead(S) PROVE Inv' /\ Updated
  BY <1>7, BulkStepKeeps
<1>8. CASE BulkStep \/ BulkFails
  BY <1>8, BulkStepKeeps, BulkCommitKeeps DEF BulkStep
<1>9. CASE Janitor
  BY <1>9, JanitorKeeps
<1>10. CASE UNCHANGED vars
  <2>1. Updated /\ Resting'
    BY <1>10, SameRows DEF vars
  <2>2. Matching'
    BY <1>10 DEF vars, Matching, Inv, Crosses
  <2>3. Trades' /\ Cancels' /\ Bulks'
    BY <1>10, <2>1, UpdateKeeps DEF vars
  <2> QED
    BY <2>1, <2>2, <2>3 DEF Inv, Updated
<1> QED
  BY <1>1, <1>2, <1>3, <1>4, <1>5, <1>6, <1>7, <1>8, <1>9, <1>10 DEF Next

(* The invariant, of every reachable state. *)
LEMMA AlwaysInv == Spec => []Inv
<1>1. Inv /\ [Next]_vars => Inv'
  BY StepKeeps
<1> QED
  BY InitInv, <1>1, PTL DEF Spec

(* An order whose cancellation was acknowledged is not open, whatever was     *)
(* matched between the request's reads, for any number of requests and bulk   *)
(* cancellations.                                                             *)
THEOREM RequestedNeverOpen == Spec => []RequestedIsClosed
<1>1. Inv => RequestedIsClosed
  BY DEF Inv, Cancels, RequestedIsClosed, Open
<1> QED
  BY AlwaysInv, <1>1, PTL

(* Filled, canceled and refused orders are never written again.               *)
THEOREM ClosedStaysFinal == Spec => ClosedIsFinal
<1>1. Inv /\ [Next]_vars =>
        [\A i \in Ids : order[i].status \in {"filled", "canceled", "refused"} =>
                          order'[i] = order[i]]_vars
  BY StepKeeps DEF Updated, ClosedStatuses
<1> QED
  BY AlwaysInv, <1>1, PTL DEF Spec, ClosedIsFinal

(* No order ever trades at a price worse than its own.                        *)
THEOREM PriceAlwaysProtected == Spec => []PriceProtected
<1>1. Inv => PriceProtected
  BY DEF Inv, Trades, PriceProtected
<1> QED
  BY AlwaysInv, <1>1, PTL

-----------------------------------------------------------------------------
(* The invariant about amounts.                                               *)

MarketBuy(i) == order[i].type = "market" /\ order[i].side = "buy"
Volume(i) == SumFunctionOnSet([t \in TradesOf(i) |-> t.amount], TradesOf(i))
Taken == {m \in Ids : matched[m] # 0}
Supply(i) == SumFunctionOnSet([m \in Ids |-> Unfilled(m)], Makers(i))

(* Amounts are numbers; prices are positive where the code divides by them.   *)
RowOk(i) ==
  /\ order[i].side \in Sides /\ order[i].tif \in TimesInForce
  /\ order[i].price \in Nat /\ order[i].amount \in Nat \ {0} /\ order[i].filled \in Nat
  /\ order[i].status # "unsent" => order[i].account \in Accounts
  /\ order[i].status # "unsent" /\ (order[i].type = "limit" \/ order[i].side = "buy") =>
       order[i].price > 0

Values ==
  /\ lock \in [Ids -> Nat] /\ asset \in [Accounts -> Int] /\ base \in [Accounts -> Int]
  /\ left \in Nat /\ matched \in [Ids -> Nat]
  /\ IsFiniteSet(trades) /\ \A t \in trades : t.amount \in Nat \ {0}

FilledOk(i) ==
  /\ order[i].filled = Volume(i) /\ order[i].filled <= order[i].amount
  /\ order[i].status = "new" => order[i].filled < order[i].amount
  /\ order[i].status = "filled" => order[i].filled = order[i].amount \/ MarketBuy(i)
  /\ order[i].status \in {"unsent", "placing", "refused"} => order[i].filled = 0

(* Each match may leave less than a Unit on a lock by rounding.  The bound    *)
(* from above holds for open orders too: a filled one keeps what it had.      *)
LockOk(i) ==
  /\ order[i].status = "new" =>
       /\ lock[i] >= ToLock(order[i], Unfilled(i))
       /\ lock[i] <= ToLock(order[i], Unfilled(i)) + Unit * Cardinality(TradesOf(i))
  /\ order[i].status = "filled" =>
       Cardinality(TradesOf(i)) >= 1 /\ lock[i] <= Unit * (Cardinality(TradesOf(i)) - 1)
  /\ order[i].status \notin {"new", "filled"} => lock[i] = 0

OrderOk(i) == RowOk(i) /\ FilledOk(i) /\ LockOk(i)

(* Half-way through make_match of i: what is taken and what is left make up   *)
(* the order, the makers before a taken one are used up, and the taker's lock *)
(* covers what is left.                                                       *)
MatchingOk(i) ==
  /\ \A m \in Taken : matched[m] <= Unfilled(m)
  /\ SumFunctionOnSet(matched, Ids) + left <= order[i].amount
  /\ ~ MarketBuy(i) => SumFunctionOnSet(matched, Ids) + left = order[i].amount
  /\ left > 0 => \A m \in Taken : matched[m] = Unfilled(m)
  /\ left = 0 => Taken # {}
  /\ \A m \in Taken, n \in Open :
       order[n].side = order[m].side /\ Before(n, m) => matched[n] = Unfilled(n)
  /\ order[i].tif = "FOK" => left <= Supply(i)
  /\ order[i].type = "limit" =>
       /\ takerLock \in Int /\ takerLock >= ToLock(order[i], left)
       /\ left > 0 => takerLock <= ToLock(order[i], left) + Unit * Cardinality(Taken)
       /\ left = 0 => takerLock <= Unit * (Cardinality(Taken) - 1)

(* The janitor never holds the key of an order that is open or being placed   *)
(* when it releases it.                                                       *)
Sweeping ==
  /\ janitor.pc = "locks read" =>
       /\ janitor.keys \subseteq Ids
       /\ \A k \in janitor.keys : order[k].status \in {"new", "filled", "canceled"}
  /\ janitor.pc = "orders read" =>
       /\ janitor.keys \subseteq Ids
       /\ \A k \in janitor.keys : order[k].status \in {"filled", "canceled"}

BookInv ==
  /\ \A i \in Ids : OrderOk(i)
  /\ Values
  /\ symbolHolder \in Ids => MatchingOk(symbolHolder)
  /\ Sweeping /\ TimeInForceKept /\ BookNotCrossed

-----------------------------------------------------------------------------
(* Arithmetic of amounts.                                                     *)

LEMMA IdsFinite == IsFiniteSet(Ids)
BY BookAssumption, FS_Interval DEF Ids

LEMMA FloorOk == \A x \in Nat : Floor(x) \in Nat /\ Floor(x) <= x /\ Floor(0) = 0
BY BookAssumption DEF Floor

(* Rounding two parts down loses at most a Unit more than rounding the whole. *)
LEMMA FloorSum ==
  ASSUME NEW x \in Nat, NEW y \in Nat
  PROVE  /\ Floor(x) + Floor(y) <= Floor(x + y)
         /\ Floor(x + y) <= Floor(x) + Floor(y) + Unit
<1>1. Unit \in Nat \ {0}
  BY BookAssumption
<1>2. \/ (x + y) % Unit = (x % Unit) + (y % Unit)
      \/ (x + y) % Unit = (x % Unit) + (y % Unit) - Unit
  BY <1>1, RemainderOfSum
<1>3. x % Unit \in Nat /\ y % Unit \in Nat /\ (x + y) % Unit \in Nat
  BY <1>1
<1> DEFINE r == x % Unit
           s == y % Unit
           t == (x + y) % Unit
<1>4. Floor(x) = x - r /\ Floor(y) = y - s /\ Floor(x + y) = (x + y) - t
  BY Zenon DEF Floor
<1> HIDE DEF r, s, t
<1>5. r \in Nat /\ s \in Nat /\ t \in Nat /\ (t = r + s \/ t = r + s - Unit)
  BY <1>2, <1>3 DEF r, s, t
<1> QED
  BY <1>1, <1>4, <1>5

LEMMA ToLockOk ==
  ASSUME NEW o, o.price \in Nat, NEW x \in Nat
  PROVE  ToLock(o, x) \in Nat /\ ToLock(o, 0) = 0
<1>1. x * o.price \in Nat /\ 0 * o.price = 0
  OBVIOUS
<1> QED
  BY <1>1, FloorOk DEF ToLock

(* What two parts of an order lock together is what all of it locks, up to    *)
(* the rounding.                                                              *)
LEMMA ToLockSum ==
  ASSUME NEW o, o.price \in Nat, NEW x \in Nat, NEW y \in Nat
  PROVE  /\ ToLock(o, x) + ToLock(o, y) <= ToLock(o, x + y)
         /\ ToLock(o, x + y) <= ToLock(o, x) + ToLock(o, y) + Unit
<1>1. CASE o.side = "buy"
  <2> DEFINE p == o.price
             v == x * p
             w == y * p
  <2>1. v \in Nat /\ w \in Nat /\ (x + y) * p = v + w
    OBVIOUS
  <2>2. ToLock(o, x) = Floor(v) /\ ToLock(o, y) = Floor(w) /\ ToLock(o, x + y) = Floor(v + w)
    BY <1>1, <2>1 DEF ToLock
  <2> HIDE DEF v, w
  <2> QED
    BY <2>1, <2>2, FloorSum
<1>2. CASE o.side # "buy"
  BY <1>2, BookAssumption DEF ToLock
<1> QED
  BY <1>1, <1>2

(* Orders that are being placed have no trades yet. *)
LEMMA NoTrades ==
  ASSUME Inv, NEW i \in Ids, order[i].status \in {"unsent", "placing"}
  PROVE  TradesOf(i) = {} /\ Volume(i) = 0 /\ Cardinality(TradesOf(i)) = 0
<1>1. TradesOf(i) = {}
  BY DEF Inv, Trades, TradesOf
<1>2. Volume(i) = 0
  BY <1>1, SumEmpty DEF Volume
<1> QED
  BY <1>1, <1>2, FS_EmptySet

LEMMA CountOk ==
  ASSUME Values, NEW i \in Ids
  PROVE  IsFiniteSet(TradesOf(i)) /\ Cardinality(TradesOf(i)) \in Nat
<1>1. IsFiniteSet(TradesOf(i))
  <2>1. TradesOf(i) \in SUBSET trades
    BY DEF TradesOf
  <2> QED
    BY <2>1, FS_Subset DEF Values
<1> QED
  BY <1>1, FS_CardinalityType

(* What is still to be filled of an open order. *)
LEMMA UnfilledOk ==
  ASSUME NEW i \in Ids, OrderOk(i)
  PROVE  Unfilled(i) \in Nat /\ (order[i].status = "new" => Unfilled(i) > 0)
BY DEF OrderOk, RowOk, FilledOk, Unfilled

LEMMA SupplyOk ==
  ASSUME NEW i, \A m \in Ids : OrderOk(m)
  PROVE  Supply(i) \in Nat /\ IsFiniteSet(Makers(i))
<1>1. Makers(i) \in SUBSET Ids
  BY DEF Makers, Open
<1>2. IsFiniteSet(Makers(i))
  BY <1>1, IdsFinite, FS_Subset
<1> DEFINE f == [m \in Ids |-> Unfilled(m)]
<1>3. \A m \in Makers(i) : f[m] \in Nat
  BY <1>1, UnfilledOk
<1> HIDE DEF f
<1>4. SumFunctionOnSet(f, Makers(i)) \in Nat
  BY <1>2, <1>3, SumNat
<1> QED
  BY <1>2, <1>4 DEF Supply, f

-----------------------------------------------------------------------------
(* Before the first order. *)
LEMMA InitBookInv == Init => BookInv
<1> SUFFICES ASSUME Init PROVE BookInv
  OBVIOUS
<1>1. \A i \in Ids : order[i] = NoOrder /\ lock[i] = 0
  BY DEF Init
<1>2. /\ NoOrder.side = "buy" /\ NoOrder.tif = "GTC" /\ NoOrder.price = 0 /\ NoOrder.amount = 1
      /\ NoOrder.filled = 0 /\ NoOrder.status = "unsent"
  BY DEF NoOrder
<1>3. ASSUME NEW i \in Ids PROVE OrderOk(i)
  <2>1. Volume(i) = 0
    BY <1>1, <1>2, NoTrades, InitInv
  <2> QED
    BY <1>1, <1>2, <2>1 DEF OrderOk, RowOk, FilledOk, LockOk, Sides, TimesInForce
<1>4. Values
  BY BookAssumption, FS_EmptySet DEF Init, Values
<1>5. symbolHolder \notin Ids
  BY BookAssumption DEF Init
<1>6. Sweeping
  BY DEF Init, Sweeping
<1>7. TimeInForceKept /\ BookNotCrossed
  BY <1>1, <1>2 DEF TimeInForceKept, BookNotCrossed, Open
<1> QED
  BY <1>3, <1>4, <1>5, <1>6, <1>7 DEF BookInv

-----------------------------------------------------------------------------
(* What steps leave alone.                                                    *)

LEMMA SameTrades ==
  ASSUME NEW j \in Ids, TradesOf(j)' = TradesOf(j)
  PROVE  Volume(j)' = Volume(j)
BY DEF Volume

(* An order is fine as long as its row, its lock and its trades are the same. *)
LEMMA OrderKept ==
  ASSUME NEW j \in Ids, OrderOk(j), order'[j] = order[j], lock'[j] = lock[j],
         TradesOf(j)' = TradesOf(j)
  PROVE  OrderOk(j)'
<1>1. Volume(j)' = Volume(j)
  BY SameTrades
<1>2. Unfilled(j)' = Unfilled(j)
  BY DEF Unfilled
<1>3. ToLock(order[j], Unfilled(j))' = ToLock(order[j], Unfilled(j))
  BY <1>2 DEF ToLock
<1> QED
  BY <1>1, <1>2, <1>3 DEF OrderOk, RowOk, FilledOk, LockOk, MarketBuy

LEMMA AllTradesKept ==
  ASSUME trades' = trades
  PROVE  \A j \in Ids : TradesOf(j)' = TradesOf(j)
BY DEF TradesOf

(* A match in progress depends on its taker, the open orders and itself.      *)
LEMMA MatchFrame ==
  ASSUME NEW h \in Ids, Inv, BookInv, symbolHolder = h, MatchingOk(h),
         order'[h] = order[h], Open' = Open, \A n \in Open : order'[n] = order[n],
         UNCHANGED matching
  PROVE  MatchingOk(h)'
<1> DEFINE f == [m \in Ids |-> Unfilled(m)]
           g == [m \in Ids |-> Unfilled(m)']
<1>1. left' = left /\ matched' = matched /\ takerLock' = takerLock /\ Taken' = Taken
  BY DEF matching, Taken
<1>2. Taken \subseteq Open /\ Open \subseteq Ids
  BY DEF Inv, Matching, Taken, Open
<1>3. \A m \in Open : Unfilled(m)' = Unfilled(m)
  BY DEF Unfilled
<1>4. Makers(h)' = Makers(h)
  BY <1>1 DEF Makers, Crosses
<1>5. Supply(h)' = Supply(h)
  <2>1. Makers(h) \subseteq Open /\ IsFiniteSet(Makers(h))
    BY SupplyOk DEF Makers, BookInv
  <2>2. \A m \in Makers(h) : g[m] = f[m]
    BY <1>2, <1>3, <2>1
  <2>3. Supply(h)' = SumFunctionOnSet(g, Makers(h)) /\ Supply(h) = SumFunctionOnSet(f, Makers(h))
    BY <1>4 DEF Supply
  <2> HIDE DEF f, g
  <2> QED
    BY <2>1, <2>2, <2>3, SumSame
<1>6. \A m \in Open, n \in Open : Before(n, m)' <=> Before(n, m)
  BY DEF Before
<1>7. /\ \A m \in Taken' : (matched[m] <= Unfilled(m))'
      /\ left > 0 => \A m \in Taken' : (matched[m] = Unfilled(m))'
  BY <1>1, <1>2, <1>3 DEF MatchingOk
<1>8. ASSUME NEW m \in Taken', NEW n \in Open',
             order'[n].side = order'[m].side, Before(n, m)'
      PROVE  matched'[n] = Unfilled(n)'
  <2>1. m \in Taken /\ m \in Open /\ n \in Open
    BY <1>1, <1>2
  <2>2. order[n].side = order[m].side /\ Before(n, m)
    BY <1>6, <1>8, <2>1
  <2>3. matched[n] = Unfilled(n)
    BY <2>1, <2>2 DEF MatchingOk
  <2> QED
    BY <1>1, <1>3, <2>1, <2>3
<1>9. ToLock(order[h], left)' = ToLock(order[h], left) /\ MarketBuy(h)' = MarketBuy(h)
  BY <1>1 DEF ToLock, MarketBuy
<1> QED
  BY <1>1, <1>5, <1>7, <1>8, <1>9 DEF MatchingOk

(* Keys the janitor has read stay those of orders that were open once. *)
LEMMA SweepingKept == ASSUME Sweeping, Updated, janitor' = janitor PROVE Sweeping'
BY DEF Sweeping, Updated, Public, ClosedStatuses

(* Orders that leave the book cross nothing. *)
LEMMA BookShrinks ==
  ASSUME BookNotCrossed, Open' \subseteq Open,
         \A n \in Open' : order'[n].side = order[n].side /\ order'[n].price = order[n].price
  PROVE  BookNotCrossed'
BY DEF BookNotCrossed

-----------------------------------------------------------------------------
(* Steps that write no order, lock or trade and match nothing. *)
LEMMA QuietBook ==
  ASSUME Inv, BookInv, UNCHANGED <<book, matching>>, Sweeping',
         symbolHolder' \in Ids => symbolHolder' = symbolHolder
  PROVE  BookInv'
<1>1. order' = order /\ lock' = lock /\ asset' = asset /\ base' = base /\ trades' = trades
  BY DEF book
<1>2. \A j \in Ids : OrderOk(j)'
  BY <1>1, OrderKept, AllTradesKept DEF BookInv
<1>3. Values'
  BY <1>1 DEF Values, matching, BookInv
<1>4. (symbolHolder \in Ids => MatchingOk(symbolHolder))'
  <2> SUFFICES ASSUME symbolHolder' \in Ids PROVE MatchingOk(symbolHolder)'
    OBVIOUS
  <2>1. PICK h \in Ids : h = symbolHolder /\ h = symbolHolder'
    OBVIOUS
  <2>2. Open' = Open /\ \A n \in Open : order'[n] = order[n]
    BY <1>1 DEF Open
  <2>3. MatchingOk(h)
    BY <2>1 DEF BookInv
  <2>4. MatchingOk(h)'
    BY <1>1, <2>1, <2>2, <2>3, MatchFrame
  <2> QED
    BY <2>1, <2>4
<1>5. TimeInForceKept' /\ BookNotCrossed'
  BY <1>1 DEF BookInv, TimeInForceKept, BookNotCrossed, Open
<1> QED
  BY <1>2, <1>3, <1>4, <1>5 DEF BookInv

(* The janitor releases locks of closed orders only. *)
LEMMA ReleaseBook == ASSUME Inv, BookInv, JanitorRelease PROVE BookInv'
<1>1. /\ order' = order /\ trades' = trades /\ janitor'.pc = "idle"
      /\ lock' = [i \in Ids |-> IF i \in janitor.keys THEN 0 ELSE lock[i]]
  BY DEF JanitorRelease
<1>2. ASSUME NEW j \in Ids PROVE OrderOk(j)'
  <2>1. OrderOk(j) /\ TradesOf(j)' = TradesOf(j) /\ order'[j] = order[j]
    BY <1>1, AllTradesKept DEF BookInv
  <2>2. CASE j \notin janitor.keys
    BY <1>1, <2>1, <2>2, OrderKept
  <2>3. CASE j \in janitor.keys
    <3>1. order[j].status \in {"filled", "canceled"} /\ lock'[j] = 0
      BY <1>1, <2>3 DEF BookInv, Sweeping, JanitorRelease
    <3>2. Cardinality(TradesOf(j)) \in Nat /\ Unit \in Nat
      BY BookAssumption, CountOk DEF BookInv
    <3>3. LockOk(j)'
      <4>1. CASE order[j].status = "filled"
        <5>1. Cardinality(TradesOf(j)) - 1 \in Nat
          BY <2>1, <3>2, <4>1 DEF OrderOk, LockOk
        <5>2. 0 <= Unit * (Cardinality(TradesOf(j)) - 1)
          BY <3>2, <5>1
        <5> QED
          BY <2>1, <3>1, <3>2, <4>1, <5>1, <5>2 DEF LockOk
      <4>2. CASE order[j].status = "canceled"
        BY <2>1, <3>1, <4>2 DEF LockOk
      <4> QED
        BY <3>1, <4>1, <4>2
    <3>4. RowOk(j)' /\ FilledOk(j)'
      BY <2>1, SameTrades DEF OrderOk, RowOk, FilledOk, MarketBuy
    <3> QED
      BY <3>3, <3>4 DEF OrderOk
  <2> QED
    BY <2>2, <2>3
<1>3. Values'
  <2>1. lock' \in [Ids -> Nat]
    BY <1>1 DEF Values, BookInv
  <2>2. UNCHANGED <<asset, base, left, matched, trades>>
    BY DEF JanitorRelease, matching
  <2> QED
    BY <2>1, <2>2 DEF Values, BookInv
<1>4. (symbolHolder \in Ids => MatchingOk(symbolHolder))'
  <2> SUFFICES ASSUME symbolHolder' \in Ids PROVE MatchingOk(symbolHolder)'
    OBVIOUS
  <2>1. PICK h \in Ids : h = symbolHolder /\ h = symbolHolder'
    BY DEF JanitorRelease
  <2>2. Open' = Open /\ (\A n \in Open : order'[n] = order[n]) /\ UNCHANGED matching
    BY <1>1 DEF Open, JanitorRelease
  <2>3. MatchingOk(h)
    BY <2>1 DEF BookInv
  <2>4. MatchingOk(h)'
    BY <1>1, <2>1, <2>2, <2>3, MatchFrame
  <2> QED
    BY <2>1, <2>4
<1>5. TimeInForceKept' /\ BookNotCrossed' /\ Sweeping'
  BY <1>1 DEF BookInv, TimeInForceKept, BookNotCrossed, Open, Sweeping
<1> QED
  BY <1>2, <1>3, <1>4, <1>5 DEF BookInv

-----------------------------------------------------------------------------
(* Orders come and go without a trade.                                        *)

(* A market order's price is a number, and a positive one for a buy.          *)
LEMMA MarketPriceOk ==
  ASSUME Inv, BookInv, NEW side \in Sides, Against(side) # {}
  PROVE  MarketPrice(side) \in Nat /\ (side = "buy" => MarketPrice(side) > 0)
<1> DEFINE price == [m \in Against(side) |-> order[m].price]
           prices == {order[m].price : m \in Against(side)}
<1>1. Against(side) \in SUBSET Ids
  BY DEF Against, Open
<1>2. \A m \in Against(side) : order[m].price \in Nat /\ order[m].price > 0
  BY DEF Against, Open, BookInv, OrderOk, RowOk
<1>3. \A p \in prices : p \in Nat /\ p > 0
  BY <1>2
<1>4. prices # {} /\ prices \subseteq Int
  BY <1>3
<1>5. IsFiniteSet(prices)
  <2>1. IsFiniteSet(Against(side))
    BY <1>1, IdsFinite, FS_Subset
  <2>2. price \in Surjection(Against(side), prices)
    BY DEF Surjection
  <2> QED
    BY <2>1, <2>2, FS_Surjection
<1>6. MarketPrice(side) = IF side = "buy" THEN (Min(prices) * 101) \div 100
                                          ELSE (Max(prices) * 99) \div 100
  BY DEF MarketPrice
<1> HIDE DEF price, prices
<1>7. Min(prices) \in prices
  <2>1. \E x \in prices : \A y \in prices : x <= y
    <3>1. PICK x \in prices : \A y \in prices : y >= x
      BY <1>4, <1>5, LeastElement
    <3> QED
      BY <1>4, <3>1
  <2> QED
    BY <2>1 DEF Min
<1>8. Max(prices) \in prices
  <2>1. \E x \in prices : \A y \in prices : x >= y
    <3>1. PICK x \in prices : \A y \in prices : y <= x
      BY <1>4, <1>5, GreatestElement
    <3> QED
      BY <1>4, <3>1
  <2> QED
    BY <2>1 DEF Max
<1>9. \A p \in Nat : /\ (p * 101) \div 100 \in Nat /\ (p * 99) \div 100 \in Nat
                     /\ p > 0 => (p * 101) \div 100 > 0
  OBVIOUS
<1> QED
  BY <1>3, <1>6, <1>7, <1>8, <1>9

(* A new order is no one's counterpart yet. *)
LEMMA PlaceBook ==
  ASSUME Inv, BookInv, Updated, NEW i \in Ids, NEW t \in Tickets, Place(i, t)
  PROVE  BookInv'
<1> DEFINE price == IF t.type = "market" THEN MarketPrice(t.side) ELSE t.price
           row == [account |-> t.account, side |-> t.side, type |-> t.type, tif |-> t.tif,
                   price |-> price, amount |-> t.amount, filled |-> 0, status |-> "placing"]
<1>1. /\ order[i].status = "unsent" /\ (t.type = "market" => Against(t.side) # {})
      /\ order' = [order EXCEPT ![i] = row]
      /\ UNCHANGED <<lock, asset, base, trades, symbolHolder, matching, janitor>>
  BY DEF Place
<1>2. /\ t.account \in Accounts /\ t.side \in Sides /\ t.tif \in TimesInForce /\ t.amount \in Nat \ {0}
      /\ t.type \in {"limit", "market"} /\ t.price \in Nat /\ (t.type = "limit" => t.price > 0)
  BY BookAssumption DEF Ticket
<1>3. price \in Nat /\ (t.type = "limit" \/ t.side = "buy" => price > 0)
  BY <1>1, <1>2, MarketPriceOk
<1>4. /\ row.account = t.account /\ row.side = t.side /\ row.tif = t.tif /\ row.type = t.type /\ row.price = price
      /\ row.amount = t.amount /\ row.filled = 0 /\ row.status = "placing"
  OBVIOUS
<1> HIDE DEF price, row
<1>5. order'[i] = row /\ \A j \in Ids : j # i => order'[j] = order[j]
  BY <1>1 DEF Inv, Rows
<1>6. OrderOk(i)'
  <2>1. RowOk(i)'
    BY <1>2, <1>3, <1>4, <1>5 DEF RowOk
  <2>2. Volume(i)' = 0
    BY <1>1, AllTradesKept, SameTrades, NoTrades
  <2>3. lock'[i] = 0
    BY <1>1 DEF BookInv, OrderOk, LockOk
  <2> QED
    BY <1>2, <1>4, <1>5, <2>1, <2>2, <2>3 DEF OrderOk, FilledOk, LockOk
<1>7. ASSUME NEW j \in Ids PROVE OrderOk(j)'
  BY <1>1, <1>5, <1>6, OrderKept, AllTradesKept DEF BookInv
<1>8. Values'
  BY <1>1 DEF Values, matching, BookInv
<1>9. Open' = Open /\ \A n \in Open : order'[n] = order[n]
  BY <1>1, <1>4, <1>5 DEF Open
<1>10. (symbolHolder \in Ids => MatchingOk(symbolHolder))'
  <2> SUFFICES ASSUME symbolHolder' \in Ids PROVE MatchingOk(symbolHolder)'
    OBVIOUS
  <2>1. PICK h \in Ids : h = symbolHolder /\ h = symbolHolder'
    BY <1>1
  <2>2. h # i /\ order'[h] = order[h]
    BY <1>1, <1>5, <2>1 DEF Inv, Matching
  <2>3. MatchingOk(h)
    BY <2>1 DEF BookInv
  <2>4. MatchingOk(h)'
    BY <1>1, <1>9, <2>1, <2>2, <2>3, MatchFrame
  <2> QED
    BY <2>1, <2>4
<1>11. BookNotCrossed' /\ TimeInForceKept'
  BY <1>4, <1>5, <1>9 DEF BookInv, TimeInForceKept, BookNotCrossed, Open
<1>12. Sweeping'
  BY <1>1, SweepingKept DEF BookInv
<1> QED
  BY <1>7, <1>8, <1>10, <1>11, <1>12 DEF BookInv

(* A killed or refused order has filled and locked nothing.                   *)
LEMMA EndedBook ==
  ASSUME Inv, BookInv, Updated, NEW i \in Ids, order[i].status = "placing",
         NEW s \in {"refused", "canceled"}, order' = [order EXCEPT ![i].status = s],
         UNCHANGED <<lock, asset, base, trades, janitor>>,
         \/ UNCHANGED <<symbolHolder, matching>> /\ symbolHolder # i
         \/ symbolHolder = i /\ SymbolFreed
  PROVE  BookInv'
<1>1. order'[i] = [order[i] EXCEPT !.status = s] /\ \A j \in Ids : j # i => order'[j] = order[j]
  BY DEF Inv, Rows
<1>2. /\ order'[i].status = s /\ order'[i].side = order[i].side /\ order'[i].type = order[i].type
      /\ order'[i].price = order[i].price /\ order'[i].amount = order[i].amount
      /\ order'[i].tif = order[i].tif /\ order'[i].filled = order[i].filled
      /\ order'[i].account = order[i].account
  BY <1>1 DEF Inv, Rows
<1>3. OrderOk(i) /\ Values
  BY DEF BookInv
<1>4. OrderOk(i)'
  <2>1. RowOk(i)'
    BY <1>2, <1>3 DEF OrderOk, RowOk
  <2>2. Volume(i)' = 0
    BY AllTradesKept, SameTrades, NoTrades
  <2> QED
    BY <1>2, <1>3, <2>1, <2>2 DEF OrderOk, RowOk, FilledOk, LockOk
<1>5. ASSUME NEW j \in Ids PROVE OrderOk(j)'
  BY <1>1, <1>4, OrderKept, AllTradesKept DEF BookInv
<1>6. Values'
  <2>1. left' \in Nat /\ matched' \in [Ids -> Nat]
    BY <1>3 DEF Values, matching, SymbolFreed
  <2> QED
    BY <1>3, <2>1 DEF Values
<1>7. Open' = Open /\ \A n \in Open : order'[n] = order[n]
  BY <1>1, <1>2 DEF Open
<1>8. (symbolHolder \in Ids => MatchingOk(symbolHolder))'
  <2> SUFFICES ASSUME symbolHolder' \in Ids PROVE MatchingOk(symbolHolder)'
    OBVIOUS
  <2>1. UNCHANGED <<symbolHolder, matching>> /\ symbolHolder # i
    BY BookAssumption DEF SymbolFreed
  <2>2. PICK h \in Ids : h = symbolHolder /\ h = symbolHolder'
    BY <2>1
  <2>3. MatchingOk(h) /\ order'[h] = order[h]
    BY <1>1, <2>1, <2>2 DEF BookInv
  <2>4. MatchingOk(h)'
    BY <1>7, <2>1, <2>2, <2>3, MatchFrame
  <2> QED
    BY <2>2, <2>4
<1>9. order'[i].filled = 0
  BY <1>2, <1>3 DEF OrderOk, FilledOk
<1>10. BookNotCrossed' /\ TimeInForceKept'
  BY <1>1, <1>7, <1>9 DEF BookInv, TimeInForceKept, BookNotCrossed, Open
<1>11. Sweeping'
  BY SweepingKept DEF BookInv
<1> QED
  BY <1>5, <1>6, <1>8, <1>10, <1>11 DEF BookInv

LEMMA RefuseBook ==
  ASSUME Inv, BookInv, Updated, NEW i \in Ids, Refuse(i), order[i].status = "placing"
  PROVE  BookInv'
BY EndedBook DEF Refuse

LEMMA KillBook == ASSUME Inv, BookInv, Updated, NEW i \in Ids, Kill(i) PROVE BookInv'
BY EndedBook, BookAssumption DEF Kill

(* Open orders that are closed lock nothing any more. *)
LEMMA ClosedBook ==
  ASSUME Inv, BookInv, Updated, NEW S \in SUBSET Open, Closed(S),
         symbolHolder' \in {Nobody, Bulk}, UNCHANGED <<asset, base, trades, matching, janitor>>
  PROVE  BookInv'
<1>1. S \subseteq Ids /\ \A j \in S : order[j].status = "new"
  BY DEF Open
<1>2. /\ \A j \in Ids \ S : order'[j] = order[j] /\ lock'[j] = lock[j]
      /\ \A j \in S : order'[j] = [order[j] EXCEPT !.status = "canceled"] /\ lock'[j] = 0
      /\ lock' = [j \in Ids |-> IF j \in S THEN 0 ELSE lock[j]]
  BY <1>1 DEF Closed
<1>3. ASSUME NEW j \in S
      PROVE  /\ order'[j].status = "canceled" /\ order'[j].side = order[j].side
             /\ order'[j].type = order[j].type /\ order'[j].price = order[j].price
             /\ order'[j].amount = order[j].amount /\ order'[j].tif = order[j].tif
             /\ order'[j].filled = order[j].filled /\ order'[j].account = order[j].account
  BY <1>1, <1>2 DEF Inv, Rows
<1>4. ASSUME NEW j \in Ids PROVE OrderOk(j)'
  <2>1. OrderOk(j) /\ TradesOf(j)' = TradesOf(j) /\ Volume(j)' = Volume(j)
    BY AllTradesKept, SameTrades DEF BookInv
  <2>2. CASE j \notin S
    BY <1>2, <2>1, <2>2, OrderKept
  <2>3. CASE j \in S
    <3>1. order'[j].status = "canceled" /\ order[j].status = "new" /\ lock'[j] = 0
      BY <1>1, <1>2, <1>3, <2>3
    <3> QED
      BY <1>3, <2>1, <2>3, <3>1 DEF OrderOk, RowOk, FilledOk, LockOk
  <2> QED
    BY <2>2, <2>3
<1>5. Values'
  <2>1. lock' \in [Ids -> Nat]
    BY <1>2 DEF Values, BookInv
  <2>2. UNCHANGED <<asset, base, left, matched, trades>>
    BY DEF matching
  <2> QED
    BY <2>1, <2>2 DEF Values, BookInv
<1>6. symbolHolder' \notin Ids
  BY BookAssumption
<1>7. Open' = Open \ S /\ \A n \in Open' : order'[n] = order[n]
  BY <1>1, <1>2, <1>3 DEF Open
<1>8. BookNotCrossed'
  BY <1>7, BookShrinks DEF BookInv
<1>9. TimeInForceKept'
  <2> SUFFICES ASSUME NEW j \in Ids
               PROVE  /\ order'[j].tif = "FOK" /\ order'[j].status # "filled" => order'[j].filled = 0
                      /\ j \in Open' => order'[j].type = "limit" /\ order'[j].tif = "GTC"
    BY DEF TimeInForceKept
  <2>1. CASE j \notin S
    BY <1>2, <1>7, <2>1 DEF BookInv, TimeInForceKept
  <2>2. CASE j \in S
    BY <1>3, <1>7, <2>2 DEF BookInv, TimeInForceKept
  <2> QED
    BY <2>1, <2>2
<1>10. Sweeping'
  BY SweepingKept DEF BookInv
<1> QED
  BY <1>4, <1>5, <1>6, <1>8, <1>9, <1>10 DEF BookInv

-----------------------------------------------------------------------------
(* Submission and matching.                                                   *)

LEMMA MinOfTwo ==
  ASSUME NEW a \in Int, NEW b \in Int
  PROVE  Min({a, b}) = IF a <= b THEN a ELSE b
<1>1. \E x \in {a, b} : \A y \in {a, b} : x <= y
  OBVIOUS
<1>2. Min({a, b}) \in {a, b} /\ \A y \in {a, b} : Min({a, b}) <= y
  BY <1>1 DEF Min
<1> QED
  BY <1>2

LEMMA LockedForOk ==
  ASSUME NEW locks, \A i \in Ids : locks[i] \in Int, NEW a, NEW side
  PROVE  /\ \A i \in Ids : LockedFor(locks, i, a, side) \in Int
         /\ SumFunctionOnSet([i \in Ids |-> LockedFor(locks, i, a, side)], Ids) \in Int
<1> DEFINE f == [i \in Ids |-> LockedFor(locks, i, a, side)]
<1>1. \A i \in Ids : LockedFor(locks, i, a, side) \in Int
  BY DEF LockedFor
<1>2. \A i \in Ids : f[i] \in Int
  BY <1>1
<1> HIDE DEF f
<1>3. SumFunctionOnSet(f, Ids) \in Int
  BY <1>2, IdsFinite, SumInt
<1> QED
  BY <1>1, <1>3 DEF f

LEMMA FreeInt == ASSUME Values, NEW a \in Accounts, NEW side PROVE Free(a, side) \in Int
<1>1. \A i \in Ids : lock[i] \in Int
  BY DEF Values
<1> QED
  BY <1>1, LockedForOk DEF Values, Free, FreeIn

(* make_match is given at least 1 to fill, and no more than the order asks.   *)
LEMMA ToFillOk ==
  ASSUME Inv, BookInv, NEW i \in Ids, order[i].status = "placing"
  PROVE  /\ WantedLock(i) \in Nat
         /\ ToFill(i) \in Nat \ {0} /\ ToFill(i) <= order[i].amount
         /\ ~ MarketBuy(i) =>
              /\ ToFill(i) = order[i].amount
              /\ WantedLock(i) = IF order[i].side = "buy" THEN order[i].amount * order[i].price
                                 ELSE order[i].amount
<1> DEFINE p == order[i].price
           n == order[i].amount
           free == Free(order[i].account, order[i].side)
<1>1. /\ order[i].side \in Sides /\ order[i].account \in Accounts
      /\ p \in Nat /\ n \in Nat \ {0} /\ (MarketBuy(i) => p > 0)
  BY DEF BookInv, OrderOk, RowOk, MarketBuy
<1>2. n * p \in Nat /\ free \in Int
  BY <1>1, FreeInt DEF BookInv
<1>3. CASE MarketBuy(i)
  <2>1. WantedLock(i) = IF 100 * free > 95 * (n * p) THEN Min({n * p, free}) ELSE n * p
    BY <1>3 DEF WantedLock, MarketBuy
  <2> DEFINE full == n * p
             w == WantedLock(i)
  <2> HIDE DEF full, free
  <2>2. Min({full, free}) = IF full <= free THEN full ELSE free
    BY <1>2, MinOfTwo DEF full
  <2>3. w \in Nat /\ w <= full
    BY <1>2, <2>1, <2>2 DEF full
  <2> HIDE DEF p, n, w
  <2>4. w \div p \in Nat /\ w \div p <= n
    <3>1. p \in Nat \ {0} /\ n \in Nat /\ w \in Nat /\ w <= n * p
      BY <1>1, <1>3, <2>3 DEF full
    <3> QED
      BY <3>1
  <2>5. ToFill(i) = IF w \div p # 0 THEN w \div p ELSE n
    BY <1>3 DEF ToFill, MarketBuy, w, p, n
  <2> QED
    BY <1>1, <1>3, <2>3, <2>4, <2>5 DEF w, n
<1>4. CASE ~ MarketBuy(i)
  BY <1>1, <1>2, <1>4 DEF ToFill, WantedLock, MarketBuy
<1> QED
  BY <1>3, <1>4

(* Matching starts with everything left and nothing taken. *)
LEMMA SubmitBook ==
  ASSUME Inv, BookInv, Updated, NEW i \in Ids, Submit(i) PROVE BookInv'
<1>1. /\ order[i].status = "placing" /\ symbolHolder = Nobody /\ symbolHolder' = i
      /\ ~ CannotFill(i) /\ left' = ToFill(i)
      /\ takerLock' = IF order[i].side = "buy" THEN Floor(WantedLock(i)) ELSE WantedLock(i)
      /\ order' = order /\ lock' = lock /\ asset' = asset /\ base' = base /\ trades' = trades
      /\ matched' = matched /\ janitor' = janitor
  BY DEF Submit, book
<1>2. \A m \in Ids : matched[m] = 0
  BY <1>1, BookAssumption DEF Inv, Matching
<1>3. /\ ToFill(i) \in Nat \ {0} /\ ToFill(i) <= order[i].amount /\ WantedLock(i) \in Nat
      /\ ~ MarketBuy(i) =>
           /\ ToFill(i) = order[i].amount
           /\ WantedLock(i) = IF order[i].side = "buy" THEN order[i].amount * order[i].price
                              ELSE order[i].amount
  BY <1>1, ToFillOk
<1>4. RowOk(i)
  BY DEF BookInv, OrderOk
<1>5. \A j \in Ids : OrderOk(j)'
  BY <1>1, OrderKept, AllTradesKept DEF BookInv
<1>6. Values'
  BY <1>1, <1>3 DEF Values, BookInv
<1>7. MatchingOk(i)'
  <2>1. Taken' = {} /\ SumFunctionOnSet(matched', Ids) = 0
    <3>1. \A m \in Ids : matched'[m] = 0
      BY <1>1, <1>2
    <3> QED
      BY <3>1, IdsFinite, SumZero DEF Taken
  <2>2. MarketBuy(i)' = MarketBuy(i) /\ order'[i] = order[i] /\ left' \in Nat /\ left' > 0
    BY <1>1, <1>3 DEF MarketBuy
  <2>3. order[i].tif = "FOK" => left' <= Supply(i)'
    <3> SUFFICES ASSUME order[i].tif = "FOK" PROVE left' <= Supply(i)'
      OBVIOUS
    <3>1. Supply(i)' = Supply(i)
      BY <1>1 DEF Supply, Makers, Open, Unfilled, Crosses
    <3>2. ~ (ToFill(i) > Supply(i))
      BY <1>1 DEF CannotFill, Supply
    <3>3. Supply(i) \in Nat
      BY SupplyOk DEF BookInv
    <3> QED
      BY <1>1, <1>3, <3>1, <3>2, <3>3
  <2>4. order[i].type = "limit" => /\ takerLock' \in Nat /\ takerLock' = ToLock(order[i], left')
                                   /\ takerLock' <= takerLock' + Unit * Cardinality(Taken')
    <3> SUFFICES ASSUME order[i].type = "limit"
                 PROVE  /\ takerLock' \in Nat /\ takerLock' = ToLock(order[i], left')
                        /\ takerLock' <= takerLock' + Unit * Cardinality(Taken')
      OBVIOUS
    <3>1. ~ MarketBuy(i)
      BY DEF MarketBuy
    <3>2. takerLock' = ToLock(order[i], left')
      BY <1>1, <1>3, <3>1 DEF ToLock
    <3>3. takerLock' \in Nat
      BY <1>1, <1>3, FloorOk
    <3>4. Cardinality(Taken') = 0 /\ Unit * 0 = 0
      BY <2>1, FS_EmptySet, BookAssumption
    <3> QED
      BY <3>2, <3>3, <3>4
  <2>5. ToLock(order[i], left)' = ToLock(order[i], left')
    BY <1>1 DEF ToLock
  <2>6. 0 + left' <= order'[i].amount /\ (~ MarketBuy(i)' => 0 + left' = order'[i].amount)
    BY <1>1, <1>3, <1>4, <2>2 DEF RowOk
  <2> QED
    BY <2>1, <2>2, <2>3, <2>4, <2>5, <2>6 DEF MatchingOk
<1>8. TimeInForceKept' /\ BookNotCrossed'
  BY <1>1 DEF BookInv, TimeInForceKept, BookNotCrossed, Open
<1>9. Sweeping'
  BY <1>1, SweepingKept DEF BookInv
<1> QED
  BY <1>1, <1>5, <1>6, <1>7, <1>8, <1>9 DEF BookInv

(* Whoever comes before a maker crosses the taker too. *)
LEMMA BeforeCrosses ==
  ASSUME BookInv, NEW i \in Ids, NEW m \in Ids, NEW n \in Ids,
         order[m].side # order[i].side, order[n].side = order[m].side,
         Before(n, m), Crosses(order[i], order[m])
  PROVE  Crosses(order[i], order[n]) /\ ~ Before(m, n) /\ n # m
<1>1. /\ order[i].price \in Nat /\ order[m].price \in Nat /\ order[n].price \in Nat
      /\ order[i].side \in Sides /\ order[m].side \in Sides
  BY DEF BookInv, OrderOk, RowOk
<1>2. m \in Int /\ n \in Int
  BY DEF Ids
<1> QED
  BY <1>1, <1>2 DEF Before, Crosses, Sides

(* One turn of the loop takes all of the first maker, or all that is left.    *)
LEMMA MatchBook ==
  ASSUME Inv, BookInv, Updated, NEW i \in Ids, NEW m \in Ids, Match(i, m) PROVE BookInv'
<1> DEFINE x == Min({Unfilled(m), left})
<1>1. /\ symbolHolder = i /\ symbolHolder' = i /\ left > 0 /\ NextMaker(i, m)
      /\ matched' = [matched EXCEPT ![m] = x] /\ left' = left - x
      /\ takerLock' = takerLock - ToLock(order[i], x)
      /\ order' = order /\ lock' = lock /\ asset' = asset /\ base' = base /\ trades' = trades
      /\ janitor' = janitor
  BY DEF Match, book
<1>2. /\ m \in Open /\ order[m].status = "new" /\ order[m].side # order[i].side
      /\ Crosses(order[i], order[m]) /\ matched[m] = 0
      /\ m \in Makers(i) /\ \A n \in Makers(i) \ {m} : Before(m, n)
  BY <1>1 DEF NextMaker, Makers, Open
<1>3. left \in Nat /\ matched \in [Ids -> Nat] /\ Unfilled(m) \in Nat /\ Unfilled(m) > 0
  BY <1>2, UnfilledOk DEF BookInv, Values
<1>4. x = IF Unfilled(m) <= left THEN Unfilled(m) ELSE left
  BY <1>3, MinOfTwo
<1>5. x \in Nat \ {0} /\ x <= left /\ x <= Unfilled(m) /\ (left - x > 0 => x = Unfilled(m))
  BY <1>1, <1>3, <1>4
<1>6. MatchingOk(i) /\ order[i].price \in Nat
  BY <1>1 DEF BookInv, OrderOk, RowOk
<1> HIDE DEF x
<1>7. /\ matched' \in [Ids -> Nat] /\ matched'[m] = x /\ left' \in Nat
      /\ \A n \in Ids : n # m => matched'[n] = matched[n]
  BY <1>1, <1>3, <1>5
<1>8. Taken' = Taken \cup {m} /\ m \notin Taken
  BY <1>2, <1>5, <1>7 DEF Taken
<1>9. \A n \in Ids : Unfilled(n)' = Unfilled(n)
  BY <1>1 DEF Unfilled
<1>10. \A n \in Taken : matched[n] = Unfilled(n)
  BY <1>1, <1>6 DEF MatchingOk
<1>11. SumFunctionOnSet(matched', Ids) = SumFunctionOnSet(matched, Ids) + x
  <2> DEFINE f == matched
             g == matched'
  <2>1. \A n \in Ids : f[n] \in Int /\ g[n] \in Int
    BY <1>3, <1>7
  <2>2. \A n \in Ids \ {m} : f[n] = g[n]
    BY <1>7
  <2> HIDE DEF f, g
  <2>3. SumFunctionOnSet(g, Ids) = SumFunctionOnSet(f, Ids) - f[m] + g[m]
    BY <2>1, <2>2, IdsFinite, SumUpdate
  <2>4. SumFunctionOnSet(f, Ids) \in Int
    BY <2>1, IdsFinite, SumInt
  <2>5. f[m] = 0 /\ g[m] = x
    BY <1>2, <1>7 DEF f, g
  <2>6. SumFunctionOnSet(g, Ids) = SumFunctionOnSet(f, Ids) + x
    BY <1>5, <2>3, <2>4, <2>5
  <2> QED
    BY <2>6 DEF f, g
<1>12. SumFunctionOnSet(matched, Ids) \in Int
  BY <1>3, IdsFinite, SumInt
<1>13. /\ \A n \in Taken' : matched'[n] <= Unfilled(n)'
       /\ left' > 0 => \A n \in Taken' : matched'[n] = Unfilled(n)'
  <2> SUFFICES ASSUME NEW n \in Taken'
               PROVE  matched'[n] <= Unfilled(n)' /\ (left' > 0 => matched'[n] = Unfilled(n)')
    OBVIOUS
  <2>1. CASE n = m
    BY <1>1, <1>5, <1>7, <1>9, <2>1
  <2>2. CASE n # m
    <3>1. n \in Taken /\ n \in Ids
      BY <1>8, <2>2 DEF Taken
    <3>2. matched'[n] = matched[n] /\ matched[n] = Unfilled(n) /\ matched[n] \in Nat
      BY <1>3, <1>7, <1>10, <2>2, <3>1
    <3> QED
      BY <1>9, <3>1, <3>2
  <2> QED
    BY <2>1, <2>2
<1>14. ASSUME NEW t \in Taken', NEW n \in Open', order'[n].side = order'[t].side, Before(n, t)'
       PROVE  matched'[n] = Unfilled(n)'
  <2>1. n \in Open /\ n \in Ids /\ order[n].side = order[t].side /\ Before(n, t)
    BY <1>1, <1>14 DEF Open, Before
  <2>2. Unfilled(n) > 0 /\ Unfilled(n) \in Nat
    BY <2>1, UnfilledOk DEF BookInv, Open
  <2>3. n # m /\ matched[n] = Unfilled(n)
    <3>1. CASE t = m
      <4>1. Crosses(order[i], order[n]) /\ ~ Before(m, n) /\ n # m
        BY <1>2, <2>1, <3>1, BeforeCrosses
      <4>2. n \notin Makers(i)
        BY <1>2, <4>1
      <4>3. matched[n] # 0
        BY <1>2, <2>1, <3>1, <4>1, <4>2 DEF Makers
      <4>4. n \in Taken
        BY <2>1, <4>3 DEF Taken
      <4> QED
        BY <1>10, <4>1, <4>4
    <3>2. CASE t # m
      <4>1. t \in Taken
        BY <1>8, <3>2
      <4>2. matched[n] = Unfilled(n)
        BY <1>6, <2>1, <4>1 DEF MatchingOk
      <4> QED
        BY <1>2, <2>2, <4>2
    <3> QED
      BY <3>1, <3>2
  <2> QED
    BY <1>7, <1>9, <2>1, <2>3
<1>15. order[i].tif = "FOK" => left' <= Supply(i)'
  <2> DEFINE f == [n \in Ids |-> Unfilled(n)]
             R == Makers(i) \ {m}
  <2>1. Makers(i)' = R
    <3>1. Makers(i)' = {n \in Open : /\ order[n].side # order[i].side
                                     /\ Crosses(order[i], order[n])
                                     /\ matched'[n] = 0}
      BY <1>1 DEF Makers, Open, Crosses
    <3>2. \A n \in Open : matched'[n] = 0 <=> matched[n] = 0 /\ n # m
      BY <1>5, <1>7 DEF Open
    <3> QED
      BY <3>1, <3>2 DEF Makers
  <2>2. IsFiniteSet(Makers(i)) /\ Makers(i) \subseteq Ids
    BY SupplyOk DEF BookInv, Makers, Open
  <2>3. \A n \in Makers(i) : f[n] \in Nat
    BY <2>2, UnfilledOk DEF BookInv
  <2>4. f[m] = Unfilled(m) /\ Supply(i) = SumFunctionOnSet(f, Makers(i))
    BY DEF Supply
  <2>5. Supply(i)' = SumFunctionOnSet(f, R)
    BY <1>1, <2>1 DEF Supply, Unfilled
  <2> HIDE DEF f, R
  <2>6. SumFunctionOnSet(f, Makers(i)) = f[m] + SumFunctionOnSet(f, Makers(i) \ {m})
    BY <1>2, <2>2, <2>3, SumRemove
  <2>7. SumFunctionOnSet(f, R) \in Nat
    <3>1. IsFiniteSet(R) /\ R \subseteq Makers(i)
      BY <2>2, FS_RemoveElement DEF R
    <3> QED
      BY <2>3, <3>1, SumNat
  <2>8. Supply(i) = Unfilled(m) + SumFunctionOnSet(f, R)
    BY <2>4, <2>6 DEF R
  <2>9. order[i].tif = "FOK" => left <= Supply(i)
    BY <1>6 DEF MatchingOk
  <2> QED
    BY <1>1, <1>3, <1>5, <2>5, <2>7, <2>8, <2>9
<1>16. order[i].type = "limit" =>
         /\ takerLock' \in Int /\ takerLock' >= ToLock(order[i], left')
         /\ left' > 0 => takerLock' <= ToLock(order[i], left') + Unit * Cardinality(Taken')
         /\ left' = 0 => takerLock' <= Unit * (Cardinality(Taken') - 1)
  <2> SUFFICES ASSUME order[i].type = "limit"
               PROVE  /\ takerLock' \in Int /\ takerLock' >= ToLock(order[i], left')
                      /\ left' > 0 => takerLock' <= ToLock(order[i], left') + Unit * Cardinality(Taken')
                      /\ left' = 0 => takerLock' <= Unit * (Cardinality(Taken') - 1)
    OBVIOUS
  <2> DEFINE k == Cardinality(Taken)
             u == ToLock(order[i], x)
             v == ToLock(order[i], left')
  <2>1. k \in Nat /\ Cardinality(Taken') = k + 1
    <3>1. IsFiniteSet(Taken)
      <4>1. Taken \in SUBSET Ids
        BY DEF Taken
      <4> QED
        BY <4>1, IdsFinite, FS_Subset
    <3> QED
      BY <1>8, <3>1, FS_AddElement, FS_CardinalityType
  <2>2. /\ takerLock \in Int /\ takerLock >= ToLock(order[i], left)
        /\ takerLock <= ToLock(order[i], left) + Unit * k
    BY <1>1, <1>6 DEF MatchingOk
  <2>3. u \in Nat /\ v \in Nat /\ ToLock(order[i], left) \in Nat /\ ToLock(order[i], 0) = 0
    BY <1>3, <1>5, <1>6, <1>7, ToLockOk
  <2>4. x \in Nat /\ left' \in Nat /\ x + left' = left
    BY <1>1, <1>3, <1>5, <1>7
  <2>5. u + v <= ToLock(order[i], x + left') /\ ToLock(order[i], x + left') <= u + v + Unit
    BY <1>6, <2>4, ToLockSum
  <2>6. left' = 0 => x = left /\ v = 0
    BY <1>3, <2>3, <2>4
  <2>7. /\ left' = 0 => u = ToLock(order[i], left) /\ v = 0
        /\ u + v <= ToLock(order[i], left) /\ ToLock(order[i], left) <= u + v + Unit
        /\ takerLock' = takerLock - u
    BY <1>1, <2>4, <2>5, <2>6
  <2> HIDE DEF k, u, v
  <2>8. Unit \in Nat /\ Unit * k \in Nat /\ Unit * (k + 1) = Unit * k + Unit /\ k + 1 - 1 = k
    BY <2>1, BookAssumption
  <2>9. /\ takerLock' \in Int /\ takerLock' >= v
        /\ left' > 0 => takerLock' <= v + Unit * (k + 1)
        /\ left' = 0 => takerLock' <= Unit * k
    BY <2>2, <2>3, <2>7, <2>8
  <2> QED
    BY <2>1, <2>8, <2>9 DEF v
<1>17. MatchingOk(i)'
  <2>1. /\ ToLock(order[i], left)' = ToLock(order[i], left') /\ MarketBuy(i)' = MarketBuy(i)
        /\ order'[i] = order[i]
    BY <1>1 DEF ToLock, MarketBuy
  <2>2. SumFunctionOnSet(matched', Ids) + left' = SumFunctionOnSet(matched, Ids) + left
    BY <1>1, <1>3, <1>5, <1>11, <1>12
  <2>3. Taken' # {}
    BY <1>8
  <2> QED
    BY <1>6, <1>13, <1>14, <1>15, <1>16, <2>1, <2>2, <2>3 DEF MatchingOk
<1>18. \A j \in Ids : OrderOk(j)'
  BY <1>1, OrderKept, AllTradesKept DEF BookInv
<1>19. Values'
  BY <1>1, <1>7 DEF Values, BookInv
<1>20. TimeInForceKept' /\ BookNotCrossed'
  BY <1>1 DEF BookInv, TimeInForceKept, BookNotCrossed, Open
<1>21. Sweeping'
  BY <1>1, SweepingKept DEF BookInv
<1> QED
  BY <1>1, <1>17, <1>18, <1>19, <1>20, <1>21 DEF BookInv

-----------------------------------------------------------------------------
(* The commit of a match.                                                     *)

(* What a commit starts from. *)
LEMMA CommitStart ==
  ASSUME Inv, BookInv, NEW i \in Ids, Commit(i)
  PROVE  /\ symbolHolder = i /\ order[i].status = "placing" /\ LoopOver(i)
         /\ symbolHolder' = Nobody /\ MatchingOk(i) /\ i \notin Taken
         /\ trades' = trades \cup NewTrades(i)
         /\ NewTrades(i) = {TradeWith(i, m) : m \in Taken}
         /\ \A m \in Taken :
              /\ m \in Open /\ m \in Ids /\ order[m].status = "new" /\ m # i
              /\ order[m].side # order[i].side
              /\ matched[m] \in Nat \ {0} /\ matched[m] <= Unfilled(m)
         /\ \A n \in Ids \ Taken : matched[n] = 0
<1>1. /\ symbolHolder = i /\ order[i].status = "placing" /\ LoopOver(i)
      /\ symbolHolder' = Nobody /\ trades' = trades \cup NewTrades(i)
  BY DEF Commit, SymbolFreed, Inv, Matching
<1>2. MatchingOk(i) /\ matched \in [Ids -> Nat]
  BY <1>1 DEF BookInv, Values
<1>3. NewTrades(i) = {TradeWith(i, m) : m \in Taken}
  BY DEF NewTrades, Taken
<1>4. ASSUME NEW m \in Taken
      PROVE  /\ m \in Open /\ m \in Ids /\ order[m].status = "new" /\ m # i
             /\ order[m].side # order[i].side
             /\ matched[m] \in Nat \ {0} /\ matched[m] <= Unfilled(m)
  <2>1. m \in Ids /\ matched[m] # 0
    BY DEF Taken
  <2>2. order[m].status = "new" /\ order[m].side # order[i].side
    BY <1>1, <2>1 DEF Inv, Matching
  <2> QED
    BY <1>1, <1>2, <2>1, <2>2 DEF MatchingOk, Open
<1>5. i \notin Taken
  BY <1>4
<1>6. \A n \in Ids \ Taken : matched[n] = 0
  BY DEF Taken
<1> QED
  BY <1>1, <1>2, <1>3, <1>4, <1>5, <1>6

(* Each maker gets one more trade, the taker all of its own. *)
LEMMA CommitTrades ==
  ASSUME Inv, BookInv, NEW i \in Ids, Commit(i)
  PROVE  /\ TradesOf(i)' = NewTrades(i)
         /\ \A m \in Taken : TradesOf(m)' = TradesOf(m) \cup {TradeWith(i, m)}
                             /\ TradeWith(i, m) \notin TradesOf(m)
         /\ \A n \in Ids : n # i /\ n \notin Taken => TradesOf(n)' = TradesOf(n)
<1>1. \A m : TradeWith(i, m).taker = i /\ TradeWith(i, m).maker = m
  BY DEF TradeWith
<1>2. \A t \in trades : t.taker # i /\ t.maker # i
  BY CommitStart DEF Inv, Trades
<1>3. trades' = trades \cup {TradeWith(i, m) : m \in Taken} /\ i \notin Taken
      /\ NewTrades(i) = {TradeWith(i, m) : m \in Taken}
  BY CommitStart
<1>4. TradesOf(i)' = NewTrades(i)
  BY <1>1, <1>2, <1>3 DEF TradesOf
<1>5. ASSUME NEW m \in Taken
      PROVE  /\ TradesOf(m)' = TradesOf(m) \cup {TradeWith(i, m)}
             /\ TradeWith(i, m) \notin TradesOf(m)
  BY <1>1, <1>2, <1>3 DEF TradesOf
<1>6. ASSUME NEW n \in Ids, n # i, n \notin Taken PROVE TradesOf(n)' = TradesOf(n)
  BY <1>1, <1>2, <1>3, <1>6 DEF TradesOf
<1> QED
  BY <1>4, <1>5, <1>6

LEMMA TakenFinite == IsFiniteSet(Taken) /\ Cardinality(Taken) \in Nat
<1>1. Taken \in SUBSET Ids
  BY DEF Taken
<1>2. IsFiniteSet(Taken)
  BY <1>1, IdsFinite, FS_Subset
<1> QED
  BY <1>2, FS_CardinalityType

(* The taker has one trade for each maker, and they add up to what was taken. *)
LEMMA TakerVolume ==
  ASSUME Inv, BookInv, NEW i \in Ids, Commit(i)
  PROVE  /\ Volume(i)' = SumFunctionOnSet(matched, Ids)
         /\ Cardinality(TradesOf(i))' = Cardinality(Taken)
         /\ IsFiniteSet(NewTrades(i)) /\ \A t \in NewTrades(i) : t.amount \in Nat \ {0}
<1> DEFINE T == NewTrades(i)
           g == [t \in T |-> t.amount]
           w == [m \in Taken |-> TradeWith(i, m)]
<1>1. T = {TradeWith(i, m) : m \in Taken} /\ \A m \in Taken : matched[m] \in Nat \ {0}
  BY CommitStart
<1>2. \A m : TradeWith(i, m).maker = m /\ TradeWith(i, m).amount = matched[m]
  BY DEF TradeWith
<1>3. \A m \in Taken : matched[m] = g[w[m]] /\ g[w[m]] \in Int
  BY <1>1, <1>2
<1>4. \A m \in Taken, n \in Taken : w[m] = w[n] => m = n
  BY <1>2
<1>5. T = {w[m] : m \in Taken}
  BY <1>1
<1>6. w \in [Taken -> T]
  BY <1>1
<1>7. \A t \in T : t.amount \in Nat \ {0}
  BY <1>1, <1>2
<1>8. Volume(i)' = SumFunctionOnSet(g, T)
  BY CommitTrades DEF Volume
<1> HIDE DEF T, g, w
<1>9. SumFunctionOnSet(matched, Taken) = SumFunctionOnSet(g, T)
  BY <1>3, <1>4, <1>5, TakenFinite, SumRenamed
<1>10. SumFunctionOnSet(matched, Ids) = SumFunctionOnSet(matched, Taken)
  <2>1. Taken = {m \in Ids : matched[m] # 0} /\ \A m \in Ids : matched[m] \in Int
    BY DEF Taken, BookInv, Values
  <2> QED
    BY <2>1, IdsFinite, SumSupport
<1>11. w \in Injection(Taken, T) /\ w \in Surjection(Taken, T)
  BY <1>4, <1>5, <1>6 DEF Injection, Surjection, IsInjective
<1>12. IsFiniteSet(T) /\ Cardinality(T) = Cardinality(Taken)
  BY <1>11, TakenFinite, FS_Surjection
<1> QED
  BY <1>7, <1>8, <1>9, <1>10, <1>12, CommitTrades DEF T

(* A maker's trades add up to as much more as was taken from it. *)
LEMMA MakerVolume ==
  ASSUME Inv, BookInv, NEW i \in Ids, Commit(i), NEW m \in Taken
  PROVE  /\ Volume(m)' = Volume(m) + matched[m]
         /\ Cardinality(TradesOf(m))' = Cardinality(TradesOf(m)) + 1
<1> DEFINE t == TradeWith(i, m)
           S == TradesOf(m)
           f == [x \in S |-> x.amount]
           g == [x \in S \cup {t} |-> x.amount]
<1>1. TradesOf(m)' = S \cup {t} /\ t \notin S
  BY CommitTrades
<1>2. t.amount = matched[m] /\ matched[m] \in Nat /\ m \in Ids
  BY CommitStart DEF TradeWith, Taken
<1>3. IsFiniteSet(S) /\ \A x \in S : x.amount \in Nat
  BY <1>2, CountOk DEF TradesOf, BookInv, Values
<1>4. Volume(m) = SumFunctionOnSet(f, S) /\ Volume(m)' = SumFunctionOnSet(g, S \cup {t})
  BY <1>1 DEF Volume
<1>5. (\A x \in S \cup {t} : g[x] \in Int) /\ (\A x \in S : g[x] = f[x] /\ f[x] \in Int)
  BY <1>2, <1>3
<1>6. g[t] = matched[m]
  BY <1>2
<1> HIDE DEF t, S, f, g
<1>7. SumFunctionOnSet(g, S \cup {t}) = g[t] + SumFunctionOnSet(g, S)
  BY <1>1, <1>3, <1>5, SumAdd
<1>8. SumFunctionOnSet(g, S) = SumFunctionOnSet(f, S)
  BY <1>3, <1>5, SumSame
<1>9. SumFunctionOnSet(f, S) \in Int
  BY <1>3, <1>5, SumInt
<1>10. Cardinality(S \cup {t}) = Cardinality(S) + 1
  BY <1>1, <1>3, FS_AddElement
<1>11. Volume(m)' = Volume(m) + matched[m]
  BY <1>2, <1>4, <1>6, <1>7, <1>8, <1>9
<1>12. Cardinality(TradesOf(m))' = Cardinality(TradesOf(m)) + 1
  BY <1>1, <1>10 DEF S
<1> QED
  BY <1>11, <1>12

(* What a commit writes, order by order. *)
LEMMA CommitRows ==
  ASSUME Inv, BookInv, NEW i \in Ids, Commit(i), NEW n \in Ids
  PROVE  /\ order'[n].side = order[n].side /\ order'[n].price = order[n].price
         /\ order'[n].type = order[n].type /\ order'[n].account = order[n].account
         /\ order'[n].tif = order[n].tif /\ order'[n].amount = order[n].amount
         /\ n = i => /\ order'[n].filled = SumFunctionOnSet(matched, Ids)
                     /\ order'[n].status = Outcome(i) /\ lock'[n] = TakerLockLeft(i)
         /\ n \in Taken =>
              /\ order'[n].filled = order[n].filled + matched[n]
              /\ order'[n].status = IF matched[n] = Unfilled(n) THEN "filled" ELSE "new"
              /\ lock'[n] = lock[n] - ToLock(order[n], matched[n])
         /\ n # i /\ n \notin Taken => order'[n] = order[n] /\ lock'[n] = lock[n]
         /\ lock'[n] >= 0
<1>1. /\ symbolHolder = i /\ order[i].status = "placing" /\ i \notin Taken
      /\ \A m \in Taken : order[m].status = "new" /\ m # i /\ matched[m] # 0
      /\ \A m \in Ids \ Taken : matched[m] = 0
  BY CommitStart
<1>2. order' = SettledOrder(i) /\ lock' = SettledLock(i)
  BY DEF Commit
<1>3. /\ order'[n].side = order[n].side /\ order'[n].price = order[n].price
      /\ order'[n].type = order[n].type /\ order'[n].account = order[n].account
      /\ order'[n].tif = order[n].tif /\ order'[n].amount = order[n].amount
      /\ order'[n].filled = IF n = i THEN SumFunctionOnSet(matched, Ids)
                            ELSE IF matched[n] # 0 THEN order[n].filled + matched[n]
                            ELSE order[n].filled
      /\ order'[n].status = IF n = i THEN Outcome(i)
                            ELSE IF matched[n] # 0 /\ matched[n] = Unfilled(n) THEN "filled"
                            ELSE order[n].status
      /\ n # i /\ matched[n] = 0 => order'[n] = order[n]
  BY <1>1, <1>2, SettledRows
<1>4. lock'[n] = IF n = i THEN TakerLockLeft(i) ELSE lock[n] - ToLock(order[n], matched[n])
  BY <1>2 DEF SettledLock
<1>5. lock'[n] >= 0
  BY <1>2 DEF Commit, Funded
<1>6. n \notin Taken => lock[n] - ToLock(order[n], matched[n]) = lock[n]
  <2>1. order[n].price \in Nat /\ lock[n] \in Nat
    BY DEF BookInv, OrderOk, RowOk, Values
  <2>2. ToLock(order[n], 0) = 0
    BY <2>1, ToLockOk
  <2> QED
    BY <1>1, <2>1, <2>2
<1> QED
  BY <1>1, <1>3, <1>4, <1>5, <1>6

(* A fill-or-kill order that was not killed is filled. *)
LEMMA FillOrKill ==
  ASSUME Inv, BookInv, NEW i \in Ids, Commit(i), order[i].tif = "FOK"
  PROVE  left = 0
<1>1. LoopOver(i) /\ left <= Supply(i) /\ left \in Nat
  BY CommitStart DEF MatchingOk, BookInv, Values
<1>2. CASE Makers(i) = {}
  <2>1. Supply(i) = 0
    BY <1>2, SumEmpty DEF Supply
  <2> QED
    BY <1>1, <2>1
<1> QED
  BY <1>1, <1>2 DEF LoopOver, Stops

(* The taker is as its outcome says. *)
LEMMA TakerOk == ASSUME Inv, BookInv, NEW i \in Ids, Commit(i) PROVE OrderOk(i)'
<1> DEFINE sum == SumFunctionOnSet(matched, Ids)
           k == Cardinality(Taken)
<1>1. /\ order'[i].side = order[i].side /\ order'[i].price = order[i].price
      /\ order'[i].type = order[i].type /\ order'[i].account = order[i].account
      /\ order'[i].tif = order[i].tif /\ order'[i].amount = order[i].amount
      /\ order'[i].filled = sum /\ order'[i].status = Outcome(i)
      /\ lock'[i] = TakerLockLeft(i)
  BY CommitRows
<1>2. /\ OrderOk(i) /\ left \in Nat /\ matched \in [Ids -> Nat] /\ MatchingOk(i)
      /\ order[i].status = "placing" /\ order[i].type \in {"limit", "market"}
  BY CommitStart DEF BookInv, Values, Inv, Resting
<1>3. sum \in Nat
  BY <1>2, IdsFinite, SumNat
<1>4. Volume(i)' = sum /\ Cardinality(TradesOf(i))' = k
  BY TakerVolume
<1> HIDE DEF sum
<1>5. sum + left <= order[i].amount /\ (~ MarketBuy(i) => sum + left = order[i].amount)
  BY <1>2 DEF MatchingOk, sum
<1>6. RowOk(i)'
  BY <1>1, <1>2, <1>3 DEF OrderOk, RowOk
<1>7. order[i].amount \in Nat /\ MarketBuy(i)' = MarketBuy(i)
  BY <1>1, <1>2 DEF OrderOk, RowOk, MarketBuy
<1>8. /\ Outcome(i) = "filled" => left = 0
      /\ Outcome(i) = "new" => left > 0 /\ ~ MarketBuy(i) /\ order[i].type = "limit"
      /\ Outcome(i) \in {"filled", "canceled", "new"}
  BY <1>2 DEF Outcome, MarketBuy
<1>9. FilledOk(i)'
  BY <1>1, <1>2, <1>3, <1>4, <1>5, <1>7, <1>8 DEF FilledOk, MarketBuy
<1>10. k \in Nat /\ Unit \in Nat /\ (left = 0 => k >= 1)
  <2>1. left = 0 => Taken # {}
    BY <1>2 DEF MatchingOk
  <2>2. k = 0 => Taken = {}
    BY TakenFinite, FS_EmptySet
  <2> QED
    BY <2>1, <2>2, TakenFinite, BookAssumption
<1>11. order[i].type = "limit" =>
         /\ takerLock \in Int /\ takerLock >= ToLock(order[i], left)
         /\ left > 0 => takerLock <= ToLock(order[i], left) + Unit * k
         /\ left = 0 => takerLock <= Unit * (k - 1)
  BY <1>2 DEF MatchingOk
<1> HIDE DEF k
<1>12. LockOk(i)'
  <2>1. CASE Outcome(i) = "new"
    <3>1. ToLock(order[i], Unfilled(i))' = ToLock(order[i], left)
      <4>1. Unfilled(i)' = left
        BY <1>1, <1>2, <1>3, <1>5, <1>7, <1>8, <2>1 DEF Unfilled
      <4> QED
        BY <1>1, <4>1 DEF ToLock
    <3>2. lock'[i] = takerLock
      BY <1>1, <2>1 DEF TakerLockLeft
    <3> QED
      BY <1>1, <1>4, <1>8, <1>11, <2>1, <3>1, <3>2 DEF LockOk
  <2>2. CASE Outcome(i) = "filled"
    <3>1. left = 0 /\ k - 1 \in Nat
      BY <1>8, <1>10, <2>2
    <3>2. 0 <= Unit * (k - 1)
      BY <1>10, <3>1
    <3>3. lock'[i] <= Unit * (k - 1)
      BY <1>1, <1>2, <1>11, <2>2, <3>1, <3>2 DEF TakerLockLeft
    <3> QED
      BY <1>1, <1>4, <1>10, <2>2, <3>1, <3>3 DEF LockOk
  <2>3. CASE Outcome(i) = "canceled"
    BY <1>1, <2>3 DEF LockOk, TakerLockLeft
  <2> QED
    BY <1>8, <2>1, <2>2, <2>3
<1> QED
  BY <1>6, <1>9, <1>12 DEF OrderOk

(* A maker has as much less to fill and to lock. *)
LEMMA MakerOk ==
  ASSUME Inv, BookInv, NEW i \in Ids, Commit(i), NEW m \in Taken
  PROVE  OrderOk(m)'
<1> DEFINE x == matched[m]
           y == Unfilled(m) - matched[m]
           k == Cardinality(TradesOf(m))
           u == ToLock(order[m], x)
           v == ToLock(order[m], y)
           w == ToLock(order[m], Unfilled(m))
<1>1. /\ m \in Ids /\ order[m].status = "new" /\ x \in Nat \ {0} /\ x <= Unfilled(m)
  BY CommitStart
<1>2. OrderOk(m) /\ Values
  BY <1>1 DEF BookInv
<1>3. /\ order'[m].side = order[m].side /\ order'[m].price = order[m].price
      /\ order'[m].type = order[m].type /\ order'[m].account = order[m].account
      /\ order'[m].tif = order[m].tif /\ order'[m].amount = order[m].amount
      /\ order'[m].filled = order[m].filled + x
      /\ order'[m].status = IF x = Unfilled(m) THEN "filled" ELSE "new"
      /\ lock'[m] = lock[m] - u
  BY <1>1, CommitRows
<1>4. Volume(m)' = Volume(m) + x /\ Cardinality(TradesOf(m))' = k + 1
  BY MakerVolume
<1>5. /\ order[m].filled \in Nat /\ order[m].amount \in Nat /\ order[m].price \in Nat
      /\ order[m].filled = Volume(m) /\ Unfilled(m) = order[m].amount - order[m].filled
      /\ lock[m] \in Nat /\ k \in Nat
  BY <1>1, <1>2, CountOk DEF OrderOk, RowOk, FilledOk, Unfilled, Values
<1>6. y \in Nat /\ Unfilled(m) = x + y /\ (y = 0 <=> x = Unfilled(m)) /\ x \in Nat
  BY <1>1, <1>5
<1>7. Unfilled(m)' = y
  BY <1>1, <1>3, <1>5 DEF Unfilled
<1>8. RowOk(m)'
  BY <1>1, <1>2, <1>3, <1>5 DEF OrderOk, RowOk
<1>9. FilledOk(m)'
  BY <1>1, <1>3, <1>4, <1>5, <1>6 DEF FilledOk
<1>10. lock[m] >= w /\ lock[m] <= w + Unit * k
  BY <1>1, <1>2 DEF OrderOk, LockOk
<1>11. u + v <= w /\ w <= u + v + Unit
  BY <1>5, <1>6, ToLockSum
<1>12. u \in Nat /\ v \in Nat /\ w \in Nat /\ (y = 0 => v = 0)
  BY <1>5, <1>6, ToLockOk
<1>13. y = 0 => u = w
  BY <1>6
<1>14. ToLock(order[m], Unfilled(m))' = v
  BY <1>3, <1>7 DEF ToLock
<1>15. Unit \in Nat /\ Unit * k \in Nat /\ Unit * (k + 1) = Unit * k + Unit
  BY <1>5, BookAssumption
<1> HIDE DEF x, y, k, u, v, w
<1>16. /\ lock'[m] >= v /\ lock'[m] <= v + Unit * (k + 1)
       /\ y = 0 => lock'[m] <= Unit * k
  BY <1>3, <1>5, <1>10, <1>11, <1>12, <1>13, <1>15
<1>17. LockOk(m)'
  <2>1. CASE y = 0
    <3>1. order'[m].status = "filled" /\ k + 1 >= 1 /\ (k + 1) - 1 = k
      BY <1>3, <1>5, <1>6, <2>1
    <3> QED
      BY <1>4, <1>16, <2>1, <3>1 DEF LockOk
  <2>2. CASE y # 0
    <3>1. order'[m].status = "new"
      BY <1>3, <1>6, <2>2
    <3> QED
      BY <1>4, <1>14, <1>16, <3>1 DEF LockOk
  <2> QED
    BY <2>1, <2>2
<1> QED
  BY <1>8, <1>9, <1>17 DEF OrderOk

(* Amounts that change hands are numbers. *)
LEMMA MovedOk ==
  ASSUME Inv, BookInv, NEW i \in Ids, Commit(i), NEW a
  PROVE  /\ \A m \in Ids : LET t == TradeWith(i, m) IN
              /\ t.amount \in Nat /\ Value(t) \in Nat
              /\ MovedTo(Seller(t), Buyer(t), t.amount, a) \in Int
              /\ MovedTo(Buyer(t), Seller(t), Value(t), a) \in Int
         /\ AssetMoved(i, a) \in Int /\ BaseMoved(i, a) \in Int
<1> DEFINE f == [m \in Ids |-> LET t == TradeWith(i, m) IN
                                MovedTo(Seller(t), Buyer(t), t.amount, a)]
           g == [m \in Ids |-> LET t == TradeWith(i, m) IN
                                MovedTo(Buyer(t), Seller(t), Value(t), a)]
<1>1. ASSUME NEW m \in Ids
      PROVE  LET t == TradeWith(i, m) IN
               /\ t.amount \in Nat /\ Value(t) \in Nat
               /\ MovedTo(Seller(t), Buyer(t), t.amount, a) \in Int
               /\ MovedTo(Buyer(t), Seller(t), Value(t), a) \in Int
  <2> DEFINE t == TradeWith(i, m)
  <2>1. t.amount = matched[m] /\ t.price = order[m].price
    BY DEF TradeWith
  <2>2. matched[m] \in Nat /\ order[m].price \in Nat
    BY DEF BookInv, OrderOk, RowOk, Values
  <2>3. t.amount \in Nat /\ t.price * t.amount \in Nat
    BY <2>1, <2>2
  <2> HIDE DEF t
  <2>4. Value(t) \in Nat
    BY <2>3, FloorOk DEF Value
  <2>5. /\ MovedTo(Seller(t), Buyer(t), t.amount, a) \in Int
        /\ MovedTo(Buyer(t), Seller(t), Value(t), a) \in Int
    BY <2>3, <2>4 DEF MovedTo
  <2> QED
    BY <2>3, <2>4, <2>5 DEF t
<1>2. \A m \in Ids : f[m] \in Int /\ g[m] \in Int
  BY <1>1
<1>3. AssetMoved(i, a) = SumFunctionOnSet(f, Ids) /\ BaseMoved(i, a) = SumFunctionOnSet(g, Ids)
  BY DEF AssetMoved, BaseMoved
<1> HIDE DEF f, g
<1>4. AssetMoved(i, a) \in Int /\ BaseMoved(i, a) \in Int
  BY <1>2, <1>3, IdsFinite, SumInt
<1> QED
  BY <1>1, <1>4

LEMMA CommitValues == ASSUME Inv, BookInv, NEW i \in Ids, Commit(i) PROVE Values'
<1>1. ASSUME NEW n \in Ids PROVE lock'[n] \in Nat
  <2>1. lock[n] \in Nat /\ order[n].price \in Nat /\ lock'[n] >= 0
    BY CommitRows DEF BookInv, OrderOk, RowOk, Values
  <2>2. CASE n = i
    <3>1. /\ lock'[n] = TakerLockLeft(i) /\ (order[i].type = "limit" => takerLock \in Int)
          /\ order[i].type \in {"limit", "market"}
      BY <2>2, CommitRows, CommitStart DEF MatchingOk, Inv, Resting
    <3>2. order[i].type = "market" => TakerLockLeft(i) = 0
      BY DEF TakerLockLeft, Outcome
    <3> QED
      BY <2>1, <3>1, <3>2 DEF TakerLockLeft
  <2>3. CASE n \in Taken
    <3>1. matched[n] \in Nat
      BY DEF BookInv, Values
    <3>2. ToLock(order[n], matched[n]) \in Nat
      BY <2>1, <3>1, ToLockOk
    <3>3. lock'[n] = lock[n] - ToLock(order[n], matched[n])
      BY <2>3, CommitRows
    <3> QED
      BY <2>1, <3>2, <3>3
  <2> QED
    BY <2>1, <2>2, <2>3, CommitRows
<1>2. lock' \in [Ids -> Nat]
  <2>1. lock' = [n \in Ids |-> lock'[n]]
    BY DEF Commit, SettledLock
  <2> QED
    BY <1>1, <2>1
<1>3. asset' \in [Accounts -> Int] /\ base' \in [Accounts -> Int]
  BY MovedOk DEF Commit, SettledAsset, SettledBase, BookInv, Values
<1>4. left' \in Nat /\ matched' \in [Ids -> Nat]
  BY DEF Commit, SymbolFreed
<1>5. IsFiniteSet(trades') /\ \A t \in trades' : t.amount \in Nat \ {0}
  <2>1. trades' = trades \cup NewTrades(i)
    BY CommitStart
  <2>2. IsFiniteSet(trades) /\ \A t \in trades : t.amount \in Nat \ {0}
    BY DEF BookInv, Values
  <2>3. IsFiniteSet(NewTrades(i)) /\ \A t \in NewTrades(i) : t.amount \in Nat \ {0}
    BY TakerVolume
  <2>4. IsFiniteSet(trades \cup NewTrades(i))
    BY <2>2, <2>3, FS_Union
  <2> QED
    BY <2>1, <2>2, <2>3, <2>4
<1> QED
  BY <1>2, <1>3, <1>4, <1>5 DEF Values

(* A taker that rests has nobody left to be matched with. *)
LEMMA CommitNotCrossed ==
  ASSUME Inv, BookInv, NEW i \in Ids, Commit(i) PROVE BookNotCrossed'
<1>1. \A n \in Ids : /\ order'[n].side = order[n].side /\ order'[n].price = order[n].price
                     /\ order[n].price \in Nat
  BY CommitRows DEF BookInv, OrderOk, RowOk
<1>2. ASSUME NEW n \in Open', n # i
      PROVE  n \in Open /\ (n \in Taken => matched[n] # Unfilled(n))
  <2>1. n \in Ids /\ order'[n].status = "new"
    BY DEF Open
  <2>2. n \in Taken => n \in Open /\ matched[n] # Unfilled(n)
    BY <2>1, CommitRows, CommitStart
  <2>3. n \notin Taken => order[n].status = "new"
    BY <1>2, <2>1, CommitRows
  <2> QED
    BY <2>1, <2>2, <2>3 DEF Open
<1>3. ASSUME i \in Open', NEW n \in Open', n # i, order[n].side # order[i].side
      PROVE  ~ Crosses(order[i], order[n])
  <2>1. Outcome(i) = "new"
    BY <1>3, CommitRows DEF Open
  <2>2. left # 0 /\ ~ (order[i].tif = "ME_IOC") /\ left \in Nat
    BY <2>1 DEF Outcome, BookInv, Values
  <2>3. Makers(i) = {}
    BY <2>2, CommitStart DEF LoopOver, Stops
  <2>4. \A m \in Taken : matched[m] = Unfilled(m)
    BY <2>2, CommitStart DEF MatchingOk
  <2>5. n \in Open /\ n \notin Taken /\ n \in Ids
    BY <1>2, <1>3, <2>4 DEF Open
  <2>6. matched[n] = 0
    BY <2>5 DEF Taken
  <2> QED
    BY <1>3, <2>3, <2>5, <2>6 DEF Makers
<1> SUFFICES ASSUME NEW b \in Open', NEW s \in Open',
                    order'[b].side = "buy", order'[s].side = "sell"
             PROVE  order'[b].price < order'[s].price
  BY DEF BookNotCrossed
<1>4. b \in Ids /\ s \in Ids /\ order[b].side = "buy" /\ order[s].side = "sell" /\ b # s
  BY <1>1 DEF Open
<1>5. CASE b # i /\ s # i
  <2>1. b \in Open /\ s \in Open
    BY <1>2, <1>5
  <2> QED
    BY <1>1, <1>4, <2>1 DEF BookInv, BookNotCrossed
<1>6. CASE b = i
  <2>1. ~ Crosses(order[i], order[s])
    BY <1>3, <1>4, <1>6
  <2> QED
    BY <1>1, <1>4, <1>6, <2>1 DEF Crosses
<1>7. CASE s = i
  <2>1. ~ Crosses(order[i], order[b])
    BY <1>3, <1>4, <1>7
  <2> QED
    BY <1>1, <1>4, <1>7, <2>1 DEF Crosses
<1> QED
  BY <1>5, <1>6, <1>7

LEMMA CommitBook == ASSUME Inv, BookInv, Updated, NEW i \in Ids, Commit(i) PROVE BookInv'
<1>1. ASSUME NEW j \in Ids PROVE OrderOk(j)'
  <2>1. CASE j = i
    BY <2>1, TakerOk
  <2>2. CASE j \in Taken
    BY <2>2, MakerOk
  <2>3. CASE j # i /\ j \notin Taken
    <3>1. order'[j] = order[j] /\ lock'[j] = lock[j] /\ TradesOf(j)' = TradesOf(j)
      BY <2>3, CommitRows, CommitTrades
    <3> QED
      BY <3>1, OrderKept DEF BookInv
  <2> QED
    BY <2>1, <2>2, <2>3
<1>2. symbolHolder' \notin Ids
  BY CommitStart, BookAssumption
<1>3. TimeInForceKept'
  <2> SUFFICES ASSUME NEW j \in Ids
               PROVE  /\ order'[j].tif = "FOK" /\ order'[j].status # "filled" => order'[j].filled = 0
                      /\ j \in Open' => order'[j].type = "limit" /\ order'[j].tif = "GTC"
    BY DEF TimeInForceKept
  <2>1. order'[j].tif = order[j].tif /\ order'[j].type = order[j].type
    BY CommitRows
  <2>2. CASE j = i
    <3>1. order'[i].status = Outcome(i)
      BY CommitRows
    <3>2. order[i].tif = "FOK" => Outcome(i) = "filled"
      BY FillOrKill DEF Outcome
    <3>3. order[i].type \in {"limit", "market"} /\ order[i].tif \in TimesInForce
      BY DEF Inv, Resting, BookInv, OrderOk, RowOk
    <3>4. Outcome(i) = "new" => order[i].type = "limit" /\ order[i].tif = "GTC"
      BY <3>2, <3>3 DEF Outcome, TimesInForce
    <3> QED
      BY <2>1, <2>2, <3>1, <3>2, <3>4 DEF Open
  <2>3. CASE j \in Taken
    <3>1. j \in Open
      BY <2>3, CommitStart
    <3> QED
      BY <2>1, <3>1 DEF BookInv, TimeInForceKept
  <2>4. CASE j # i /\ j \notin Taken
    <3>1. order'[j] = order[j]
      BY <2>4, CommitRows
    <3> QED
      BY <3>1 DEF BookInv, TimeInForceKept, Open
  <2> QED
    BY <2>2, <2>3, <2>4
<1>4. Sweeping'
  BY SweepingKept DEF Commit, BookInv
<1> QED
  BY <1>1, <1>2, <1>3, <1>4, CommitValues, CommitNotCrossed DEF BookInv

-----------------------------------------------------------------------------
(* Every step keeps both invariants. *)
LEMMA StepKeepsBook == Inv /\ BookInv /\ [Next]_vars => BookInv'
<1> SUFFICES ASSUME Inv, BookInv, [Next]_vars PROVE BookInv'
  OBVIOUS
<1>1. Updated
  BY StepKeeps
<1>2. ASSUME NEW i \in Ids, NEW t \in Tickets, Place(i, t) PROVE BookInv'
  BY <1>1, <1>2, PlaceBook
<1>3. ASSUME NEW i \in Ids, Submission(i) PROVE BookInv'
  <2>1. CASE RefuseUnfunded(i)
    BY <1>1, <2>1, RefuseBook DEF RefuseUnfunded
  <2>2. CASE RefuseUnpaid(i)
    <3>1. order[i].status = "placing"
      BY <2>2 DEF RefuseUnpaid, Inv, Matching
    <3> QED
      BY <1>1, <2>2, <3>1, RefuseBook DEF RefuseUnpaid
  <2> QED
    BY <1>1, <1>3, <2>1, <2>2, SubmitBook, KillBook, MatchBook, CommitBook DEF Submission
<1>4. ASSUME NEW i \in Ids, Crash(i) PROVE BookInv'
  BY <1>1, <1>4, RefuseBook DEF Crash
<1>5. ASSUME UNCHANGED <<book, matching, janitor>>,
             symbolHolder' \in Ids => symbolHolder' = symbolHolder
      PROVE  BookInv'
  <2>1. Sweeping'
    BY <1>1, <1>5, SweepingKept DEF BookInv
  <2> QED
    BY <1>5, <2>1, QuietBook
<1>6. ASSUME NEW c \in Cancellers, CancelFails(c) PROVE BookInv'
  BY <1>5, <1>6 DEF CancelFails
<1>7. CASE BulkFails
  BY <1>5, <1>7, BookAssumption DEF BulkFails, BulkEnd
<1>8. ASSUME NEW c \in Cancellers, NEW i \in Ids, AskCancel(c, i) PROVE BookInv'
  BY <1>5, <1>8 DEF AskCancel
<1>9. ASSUME NEW c \in Cancellers, CancelStep(c) PROVE BookInv'
  <2>1. CASE InsertRequest(c)
    BY <1>5, <2>1 DEF InsertRequest
  <2>2. CASE FoundRequest(c)
    BY <1>5, <2>2 DEF FoundRequest
  <2>3. CASE CancelOrder(c)
    BY <1>1, <2>3, ClosedBook DEF CancelOrder
  <2> QED
    BY <1>9, <2>1, <2>2, <2>3 DEF CancelStep
<1>10. ASSUME NEW c \in Cancellers, BreakDeadlock(c) PROVE BookInv'
  BY <1>6, <1>7, <1>10 DEF BreakDeadlock
<1>11. ASSUME NEW S \in SUBSET Ids, BulkRead(S) PROVE BookInv'
  BY <1>5, <1>11 DEF BulkRead
<1>12. CASE BulkStep
  <2>1. CASE BulkLock
    BY <1>5, <2>1, BookAssumption DEF BulkLock
  <2>2. ASSUME NEW i \in Ids, BulkInsert(i) PROVE BookInv'
    BY <1>5, <2>2 DEF BulkInsert
  <2>3. CASE BulkCommit
    <3>1. symbolHolder' \in {Nobody, Bulk}
      BY <2>3 DEF BulkCommit, BulkEnd, Inv, Bulks
    <3> QED
      BY <1>1, <2>3, <3>1, ClosedBook DEF BulkCommit
  <2> QED
    BY <1>12, <2>1, <2>2, <2>3 DEF BulkStep
<1>13. CASE Janitor
  <2>1. CASE JanitorReadLocks
    <3>1. Sweeping'
      <4>1. \A j \in Ids : lock[j] > 0 => order[j].status \in {"new", "filled"}
        BY DEF BookInv, OrderOk, LockOk
      <4> QED
        BY <2>1, <4>1 DEF JanitorReadLocks, book, Sweeping
    <3> QED
      BY <2>1, <3>1, QuietBook DEF JanitorReadLocks
  <2>2. CASE JanitorReadOrders
    <3>1. Sweeping'
      BY <2>2 DEF JanitorReadOrders, book, BookInv, Sweeping, Open
    <3> QED
      BY <2>2, <3>1, QuietBook DEF JanitorReadOrders
  <2> QED
    BY <1>13, <2>1, <2>2, ReleaseBook DEF Janitor
<1>14. CASE UNCHANGED vars
  BY <1>5, <1>14 DEF vars, book, matching
<1> QED
  BY <1>2, <1>3, <1>4, <1>6, <1>7, <1>8, <1>9, <1>10, <1>11, <1>12, <1>13, <1>14 DEF Next

LEMMA AlwaysBookInv == Spec => [](Inv /\ BookInv)
<1>1. Init => Inv /\ BookInv
  BY InitInv, InitBookInv
<1>2. (Inv /\ BookInv) /\ [Next]_vars => (Inv /\ BookInv)'
  BY StepKeeps, StepKeepsBook
<1> QED
  BY <1>1, <1>2, PTL DEF Spec

(* However often it was matched, canceled or swept, an open order always has  *)
(* the funds for the rest of it locked; a canceled or refused one has nothing *)
(* locked, and a filled one less than a Unit for each of its trades.          *)
THEOREM OrdersAlwaysBacked == Spec => []LockBacksOrder
<1>1. Inv /\ BookInv => LockBacksOrder
  <2> SUFFICES ASSUME Inv, BookInv, NEW i \in Ids
               PROVE  CASE order[i].status = "new" -> lock[i] >= ToLock(order[i], Unfilled(i))
                        [] order[i].status = "filled" ->
                             lock[i] \in 0 .. Unit * Cardinality(TradesOf(i)) - 1
                        [] OTHER -> lock[i] = 0
    BY DEF LockBacksOrder
  <2>1. LockOk(i) /\ lock[i] \in Nat
    BY DEF BookInv, OrderOk, Values
  <2>2. CASE order[i].status = "filled"
    <3> DEFINE k == Cardinality(TradesOf(i))
    <3>1. k \in Nat /\ k >= 1 /\ lock[i] <= Unit * (k - 1) /\ Unit \in Nat \ {0}
      BY <2>1, <2>2, CountOk, BookAssumption DEF LockOk, BookInv
    <3>2. Unit * (k - 1) = Unit * k - Unit /\ Unit * k \in Nat
      BY <3>1
    <3> HIDE DEF k
    <3>3. lock[i] \in 0 .. Unit * k - 1
      BY <2>1, <3>1, <3>2
    <3> QED
      BY <2>2, <3>3 DEF k
  <2> QED
    BY <2>1, <2>2 DEF LockOk
<1> QED
  BY AlwaysBookInv, <1>1, PTL

(* No two orders that could trade with each other both rest in the book.      *)
THEOREM BookNeverCrossed == Spec => []BookNotCrossed
<1>1. BookInv => BookNotCrossed
  BY DEF BookInv
<1> QED
  BY AlwaysBookInv, <1>1, PTL

(* Every order has filled exactly what its trades add up to, for any number   *)
(* of trades, and its status agrees with it.                                  *)
THEOREM FilledAlwaysTraded == Spec => []FilledIsTraded
<1>1. BookInv => FilledIsTraded
  BY DEF BookInv, OrderOk, FilledOk, FilledIsTraded, MarketBuy, Volume
<1> QED
  BY AlwaysBookInv, <1>1, PTL

(* Fill-or-kill orders are filled or untouched; market, immediate-or-cancel   *)
(* and match-own orders never rest.                                           *)
THEOREM TimeInForceAlwaysKept == Spec => []TimeInForceKept
<1>1. BookInv => TimeInForceKept
  BY DEF BookInv
<1> QED
  BY AlwaysBookInv, <1>1, PTL

-----------------------------------------------------------------------------
(* Properties of steps.                                                       *)

(* Trades and balances are written by commits alone. *)
LEMMA OnlyCommits ==
  ASSUME [Next]_vars, \A i \in Ids : ~ Commit(i)
  PROVE  trades' = trades /\ asset' = asset /\ base' = base
<1> DEFINE Same == trades' = trades /\ asset' = asset /\ base' = base
<1>1. ASSUME NEW i \in Ids, NEW t \in Tickets, Place(i, t) PROVE Same
  BY <1>1 DEF Place
<1>2. ASSUME NEW i \in Ids, Submission(i) \/ Crash(i) PROVE Same
  BY <1>2 DEF Submission, Crash, Submit, Kill, RefuseUnfunded, RefuseUnpaid, Refuse, Match, book
<1>3. ASSUME NEW c \in Cancellers, CancelStep(c) \/ CancelFails(c) \/ BreakDeadlock(c) PROVE Same
  BY <1>3 DEF CancelStep, InsertRequest, FoundRequest, CancelOrder, CancelFails, BreakDeadlock,
              BulkFails, book
<1>4. ASSUME NEW c \in Cancellers, NEW i \in Ids, AskCancel(c, i) PROVE Same
  BY <1>4 DEF AskCancel, book
<1>5. ASSUME NEW S \in SUBSET Ids, BulkRead(S) PROVE Same
  BY <1>5 DEF BulkRead, book
<1>6. CASE BulkStep \/ BulkFails
  BY <1>6 DEF BulkStep, BulkLock, BulkInsert, BulkCommit, BulkFails, book
<1>7. CASE Janitor
  BY <1>7 DEF Janitor, JanitorReadLocks, JanitorReadOrders, JanitorRelease, book
<1>8. CASE UNCHANGED vars
  BY <1>8 DEF vars
<1> QED
  BY <1>1, <1>2, <1>3, <1>4, <1>5, <1>6, <1>7, <1>8 DEF Next

(* A trade is never made over the head of an open order that comes first: by  *)
(* price, then by id, whatever was placed or canceled while the taker was     *)
(* being matched.                                                             *)
THEOREM BestAlwaysFirst == Spec => BestFirst
<1>1. ASSUME Inv, BookInv, [Next]_vars, NEW t \in trades' \ trades, NEW n \in Open,
             order[n].side = order[t.maker].side, Before(n, t.maker)
      PROVE  order'[n].status = "filled"
  <2>1. PICK i \in Ids : Commit(i)
    BY <1>1, OnlyCommits
  <2>2. PICK m \in Taken : t = TradeWith(i, m)
    BY <1>1, <2>1, CommitStart
  <2>3. t.maker = m /\ n \in Ids
    BY <2>2 DEF TradeWith, Open
  <2>4. matched[n] = Unfilled(n)
    BY <1>1, <2>1, <2>3, CommitStart DEF MatchingOk
  <2>5. Unfilled(n) > 0 /\ Unfilled(n) \in Nat
    BY <1>1, <2>3, UnfilledOk DEF BookInv, Open
  <2>6. n \in Taken
    BY <2>3, <2>4, <2>5 DEF Taken
  <2> QED
    BY <1>1, <2>1, <2>3, <2>4, <2>6, CommitRows
<1>2. Inv /\ BookInv /\ [Next]_vars =>
        [\A t \in trades' \ trades, n \in Open :
           order[n].side = order[t.maker].side /\ Before(n, t.maker)
             => order'[n].status = "filled"]_vars
  BY <1>1
<1> QED
  BY AlwaysBookInv, <1>2, PTL DEF Spec, BestFirst

(* Locks that fall, of orders that stay whose they are, free funds. *)
LEMMA FreedByLocks ==
  ASSUME BookInv, BookInv', asset' = asset, base' = base,
         \A i \in Ids : \/ /\ order'[i].account = order[i].account /\ order'[i].side = order[i].side
                           /\ lock'[i] <= lock[i]
                        \/ lock'[i] = 0 /\ lock[i] = 0,
         NEW a \in Accounts, NEW side \in Sides
  PROVE  Free(a, side)' >= Free(a, side)
<1> DEFINE f == [i \in Ids |-> LockedFor(lock, i, a, side)]
           g == [i \in Ids |-> LockedFor(lock, i, a, side)']
           b == IF side = "buy" THEN base[a] ELSE asset[a]
<1>1. \A i \in Ids : lock[i] \in Int /\ lock'[i] \in Int /\ lock[i] >= 0
  BY DEF BookInv, Values
<1>2. \A i \in Ids : f[i] \in Int /\ g[i] \in Int /\ g[i] <= f[i]
  BY <1>1 DEF LockedFor
<1>3. b \in Int
  BY DEF BookInv, Values
<1>4. Free(a, side) = b - SumFunctionOnSet(f, Ids) /\ Free(a, side)' = b - SumFunctionOnSet(g, Ids)
  BY DEF Free, FreeIn
<1> HIDE DEF f, g, b
<1>5. /\ SumFunctionOnSet(g, Ids) <= SumFunctionOnSet(f, Ids)
      /\ SumFunctionOnSet(f, Ids) \in Int /\ SumFunctionOnSet(g, Ids) \in Int
  BY <1>2, IdsFinite, SumAtMost, SumInt
<1> QED
  BY <1>3, <1>4, <1>5

(* What a commit takes from an account other than the taker's was locked.     *)
LEMMA PaidFromLocks ==
  ASSUME Inv, BookInv, NEW i \in Ids, Commit(i), NEW m \in Ids, NEW a \in Accounts,
         a # order[i].account
  PROVE  LET t == TradeWith(i, m) IN
         /\ MovedTo(Seller(t), Buyer(t), t.amount, a)
              >= LockedFor(lock, m, a, "sell")' - LockedFor(lock, m, a, "sell")
         /\ MovedTo(Buyer(t), Seller(t), Value(t), a)
              >= LockedFor(lock, m, a, "buy")' - LockedFor(lock, m, a, "buy")
<1> DEFINE t == TradeWith(i, m)
           x == matched[m]
<1>1. t.taker = i /\ t.maker = m /\ t.amount = x /\ t.price = order[m].price
  BY DEF TradeWith
<1>2. /\ x \in Nat /\ order[m].price \in Nat /\ lock[m] \in Nat
      /\ order[m].side \in Sides /\ order[i].side \in Sides
  BY DEF BookInv, OrderOk, RowOk, Values
<1>3. order'[m].account = order[m].account /\ order'[m].side = order[m].side
  BY CommitRows
<1>4. x * order[m].price \in Nat /\ order[m].price * x = x * order[m].price
  BY <1>2
<1>5. /\ Value(t) = Floor(x * order[m].price) /\ Value(t) \in Nat /\ Floor(0) = 0
      /\ x = 0 => Value(t) = 0
  <2>1. Value(t) = Floor(x * order[m].price)
    BY <1>1, <1>4 DEF Value
  <2>2. x = 0 => x * order[m].price = 0
    BY <1>2
  <2> QED
    BY <1>4, <2>1, <2>2, FloorOk
<1> HIDE DEF t
<1>6. CASE m \in Taken
  <2>1. order[m].side # order[i].side /\ lock'[m] = lock[m] - ToLock(order[m], x)
    BY <1>6, CommitStart, CommitRows
  <2>2. ToLock(order[m], x) = IF order[m].side = "buy" THEN Value(t) ELSE x
    BY <1>5 DEF ToLock
  <2> HIDE DEF x
  <2>3. CASE order[i].side = "buy"
    <3>1. Buyer(t) = i /\ Seller(t) = m /\ order[m].side = "sell"
      BY <1>1, <1>2, <2>1, <2>3 DEF Buyer, Seller, Sides
    <3> QED
      BY <1>1, <1>2, <1>3, <1>5, <2>1, <2>2, <3>1 DEF MovedTo, LockedFor, t
  <2>4. CASE order[i].side = "sell"
    <3>1. Buyer(t) = m /\ Seller(t) = i /\ order[m].side = "buy"
      BY <1>1, <1>2, <2>1, <2>4 DEF Buyer, Seller, Sides
    <3> QED
      BY <1>1, <1>2, <1>3, <1>5, <2>1, <2>2, <3>1 DEF MovedTo, LockedFor, t
  <2> QED
    BY <1>2, <2>3, <2>4 DEF Sides
<1>7. CASE m \notin Taken
  <2>1. x = 0
    BY <1>7, CommitStart
  <2>2. MovedTo(Seller(t), Buyer(t), t.amount, a) = 0 /\ MovedTo(Buyer(t), Seller(t), Value(t), a) = 0
    BY <1>1, <1>5, <2>1 DEF MovedTo
  <2>3. m # i => lock'[m] = lock[m]
    BY <1>7, CommitRows
  <2>4. ASSUME NEW side
        PROVE  LockedFor(lock, m, a, side)' - LockedFor(lock, m, a, side) = 0
    BY <1>2, <1>3, <2>3 DEF LockedFor
  <2> QED
    BY <2>2, <2>4 DEF t
<1> QED
  BY <1>6, <1>7

(* A commit lowers nobody's free funds but the taker's. *)
LEMMA CommitFree ==
  ASSUME Inv, BookInv, BookInv', NEW i \in Ids, Commit(i), NEW a \in Accounts,
         a # order[i].account, NEW side \in Sides
  PROVE  Free(a, side)' >= Free(a, side)
<1> DEFINE f == [m \in Ids |-> LockedFor(lock, m, a, side)]
           g == [m \in Ids |-> LockedFor(lock, m, a, side)']
           moved == IF side = "buy"
                      THEN [m \in Ids |-> LET t == TradeWith(i, m) IN
                                          MovedTo(Buyer(t), Seller(t), Value(t), a)]
                      ELSE [m \in Ids |-> LET t == TradeWith(i, m) IN
                                          MovedTo(Seller(t), Buyer(t), t.amount, a)]
           h == [m \in Ids |-> moved[m] + f[m]]
           b == IF side = "buy" THEN base[a] ELSE asset[a]
<1>1. \A m \in Ids : lock[m] \in Int /\ lock'[m] \in Int
  BY DEF BookInv, Values
<1>2. \A m \in Ids : f[m] \in Int /\ g[m] \in Int
  BY <1>1 DEF LockedFor
<1>3. \A m \in Ids : moved[m] \in Int
  BY MovedOk
<1>4. \A m \in Ids : moved[m] >= g[m] - f[m]
  BY PaidFromLocks DEF Sides
<1>5. b \in Int
  BY DEF BookInv, Values
<1>6. Free(a, side) = b - SumFunctionOnSet(f, Ids)
  BY DEF Free, FreeIn
<1>7. Free(a, side)' = (b + SumFunctionOnSet(moved, Ids)) - SumFunctionOnSet(g, Ids)
  <2>1. /\ asset'[a] = asset[a] + AssetMoved(i, a)
        /\ base'[a] = base[a] + BaseMoved(i, a)
    BY DEF Commit, SettledAsset, SettledBase
  <2>2. Free(a, side)' = (IF side = "buy" THEN base'[a] ELSE asset'[a]) - SumFunctionOnSet(g, Ids)
    BY DEF Free, FreeIn
  <2>3. SumFunctionOnSet(moved, Ids) = IF side = "buy" THEN BaseMoved(i, a) ELSE AssetMoved(i, a)
    BY DEF AssetMoved, BaseMoved
  <2> HIDE DEF moved, g
  <2> QED
    BY <2>1, <2>2, <2>3
<1>8. \A m \in Ids : h[m] = moved[m] + f[m]
  OBVIOUS
<1> HIDE DEF f, g, h, moved, b
<1>9. \A m \in Ids : h[m] \in Int /\ g[m] <= h[m]
  BY <1>2, <1>3, <1>4, <1>8
<1>10. SumFunctionOnSet(h, Ids) = SumFunctionOnSet(moved, Ids) + SumFunctionOnSet(f, Ids)
  BY <1>2, <1>3, <1>8, IdsFinite, SumPlus
<1>11. SumFunctionOnSet(g, Ids) <= SumFunctionOnSet(h, Ids)
  BY <1>2, <1>9, IdsFinite, SumAtMost
<1>12. /\ SumFunctionOnSet(f, Ids) \in Int /\ SumFunctionOnSet(g, Ids) \in Int
       /\ SumFunctionOnSet(moved, Ids) \in Int /\ SumFunctionOnSet(h, Ids) \in Int
  BY <1>2, <1>3, <1>9, IdsFinite, SumInt
<1> QED
  BY <1>5, <1>6, <1>7, <1>10, <1>11, <1>12

(* No other step raises a lock. *)
LEMMA LocksFall ==
  ASSUME Inv, BookInv, [Next]_vars, \A i \in Ids : ~ Commit(i)
  PROVE  \A j \in Ids : \/ /\ order'[j].account = order[j].account /\ order'[j].side = order[j].side
                           /\ lock'[j] <= lock[j]
                        \/ lock'[j] = 0 /\ lock[j] = 0
<1> DEFINE Fall == \A j \in Ids :
                     \/ /\ order'[j].account = order[j].account /\ order'[j].side = order[j].side
                        /\ lock'[j] <= lock[j]
                     \/ lock'[j] = 0 /\ lock[j] = 0
<1>1. \A j \in Ids : lock[j] \in Nat
  BY DEF BookInv, Values
<1>2. ASSUME UNCHANGED <<order, lock>> PROVE Fall
  BY <1>1, <1>2
<1>3. ASSUME NEW i \in Ids, NEW t \in Tickets, Place(i, t) PROVE Fall
  <2>1. lock' = lock /\ order[i].status = "unsent"
    BY <1>3 DEF Place
  <2>2. \A j \in Ids : j # i => order'[j] = order[j]
    BY <1>3 DEF Place, Inv, Rows
  <2>3. lock[i] = 0
    BY <2>1 DEF BookInv, OrderOk, LockOk
  <2> QED
    BY <1>1, <2>1, <2>2, <2>3
<1>4. ASSUME NEW i \in Ids, NEW s, order' = [order EXCEPT ![i].status = s], lock' = lock
      PROVE  Fall
  <2> SUFFICES ASSUME NEW j \in Ids
               PROVE  order'[j].account = order[j].account /\ order'[j].side = order[j].side
    BY <1>1, <1>4
  <2>1. CASE j # i
    BY <1>4, <2>1 DEF Inv, Rows
  <2>2. CASE j = i
    <3>1. order'[i] = [order[i] EXCEPT !.status = s]
      BY <1>4 DEF Inv, Rows
    <3> QED
      BY <2>2, <3>1 DEF Inv, Rows
  <2> QED
    BY <2>1, <2>2
<1>5. ASSUME NEW S, Closed(S) PROVE Fall
  <2> SUFFICES ASSUME NEW j \in Ids
               PROVE  /\ order'[j].account = order[j].account /\ order'[j].side = order[j].side
                      /\ lock'[j] <= lock[j]
    OBVIOUS
  <2>1. lock'[j] <= lock[j]
    BY <1>1, <1>5 DEF Closed
  <2>2. order'[j] = order[j] \/ order'[j] = [order[j] EXCEPT !.status = "canceled"]
    BY <1>5 DEF Closed
  <2> QED
    BY <2>1, <2>2 DEF Inv, Rows
<1>6. ASSUME NEW i \in Ids, Submission(i) \/ Crash(i) PROVE Fall
  <2>1. CASE Refuse(i) \/ Kill(i)
    BY <1>4, <2>1 DEF Refuse, Kill
  <2>2. CASE Submit(i) \/ \E m \in Ids : Match(i, m)
    BY <1>2, <2>2 DEF Submit, Match, book
  <2> QED
    BY <1>6, <2>1, <2>2 DEF Submission, Crash, RefuseUnfunded, RefuseUnpaid
<1>7. ASSUME NEW c \in Cancellers, CancelStep(c) \/ CancelFails(c) \/ BreakDeadlock(c) PROVE Fall
  <2>1. CASE CancelOrder(c)
    BY <1>5, <2>1 DEF CancelOrder
  <2>2. CASE InsertRequest(c) \/ FoundRequest(c) \/ CancelFails(c) \/ BulkFails
    BY <1>2, <2>2 DEF InsertRequest, FoundRequest, CancelFails, BulkFails, book
  <2> QED
    BY <1>7, <2>1, <2>2 DEF CancelStep, BreakDeadlock
<1>8. ASSUME NEW c \in Cancellers, NEW i \in Ids, AskCancel(c, i) PROVE Fall
  BY <1>2, <1>8 DEF AskCancel, book
<1>9. ASSUME NEW S \in SUBSET Ids, BulkRead(S) PROVE Fall
  BY <1>2, <1>9 DEF BulkRead, book
<1>10. CASE BulkStep \/ BulkFails
  <2>1. CASE BulkCommit
    BY <1>5, <2>1 DEF BulkCommit
  <2>2. CASE BulkLock \/ (\E i \in Ids : BulkInsert(i)) \/ BulkFails
    BY <1>2, <2>2 DEF BulkLock, BulkInsert, BulkFails, book
  <2> QED
    BY <1>10, <2>1, <2>2 DEF BulkStep
<1>11. CASE Janitor
  <2>1. CASE JanitorRelease
    <3>1. order' = order /\ lock' = [j \in Ids |-> IF j \in janitor.keys THEN 0 ELSE lock[j]]
      BY <2>1 DEF JanitorRelease
    <3>2. \A j \in Ids : lock'[j] <= lock[j]
      BY <1>1, <3>1
    <3> QED
      BY <3>1, <3>2
  <2>2. CASE JanitorReadLocks \/ JanitorReadOrders
    BY <1>2, <2>2 DEF JanitorReadLocks, JanitorReadOrders, book
  <2> QED
    BY <1>11, <2>1, <2>2 DEF Janitor
<1>12. CASE UNCHANGED vars
  BY <1>2, <1>12 DEF vars
<1> QED
  BY <1>3, <1>6, <1>7, <1>8, <1>9, <1>10, <1>11, <1>12 DEF Next

(* Nothing that others do, and nothing that happens to a resting order of     *)
(* one's own, lowers one's free funds.                                        *)
THEOREM FreeFundsAlwaysKept == Spec => FreeFundsKept
<1>1. ASSUME Inv, BookInv, [Next]_vars, NEW a \in Accounts, NEW side \in Sides
      PROVE  \/ Free(a, side)' >= Free(a, side)
             \/ \E i \in Ids : order[i].account = a /\ order[i].status = "placing"
                               /\ order'[i].status # "placing"
  <2>1. BookInv'
    BY <1>1, StepKeepsBook
  <2>2. CASE \A i \in Ids : ~ Commit(i)
    BY <1>1, <2>1, <2>2, OnlyCommits, LocksFall, FreedByLocks
  <2>3. ASSUME NEW i \in Ids, Commit(i), a # order[i].account
        PROVE  Free(a, side)' >= Free(a, side)
    BY <1>1, <2>1, <2>3, CommitFree
  <2>4. ASSUME NEW i \in Ids, Commit(i), a = order[i].account
        PROVE  order[i].status = "placing" /\ order'[i].status # "placing"
    <3>1. order[i].status = "placing" /\ order'[i].status = Outcome(i)
      BY <1>1, <2>4, CommitStart, CommitRows
    <3> QED
      BY <3>1 DEF Outcome
  <2> QED
    BY <2>2, <2>3, <2>4
<1>2. Inv /\ BookInv /\ [Next]_vars =>
        [\A a \in Accounts, side \in Sides :
           \/ Free(a, side)' >= Free(a, side)
           \/ \E i \in Ids : order[i].account = a /\ order[i].status = "placing"
                             /\ order'[i].status # "placing"]_vars
  BY <1>1
<1> QED
  BY AlwaysBookInv, <1>2, PTL DEF Spec, FreeFundsKept
=============================================================================
