------------------------------- MODULE StopLoss -------------------------------
(***************************************************************************)
(* Stop-losses and OCOs that sell.  A trade triggers stop-losses in the    *)
(* transaction that makes it: each places an order, whose own trades       *)
(* trigger others before the next one of the first list is looked at.  All *)
(* of this runs under the lock of the symbol.  Cancellations mark the      *)
(* stop-loss first and take that lock later, or never.                     *)
(*                                                                         *)
(* An OCO is a stop-loss and an order, its leg, which share one lock of    *)
(* the amount.  Orders placed by a stop-loss use its lock, too.            *)
(*                                                                         *)
(* stop, leg and placed hold what the matching transaction has written so  *)
(* far; kept holds what others see of those rows until it commits.         *)
(***************************************************************************)
EXTENDS Naturals, Sequences, Functions

CONSTANTS
  Stops,
  Pairs,       \* those with a leg
  Cancelers,   \* requests in progress at once
  Amount,
  MaxPlaced,   \* orders a stop-loss places in a behaviour
  None

ASSUME StopLossAssumption ==
  /\ Pairs \subseteq Stops
  /\ Amount \in Nat \ {0} /\ MaxPlaced \in Nat

Amounts == 0 .. Amount
Orders == [status : {"new", "filled", "canceled"}, filled : Amounts, amount : Amounts]
(* market: the fill_type.  priced: it has a price, so it places LIMIT orders.  *)
StopRows == [market : BOOLEAN, priced : BOOLEAN, canceled : BOOLEAN, filled : Nat]
Makers == [on : Stops, order : Nat, rest : Amounts]

(* A copy of a stop-loss in a list, and the order that was placed for it.     *)
Copies == [on : Stops, filled : Amounts \ {Amount}]
Working == [on : Stops, filled : Amounts \ {Amount}, order : Nat \ {0}]

ASSUME NoneAssumption ==
  None \notin Stops \cup Orders \cup StopRows \cup Makers \cup Working

VARIABLES
  stop,      \* StopLoss: fill_type, canceled_at is set, filled_amount; or None
  leg,       \* the OCO's order
  placed,    \* the orders the stop-loss placed, in that order
  lock,      \* BalanceLock.amount of the group
  (* the transaction of an order that is matched, under the symbol's lock *)
  step,      \* what it does next, "idle" when there is none
  maker,     \* the resting order it has read and will match
  fresh,     \* the OCO it creates, the leg being the order it matches
  frames,    \* the nested calls of StopLoss.trigger, the innermost last
  late,      \* MARKET stop-losses whose orders it did not fill
  due,       \* what it will take from the locks at its end
  wrote,     \* rows it has written: others wait for them, and see kept
  kept,
  (* everybody else *)
  canceler,  \* requests to cancel
  closing,   \* stop-losses that OrderSerializer's finally block will cancel
  raced      \* history: canceled while a transaction was at work on them

book == <<stop, leg, placed>>
match == <<step, maker, fresh, frames, late, due, wrote, kept>>
others == <<canceler, closing, raced>>
vars == <<book, lock, match, others>>

Init ==
  /\ stop = [s \in Stops |-> None]
  /\ leg = [s \in Stops |-> None]
  /\ placed = [s \in Stops |-> <<>>]
  /\ lock = [s \in Stops |-> 0]
  /\ step = "idle" /\ maker = None /\ fresh = None /\ frames = <<>> /\ late = {}
  /\ due = [s \in Stops |-> 0]
  /\ wrote = [stops |-> {}, legs |-> {}]
  /\ kept = [stop |-> stop, leg |-> leg, placed |-> placed]
  /\ canceler = [c \in Cancelers |-> None]
  /\ closing = {} /\ raced = {}

(* What others see.                                                           *)
StopNow(s) == IF s \in wrote.stops THEN kept.stop[s] ELSE stop[s]
LegNow(s) == IF s \in wrote.legs THEN kept.leg[s] ELSE leg[s]
PlacedNow(s) == kept.placed[s]

Resting(o) == o # None /\ o.status = "new"
Open(row) == row # None /\ ~ row.canceled /\ row.filled < Amount

(* Rows no request has written and not yet committed.                         *)
StopFree(s) ==
  \A c \in Cancelers : canceler[c] # None /\ canceler[c].on = s => ~ canceler[c].marked
LegFree(s) ==
  \A c \in Cancelers : canceler[c] # None /\ canceler[c].on = s => ~ canceler[c].closed

(* Others' writes are committed at once.                                      *)
Committed ==
  kept' = [stop |-> [s \in Stops |-> IF s \in wrote.stops THEN kept.stop[s] ELSE stop'[s]],
           leg |-> [s \in Stops |-> IF s \in wrote.legs THEN kept.leg[s] ELSE leg'[s]],
           placed |-> IF step = "idle" THEN placed' ELSE kept.placed]

ByOthers == Committed /\ UNCHANGED <<step, maker, fresh, frames, late, due, wrote>>

-----------------------------------------------------------------------------
(* StopLossSerializer.create: a LIMIT needs a price, a MARKET may have one.   *)
CreateStop(s) ==
  /\ s \notin Pairs /\ stop[s] = None
  /\ \E market, priced \in BOOLEAN :
       /\ market \/ priced
       /\ stop' = [stop EXCEPT ![s] =
            [market |-> market, priced |-> priced, canceled |-> FALSE, filled |-> 0]]
  /\ lock' = [lock EXCEPT ![s] = Amount]
  /\ UNCHANGED <<leg, placed, others>>
  /\ ByOthers

-----------------------------------------------------------------------------
(* The transaction of an order: OrderSerializer.create, or new_order in the   *)
(* creation of an OCO.                                                        *)

Fill(o, n) ==
  [o EXCEPT !.filled = @ + n, !.status = IF o.filled + n = o.amount THEN "filled" ELSE @]

(* An order of somebody else takes the symbol's lock and reads the orders it  *)
(* will match: at most one of those modelled here, or others only.            *)
Enter ==
  /\ step = "idle"
  /\ \/ maker' = None /\ step' = "list"
     \/ /\ \E s \in Stops :
             \/ Resting(leg[s]) /\ maker' = [on |-> s, order |-> 0, rest |-> Amount - leg[s].filled]
             \/ \E i \in DOMAIN placed[s] :
                  /\ Resting(placed[s][i])
                  /\ maker' = [on |-> s, order |-> i, rest |-> placed[s][i].amount - placed[s][i].filled]
        /\ step' = "match"
  /\ UNCHANGED <<book, lock, fresh, frames, late, due, wrote, kept, others>>

(* OCOSerializer.create: the leg is matched with others' orders.              *)
CreatePair(s) ==
  /\ step = "idle" /\ s \in Pairs /\ leg[s] = None
  /\ \E n \in Amounts :
       /\ leg' = [leg EXCEPT ![s] = Fill([status |-> "new", filled |-> 0, amount |-> Amount], n)]
       /\ due' = [due EXCEPT ![s] = n]
       /\ step' = IF n = 0 THEN "commit" ELSE "list"
  /\ fresh' = s
  /\ wrote' = [wrote EXCEPT !.legs = {s}]
  /\ UNCHANGED <<stop, placed, lock, maker, frames, late, kept, others>>

(* No two orders of a group, or of a stop-loss, have the same status.         *)
Unique(s, status) ==
  /\ leg[s] # None => leg[s].status # status
  /\ \A i \in DOMAIN placed[s] : placed[s][i].status # status

(* The leg of an OCO is matched, and handle_oco_updates cancels its           *)
(* stop-loss.                                                                 *)
MatchLeg(s, n) ==
  /\ LegFree(s)
  /\ leg' = [leg EXCEPT ![s] = Fill(@, n)]
  /\ IF stop[s] = None \/ stop[s].canceled
     THEN stop' = stop /\ wrote' = [wrote EXCEPT !.legs = @ \cup {s}]
     ELSE /\ StopFree(s)
          /\ stop' = [stop EXCEPT ![s].canceled = TRUE]
          /\ wrote' = [stops |-> wrote.stops \cup {s}, legs |-> wrote.legs \cup {s}]
  /\ UNCHANGED placed

MatchPlaced(s, i, n) ==
  /\ StopFree(s)
  /\ placed' = [placed EXCEPT ![s][i] = Fill(@, n)]
  /\ stop' = [stop EXCEPT ![s].filled = @ + n]
  /\ wrote' = [wrote EXCEPT !.stops = @ \cup {s}]
  /\ UNCHANGED leg

Match ==
  /\ step = "match"
  /\ \E n \in 1 .. maker.rest :
       /\ n = maker.rest => Unique(maker.on, "filled")
       /\ IF maker.order = 0 THEN MatchLeg(maker.on, n) ELSE MatchPlaced(maker.on, maker.order, n)
       /\ due' = [due EXCEPT ![maker.on] = @ + n]
  /\ step' = "list" /\ maker' = None
  /\ UNCHANGED <<lock, fresh, frames, late, kept, others>>

-----------------------------------------------------------------------------
(* StopLoss.trigger, after each order that traded.                            *)

Top == frames[Len(frames)]
WithTop(frame) == [frames EXCEPT ![Len(frames)] = frame]
Popped == SubSeq(frames, 1, Len(frames) - 1)

(* not_triggered_objects, but for the one whose order traded.                 *)
ToTrigger ==
  {s \in Stops : /\ Open(stop[s])
                 /\ stop[s].market \/ placed[s] = <<>>
                 /\ frames # <<>> => Top.at.on # s}

(* Which of them the trade's prices trigger is left open.                     *)
List ==
  /\ step = "list"
  /\ \E on \in SUBSET ToTrigger :
       IF on = {}
       THEN step' = (IF frames = <<>> THEN "commit" ELSE "save") /\ UNCHANGED frames
       ELSE /\ step' = "loop"
            /\ frames' = Append(frames,
                 [legs |-> on \cap Pairs, rest |-> {[on |-> s, filled |-> stop[s].filled] : s \in on},
                  at |-> None, late |-> {}])
  /\ UNCHANGED <<book, lock, maker, fresh, late, due, wrote, kept, others>>

(* The first loop: cancel_another(ORDER).                                     *)
CancelLeg ==
  /\ step = "loop"
  /\ \E s \in Top.legs :
       /\ frames' = WithTop([Top EXCEPT !.legs = @ \ {s}])
       /\ IF Resting(leg[s])
          THEN /\ LegFree(s)
               /\ leg' = [leg EXCEPT ![s].status = "canceled"]
               /\ wrote' = [wrote EXCEPT !.legs = @ \cup {s}]
          ELSE UNCHANGED <<leg, wrote>>
  /\ UNCHANGED <<stop, placed, lock, step, maker, fresh, late, due, kept, others>>

(* The second loop: trigger_stop_loss, by the amounts of the list.  The order *)
(* is inserted as NEW and matched.  Without a price it is a market order: it  *)
(* does not rest, and releases the whole lock.                                *)
PlaceOrder(copy) ==
  LET s == copy.on
      amount == Amount - copy.filled
  IN
  \E n \in (IF stop[s].priced THEN 0 ELSE 1) .. amount :
    LET status == IF n = amount THEN "filled" ELSE IF stop[s].priced THEN "new" ELSE "canceled" IN
      /\ n > 0 => StopFree(s)
      /\ Unique(s, "new") /\ Unique(s, status) /\ Len(placed[s]) < MaxPlaced
      /\ placed' = [placed EXCEPT ![s] =
           Append(@, [status |-> status, filled |-> n, amount |-> amount])]
      /\ stop' = [stop EXCEPT ![s].filled = @ + n]
      /\ wrote' = IF n = 0 THEN wrote ELSE [wrote EXCEPT !.stops = @ \cup {s}]
      /\ due' = [due EXCEPT ![s] = IF stop[s].priced THEN @ + n ELSE lock[s]]
      /\ frames' = WithTop([Top EXCEPT !.rest = @ \ {copy},
                      !.at = [on |-> s, filled |-> copy.filled, order |-> Len(placed[s]) + 1]])
      /\ step' = IF n = 0 THEN "save" ELSE "list"

(* No price on the other side, or too small an order.                         *)
PlaceNone(copy) ==
  /\ frames' = WithTop([Top EXCEPT !.rest = @ \ {copy},
                  !.late = IF stop[copy.on].market THEN @ \cup {copy.on} ELSE @])
  /\ UNCHANGED <<placed, stop, wrote, due, step>>

Place ==
  /\ step = "loop" /\ Top.legs = {}
  /\ \E copy \in Top.rest : PlaceOrder(copy) \/ PlaceNone(copy)
  /\ UNCHANGED <<leg, lock, maker, fresh, late, kept, others>>

(* Mutant: the stop-loss is refreshed before its order is added to it. *)
SaveRefreshed ==
  /\ step = "save"
  /\ LET s == Top.at.on
         filled == stop[s].filled + placed[s][Top.at.order].filled
     IN
       /\ StopFree(s)
       /\ stop' = [stop EXCEPT ![s].filled = filled]
       /\ wrote' = [wrote EXCEPT !.stops = @ \cup {s}]
       /\ frames' = WithTop([Top EXCEPT !.at = None])
  /\ step' = "loop"
  /\ UNCHANGED <<leg, placed, lock, maker, fresh, late, due, kept, others>>

(* filled_amount of the list's copy, and what its order has filled.           *)
Save ==
  /\ step = "save"
  /\ LET s == Top.at.on
         filled == Top.at.filled + placed[s][Top.at.order].filled
     IN
       /\ StopFree(s)
       /\ stop' = [stop EXCEPT ![s].filled = filled]
       /\ wrote' = [wrote EXCEPT !.stops = @ \cup {s}]
       /\ frames' = WithTop([Top EXCEPT !.at = None,
            !.late = IF stop[s].market /\ ~ stop[s].canceled /\ filled < Amount THEN @ \cup {s} ELSE @])
  /\ step' = "loop"
  /\ UNCHANGED <<leg, placed, lock, maker, fresh, late, due, kept, others>>

(* The list is through.  new_order cancels the MARKET stop-losses that were   *)
(* not filled at once, OrderSerializer when its transaction is over.          *)
Return ==
  /\ step = "loop" /\ Top.legs = {} /\ Top.rest = {}
  /\ IF Len(frames) = 1 /\ fresh = None
     THEN late' = Top.late /\ UNCHANGED <<stop, wrote>>
     ELSE /\ \A s \in Top.late : StopFree(s)
          /\ stop' = [s \in Stops |-> IF s \in Top.late THEN [stop[s] EXCEPT !.canceled = TRUE] ELSE stop[s]]
          /\ wrote' = [wrote EXCEPT !.stops = @ \cup Top.late]
          /\ UNCHANGED late
  /\ frames' = Popped
  /\ step' = IF Len(frames) = 1 THEN "commit" ELSE "save"
  /\ UNCHANGED <<leg, placed, lock, maker, fresh, due, kept, others>>

-----------------------------------------------------------------------------
Leaves ==
  /\ step' = "idle" /\ maker' = None /\ fresh' = None /\ frames' = <<>> /\ late' = {}
  /\ due' = [s \in Stops |-> 0]
  /\ wrote' = [stops |-> {}, legs |-> {}]
  /\ kept' = [stop |-> stop', leg |-> leg', placed |-> placed']

Undo ==
  /\ stop' = [s \in Stops |-> StopNow(s)]
  /\ leg' = [s \in Stops |-> LegNow(s)]
  /\ placed' = kept.placed
  /\ UNCHANGED lock

(* The lock a fresh OCO gets is the amount.                                   *)
LockOf(s) == IF s = fresh THEN Amount ELSE lock[s]

OcoStop == [market |-> FALSE, priced |-> TRUE, canceled |-> FALSE, filled |-> 0]

(* Mutant: the CHECK is not there. *)
CommitUnchecked ==
  /\ step = "commit"
  /\ lock' = [s \in Stops |-> IF due[s] > LockOf(s) THEN 0 ELSE LockOf(s) - due[s]]
  /\ stop' = IF fresh # None /\ leg[fresh].filled = 0
             THEN [stop EXCEPT ![fresh] = OcoStop] ELSE stop
  /\ closing' = closing \cup late
  /\ UNCHANGED <<leg, placed, canceler, raced>>
  /\ Leaves

(* The pipeline's end: CHECK (amount >= 0) of BalanceLock.  A fresh OCO has a *)
(* stop-loss if its leg has not traded.  The finally block runs either way.   *)
Commit ==
  /\ step = "commit"
  /\ IF \A s \in Stops : due[s] <= LockOf(s)
     THEN /\ lock' = [s \in Stops |-> LockOf(s) - due[s]]
          /\ stop' = IF fresh # None /\ leg[fresh].filled = 0
                     THEN [stop EXCEPT ![fresh] = OcoStop] ELSE stop
          /\ UNCHANGED <<leg, placed>>
     ELSE Undo
  /\ closing' = closing \cup late
  /\ Leaves
  /\ UNCHANGED <<canceler, raced>>

(* A unique constraint, the deadlock detector or the end of the process.      *)
Fails ==
  /\ step # "idle"
  /\ Undo /\ Leaves
  /\ UNCHANGED others

(* The finally block, or the process dies before it.                          *)
Close(s) ==
  /\ s \in closing
  /\ \/ /\ StopFree(s) /\ s \notin wrote.stops
        /\ stop' = [stop EXCEPT ![s].canceled = TRUE]
     \/ UNCHANGED stop
  /\ closing' = closing \ {s}
  /\ UNCHANGED <<leg, placed, lock, canceler, raced>>
  /\ ByOthers

-----------------------------------------------------------------------------
(* Requests to cancel: CancelRequestSerializer for a stop-loss ("stop") and   *)
(* for the leg of an OCO ("leg"), and DELETE of a stop-loss ("delete").       *)

Asks(c, how, s, unfilled) ==
  /\ canceler[c] = None
  /\ canceler' = [canceler EXCEPT ![c] =
       [how |-> how, on |-> s, unfilled |-> unfilled, stage |-> "asked",
        marked |-> FALSE, closed |-> FALSE, order |-> 0]]
  /\ UNCHANGED <<book, lock, match, closing, raced>>

Ask(c) ==
  \E s \in Stops :
    \/ Open(StopNow(s)) /\ Asks(c, "stop", s, Amount - StopNow(s).filled)
    \/ Resting(LegNow(s)) /\ Asks(c, "leg", s, 0)
    \/ StopNow(s) # None /\ Asks(c, "delete", s, 0)

At(c, stage) == canceler[c] # None /\ canceler[c].stage = stage
Goes(c, stage) == canceler' = [canceler EXCEPT ![c].stage = stage]
Done(c) == canceler' = [canceler EXCEPT ![c] = None]

(* In a list of the transaction, or placing an order.                         *)
AtWork(s) ==
  \E i \in DOMAIN frames :
    \/ \E copy \in frames[i].rest : copy.on = s
    \/ frames[i].at # None /\ frames[i].at.on = s

(* canceled_at is written: DELETE has no transaction around it.  The leg's    *)
(* cancellation leaves a stop-loss alone that is canceled already.            *)
Mark(c) ==
  /\ At(c, "asked")
  /\ LET s == canceler[c].on
         how == canceler[c].how
     IN
       IF how = "leg" /\ (StopNow(s) = None \/ StopNow(s).canceled)
       THEN Goes(c, "order") /\ UNCHANGED <<stop, raced>>
       ELSE /\ StopFree(s) /\ s \notin wrote.stops
            /\ IF how = "delete"
               THEN /\ stop' = [stop EXCEPT ![s].canceled = TRUE]
                    /\ raced' = IF AtWork(s) THEN raced \cup {s} ELSE raced
                    /\ Goes(c, "leg")
               ELSE /\ canceler' = [canceler EXCEPT ![c].marked = TRUE,
                                     ![c].stage = IF how = "leg" THEN "order" ELSE "leg"]
                    /\ UNCHANGED <<stop, raced>>
  /\ UNCHANGED <<leg, placed, lock, closing>>
  /\ ByOthers

(* cancel_another(ORDER), without the symbol's lock: the leg is read, *)
ReadLeg(c) ==
  /\ At(c, "leg")
  /\ IF Resting(LegNow(canceler[c].on)) THEN Goes(c, "write")
     ELSE IF canceler[c].how = "delete" THEN Done(c) ELSE Goes(c, "plan")
  /\ UNCHANGED <<book, lock, match, closing, raced>>

(* and written. *)
WriteLeg(c) ==
  /\ At(c, "write")
  /\ LET s == canceler[c].on IN
       /\ LegFree(s) /\ s \notin wrote.legs
       /\ IF canceler[c].how = "delete"
          THEN leg' = [leg EXCEPT ![s].status = "canceled"] /\ Done(c)
          ELSE /\ canceler' = [canceler EXCEPT ![c].closed = TRUE, ![c].stage = "plan"]
               /\ UNCHANGED leg
  /\ UNCHANGED <<stop, placed, lock, closing, raced>>
  /\ ByOthers

(* Mutant: an order of the stop-loss is not looked for. *)
PlanRelease(c) ==
  /\ At(c, "plan")
  /\ Goes(c, "release")
  /\ UNCHANGED <<book, lock, match, closing, raced>>

(* order_set.first(), of orders sorted by status: one that rests comes last.  *)
(* Nothing is done to an order that does not rest.                            *)
Plan(c) ==
  /\ At(c, "plan")
  /\ LET orders == PlacedNow(canceler[c].on)
         first == CHOOSE i \in DOMAIN orders :
                    (\E j \in DOMAIN orders : ~ Resting(orders[j])) => ~ Resting(orders[i])
     IN
       IF orders = <<>> THEN Goes(c, "release")
       ELSE canceler' = [canceler EXCEPT ![c].order = first,
                           ![c].stage = IF Resting(orders[first]) THEN "order" ELSE "end"]
  /\ UNCHANGED <<book, lock, match, closing, raced>>

(* The rows the request has written are committed.                            *)
Marks(c) ==
  LET s == canceler[c].on IN
    /\ stop' = IF canceler[c].marked THEN [stop EXCEPT ![s].canceled = TRUE] ELSE stop
    /\ raced' = IF canceler[c].marked /\ AtWork(s) THEN raced \cup {s} ELSE raced

ClosesLeg(c) ==
  leg' = IF canceler[c].closed THEN [leg EXCEPT ![canceler[c].on].status = "canceled"] ELSE leg

(* Nothing is left to do, nor to wait for.                                    *)
End(c) ==
  /\ At(c, "end")
  /\ Marks(c) /\ ClosesLeg(c)
  /\ Done(c)
  /\ UNCHANGED <<placed, lock, closing>>
  /\ ByOthers

(* The stop-loss had no order: the rest of its amount is released.            *)
Release(c) ==
  /\ At(c, "release")
  /\ LET s == canceler[c].on IN
       IF canceler[c].unfilled <= lock[s]
       THEN /\ Marks(c) /\ ClosesLeg(c)
            /\ lock' = [lock EXCEPT ![s] = @ - canceler[c].unfilled]
       ELSE UNCHANGED <<stop, raced, leg, lock>>
  /\ Done(c)
  /\ UNCHANGED <<placed, closing>>
  /\ ByOthers

(* Order.cancel of an order that rested when it was read, under the symbol's  *)
(* lock.  It is refused by the unique constraint when the leg is CANCELED.    *)
CancelPlaced(c) ==
  /\ At(c, "order") /\ canceler[c].how = "stop" /\ step = "idle"
  /\ LET s == canceler[c].on
         i == canceler[c].order
     IN
       IF ~ Resting(placed[s][i])
       THEN Marks(c) /\ ClosesLeg(c) /\ UNCHANGED <<placed, lock>>
       ELSE IF canceler[c].closed \/ ~ Unique(s, "canceled")
       THEN UNCHANGED <<stop, raced, leg, placed, lock>>
       ELSE /\ Marks(c)
            /\ placed' = [placed EXCEPT ![s][i].status = "canceled"]
            /\ lock' = [lock EXCEPT ![s] = 0]
            /\ UNCHANGED leg
  /\ Done(c)
  /\ UNCHANGED <<closing>>
  /\ ByOthers

CancelLegOrder(c) ==
  /\ At(c, "order") /\ canceler[c].how = "leg" /\ step = "idle"
  /\ LET s == canceler[c].on IN
       /\ Marks(c)
       /\ IF Resting(leg[s])
          THEN /\ leg' = [leg EXCEPT ![s].status = "canceled"]
               /\ lock' = [lock EXCEPT ![s] = 0]
          ELSE UNCHANGED <<leg, lock>>
  /\ Done(c)
  /\ UNCHANGED <<placed, closing>>
  /\ ByOthers

(* An exception, the deadlock detector or the end of the process.             *)
Drops(c) ==
  /\ canceler[c] # None
  /\ Done(c)
  /\ UNCHANGED <<book, lock, match, closing, raced>>

-----------------------------------------------------------------------------
Matching ==
  \/ Enter \/ (\E s \in Stops : CreatePair(s))
  \/ Match \/ List \/ CancelLeg \/ Place \/ Save \/ Return \/ Commit \/ Fails

Canceling(c) ==
  \/ Ask(c) \/ Mark(c) \/ ReadLeg(c) \/ WriteLeg(c) \/ Plan(c)
  \/ End(c) \/ Release(c) \/ CancelPlaced(c) \/ CancelLegOrder(c) \/ Drops(c)

Next ==
  \/ \E s \in Stops : CreateStop(s) \/ Close(s)
  \/ Matching
  \/ \E c \in Cancelers : Canceling(c)

Spec == Init /\ [][Next]_vars

-----------------------------------------------------------------------------
Traded(orders) ==
  SumFunctionOnSet([i \in DOMAIN orders |-> orders[i].filled], DOMAIN orders)

(* It was triggered again when it had placed an order.                        *)
Twice(s) == Len(PlacedNow(s)) > 1

SoldByLeg(s) == IF LegNow(s) = None THEN 0 ELSE LegNow(s).filled

(* Whatever is triggered again or canceled meanwhile, no more is sold for a    *)
(* customer than the amount that was locked, and what is still locked was not *)
(* sold: unless a stop-loss without a price was triggered twice.              *)
SoldOnce ==
  \A s \in Stops :
    ~ (Twice(s) /\ ~ StopNow(s).priced) =>
      SoldByLeg(s) + Traded(PlacedNow(s)) + lock[s] <= Amount

(* OCO.filled_amount, of the API: the leg's, or else the stop-loss's.         *)
OcoFilled(s) ==
  IF SoldByLeg(s) > 0 THEN SoldByLeg(s) ELSE IF StopNow(s) = None THEN 0 ELSE StopNow(s).filled

(* A stop-loss tells what its orders have sold, although it is written from   *)
(* the copy of a list that may be older than its orders; and an OCO tells     *)
(* what both of its halves have sold, so only one of them ever trades: unless *)
(* the list's copy triggered it again.                                        *)
FilledIsSold ==
  \A s \in {r \in Stops : ~ Twice(r)} :
    /\ StopNow(s) # None => StopNow(s).filled = Traded(PlacedNow(s))
    /\ OcoFilled(s) = SoldByLeg(s) + Traded(PlacedNow(s))

(* What rests in the book, and a stop-loss that waits, has the lock it needs  *)
(* to be matched: unless it was canceled while a trade triggered it, or was   *)
(* triggered twice.                                                           *)
OpenIsFunded ==
  \A s \in {r \in Stops \ raced : ~ Twice(r)} :
    /\ Resting(LegNow(s)) => lock[s] >= Amount - LegNow(s).filled
    /\ \A i \in DOMAIN PlacedNow(s) :
         Resting(PlacedNow(s)[i]) => lock[s] >= PlacedNow(s)[i].amount - PlacedNow(s)[i].filled
    /\ Open(StopNow(s)) /\ PlacedNow(s) = <<>> => lock[s] = Amount

(* "todo: add constraint filled_amount <= amount" of StopLoss: its orders     *)
(* sell no more than its amount.                                              *)
FilledWithinAmount == \A s \in Stops : Traded(PlacedNow(s)) <= Amount
=============================================================================
