----------------------------- MODULE StopLossProofs -----------------------------
(***************************************************************************)
(* For any stop-losses, OCOs and requests to cancel, however the trades of *)
(* one trigger the others: no more is sold for a customer than was locked, *)
(* filled_amount tells what was sold, and what rests or waits is funded.   *)
(*                                                                         *)
(* The argument: the three hold of the rows the transaction has written so *)
(* far, with what is due taken off the locks, and of the rows others still *)
(* see.  What makes them hold is kept by the copies in the transaction's   *)
(* lists: a stop-loss in a list has a leg that left the book without a     *)
(* trade, and, until it places an order, the whole lock, or was canceled   *)
(* meanwhile.  A request that has marked a row keeps the transaction from  *)
(* writing it, and the transaction the request.                            *)
(***************************************************************************)
EXTENDS StopLoss, SumTheorems, SequenceTheorems, TLAPS, Integers
-----------------------------------------------------------------------------
(* The values of the variables.                                               *)

Frames == [legs : SUBSET Pairs, rest : SUBSET Copies, at : Working \cup {None},
           late : SUBSET Stops]
Requests ==
  [how : {"stop", "leg", "delete"}, on : Stops, unfilled : Amounts,
   stage : {"asked", "leg", "write", "plan", "end", "release", "order"},
   marked : BOOLEAN, closed : BOOLEAN, order : Nat]

StopColumn == [Stops -> StopRows \cup {None}]
LegColumn == [Stops -> Orders \cup {None}]
PlacedColumn == [Stops -> Seq(Orders)]
WroteRows == [stops : SUBSET Stops, legs : SUBSET Stops]

TypeOK ==
  /\ stop \in StopColumn /\ leg \in LegColumn /\ placed \in PlacedColumn
  /\ lock \in [Stops -> Nat]
  /\ step \in {"idle", "match", "list", "loop", "save", "commit"}
  /\ maker \in Makers \cup {None}
  /\ fresh \in Pairs \cup {None}
  /\ frames \in Seq(Frames)
  /\ late \in SUBSET Stops
  /\ due \in [Stops -> Nat]
  /\ wrote \in WroteRows
  /\ kept \in [stop : StopColumn, leg : LegColumn, placed : PlacedColumn]
  /\ canceler \in [Cancelers -> Requests \cup {None}]
  /\ closing \in SUBSET Stops /\ raced \in SUBSET Stops

-----------------------------------------------------------------------------
(* What the rows of one stop-loss say, seen by the transaction or by others.  *)

(* Leg and orders never both trade: the leg's trade cancels the stop-loss,    *)
(* and a stop-loss places no order before its leg has left the book.          *)
Rows(s, st, lg, pl) ==
  /\ st = None => pl = <<>>
  /\ IF s \in Pairs THEN st # None => lg # None /\ st.priced ELSE lg = None
  /\ lg # None => /\ lg.amount = Amount /\ lg.filled <= lg.amount
                  /\ lg.filled > 0 => pl = <<>> /\ (st = None \/ st.canceled)
  /\ \A i \in DOMAIN pl : pl[i].filled <= pl[i].amount
  /\ pl # <<>> => ~ Resting(lg)
  /\ st # None => /\ pl = <<>> => st.filled = 0
                  /\ Len(pl) = 1 => st.filled = pl[1].filled
                  /\ ~ st.priced => \A i \in DOMAIN pl : ~ Resting(pl[i])

SoldBy(lg) == IF lg = None THEN 0 ELSE lg.filled

(* free is what is locked and not due. *)
Bounded(st, lg, pl, free) ==
  ~ (Len(pl) > 1 /\ ~ st.priced) => SoldBy(lg) + Traded(pl) + free <= Amount

Funded(st, lg, pl, free) ==
  Len(pl) <= 1 =>
    /\ Resting(lg) => free >= Amount - lg.filled
    /\ \A i \in DOMAIN pl : Resting(pl[i]) => free >= pl[i].amount - pl[i].filled
    /\ Open(st) /\ pl = <<>> => free = Amount

InnerOk(s) ==
  /\ Rows(s, stop[s], leg[s], placed[s])
  /\ Bounded(stop[s], leg[s], placed[s], LockOf(s) - due[s])
  /\ s \notin raced => Funded(stop[s], leg[s], placed[s], LockOf(s) - due[s])

KeptOk(s) ==
  /\ Rows(s, kept.stop[s], kept.leg[s], kept.placed[s])
  /\ Bounded(kept.stop[s], kept.leg[s], kept.placed[s], lock[s])
  /\ s \notin raced => Funded(kept.stop[s], kept.leg[s], kept.placed[s], lock[s])

-----------------------------------------------------------------------------
(* How far the transaction is from what others see.                           *)

AtOrder(s) == \E i \in DOMAIN frames : frames[i].at # None /\ frames[i].at.on = s

TiedOk(s) ==
  /\ s \notin wrote.stops => kept.stop[s] = stop[s]
  /\ s \notin wrote.legs => kept.leg[s] = leg[s]
  /\ kept.stop[s] = None <=> stop[s] = None
  /\ kept.stop[s] # None /\ kept.stop[s].canceled => stop[s].canceled
  /\ Resting(leg[s]) => Resting(kept.leg[s]) \/ s = fresh
  /\ s \in wrote.stops => stop[s] # None
  /\ s \in wrote.legs => leg[s] # None
  /\ kept.leg[s] # None => leg[s] # None
  /\ placed[s] = kept.placed[s] \/ s \in wrote.stops \/ AtOrder(s)
  /\ stop[s] = None /\ leg[s] = None => due[s] = 0

IdleOk ==
  step = "idle" =>
    /\ wrote.stops = {} /\ wrote.legs = {} /\ kept.placed = placed
    /\ \A s \in Stops : due[s] = 0
    /\ fresh = None /\ late = {}

FreshOk ==
  fresh # None =>
    /\ stop[fresh] = None /\ kept.leg[fresh] = None /\ leg[fresh] # None
    /\ due[fresh] = leg[fresh].filled

MakerOk ==
  /\ step = "match" <=> maker # None
  /\ maker # None =>
       LET s == maker.on IN
       /\ fresh = None
       /\ IF maker.order = 0
          THEN leg[s] # None /\ leg[s].filled + maker.rest = Amount /\ placed[s] = <<>>
          ELSE LET o == placed[s][maker.order] IN
               /\ maker.order \in DOMAIN placed[s]
               /\ Resting(o) /\ o.filled + maker.rest = o.amount

(* A copy of a list that has not placed an order yet. *)
CopyOk(copy, legs) ==
  LET s == copy.on IN
  /\ stop[s] # None
  /\ s \in legs \/ ~ Resting(leg[s])
  /\ leg[s] # None => leg[s].filled = 0
  /\ placed[s] = <<>> =>
       /\ copy.filled = 0
       /\ s \notin raced => lock[s] - due[s] = Amount

AtOk(at) ==
  /\ stop[at.on] # None
  /\ at.order \in DOMAIN placed[at.on]
  /\ at.order = 1 => at.filled = 0

FrameOk(i) ==
  LET f == frames[i] IN
  /\ \A copy \in f.rest : CopyOk(copy, f.legs)
  /\ f.at # None => AtOk(f.at)
  /\ \A s \in f.legs \cup f.late : stop[s] # None

FramesOk == \A i \in DOMAIN frames : FrameOk(i)

StepOk ==
  /\ step \in {"idle", "match", "commit"} => frames = <<>>
  /\ step \in {"loop", "save"} => frames # <<>>
  /\ step = "loop" => Top.at = None
  /\ step \in {"list", "save"} /\ frames # <<>> => Top.at # None
  /\ \A i \in DOMAIN frames : i # Len(frames) => frames[i].at # None

-----------------------------------------------------------------------------
RequestOk(c) ==
  LET r == canceler[c]
      s == r.on
  IN
  /\ r.marked => s \notin wrote.stops /\ kept.stop[s] # None
  /\ r.closed => s \notin wrote.legs /\ kept.leg[s] # None
  /\ r.how # "leg" => kept.stop[s] # None
  /\ r.how = "leg" => /\ kept.leg[s] # None
                      /\ r.stage \in {"asked", "order"}
                      /\ r.stage = "order" /\ ~ r.marked => kept.stop[s] = None \/ kept.stop[s].canceled
  /\ r.how = "delete" => ~ r.marked /\ r.stage \in {"asked", "leg", "write"}
  /\ r.how = "stop" =>
       /\ r.stage # "asked" => r.marked
       /\ r.stage \in {"plan", "end", "release", "order"} => r.closed \/ ~ Resting(kept.leg[s])
       /\ r.stage = "release" => kept.placed[s] = <<>>
       /\ r.stage = "order" => r.order \in DOMAIN kept.placed[s]
  /\ r.stage = "write" => kept.leg[s] # None

LaterOk == \A s \in late \cup closing : kept.stop[s] # None

IInv ==
  /\ TypeOK
  /\ \A s \in Stops : InnerOk(s) /\ KeptOk(s) /\ TiedOk(s)
  /\ IdleOk /\ FreshOk /\ MakerOk /\ StepOk
  /\ FramesOk
  /\ \A c \in Cancelers : canceler[c] # None => RequestOk(c)
  /\ LaterOk

-----------------------------------------------------------------------------
(* Sums over orders, and frames.                                              *)

LEMMA OrderFields ==
  \A o \in Orders : o.filled \in 0 .. Amount /\ o.amount \in 0 .. Amount
                   /\ o.filled \in Nat /\ o.amount \in Nat
  BY StopLossAssumption DEF Orders, Amounts

LEMMA OrderOf ==
  ASSUME NEW pl \in Seq(Orders)
  PROVE  /\ Len(pl) \in Nat /\ DOMAIN pl = 1 .. Len(pl)
         /\ \A i \in DOMAIN pl : pl[i] \in Orders
  BY LenProperties

LEMMA TradedNat ==
  ASSUME NEW pl \in Seq(Orders)
  PROVE  Traded(pl) \in Nat
<1> DEFINE f == [i \in DOMAIN pl |-> pl[i].filled]
<1>1. IsFiniteSet(DOMAIN pl)
  BY LenProperties, FS_Interval
<1>2. \A i \in DOMAIN pl : f[i] \in Nat
  BY OrderOf, OrderFields
<1> HIDE DEF f
<1>3. SumFunctionOnSet(f, DOMAIN pl) \in Nat
  BY <1>1, <1>2, SumNat
<1> QED
  BY <1>3 DEF Traded, f

LEMMA TradedNone == Traded(<<>>) = 0
<1>1. DOMAIN <<>> = {}
  OBVIOUS
<1> QED
  BY <1>1, SumEmpty DEF Traded

(* What is sold by the orders depends on what each has filled. *)
LEMMA TradedSame ==
  ASSUME NEW pl \in Seq(Orders), NEW pr \in Seq(Orders), Len(pr) = Len(pl),
         \A i \in DOMAIN pl : pr[i].filled = pl[i].filled
  PROVE  Traded(pr) = Traded(pl)
<1>1. [i \in DOMAIN pr |-> pr[i].filled] = [i \in DOMAIN pl |-> pl[i].filled] /\ DOMAIN pr = DOMAIN pl
  BY LenProperties
<1> QED
  BY <1>1 DEF Traded

LEMMA TradedExcept ==
  ASSUME NEW pl \in Seq(Orders), NEW i \in DOMAIN pl, NEW o \in Orders
  PROVE  /\ [pl EXCEPT ![i] = o] \in Seq(Orders)
         /\ Len([pl EXCEPT ![i] = o]) = Len(pl)
         /\ Traded([pl EXCEPT ![i] = o]) = Traded(pl) - pl[i].filled + o.filled
<1> DEFINE pr == [pl EXCEPT ![i] = o]
           f == [j \in DOMAIN pl |-> pl[j].filled]
           g == [j \in DOMAIN pr |-> pr[j].filled]
<1>1. pr \in Seq(Orders) /\ Len(pr) = Len(pl) /\ DOMAIN pr = DOMAIN pl
  BY LenProperties, ExceptSeq
<1>2. IsFiniteSet(DOMAIN pl)
  BY LenProperties, FS_Interval
<1>3. \A j \in DOMAIN pl : f[j] \in Int /\ g[j] \in Int
  BY <1>1, OrderOf, OrderFields
<1>4. \A j \in DOMAIN pl \ {i} : f[j] = g[j]
  BY <1>1
<1>5. f[i] = pl[i].filled /\ g[i] = o.filled
  BY <1>1
<1> HIDE DEF f, g
<1>6. SumFunctionOnSet(g, DOMAIN pl) = SumFunctionOnSet(f, DOMAIN pl) - f[i] + g[i]
  BY <1>2, <1>3, <1>4, SumUpdate
<1> QED
  BY <1>1, <1>5, <1>6 DEF Traded, f, g

LEMMA TradedAppend ==
  ASSUME NEW pl \in Seq(Orders), NEW o \in Orders
  PROVE  /\ Append(pl, o) \in Seq(Orders) /\ Len(Append(pl, o)) = Len(pl) + 1
         /\ Traded(Append(pl, o)) = Traded(pl) + o.filled
<1> DEFINE pr == Append(pl, o)
           n == Len(pl) + 1
           f == [j \in DOMAIN pl |-> pl[j].filled]
           g == [j \in DOMAIN pr |-> pr[j].filled]
<1>1. pr \in Seq(Orders) /\ Len(pr) = n /\ pr[n] = o /\ \A j \in DOMAIN pl : pr[j] = pl[j]
  BY LenProperties
<1>2. DOMAIN pr = DOMAIN pl \cup {n} /\ n \notin DOMAIN pl
  BY <1>1, LenProperties
<1>3. IsFiniteSet(DOMAIN pl)
  BY LenProperties, FS_Interval
<1>4. \A j \in DOMAIN pl \cup {n} : g[j] \in Int
  BY <1>1, <1>2, OrderOf, OrderFields
<1>5. \A j \in DOMAIN pl : f[j] = g[j]
  BY <1>1, <1>2
<1>6. g[n] = o.filled
  BY <1>1, <1>2
<1> HIDE DEF f, g, pr, n
<1>7. SumFunctionOnSet(g, DOMAIN pl \cup {n}) = g[n] + SumFunctionOnSet(g, DOMAIN pl)
  BY <1>2, <1>3, <1>4, SumAdd
<1>8. SumFunctionOnSet(f, DOMAIN pl) = SumFunctionOnSet(g, DOMAIN pl)
  BY <1>3, <1>5, SumSame
<1>9. Traded(pr) = o.filled + Traded(pl)
  BY <1>2, <1>6, <1>7, <1>8 DEF Traded, f, g
<1> QED
  BY <1>1, <1>9, TradedNat, OrderFields DEF pr, n

LEMMA TradedOne ==
  ASSUME NEW pl \in Seq(Orders), Len(pl) = 1
  PROVE  Traded(pl) = pl[1].filled
<1>1. <<>> \in Seq(Orders) /\ pl[1] \in Orders
  BY LenProperties
<1>2. pl = Append(<<>>, pl[1])
  BY LenProperties
<1>3. Traded(pl) = Traded(<<>>) + pl[1].filled
  BY <1>1, <1>2, TradedAppend
<1> QED
  BY <1>1, <1>3, TradedNone DEF Orders, Amounts

(* The innermost call. *)
LEMMA TopChanged ==
  ASSUME frames \in Seq(Frames), frames # <<>>, NEW f \in Frames, frames' = WithTop(f)
  PROVE  /\ Top \in Frames /\ frames' \in Seq(Frames)
         /\ DOMAIN frames = 1 .. Len(frames) /\ DOMAIN frames' = DOMAIN frames
         /\ Len(frames) \in Nat \ {0} /\ Len(frames') = Len(frames) /\ frames' # <<>>
         /\ \A i \in DOMAIN frames : frames'[i] = IF i = Len(frames) THEN f ELSE frames[i]
  BY ExceptSeq, LenProperties, EmptySeq DEF Top, WithTop

LEMMA TopPopped ==
  ASSUME frames \in Seq(Frames), frames # <<>>, frames' = Popped
  PROVE  /\ Top \in Frames /\ frames' \in Seq(Frames)
         /\ DOMAIN frames = 1 .. Len(frames) /\ DOMAIN frames' = 1 .. Len(frames')
         /\ Len(frames) \in Nat \ {0} /\ Len(frames') = Len(frames) - 1
         /\ \A i \in DOMAIN frames' : frames'[i] = frames[i]
<1>1. Len(frames) \in Nat \ {0} /\ DOMAIN frames = 1 .. Len(frames) /\ Top \in Frames
  BY LenProperties, EmptySeq DEF Top
<1>2. \A i \in 1 .. (Len(frames) - 1) : frames[i] \in Frames
  BY LenProperties
<1>3. frames' \in Seq(Frames) /\ Len(frames') = Len(frames) - 1
      /\ \A i \in 1 .. (Len(frames) - 1) : frames'[i] = frames[i]
  BY <1>1, <1>2, SubSeqProperties DEF Popped
<1> QED
  BY <1>1, <1>3, LenProperties

LEMMA TopPushed ==
  ASSUME frames \in Seq(Frames), NEW f \in Frames, frames' = Append(frames, f)
  PROVE  /\ frames' \in Seq(Frames) /\ Len(frames') = Len(frames) + 1 /\ Len(frames) \in Nat
         /\ DOMAIN frames = 1 .. Len(frames) /\ DOMAIN frames' = 1 .. Len(frames')
         /\ frames' # <<>>
         /\ \A i \in DOMAIN frames' : frames'[i] = IF i = Len(frames') THEN f ELSE frames[i]
  BY LenProperties

-----------------------------------------------------------------------------
(* What happens to the rows of a stop-loss.                                   *)

Row(st) == st \in StopRows \cup {None}
LegRow(lg) == lg \in Orders \cup {None}

CanceledStop(st, sr) == sr = st \/ (st # None /\ sr = [st EXCEPT !.canceled = TRUE])
CanceledOrder(o, p) == p = o \/ (o # None /\ p = [o EXCEPT !.status = "canceled"])

CanceledOrders(pl, pr) ==
  pr \in Seq(Orders) /\ Len(pr) = Len(pl) /\ \A i \in DOMAIN pl : CanceledOrder(pl[i], pr[i])

LEMMA CanceledRow ==
  ASSUME NEW st, Row(st), NEW sr, CanceledStop(st, sr)
  PROVE  /\ Row(sr) /\ (sr = None <=> st = None)
         /\ st # None => sr.filled = st.filled /\ sr.priced = st.priced /\ (st.canceled => sr.canceled)
         /\ Open(sr) => Open(st)
<1>1. CASE sr = st
  BY <1>1
<1>2. CASE st # None /\ sr = [st EXCEPT !.canceled = TRUE]
  <2>1. st \in StopRows
    BY <1>2 DEF Row
  <2>2. sr \in StopRows /\ sr.filled = st.filled /\ sr.priced = st.priced /\ sr.canceled
    BY <1>2, <2>1 DEF StopRows
  <2> QED
    BY <1>2, <2>2, NoneAssumption DEF Row, Open
<1> QED
  BY <1>1, <1>2 DEF CanceledStop

LEMMA CanceledLeg ==
  ASSUME NEW o, LegRow(o), NEW p, CanceledOrder(o, p)
  PROVE  /\ LegRow(p) /\ (p = None <=> o = None)
         /\ o # None => p.filled = o.filled /\ p.amount = o.amount
         /\ Resting(p) => Resting(o)
<1>1. CASE p = o
  BY <1>1
<1>2. CASE o # None /\ p = [o EXCEPT !.status = "canceled"]
  <2>1. o \in Orders
    BY <1>2 DEF LegRow
  <2>2. p \in Orders /\ p.filled = o.filled /\ p.amount = o.amount /\ p.status = "canceled"
    BY <1>2, <2>1 DEF Orders
  <2> QED
    BY <1>2, <2>2, NoneAssumption DEF LegRow, Resting
<1> QED
  BY <1>1, <1>2 DEF CanceledOrder

(* What is canceled sells nothing, and needs no less. *)
LEMMA CancelKeeps ==
  ASSUME NEW s \in Stops, NEW st, Row(st), NEW lg, LegRow(lg), NEW pl \in Seq(Orders),
         NEW sr, CanceledStop(st, sr), NEW lr, CanceledOrder(lg, lr),
         NEW pr, CanceledOrders(pl, pr),
         NEW free \in Int, NEW left \in Int, left <= free
  PROVE  /\ Rows(s, st, lg, pl) => Rows(s, sr, lr, pr)
         /\ Rows(s, st, lg, pl) /\ Bounded(st, lg, pl, free) => Bounded(sr, lr, pr, left)
         /\ Funded(st, lg, pl, free) /\ left = free => Funded(sr, lr, pr, left)
<1>1. /\ Row(sr) /\ (sr = None <=> st = None)
      /\ st # None => sr.filled = st.filled /\ sr.priced = st.priced /\ (st.canceled => sr.canceled)
      /\ Open(sr) => Open(st)
  BY CanceledRow
<1>2. /\ LegRow(lr) /\ (lr = None <=> lg = None)
      /\ lg # None => lr.filled = lg.filled /\ lr.amount = lg.amount
      /\ Resting(lr) => Resting(lg)
  BY CanceledLeg
<1>3. /\ pr \in Seq(Orders) /\ Len(pr) = Len(pl) /\ Len(pl) \in Nat
      /\ DOMAIN pr = DOMAIN pl /\ DOMAIN pl = 1 .. Len(pl) /\ (pr = <<>> <=> pl = <<>>)
  BY OrderOf, EmptySeq DEF CanceledOrders
<1>4. \A i \in DOMAIN pl : /\ pr[i].filled = pl[i].filled /\ pr[i].amount = pl[i].amount
                           /\ Resting(pr[i]) => Resting(pl[i])
  <2> TAKE i \in DOMAIN pl
  <2>1. pl[i] \in Orders /\ CanceledOrder(pl[i], pr[i])
    BY OrderOf DEF CanceledOrders
  <2> QED
    BY <2>1, CanceledLeg, NoneAssumption DEF LegRow
<1>5. Traded(pr) = Traded(pl) /\ Traded(pl) \in Nat
  <2>1. \A i \in DOMAIN pl : pr[i].filled = pl[i].filled
    BY <1>4 DEF Resting
  <2> QED
    BY <1>3, <2>1, TradedSame, TradedNat
<1>6. SoldBy(lr) = SoldBy(lg) /\ SoldBy(lg) \in Nat
  BY <1>2, OrderFields DEF SoldBy, LegRow
<1>7. ASSUME Rows(s, st, lg, pl) PROVE Rows(s, sr, lr, pr)
  <2>1. /\ sr = None => pr = <<>>
        /\ IF s \in Pairs THEN sr # None => lr # None /\ sr.priced ELSE lr = None
    BY <1>1, <1>2, <1>3, <1>7 DEF Rows, Resting, Open
  <2>2. lr # None => /\ lr.amount = Amount /\ lr.filled <= lr.amount
                     /\ lr.filled > 0 => pr = <<>> /\ (sr = None \/ sr.canceled)
    BY <1>1, <1>2, <1>3, <1>7 DEF Rows, Resting, Open
  <2>3. \A i \in DOMAIN pr : pr[i].filled <= pr[i].amount
    BY <1>3, <1>4, <1>7 DEF Rows, Resting
  <2>4. pr # <<>> => ~ Resting(lr)
    BY <1>2, <1>3, <1>7 DEF Rows, Resting
  <2>5. sr # None => /\ pr = <<>> => sr.filled = 0
                     /\ Len(pr) = 1 => sr.filled = pr[1].filled
                     /\ ~ sr.priced => \A i \in DOMAIN pr : ~ Resting(pr[i])
    BY <1>1, <1>3, <1>4, <1>7 DEF Rows, Resting, Open
  <2> QED
    BY <2>1, <2>2, <2>3, <2>4, <2>5 DEF Rows
<1>8. ASSUME Rows(s, st, lg, pl), Bounded(st, lg, pl, free) PROVE Bounded(sr, lr, pr, left)
  <2>1. Len(pl) > 1 => st # None
    BY <1>3, <1>8, EmptySeq DEF Rows
  <2> QED
    BY <1>1, <1>3, <1>5, <1>6, <1>8, <2>1, StopLossAssumption DEF Bounded
<1>9. ASSUME Funded(st, lg, pl, free), left = free PROVE Funded(sr, lr, pr, left)
  <2>1. Resting(lr) => lr.filled = lg.filled
    BY <1>2 DEF Resting
  <2> QED
    BY <1>1, <1>2, <1>3, <1>4, <1>9, <2>1 DEF Funded, Resting, Open
<1> QED
  BY <1>7, <1>8, <1>9

LEMMA FillFields ==
  ASSUME NEW o \in Orders, NEW n \in 0 .. Amount, n <= o.amount - o.filled
  PROVE  /\ Fill(o, n) \in Orders
         /\ Fill(o, n).filled = o.filled + n /\ Fill(o, n).amount = o.amount
         /\ o.filled + n <= o.amount
         /\ Fill(o, n).status = "new" => o.status = "new" /\ o.filled + n # o.amount
<1> DEFINE status == IF o.filled + n = o.amount THEN "filled" ELSE o.status
<1>1. /\ o.filled \in 0 .. Amount /\ o.amount \in 0 .. Amount
      /\ o.status \in {"new", "filled", "canceled"}
      /\ o = [status |-> o.status, filled |-> o.filled, amount |-> o.amount]
  BY DEF Orders, Amounts
<1>2. Fill(o, n) = [status |-> status, filled |-> o.filled + n, amount |-> o.amount]
  <2> DEFINE q == [o EXCEPT !.filled = o.filled + n]
  <2>1. q = [status |-> o.status, filled |-> o.filled + n, amount |-> o.amount]
    BY <1>1
  <2> HIDE DEF q
  <2>2. [q EXCEPT !.status = status] = [status |-> status, filled |-> o.filled + n, amount |-> o.amount]
    BY <2>1
  <2> QED
    BY <2>2 DEF Fill, q
<1>3. o.filled + n \in Amounts /\ o.filled + n <= o.amount
  BY <1>1, StopLossAssumption DEF Amounts
<1> QED
  BY <1>1, <1>2, <1>3 DEF Orders, Amounts

LEMMA FilledRow ==
  ASSUME NEW st \in StopRows, NEW n \in Nat
  PROVE  /\ [st EXCEPT !.filled = n] \in StopRows /\ [st EXCEPT !.filled = n] # None
         /\ [st EXCEPT !.filled = n].filled = n
         /\ [st EXCEPT !.filled = n].priced = st.priced
         /\ [st EXCEPT !.filled = n].canceled = st.canceled
         /\ st.filled \in Nat /\ st # None /\ st.priced \in BOOLEAN /\ st.canceled \in BOOLEAN
<1>1. /\ [st EXCEPT !.filled = n] \in StopRows
      /\ [st EXCEPT !.filled = n].filled = n
      /\ [st EXCEPT !.filled = n].priced = st.priced
      /\ [st EXCEPT !.filled = n].canceled = st.canceled
      /\ st.filled \in Nat /\ st.priced \in BOOLEAN /\ st.canceled \in BOOLEAN
  BY DEF StopRows
<1> QED
  BY <1>1, NoneAssumption

(* The leg is matched. *)
LEMMA LegSells ==
  ASSUME NEW s \in Stops, NEW st, Row(st), NEW lg, LegRow(lg), lg # None,
         NEW n \in 1 .. Amount, n <= Amount - lg.filled, NEW lr, lr = Fill(lg, n),
         NEW sr, CanceledStop(st, sr), sr = None \/ sr.canceled,
         NEW free \in Int, Rows(s, st, lg, <<>>)
  PROVE  /\ LegRow(lr) /\ lr # None /\ (Resting(lr) => Resting(lg))
         /\ lr.filled = lg.filled + n
         /\ Rows(s, sr, lr, <<>>)
         /\ Bounded(st, lg, <<>>, free) => Bounded(sr, lr, <<>>, free - n)
         /\ Funded(st, lg, <<>>, free) => Funded(sr, lr, <<>>, free - n)
<1>1. lg \in Orders /\ lg.amount = Amount /\ lg.filled \in Nat /\ n \in Nat /\ Amount \in Nat
  BY OrderFields, StopLossAssumption DEF LegRow, Rows
<1>2. /\ lr \in Orders /\ lr.filled = lg.filled + n /\ lr.amount = Amount
      /\ lr.status = "new" => lg.status = "new"
  BY <1>1, FillFields
<1>3. lr # None
  BY <1>2, NoneAssumption
<1>4. /\ Row(sr) /\ (sr = None <=> st = None)
      /\ st # None => sr.filled = st.filled /\ sr.priced = st.priced /\ (st.canceled => sr.canceled)
  BY CanceledRow
<1>5. Len(<<>>) = 0 /\ DOMAIN <<>> = {}
  OBVIOUS
<1>6. Rows(s, sr, lr, <<>>)
  BY <1>1, <1>2, <1>3, <1>4, <1>5 DEF Rows
<1>7. SoldBy(lr) = SoldBy(lg) + n /\ SoldBy(lg) \in Nat
  BY <1>1, <1>2, <1>3 DEF SoldBy
<1>8. Bounded(st, lg, <<>>, free) => Bounded(sr, lr, <<>>, free - n)
  BY <1>1, <1>5, <1>7, TradedNone DEF Bounded
<1>9. Funded(st, lg, <<>>, free) => Funded(sr, lr, <<>>, free - n)
  BY <1>1, <1>2, <1>3, <1>5 DEF Funded, Resting, Open
<1> QED
  BY <1>2, <1>3, <1>6, <1>8, <1>9 DEF LegRow, Resting

(* An order that was placed is matched. *)
Selling(s, st, lg, pl, i, n, pr, sr, free) ==
  /\ Row(st) /\ LegRow(lg) /\ pl \in Seq(Orders)
  /\ i \in DOMAIN pl /\ Resting(pl[i])
  /\ n \in 1 .. Amount /\ n <= pl[i].amount - pl[i].filled
  /\ pr = [pl EXCEPT ![i] = Fill(pl[i], n)]
  /\ sr = [st EXCEPT !.filled = @ + n]
  /\ free \in Int
  /\ Rows(s, st, lg, pl)

LEMMA OrderSells ==
  ASSUME NEW s \in Stops, NEW st, NEW lg, NEW pl, NEW i, NEW n, NEW pr, NEW sr, NEW free,
         Selling(s, st, lg, pl, i, n, pr, sr, free)
  PROVE  /\ st # None /\ Row(sr) /\ sr # None /\ sr.canceled = st.canceled
         /\ pr \in Seq(Orders) /\ Len(pr) = Len(pl)
         /\ Rows(s, sr, lg, pr)
         /\ Bounded(st, lg, pl, free) => Bounded(sr, lg, pr, free - n)
         /\ Funded(st, lg, pl, free) => Funded(sr, lg, pr, free - n)
<1>0. /\ Row(st) /\ LegRow(lg) /\ pl \in Seq(Orders)
      /\ i \in DOMAIN pl /\ Resting(pl[i])
      /\ n \in 1 .. Amount /\ n <= pl[i].amount - pl[i].filled
      /\ pr = [pl EXCEPT ![i] = Fill(pl[i], n)]
      /\ sr = [st EXCEPT !.filled = @ + n]
      /\ free \in Int
      /\ Rows(s, st, lg, pl)
  BY DEF Selling, Resting
<1> USE <1>0
<1> DEFINE o == Fill(pl[i], n)
<1>1. /\ pl[i] \in Orders /\ pl[i].filled \in 0 .. Amount /\ pl[i].amount \in 0 .. Amount
      /\ Amount \in Nat /\ n \in Nat /\ pl # <<>>
  BY OrderFields, OrderOf, StopLossAssumption
<1>2. /\ o \in Orders /\ o.filled = pl[i].filled + n /\ o.amount = pl[i].amount
      /\ o.filled <= o.amount
  BY <1>1, FillFields
<1> HIDE DEF o
<1>3. /\ pr \in Seq(Orders) /\ Len(pr) = Len(pl) /\ DOMAIN pr = DOMAIN pl /\ Len(pl) \in Nat
      /\ pr[i] = o /\ \A j \in DOMAIN pl \ {i} : pr[j] = pl[j]
      /\ pr = [pl EXCEPT ![i] = o] /\ DOMAIN pl = 1 .. Len(pl) /\ pr # <<>>
  BY <1>1, <1>2, TradedExcept, OrderOf, EmptySeq DEF o
<1>4. Traded(pr) = Traded(pl) + n /\ Traded(pl) \in Nat
  <2>1. Traded([pl EXCEPT ![i] = o]) = Traded(pl) - pl[i].filled + o.filled
    BY <1>2, TradedExcept
  <2>2. Traded(pr) = Traded(pl) - pl[i].filled + o.filled
    BY <1>3, <2>1
  <2>3. Traded(pl) \in Nat
    BY TradedNat
  <2> QED
    BY <1>1, <1>2, <2>2, <2>3
<1>5. st # None /\ st \in StopRows
  BY <1>1 DEF Rows, Row
<1>6. /\ sr \in StopRows /\ sr.filled = st.filled + n
      /\ sr.priced = st.priced /\ sr.canceled = st.canceled /\ st.filled \in Nat
  <2>1. st.filled \in Nat /\ st.filled + n \in Nat
    BY <1>1, <1>5 DEF StopRows
  <2> QED
    BY <1>5, <2>1, FilledRow
<1>7. sr # None
  BY <1>6, NoneAssumption
<1>8. st.priced
  BY <1>5 DEF Rows
<1>9. Rows(s, sr, lg, pr)
  <2>1. Len(pr) = 1 => sr.filled = pr[1].filled
    <3> SUFFICES ASSUME Len(pr) = 1 PROVE sr.filled = pr[1].filled
      OBVIOUS
    <3>1. i = 1 /\ st.filled = pl[1].filled
      BY <1>3, <1>5 DEF Rows
    <3> QED
      BY <1>2, <1>3, <1>6, <3>1
  <2>2. \A j \in DOMAIN pr : pr[j].filled <= pr[j].amount
    BY <1>2, <1>3 DEF Rows
  <2> QED
    BY <1>1, <1>3, <1>5, <1>6, <1>7, <1>8, <2>1, <2>2 DEF Rows
<1>10. SoldBy(lg) \in Nat
  BY OrderFields DEF SoldBy, LegRow
<1>11. Bounded(st, lg, pl, free) => Bounded(sr, lg, pr, free - n)
  BY <1>1, <1>3, <1>4, <1>6, <1>8, <1>10 DEF Bounded
<1>12. Funded(st, lg, pl, free) => Funded(sr, lg, pr, free - n)
  <2> SUFFICES ASSUME Funded(st, lg, pl, free), Len(pr) <= 1
               PROVE  /\ Resting(lg) => free - n >= Amount - lg.filled
                      /\ \A j \in DOMAIN pr : Resting(pr[j]) => free - n >= pr[j].amount - pr[j].filled
    BY <1>3 DEF Funded
  <2>1. ~ Resting(lg)
    BY <1>1 DEF Rows
  <2>2. DOMAIN pr = {i} /\ free >= pl[i].amount - pl[i].filled
    BY <1>3 DEF Funded
  <2> QED
    BY <1>1, <1>2, <1>3, <2>1, <2>2
<1> QED
  BY <1>3, <1>5, <1>6, <1>7, <1>9, <1>11, <1>12 DEF Row

(* The stop-loss places an order, by a copy that says filled.  What is due    *)
(* becomes all there is for a market order.                                   *)
Placing(s, st, lg, pl, filled, n, status, pr, sr, free, left) ==
  /\ st \in StopRows /\ LegRow(lg) /\ pl \in Seq(Orders)
  /\ filled \in 0 .. (Amount - 1) /\ (pl = <<>> => filled = 0)
  /\ ~ Resting(lg) /\ (lg # None => lg.filled = 0)
  /\ n \in 0 .. (Amount - filled) /\ status \in {"new", "filled", "canceled"}
  /\ status = "new" => st.priced /\ n # Amount - filled
  /\ pr = Append(pl, [status |-> status, filled |-> n, amount |-> Amount - filled])
  /\ sr = [st EXCEPT !.filled = @ + n]
  /\ free \in Int /\ left \in Int
  /\ IF st.priced THEN left = free - n ELSE left <= 0
  /\ Rows(s, st, lg, pl)

LEMMA OrderPlaced ==
  ASSUME NEW s \in Stops, NEW st, NEW lg, NEW pl, NEW filled, NEW n, NEW status,
         NEW pr, NEW sr, NEW free, NEW left,
         Placing(s, st, lg, pl, filled, n, status, pr, sr, free, left)
  PROVE  /\ sr \in StopRows /\ sr # None /\ sr.canceled = st.canceled
         /\ pr \in Seq(Orders) /\ Len(pr) = Len(pl) + 1
         /\ Rows(s, sr, lg, pr)
         /\ Bounded(st, lg, pl, free) => Bounded(sr, lg, pr, left)
         /\ (pl = <<>> => free = Amount) => Funded(sr, lg, pr, left)
<1>0. /\ st \in StopRows /\ LegRow(lg) /\ pl \in Seq(Orders)
      /\ filled \in 0 .. (Amount - 1) /\ (pl = <<>> => filled = 0)
      /\ ~ Resting(lg) /\ (lg # None => lg.filled = 0)
      /\ n \in 0 .. (Amount - filled) /\ status \in {"new", "filled", "canceled"}
      /\ status = "new" => st.priced /\ n # Amount - filled
      /\ pr = Append(pl, [status |-> status, filled |-> n, amount |-> Amount - filled])
      /\ sr = [st EXCEPT !.filled = @ + n]
      /\ free \in Int /\ left \in Int
      /\ IF st.priced THEN left = free - n ELSE left <= 0
      /\ Rows(s, st, lg, pl)
  BY DEF Placing, Resting
<1> USE <1>0
<1> DEFINE o == [status |-> status, filled |-> n, amount |-> Amount - filled]
<1>1. Amount \in Nat \ {0} /\ n \in 0 .. Amount /\ Amount - filled \in 0 .. Amount
  BY StopLossAssumption
<1>2. o \in Orders /\ o.filled = n /\ o.amount = Amount - filled /\ o.filled <= o.amount /\ o.status = status
  BY <1>1 DEF Orders, Amounts
<1> HIDE DEF o
<1>3. /\ pr \in Seq(Orders) /\ Len(pr) = Len(pl) + 1 /\ Len(pl) \in Nat
      /\ DOMAIN pr = 1 .. (Len(pl) + 1) /\ DOMAIN pl = 1 .. Len(pl)
      /\ pr[Len(pl) + 1] = o /\ \A j \in DOMAIN pl : pr[j] = pl[j]
      /\ (pl = <<>> <=> Len(pl) = 0) /\ pr # <<>>
  BY <1>2, TradedAppend, OrderOf, EmptySeq DEF o
<1>4. Traded(pr) = Traded(pl) + n /\ Traded(pl) \in Nat
  <2>1. Traded(Append(pl, o)) = Traded(pl) + o.filled
    BY <1>2, TradedAppend
  <2> QED
    BY <1>2, <2>1, TradedNat DEF o
<1>5. /\ sr \in StopRows /\ sr.filled = st.filled + n /\ sr # None /\ st # None
      /\ sr.priced = st.priced /\ sr.canceled = st.canceled /\ st.filled \in Nat
      /\ st.priced \in BOOLEAN
  <2>1. st.filled \in Nat /\ st.filled + n \in Nat
    BY <1>1 DEF StopRows
  <2> QED
    BY <2>1, FilledRow
<1>6. SoldBy(lg) = 0
  BY DEF SoldBy
<1>7. Rows(s, sr, lg, pr)
  <2>1. Len(pr) = 1 => sr.filled = pr[1].filled
    BY <1>1, <1>2, <1>3, <1>5 DEF Rows
  <2>2. \A j \in DOMAIN pr : pr[j].filled <= pr[j].amount
    BY <1>2, <1>3 DEF Rows
  <2>3. ~ st.priced => ~ Resting(o)
    BY <1>2 DEF Resting
  <2>4. ~ sr.priced => \A j \in DOMAIN pr : ~ Resting(pr[j])
    BY <1>3, <1>5, <2>3 DEF Rows, Resting
  <2>5. IF s \in Pairs THEN lg # None /\ sr.priced ELSE lg = None
    BY <1>5 DEF Rows
  <2>6. lg # None => lg.amount = Amount /\ lg.filled <= lg.amount /\ ~ (lg.filled > 0)
    BY <1>1 DEF Rows
  <2> QED
    BY <1>3, <1>5, <2>1, <2>2, <2>4, <2>5, <2>6 DEF Rows, Resting
<1>8. Bounded(st, lg, pl, free) => Bounded(sr, lg, pr, left)
  <2>1. CASE ~ st.priced
    <3>1. Len(pr) <= 1 => pl = <<>> /\ Traded(pr) = n
      BY <1>1, <1>3, <1>4, TradedNone
    <3> QED
      BY <1>1, <1>3, <1>5, <1>6, <2>1, <3>1 DEF Bounded
  <2>2. CASE st.priced
    BY <1>1, <1>3, <1>4, <1>5, <1>6, <2>2 DEF Bounded
  <2> QED
    BY <2>1, <2>2
<1>9. (pl = <<>> => free = Amount) => Funded(sr, lg, pr, left)
  <2> SUFFICES ASSUME pl = <<>> => free = Amount, Len(pr) <= 1
               PROVE  \A j \in DOMAIN pr : Resting(pr[j]) => left >= pr[j].amount - pr[j].filled
    BY <1>3 DEF Funded, Resting
  <2>1. DOMAIN pr = {1} /\ pr[1] = o /\ pl = <<>> /\ free = Amount /\ filled = 0
    BY <1>3
  <2> QED
    BY <1>1, <1>2, <1>5, <2>1 DEF Resting
<1> QED
  BY <1>3, <1>5, <1>7, <1>8, <1>9

(* filled_amount is written from the copy, and what its order has filled. *)
LEMMA CopySaved ==
  ASSUME NEW s \in Stops, NEW st \in StopRows, NEW lg, LegRow(lg), NEW pl \in Seq(Orders),
         NEW i \in DOMAIN pl, NEW filled \in 0 .. (Amount - 1), i = 1 => filled = 0,
         NEW sr, sr = [st EXCEPT !.filled = filled + pl[i].filled],
         NEW free \in Int, Rows(s, st, lg, pl)
  PROVE  /\ sr \in StopRows /\ sr # None /\ sr.canceled = st.canceled
         /\ Rows(s, sr, lg, pl)
         /\ Bounded(st, lg, pl, free) => Bounded(sr, lg, pl, free)
         /\ Funded(st, lg, pl, free) => Funded(sr, lg, pl, free)
<1>1. pl[i] \in Orders /\ pl[i].filled \in Nat /\ filled + pl[i].filled \in Nat
  BY OrderOf, OrderFields, StopLossAssumption
<1>2. /\ sr \in StopRows /\ sr.filled = filled + pl[i].filled /\ sr # None /\ st # None
      /\ sr.priced = st.priced /\ sr.canceled = st.canceled
  BY <1>1, FilledRow
<1>3. pl # <<>> /\ DOMAIN pl = 1 .. Len(pl) /\ Len(pl) \in Nat
  BY OrderOf
<1>4. Len(pl) = 1 => sr.filled = pl[1].filled
  <2> SUFFICES ASSUME Len(pl) = 1 PROVE sr.filled = pl[1].filled
    OBVIOUS
  <2>1. i = 1
    BY <1>3
  <2> QED
    BY <1>1, <1>2, <2>1
<1>5. Rows(s, sr, lg, pl)
  BY <1>2, <1>3, <1>4 DEF Rows, Resting
<1> QED
  BY <1>2, <1>3, <1>5 DEF Bounded, Funded, Resting

-----------------------------------------------------------------------------
(* The steps of the transaction.                                              *)

(* A step leaves the copies in the lists right about a stop-loss. *)
Grows(u) ==
  stop[u] # None =>
    /\ stop'[u] # None
    /\ Resting(leg'[u]) => Resting(leg[u])
    /\ leg'[u] # None => leg[u] # None /\ leg'[u].filled = leg[u].filled
    /\ placed'[u] = <<>> =>
         /\ placed[u] = <<>>
         /\ u \in raced' \/ ~ AtWork(u) \/ (lock'[u] = lock[u] /\ due'[u] = due[u])
    /\ DOMAIN placed[u] \subseteq DOMAIN placed'[u]

LEMMA FrameStays ==
  ASSUME TypeOK, TypeOK', FramesOk, raced \subseteq raced', \A u \in Stops : Grows(u),
         NEW i \in DOMAIN frames, i \in DOMAIN frames',
         frames'[i].rest \subseteq frames[i].rest, frames'[i].legs \subseteq frames[i].legs,
         \A u \in frames[i].legs : u \in frames'[i].legs \/ ~ Resting(leg'[u]),
         \/ frames'[i].at \in {None, frames[i].at}
         \/ /\ stop'[frames'[i].at.on] # None
            /\ frames'[i].at.order \in DOMAIN placed'[frames'[i].at.on]
            /\ frames'[i].at.order = 1 => frames'[i].at.filled = 0,
         \A u \in frames'[i].late : u \in frames[i].late \/ stop'[u] # None
  PROVE  FrameOk(i)'
<1>1. frames[i] \in Frames /\ frames'[i] \in Frames
  BY LenProperties DEF TypeOK
<1>2. ASSUME NEW copy \in frames'[i].rest
      PROVE  LET u == copy.on IN
             /\ stop'[u] # None
             /\ u \in frames'[i].legs \/ ~ Resting(leg'[u])
             /\ leg'[u] # None => leg'[u].filled = 0
             /\ placed'[u] = <<>> =>
                  /\ copy.filled = 0
                  /\ u \notin raced' => lock'[u] - due'[u] = Amount
  <2>1. PICK u \in Stops : u = copy.on
    BY <1>1 DEF Frames, Copies
  <2>2. copy \in frames[i].rest /\ AtWork(u)
    BY <2>1 DEF AtWork
  <2>3. /\ stop[u] # None
        /\ u \in frames[i].legs \/ ~ Resting(leg[u])
        /\ leg[u] # None => leg[u].filled = 0
        /\ placed[u] = <<>> =>
             /\ copy.filled = 0
             /\ u \notin raced => lock[u] - due[u] = Amount
    BY <2>1, <2>2 DEF FramesOk, FrameOk, CopyOk
  <2> QED
    BY <2>1, <2>2, <2>3 DEF Grows, Resting
<1>3. ASSUME frames'[i].at # None
      PROVE  /\ stop'[frames'[i].at.on] # None
             /\ frames'[i].at.order \in DOMAIN placed'[frames'[i].at.on]
             /\ frames'[i].at.order = 1 => frames'[i].at.filled = 0
  <2> SUFFICES ASSUME frames'[i].at = frames[i].at
               PROVE  /\ stop'[frames'[i].at.on] # None
                      /\ frames'[i].at.order \in DOMAIN placed'[frames'[i].at.on]
                      /\ frames'[i].at.order = 1 => frames'[i].at.filled = 0
    BY <1>3
  <2>1. PICK at \in Working : at = frames'[i].at /\ at = frames[i].at
    BY <1>1, <1>3 DEF Frames
  <2>2. stop[at.on] # None /\ at.order \in DOMAIN placed[at.on] /\ (at.order = 1 => at.filled = 0)
    BY <1>3, <2>1 DEF FramesOk, FrameOk, AtOk
  <2>3. at.on \in Stops
    BY <2>1 DEF Working
  <2> QED
    BY <2>1, <2>2, <2>3 DEF Grows
<1>4. \A u \in frames'[i].legs \cup frames'[i].late : stop'[u] # None
  <2>1. Pairs \subseteq Stops
    BY StopLossAssumption
  <2> QED
    BY <1>1, <2>1 DEF FramesOk, FrameOk, Grows, Frames
<1> QED
  BY <1>2, <1>3, <1>4 DEF FrameOk, CopyOk, AtOk

(* What a request knows of the rows others see stays true. *)
LEMMA RequestStays ==
  ASSUME NEW c \in Cancelers, RequestOk(c), canceler'[c] = canceler[c],
         NEW s \in Stops, s = canceler[c].on,
         canceler[c].marked => s \notin wrote'.stops,
         canceler[c].closed => s \notin wrote'.legs,
         kept.stop[s] # None =>
           kept'.stop[s] # None /\ (kept.stop[s].canceled => kept'.stop[s].canceled),
         kept.leg[s] # None /\ kept.stop[s] = None => kept'.stop[s] = None,
         kept.leg[s] # None => kept'.leg[s] # None,
         kept.stop[s] # None /\ Resting(kept'.leg[s]) => Resting(kept.leg[s]),
         canceler[c].marked /\ kept.placed[s] = <<>> => kept'.placed[s] = <<>>,
         canceler[c].marked => DOMAIN kept.placed[s] \subseteq DOMAIN kept'.placed[s]
  PROVE  RequestOk(c)'
<1>1. PICK r : r = canceler[c] /\ r = canceler'[c] /\ r.on = s
  OBVIOUS
<1>2. /\ r.marked => s \notin wrote.stops /\ kept.stop[s] # None
      /\ r.closed => s \notin wrote.legs /\ kept.leg[s] # None
      /\ r.how # "leg" => kept.stop[s] # None
      /\ r.how = "leg" => /\ kept.leg[s] # None
                          /\ r.stage \in {"asked", "order"}
                          /\ r.stage = "order" /\ ~ r.marked => kept.stop[s] = None \/ kept.stop[s].canceled
      /\ r.how = "delete" => ~ r.marked /\ r.stage \in {"asked", "leg", "write"}
      /\ r.how = "stop" =>
           /\ r.stage # "asked" => r.marked
           /\ r.stage \in {"plan", "end", "release", "order"} => r.closed \/ ~ Resting(kept.leg[s])
           /\ r.stage = "release" => kept.placed[s] = <<>>
           /\ r.stage = "order" => r.order \in DOMAIN kept.placed[s]
      /\ r.stage = "write" => kept.leg[s] # None
  BY <1>1 DEF RequestOk
<1>3. /\ r.marked => s \notin wrote'.stops /\ kept'.stop[s] # None
      /\ r.closed => s \notin wrote'.legs /\ kept'.leg[s] # None
      /\ r.how # "leg" => kept'.stop[s] # None
      /\ r.how = "leg" => /\ kept'.leg[s] # None
                          /\ r.stage \in {"asked", "order"}
                          /\ r.stage = "order" /\ ~ r.marked => kept'.stop[s] = None \/ kept'.stop[s].canceled
      /\ r.how = "delete" => ~ r.marked /\ r.stage \in {"asked", "leg", "write"}
      /\ r.how = "stop" =>
           /\ r.stage # "asked" => r.marked
           /\ r.stage \in {"plan", "end", "release", "order"} => r.closed \/ ~ Resting(kept'.leg[s])
           /\ r.stage = "release" => kept'.placed[s] = <<>>
           /\ r.stage = "order" => r.order \in DOMAIN kept'.placed[s]
      /\ r.stage = "write" => kept'.leg[s] # None
  BY <1>1, <1>2 DEF Resting
<1> QED
  BY <1>1, <1>3 DEF RequestOk

(* The transaction writes rows no request has marked. *)
Writes ==
  /\ wrote.stops \subseteq wrote'.stops /\ wrote.legs \subseteq wrote'.legs
  /\ \A u \in wrote'.stops \ wrote.stops : StopFree(u) /\ stop[u] # None
  /\ \A u \in wrote'.legs \ wrote.legs : LegFree(u) /\ leg[u] # None
  /\ \A u \in Stops \ wrote'.stops : stop'[u] = stop[u]
  /\ \A u \in Stops \ wrote'.legs : leg'[u] = leg[u]

(* What a step does to the rows of u. *)
Moves(u) ==
  /\ stop'[u] = None <=> stop[u] = None
  /\ stop[u] # None /\ stop[u].canceled => stop'[u].canceled
  /\ leg[u] # None => leg'[u] # None
  /\ Resting(leg'[u]) => Resting(leg[u])
  /\ placed'[u] = placed[u] \/ u \in wrote'.stops \/ AtOrder(u)'
  /\ AtOrder(u) => AtOrder(u)' \/ u \in wrote'.stops
  /\ stop[u] = None /\ leg[u] = None => due'[u] = due[u]

LEMMA WorkKeeps ==
  ASSUME IInv, TypeOK', UNCHANGED <<kept, lock, fresh, others>>,
         step # "idle", step' \notin {"idle", "match"}, maker' = None,
         Writes, \A u \in Stops : Moves(u),
         \A u \in Stops : Rows(u, stop'[u], leg'[u], placed'[u]),
         \A u \in Stops :
           /\ Bounded(stop'[u], leg'[u], placed'[u], LockOf(u) - due'[u])
           /\ u \notin raced => Funded(stop'[u], leg'[u], placed'[u], LockOf(u) - due'[u]),
         fresh # None => leg'[fresh] = leg[fresh] /\ due'[fresh] = due[fresh],
         \A u \in late' : u \in late \/ stop[u] # None,
         FramesOk', StepOk'
  PROVE  IInv'
<1>1. ASSUME NEW u \in Stops PROVE InnerOk(u)'
  <2>1. LockOf(u)' = LockOf(u) /\ raced' = raced
    BY DEF LockOf, others
  <2> QED
    BY <2>1 DEF InnerOk
<1>2. ASSUME NEW u \in Stops PROVE KeptOk(u)'
  <2>1. KeptOk(u)
    BY DEF IInv
  <2> QED
    BY <2>1 DEF KeptOk, others
<1>3. ASSUME NEW u \in Stops PROVE TiedOk(u)'
  <2>1. TiedOk(u)
    BY DEF IInv
  <2> QED
    BY <2>1 DEF TiedOk, Writes, Moves, Resting
<1>4. IdleOk' /\ MakerOk'
  BY DEF IdleOk, MakerOk
<1>5. FreshOk'
  <2> SUFFICES ASSUME fresh # None PROVE FreshOk'
    BY DEF FreshOk
  <2>1. fresh \in Stops
    BY StopLossAssumption DEF IInv, TypeOK
  <2> QED
    BY <2>1 DEF FreshOk, Moves, IInv
<1>6. ASSUME NEW c \in Cancelers, canceler'[c] # None PROVE RequestOk(c)'
  <2>1. canceler'[c] = canceler[c] /\ RequestOk(c)
    BY <1>6 DEF IInv, others
  <2>2. canceler[c] \in Requests
    BY <1>6, <2>1 DEF IInv, TypeOK
  <2>3. PICK s \in Stops : s = canceler[c].on
    BY <2>2 DEF Requests
  <2>4. canceler[c].marked => s \notin wrote.stops
    BY <2>1, <2>3 DEF RequestOk
  <2>5. canceler[c].closed => s \notin wrote.legs
    BY <2>1, <2>3 DEF RequestOk
  <2>6. canceler[c].marked => s \notin wrote'.stops
    BY <1>6, <2>1, <2>3, <2>4 DEF Writes, StopFree
  <2>7. canceler[c].closed => s \notin wrote'.legs
    BY <1>6, <2>1, <2>3, <2>5 DEF Writes, LegFree
  <2> QED
    BY <2>1, <2>3, <2>6, <2>7, RequestStays
<1>7. LaterOk'
  <2>1. \A u \in late' \cup closing' : u \in Stops
    BY DEF TypeOK
  <2> QED
    BY <2>1 DEF IInv, LaterOk, TiedOk, others
<1> QED
  BY <1>1, <1>2, <1>3, <1>4, <1>5, <1>6, <1>7 DEF IInv

LEMMA TopOk ==
  ASSUME IInv, frames # <<>>
  PROVE  /\ Top \in Frames /\ Len(frames) \in DOMAIN frames /\ Len(frames) \in Nat \ {0}
         /\ DOMAIN frames = 1 .. Len(frames)
         /\ \A copy \in Top.rest : copy \in Copies /\ CopyOk(copy, Top.legs)
         /\ \A u \in Top.legs \cup Top.late : u \in Stops /\ stop[u] # None
         /\ Top.at # None => Top.at \in Working /\ AtOk(Top.at)
<1>1. Top \in Frames /\ Len(frames) \in DOMAIN frames /\ Len(frames) \in Nat \ {0}
      /\ DOMAIN frames = 1 .. Len(frames)
  BY LenProperties, EmptySeq DEF IInv, TypeOK, Top
<1>2. FrameOk(Len(frames))
  BY <1>1 DEF IInv, FramesOk
<1> QED
  BY <1>1, <1>2, StopLossAssumption DEF FrameOk, Top, Frames

(* When the rows stay as they are. *)
LEMMA RowsStay ==
  ASSUME IInv, UNCHANGED <<book, lock, fresh, due, wrote, others>>
  PROVE  /\ Writes
         /\ \A u \in Stops : Rows(u, stop'[u], leg'[u], placed'[u])
         /\ \A u \in Stops :
              /\ Bounded(stop'[u], leg'[u], placed'[u], LockOf(u) - due'[u])
              /\ u \notin raced => Funded(stop'[u], leg'[u], placed'[u], LockOf(u) - due'[u])
         /\ fresh # None => leg'[fresh] = leg[fresh] /\ due'[fresh] = due[fresh]
         /\ \A u \in Stops : Grows(u)
         /\ raced \subseteq raced'
<1>1. \A u \in Stops : InnerOk(u)
  BY DEF IInv
<1>2. UNCHANGED <<stop, leg, placed, lock, fresh, due, wrote, raced>>
  BY DEF book, others
<1> QED
  BY <1>1, <1>2 DEF InnerOk, Writes, Grows, Resting

LEMMA ListKeeps ==
  ASSUME IInv, List
  PROVE  IInv'
<1>1. UNCHANGED <<book, lock, maker, fresh, late, due, wrote, kept, others>> /\ step = "list"
  BY DEF List
<1>2. UNCHANGED <<stop, leg, placed, lock, maker, fresh, late, due, wrote, kept, canceler, closing, raced>>
  BY <1>1 DEF book, others
<1>3. frames \in Seq(Frames) /\ DOMAIN frames = 1 .. Len(frames) /\ Len(frames) \in Nat
  BY LenProperties DEF IInv, TypeOK
<1>4. maker = None
  BY <1>1 DEF IInv, MakerOk
<1>5. PICK on \in SUBSET ToTrigger :
        IF on = {}
        THEN step' = (IF frames = <<>> THEN "commit" ELSE "save") /\ UNCHANGED frames
        ELSE /\ step' = "loop"
             /\ frames' = Append(frames,
                 [legs |-> on \cap Pairs, rest |-> {[on |-> s, filled |-> stop[s].filled] : s \in on},
                  at |-> None, late |-> {}])
  BY DEF List
<1>6. CASE on = {}
  <2>1. TypeOK'
    BY <1>2, <1>5, <1>6 DEF IInv, TypeOK
  <2>2. \A u \in Stops : Moves(u)
    BY <1>2, <1>5, <1>6 DEF IInv, TiedOk, Moves, AtOrder
  <2>3. FramesOk'
    BY <1>2, <1>5, <1>6 DEF IInv, FramesOk, FrameOk, CopyOk, AtOk
  <2>4. StepOk'
    BY <1>1, <1>5, <1>6 DEF IInv, StepOk, Top
  <2> QED
    BY <1>1, <1>2, <1>4, <1>5, <1>6, <2>1, <2>2, <2>3, <2>4, RowsStay, WorkKeeps
<1>7. CASE on # {}
  <2> DEFINE f == [legs |-> on \cap Pairs, rest |-> {[on |-> s, filled |-> stop[s].filled] : s \in on},
                   at |-> None, late |-> {}]
  <2>1. \A s \in on : /\ s \in Stops /\ Open(stop[s])
                      /\ stop[s] # None /\ stop[s] \in StopRows
                      /\ stop[s].filled \in 0 .. (Amount - 1) /\ ~ stop[s].canceled
    BY StopLossAssumption DEF ToTrigger, Open, IInv, TypeOK, StopColumn, StopRows
  <2>2. f \in Frames
    <3>1. \A s \in on : [on |-> s, filled |-> stop[s].filled] \in Copies
      BY <2>1, StopLossAssumption DEF Copies, Amounts
    <3>2. on \cap Pairs \in SUBSET Pairs
      OBVIOUS
    <3>3. {[on |-> s, filled |-> stop[s].filled] : s \in on} \in SUBSET Copies
      BY <3>1
    <3> QED
      BY <3>2, <3>3 DEF Frames
  <2>3. step' = "loop" /\ frames' = Append(frames, f)
    BY <1>5, <1>7
  <2> HIDE DEF f
  <2>4. /\ frames' \in Seq(Frames) /\ Len(frames') = Len(frames) + 1
        /\ DOMAIN frames' = 1 .. Len(frames') /\ frames' # <<>>
        /\ \A i \in DOMAIN frames' : frames'[i] = IF i = Len(frames') THEN f ELSE frames[i]
    BY <1>3, <2>2, <2>3, TopPushed
  <2>5. TypeOK'
    BY <1>2, <2>3, <2>4 DEF IInv, TypeOK
  <2>6. \A i \in DOMAIN frames : i \in DOMAIN frames' /\ frames'[i] = frames[i]
    BY <1>3, <2>4
  <2>7. ASSUME NEW u \in Stops PROVE Moves(u)
    <3>1. AtOrder(u) => AtOrder(u)'
      BY <2>6 DEF AtOrder
    <3>2. TiedOk(u)
      BY DEF IInv
    <3> QED
      BY <1>2, <3>1, <3>2 DEF Moves, TiedOk
  <2>8. ASSUME NEW i \in DOMAIN frames' PROVE FrameOk(i)'
    <3>1. CASE i \in DOMAIN frames
      <4>1. frames'[i] = frames[i]
        BY <2>6, <3>1
      <4>2. TypeOK /\ FramesOk
        BY DEF IInv
      <4>3. \A u \in frames[i].legs : u \in frames'[i].legs \/ ~ Resting(leg'[u])
        BY <4>1
      <4> QED
        BY <1>1, <2>5, <3>1, <4>1, <4>2, <4>3, RowsStay, FrameStays
    <3>2. CASE i \notin DOMAIN frames
      <4>1. frames'[i] = f
        BY <1>3, <2>4, <3>2
      <4>2. ASSUME NEW s \in on
            PROVE  /\ stop[s] # None
                   /\ s \in f.legs \/ ~ Resting(leg[s])
                   /\ leg[s] # None => leg[s].filled = 0
                   /\ placed[s] = <<>> =>
                        /\ stop[s].filled = 0
                        /\ s \notin raced => lock[s] - due[s] = Amount
        <5>1. s \in Stops /\ InnerOk(s) /\ s # fresh
          BY <2>1, <4>2, NoneAssumption DEF IInv, FreshOk
        <5>2. LockOf(s) = lock[s]
          BY <5>1 DEF LockOf
        <5>3. s \in f.legs \/ ~ Resting(leg[s])
          BY <5>1 DEF InnerOk, Rows, f, Resting
        <5>4. leg[s] # None => leg[s].filled = 0
          <6>1. leg[s] # None => leg[s].filled \in Nat
            BY <5>1, OrderFields DEF IInv, TypeOK, LegColumn
          <6> QED
            BY <2>1, <4>2, <5>1, <6>1 DEF InnerOk, Rows, Resting
        <5>5. placed[s] = <<>> => stop[s].filled = 0
          BY <2>1, <4>2, <5>1 DEF InnerOk, Rows
        <5>6. placed[s] = <<>> /\ s \notin raced => lock[s] - due[s] = Amount
          BY <2>1, <4>2, <5>1, <5>2, EmptySeq DEF InnerOk, Funded
        <5> QED
          BY <2>1, <5>3, <5>4, <5>5, <5>6
      <4>3. f.rest = {[on |-> s, filled |-> stop[s].filled] : s \in on} /\ f.late = {} /\ f.at = None
              /\ f.legs \subseteq on
        BY DEF f
      <4>4. \A copy \in f.rest :
              /\ stop[copy.on] # None
              /\ copy.on \in f.legs \/ ~ Resting(leg[copy.on])
              /\ leg[copy.on] # None => leg[copy.on].filled = 0
              /\ placed[copy.on] = <<>> =>
                   /\ copy.filled = 0
                   /\ copy.on \notin raced => lock[copy.on] - due[copy.on] = Amount
        BY <4>2, <4>3
      <4> QED
        BY <1>2, <2>1, <4>1, <4>3, <4>4 DEF FrameOk, CopyOk, AtOk
    <3> QED
      BY <3>1, <3>2
  <2>9. StepOk'
    <3>1. frames # <<>> => frames[Len(frames)].at # None
      BY <1>1 DEF IInv, StepOk, Top
    <3>2. \A i \in DOMAIN frames : frames[i].at # None
      BY <1>3, <3>1 DEF IInv, StepOk
    <3>3. Top' = f /\ f.at = None
      <4>1. Len(frames') \in DOMAIN frames'
        BY <1>3, <2>4
      <4> QED
        BY <2>4, <4>1 DEF Top, f
    <3> QED
      BY <1>3, <2>3, <2>4, <3>2, <3>3 DEF StepOk
  <2> QED
    BY <1>1, <1>4, <2>3, <2>5, <2>7, <2>8, <2>9, RowsStay, WorkKeeps DEF FramesOk
<1> QED
  BY <1>6, <1>7

(* The rows of the others, when a step is about s. *)
OnlyAbout(s) ==
  \A u \in Stops \ {s} :
    /\ stop'[u] = stop[u] /\ leg'[u] = leg[u] /\ placed'[u] = placed[u] /\ due'[u] = due[u]

LEMMA RowsOfOthers ==
  ASSUME IInv, NEW s \in Stops, OnlyAbout(s), UNCHANGED <<lock, fresh, raced>>,
         NEW u \in Stops \ {s}
  PROVE  /\ Rows(u, stop'[u], leg'[u], placed'[u])
         /\ Bounded(stop'[u], leg'[u], placed'[u], LockOf(u) - due'[u])
         /\ u \notin raced => Funded(stop'[u], leg'[u], placed'[u], LockOf(u) - due'[u])
         /\ Grows(u)
         /\ stop'[u] = None <=> stop[u] = None
         /\ stop[u] # None /\ stop[u].canceled => stop'[u].canceled
         /\ leg[u] # None => leg'[u] # None
         /\ Resting(leg'[u]) => Resting(leg[u])
<1>1. InnerOk(u)
  BY DEF IInv
<1>2. stop'[u] = stop[u] /\ leg'[u] = leg[u] /\ placed'[u] = placed[u] /\ due'[u] = due[u]
  BY DEF OnlyAbout
<1> QED
  BY <1>1, <1>2 DEF InnerOk, Grows, Resting

LEMMA InnerFacts ==
  ASSUME IInv, NEW s \in Stops
  PROVE  /\ Row(stop[s]) /\ LegRow(leg[s]) /\ placed[s] \in Seq(Orders)
         /\ LockOf(s) - due[s] \in Int /\ due[s] \in Nat /\ lock[s] \in Nat
         /\ Rows(s, stop[s], leg[s], placed[s])
         /\ Bounded(stop[s], leg[s], placed[s], LockOf(s) - due[s])
         /\ s \notin raced => Funded(stop[s], leg[s], placed[s], LockOf(s) - due[s])
<1>1. Row(stop[s]) /\ LegRow(leg[s]) /\ placed[s] \in Seq(Orders) /\ due[s] \in Nat /\ lock[s] \in Nat
  BY DEF IInv, TypeOK, StopColumn, LegColumn, PlacedColumn, Row, LegRow
<1>2. LockOf(s) - due[s] \in Int
  BY <1>1, StopLossAssumption DEF LockOf
<1>3. InnerOk(s)
  BY DEF IInv
<1> QED
  BY <1>1, <1>2, <1>3 DEF InnerOk

LEMMA WroteMore ==
  ASSUME NEW w \in WroteRows, NEW S \in SUBSET Stops
  PROVE  /\ [w EXCEPT !.legs = @ \cup S] \in WroteRows
         /\ [w EXCEPT !.legs = @ \cup S].stops = w.stops
         /\ [w EXCEPT !.legs = @ \cup S].legs = w.legs \cup S
         /\ [w EXCEPT !.stops = @ \cup S] \in WroteRows
         /\ [w EXCEPT !.stops = @ \cup S].legs = w.legs
         /\ [w EXCEPT !.stops = @ \cup S].stops = w.stops \cup S
         /\ w.stops \in SUBSET Stops /\ w.legs \in SUBSET Stops
<1>1. w.stops \in SUBSET Stops /\ w.legs \in SUBSET Stops
  BY DEF WroteRows
<1>2. w.legs \cup S \in SUBSET Stops /\ w.stops \cup S \in SUBSET Stops
  BY <1>1
<1> QED
  BY <1>1, <1>2 DEF WroteRows

LEMMA CancelLegKeeps ==
  ASSUME IInv, CancelLeg
  PROVE  IInv'
<1>1. PICK s \in Top.legs :
        /\ frames' = WithTop([Top EXCEPT !.legs = @ \ {s}])
        /\ IF Resting(leg[s])
           THEN /\ LegFree(s)
                /\ leg' = [leg EXCEPT ![s].status = "canceled"]
                /\ wrote' = [wrote EXCEPT !.legs = @ \cup {s}]
           ELSE UNCHANGED <<leg, wrote>>
  BY DEF CancelLeg
<1>2. /\ step = "loop" /\ step' = "loop" /\ frames # <<>>
      /\ UNCHANGED <<stop, placed, lock, maker, fresh, late, due, kept, others>>
      /\ UNCHANGED <<canceler, closing, raced>> /\ maker = None
  BY DEF CancelLeg, IInv, StepOk, MakerOk, others
<1> DEFINE f == [Top EXCEPT !.legs = @ \ {s}]
<1>3. Top \in Frames /\ f \in Frames /\ f.legs = Top.legs \ {s} /\ f.rest = Top.rest
      /\ f.at = Top.at /\ f.late = Top.late /\ s \in Stops
  BY <1>2, TopOk, StopLossAssumption DEF Frames
<1> HIDE DEF f
<1>4. /\ frames' \in Seq(Frames) /\ frames \in Seq(Frames)
      /\ DOMAIN frames = 1 .. Len(frames) /\ DOMAIN frames' = DOMAIN frames
      /\ Len(frames) \in Nat \ {0} /\ Len(frames') = Len(frames) /\ frames' # <<>>
      /\ \A i \in DOMAIN frames : frames'[i] = IF i = Len(frames) THEN f ELSE frames[i]
  <2>1. frames \in Seq(Frames) /\ frames' = WithTop(f)
    BY <1>1 DEF IInv, TypeOK, f
  <2> QED
    BY <1>2, <1>3, <2>1, TopChanged
<1>5. CanceledOrder(leg[s], leg'[s]) /\ ~ Resting(leg'[s]) /\ LegRow(leg'[s])
      /\ (Resting(leg[s]) => leg[s] # None) /\ \A u \in Stops \ {s} : leg'[u] = leg[u]
  <2>1. LegRow(leg[s]) /\ leg \in LegColumn
    BY <1>3, InnerFacts DEF IInv, TypeOK
  <2>2. CASE Resting(leg[s])
    <3>1. leg[s] # None /\ leg'[s] = [leg[s] EXCEPT !.status = "canceled"]
          /\ \A u \in Stops \ {s} : leg'[u] = leg[u]
      BY <1>1, <1>3, <2>1, <2>2 DEF Resting, LegColumn
    <3>2. leg[s] \in Orders
      BY <2>1, <3>1 DEF LegRow
    <3>3. leg'[s].status = "canceled"
      BY <3>1, <3>2 DEF Orders
    <3>4. CanceledOrder(leg[s], leg'[s]) /\ LegRow(leg'[s])
      BY <2>1, <3>1, CanceledLeg DEF CanceledOrder
    <3> QED
      BY <3>1, <3>3, <3>4 DEF Resting
  <2>3. CASE ~ Resting(leg[s])
    BY <1>1, <2>1, <2>3 DEF CanceledOrder, Resting
  <2> QED
    BY <2>2, <2>3
<1>6. /\ wrote' \in WroteRows /\ wrote'.stops = wrote.stops
      /\ wrote.legs \subseteq wrote'.legs /\ wrote'.legs \subseteq wrote.legs \cup {s}
      /\ s \notin wrote'.legs => leg' = leg
      /\ s \in wrote'.legs \ wrote.legs => LegFree(s) /\ leg[s] # None
  <2>1. wrote \in WroteRows /\ {s} \in SUBSET Stops
    BY <1>3 DEF IInv, TypeOK
  <2>2. CASE Resting(leg[s])
    <3>1. wrote' = [wrote EXCEPT !.legs = @ \cup {s}] /\ LegFree(s)
      BY <1>1, <2>2
    <3>2. wrote' \in WroteRows /\ wrote'.stops = wrote.stops /\ wrote'.legs = wrote.legs \cup {s}
      BY <2>1, <3>1, WroteMore
    <3> QED
      BY <1>5, <2>2, <3>1, <3>2
  <2>3. CASE ~ Resting(leg[s])
    BY <1>1, <2>1, <2>3
  <2> QED
    BY <2>2, <2>3
<1>7. OnlyAbout(s)
  BY <1>2, <1>5 DEF OnlyAbout
<1>8. TypeOK'
  <2>1. leg' \in LegColumn
    BY <1>1, <1>3, <1>5 DEF IInv, TypeOK, LegColumn, LegRow
  <2> QED
    BY <1>2, <1>4, <1>6, <2>1 DEF IInv, TypeOK
<1>9. /\ Rows(s, stop'[s], leg'[s], placed'[s])
      /\ Bounded(stop'[s], leg'[s], placed'[s], LockOf(s) - due'[s])
      /\ s \notin raced => Funded(stop'[s], leg'[s], placed'[s], LockOf(s) - due'[s])
  <2>1. CanceledStop(stop[s], stop'[s]) /\ CanceledOrders(placed[s], placed'[s])
    BY <1>2, <1>3, InnerFacts DEF CanceledStop, CanceledOrders, CanceledOrder
  <2>2. LockOf(s) - due[s] <= LockOf(s) - due[s]
    BY <1>3, InnerFacts
  <2> QED
    BY <1>2, <1>3, <1>5, <2>1, <2>2, InnerFacts, CancelKeeps
<1>10. leg[s] # None => leg'[s] # None /\ leg'[s].filled = leg[s].filled
  BY <1>3, <1>5, InnerFacts, CanceledLeg
<1>11. leg'[s] # None => leg[s] # None
  BY <1>3, <1>5, InnerFacts, CanceledLeg
<1>12. \A u \in Stops : Grows(u) /\ Moves(u)
  <2>1. TiedOk(s)
    BY <1>3 DEF IInv
  <2>2. ASSUME NEW u \in Stops PROVE AtOrder(u) => AtOrder(u)'
    BY <1>3, <1>4 DEF AtOrder, Top
  <2>3. Grows(s)
    BY <1>2, <1>5, <1>10, <1>11 DEF Grows, Resting
  <2>4. Moves(s)
    <3> QED
      BY <1>2, <1>3, <1>5, <1>10, <1>6, <2>1, <2>2 DEF Moves, TiedOk, Resting
  <2>5. ASSUME NEW u \in Stops \ {s} PROVE Grows(u) /\ Moves(u)
    <3>1. TiedOk(u)
      BY DEF IInv
    <3> QED
      BY <1>2, <1>3, <1>7, <1>6, <2>2, <3>1, RowsOfOthers DEF Moves, TiedOk, OnlyAbout
  <2> QED
    BY <2>3, <2>4, <2>5
<1>13. Writes
  BY <1>2, <1>7, <1>6 DEF Writes, OnlyAbout
<1>14. FramesOk'
  <2> SUFFICES ASSUME NEW i \in DOMAIN frames PROVE FrameOk(i)'
    BY <1>4 DEF FramesOk
  <2>1. frames'[i].rest = frames[i].rest /\ frames'[i].at = frames[i].at /\ frames'[i].late = frames[i].late
        /\ frames'[i].legs \subseteq frames[i].legs /\ raced \subseteq raced'
        /\ \A u \in frames[i].legs : u \in frames'[i].legs \/ u = s
    BY <1>2, <1>3, <1>4 DEF Top
  <2>2. \A u \in frames[i].legs : u \in frames'[i].legs \/ ~ Resting(leg'[u])
    BY <1>5, <2>1
  <2>3. TypeOK /\ FramesOk
    BY DEF IInv
  <2> QED
    BY <1>2, <1>4, <1>8, <1>12, <2>1, <2>2, <2>3, FrameStays
<1>15. StepOk'
  <2>1. Top' = f
    BY <1>4 DEF Top
  <2> QED
    BY <1>2, <1>3, <1>4, <2>1 DEF IInv, StepOk
<1>16. fresh # None => leg'[fresh] = leg[fresh]
  <2>1. fresh # None => stop[fresh] = None /\ fresh \in Stops
    BY StopLossAssumption DEF IInv, TypeOK, FreshOk
  <2>2. stop[s] # None
    BY <1>2, TopOk
  <2> QED
    BY <1>5, <2>1, <2>2
<1>17. \A u \in Stops :
         /\ Rows(u, stop'[u], leg'[u], placed'[u])
         /\ Bounded(stop'[u], leg'[u], placed'[u], LockOf(u) - due'[u])
         /\ u \notin raced => Funded(stop'[u], leg'[u], placed'[u], LockOf(u) - due'[u])
  BY <1>2, <1>3, <1>7, <1>9, RowsOfOthers
<1> QED
  BY <1>2, <1>8, <1>12, <1>13, <1>14, <1>15, <1>16, <1>17, WorkKeeps

LEMMA PlaceNoneKeeps ==
  ASSUME IInv, Place, NEW copy \in Top.rest, PlaceNone(copy)
  PROVE  IInv'
<1>1. /\ step = "loop" /\ step' = "loop" /\ frames # <<>> /\ Top.at = None /\ maker = None
      /\ UNCHANGED <<book, lock, fresh, due, wrote, others>>
      /\ UNCHANGED <<stop, leg, placed, lock, maker, fresh, late, due, wrote, kept, canceler, closing, raced>>
  BY DEF Place, PlaceNone, IInv, StepOk, MakerOk, others, book
<1>2. /\ copy \in Copies /\ copy.on \in Stops /\ CopyOk(copy, Top.legs)
      /\ Top \in Frames /\ Len(frames) \in DOMAIN frames
  BY <1>1, TopOk DEF Copies
<1> DEFINE s == copy.on
           f == [Top EXCEPT !.rest = @ \ {copy},
                   !.late = IF stop[copy.on].market THEN @ \cup {copy.on} ELSE @]
<1>3. stop[s] # None
  BY <1>2 DEF CopyOk
<1>4. /\ f \in Frames /\ f.legs = Top.legs /\ f.rest \subseteq Top.rest
      /\ f.at = Top.at /\ f.late \subseteq Top.late \cup {s}
  BY <1>2 DEF Frames
<1>5. frames \in Seq(Frames) /\ frames' = WithTop(f)
  BY DEF IInv, TypeOK, PlaceNone
<1> HIDE DEF f
<1>6. /\ frames' \in Seq(Frames)
      /\ DOMAIN frames = 1 .. Len(frames) /\ DOMAIN frames' = DOMAIN frames
      /\ Len(frames) \in Nat \ {0} /\ Len(frames') = Len(frames) /\ frames' # <<>>
      /\ \A i \in DOMAIN frames : frames'[i] = IF i = Len(frames) THEN f ELSE frames[i]
  BY <1>1, <1>4, <1>5, TopChanged
<1>7. TypeOK'
  BY <1>1, <1>6 DEF IInv, TypeOK
<1>8. ASSUME NEW u \in Stops PROVE Moves(u)
  <2>1. AtOrder(u) => AtOrder(u)'
    BY <1>4, <1>6 DEF AtOrder, Top
  <2> QED
    BY <1>1, <2>1 DEF Moves
<1>9. FramesOk'
  <2> SUFFICES ASSUME NEW i \in DOMAIN frames PROVE FrameOk(i)'
    BY <1>6 DEF FramesOk
  <2>1. frames'[i].rest \subseteq frames[i].rest /\ frames'[i].at \in {None, frames[i].at}
        /\ frames'[i].legs = frames[i].legs
        /\ \A u \in frames'[i].late : u \in frames[i].late \/ u = s
    BY <1>4, <1>6 DEF Top
  <2>2. \A u \in frames[i].legs : u \in frames'[i].legs \/ ~ Resting(leg'[u])
    BY <2>1
  <2>3. \A u \in frames'[i].late : u \in frames[i].late \/ stop'[u] # None
    BY <1>1, <1>3, <2>1
  <2>4. TypeOK /\ FramesOk /\ frames'[i].legs \subseteq frames[i].legs
    BY <2>1 DEF IInv
  <2> QED
    BY <1>1, <1>6, <1>7, <2>1, <2>2, <2>3, <2>4, RowsStay, FrameStays
<1>10. StepOk'
  <2>1. Top' = f
    BY <1>6 DEF Top
  <2> QED
    BY <1>1, <1>4, <1>6, <2>1 DEF IInv, StepOk
<1> QED
  BY <1>1, <1>7, <1>8, <1>9, <1>10, RowsStay, WorkKeeps

LEMMA PlaceOrderKeeps ==
  ASSUME IInv, Place, NEW copy \in Top.rest, PlaceOrder(copy)
  PROVE  IInv'
<1>1. /\ step = "loop" /\ frames # <<>> /\ Top.at = None /\ maker = None
      /\ UNCHANGED <<leg, lock, maker, fresh, late, kept, others>>
      /\ UNCHANGED <<canceler, closing, raced>>
      /\ Top.legs = {}
  BY DEF Place, IInv, StepOk, MakerOk, others
<1>2. PICK s \in Stops : s = copy.on /\ s \notin Top.legs
  BY <1>1, TopOk DEF Copies
<1>3. /\ copy \in Copies /\ Top \in Frames /\ Len(frames) \in DOMAIN frames
      /\ copy.filled \in 0 .. (Amount - 1)
      /\ stop[s] # None /\ ~ Resting(leg[s]) /\ (leg[s] # None => leg[s].filled = 0)
      /\ placed[s] = <<>> =>
           /\ copy.filled = 0
           /\ s \notin raced => lock[s] - due[s] = Amount
  BY <1>1, <1>2, TopOk, StopLossAssumption DEF CopyOk, Copies, Amounts
<1>4. stop[s] \in StopRows /\ s # fresh /\ LockOf(s) = lock[s]
  BY <1>3, NoneAssumption DEF IInv, TypeOK, StopColumn, FreshOk, LockOf
<1> DEFINE amount == Amount - copy.filled
           status(n) == IF n = amount THEN "filled" ELSE IF stop[s].priced THEN "new" ELSE "canceled"
           at == [on |-> s, filled |-> copy.filled, order |-> Len(placed[s]) + 1]
           f == [Top EXCEPT !.rest = @ \ {copy}, !.at = at]
<1>5. PICK n \in (IF stop[s].priced THEN 0 ELSE 1) .. amount :
        /\ n > 0 => StopFree(s)
        /\ placed' = [placed EXCEPT ![s] =
             Append(@, [status |-> status(n), filled |-> n, amount |-> amount])]
        /\ stop' = [stop EXCEPT ![s].filled = @ + n]
        /\ wrote' = IF n = 0 THEN wrote ELSE [wrote EXCEPT !.stops = @ \cup {s}]
        /\ due' = [due EXCEPT ![s] = IF stop[s].priced THEN @ + n ELSE lock[s]]
        /\ frames' = WithTop(f)
        /\ step' = IF n = 0 THEN "save" ELSE "list"
  BY <1>2 DEF PlaceOrder
<1>6. n \in 0 .. amount /\ amount \in 1 .. Amount /\ Amount \in Nat
  BY <1>3, StopLossAssumption
<1>7. /\ at \in Working /\ at # None /\ at.on = s /\ at.order = Len(placed[s]) + 1
      /\ at.filled = copy.filled /\ Len(placed[s]) \in Nat
  <2>1. Len(placed[s]) \in Nat /\ copy.filled \in Amounts \ {Amount}
    BY <1>3, InnerFacts, LenProperties DEF Copies
  <2>2. at \in Working
    BY <2>1 DEF Working
  <2> QED
    BY <2>1, <2>2, NoneAssumption
<1> HIDE DEF at, status, amount
<1>8. /\ f \in Frames /\ f.legs = Top.legs /\ f.rest \subseteq Top.rest
      /\ f.at = at /\ f.late = Top.late
  BY <1>3, <1>7 DEF Frames
<1> HIDE DEF f
<1>9. /\ frames' \in Seq(Frames)
      /\ DOMAIN frames = 1 .. Len(frames) /\ DOMAIN frames' = DOMAIN frames
      /\ Len(frames) \in Nat \ {0} /\ Len(frames') = Len(frames) /\ frames' # <<>>
      /\ \A i \in DOMAIN frames : frames'[i] = IF i = Len(frames) THEN f ELSE frames[i]
  <2>1. frames \in Seq(Frames) /\ frames' = WithTop(f)
    BY <1>5 DEF IInv, TypeOK
  <2> QED
    BY <1>1, <1>8, <2>1, TopChanged
<1>10. /\ placed'[s] = Append(placed[s], [status |-> status(n), filled |-> n, amount |-> amount])
       /\ stop'[s] = [stop[s] EXCEPT !.filled = @ + n]
       /\ due'[s] = IF stop[s].priced THEN due[s] + n ELSE lock[s]
       /\ OnlyAbout(s)
       /\ stop' = [stop EXCEPT ![s] = stop'[s]] /\ placed' = [placed EXCEPT ![s] = placed'[s]]
       /\ due' = [due EXCEPT ![s] = due'[s]]
  BY <1>1, <1>5 DEF IInv, TypeOK, StopColumn, PlacedColumn, OnlyAbout
<1>11. /\ stop'[s] \in StopRows /\ stop'[s] # None /\ stop'[s].canceled = stop[s].canceled
       /\ placed'[s] \in Seq(Orders) /\ Len(placed'[s]) = Len(placed[s]) + 1
       /\ Rows(s, stop'[s], leg'[s], placed'[s])
       /\ Bounded(stop'[s], leg'[s], placed'[s], LockOf(s) - due'[s])
       /\ s \notin raced => Funded(stop'[s], leg'[s], placed'[s], LockOf(s) - due'[s])
  <2>1. status(n) \in {"new", "filled", "canceled"}
        /\ (status(n) = "new" => stop[s].priced /\ n # Amount - copy.filled)
    BY DEF status, amount
  <2>2. /\ placed'[s] = Append(placed[s], [status |-> status(n), filled |-> n, amount |-> Amount - copy.filled])
        /\ n \in 0 .. (Amount - copy.filled)
    BY <1>6, <1>10 DEF amount
  <2>3. LegRow(leg[s]) /\ placed[s] \in Seq(Orders) /\ Rows(s, stop[s], leg[s], placed[s])
        /\ Bounded(stop[s], leg[s], placed[s], LockOf(s) - due[s])
        /\ LockOf(s) - due[s] \in Int /\ due[s] \in Nat /\ lock[s] \in Nat
    BY InnerFacts
  <2>4. /\ LockOf(s) - due'[s] \in Int
        /\ IF stop[s].priced THEN LockOf(s) - due'[s] = (LockOf(s) - due[s]) - n
           ELSE LockOf(s) - due'[s] <= 0
    BY <1>4, <1>6, <1>10, <2>3
  <2>5. s \notin raced => (placed[s] = <<>> => LockOf(s) - due[s] = Amount)
    BY <1>3, <1>4
  <2>6. placed[s] = <<>> => copy.filled = 0
    BY <1>3
  <2>7. PICK sr, pr, left :
          /\ sr = stop'[s] /\ sr = [stop[s] EXCEPT !.filled = @ + n]
          /\ pr = placed'[s]
          /\ pr = Append(placed[s], [status |-> status(n), filled |-> n, amount |-> Amount - copy.filled])
          /\ left = LockOf(s) - due'[s] /\ left \in Int
          /\ IF stop[s].priced THEN left = (LockOf(s) - due[s]) - n ELSE left <= 0
    BY <1>10, <2>2, <2>4
  <2>8. /\ sr \in StopRows /\ sr # None /\ sr.canceled = stop[s].canceled
        /\ pr \in Seq(Orders) /\ Len(pr) = Len(placed[s]) + 1
        /\ Rows(s, sr, leg[s], pr)
        /\ Bounded(sr, leg[s], pr, left)
        /\ s \notin raced => Funded(sr, leg[s], pr, left)
    <3>1. Placing(s, stop[s], leg[s], placed[s], copy.filled, n, status(n), pr, sr, LockOf(s) - due[s], left)
      BY <1>3, <1>4, <2>1, <2>2, <2>3, <2>6, <2>7 DEF Placing, Resting
    <3> QED
      BY <2>3, <2>5, <3>1, OrderPlaced
  <2>9. leg'[s] = leg[s]
    BY <1>1
  <2> QED
    BY <2>7, <2>8, <2>9
<1>12. /\ wrote' \in WroteRows /\ wrote'.legs = wrote.legs /\ wrote.stops \subseteq wrote'.stops
       /\ wrote'.stops \subseteq wrote.stops \cup {s}
       /\ s \in wrote'.stops \ wrote.stops => StopFree(s)
       /\ s \notin wrote'.stops => stop'[s] = stop[s]
  <2>1. wrote \in WroteRows /\ {s} \in SUBSET Stops
    BY DEF IInv, TypeOK
  <2>2. CASE n = 0
    <3>1. stop[s].filled + 0 = stop[s].filled
      BY <1>4 DEF StopRows
    <3>2. stop'[s] = stop[s]
      BY <1>4, <1>10, <2>2, <3>1 DEF StopRows
    <3> QED
      BY <1>5, <2>1, <2>2, <3>2
  <2>3. CASE n # 0
    <3>1. StopFree(s) /\ wrote' = [wrote EXCEPT !.stops = @ \cup {s}]
      BY <1>5, <1>6, <2>3 DEF amount
    <3>2. wrote' \in WroteRows /\ wrote'.legs = wrote.legs /\ wrote'.stops = wrote.stops \cup {s}
      BY <2>1, <3>1, WroteMore
    <3> QED
      BY <3>1, <3>2
  <2> QED
    BY <2>2, <2>3
<1>13. TypeOK'
  <2>1. stop' \in StopColumn /\ placed' \in PlacedColumn
    BY <1>10, <1>11 DEF IInv, TypeOK, StopColumn, PlacedColumn
  <2>2. due' \in [Stops -> Nat]
    <3>1. due'[s] \in Nat
      BY <1>6, <1>10, InnerFacts
    <3> QED
      BY <1>10, <3>1 DEF IInv, TypeOK
  <2>3. step' \in {"save", "list"}
    BY <1>5
  <2> QED
    BY <1>1, <1>9, <1>12, <2>1, <2>2, <2>3 DEF IInv, TypeOK
<1>14. AtOrder(s)'
  BY <1>3, <1>7, <1>8, <1>9 DEF AtOrder
<1>15. \A u \in Stops : Grows(u) /\ Moves(u)
  <2>1. ASSUME NEW u \in Stops PROVE AtOrder(u) => AtOrder(u)' \/ u = s
    BY <1>1, <1>9 DEF AtOrder, Top
  <2>2. DOMAIN placed[s] \subseteq DOMAIN placed'[s] /\ placed'[s] # <<>>
    <3>1. placed[s] \in Seq(Orders)
      BY InnerFacts
    <3> QED
      BY <1>7, <1>11, <3>1, LenProperties, EmptySeq
  <2>3. Grows(s) /\ Moves(s)
    BY <1>1, <1>3, <1>11, <1>14, <2>2 DEF Grows, Moves, Resting
  <2>4. ASSUME NEW u \in Stops \ {s} PROVE Grows(u) /\ Moves(u)
    <3>1. UNCHANGED <<lock, fresh, raced>>
      BY <1>1
    <3>2. placed'[u] = placed[u]
      BY <1>10 DEF OnlyAbout
    <3> QED
      BY <1>10, <2>1, <3>1, <3>2, RowsOfOthers DEF Moves, OnlyAbout
  <2> QED
    BY <2>3, <2>4
<1>16. Writes
  BY <1>1, <1>3, <1>10, <1>12 DEF Writes, OnlyAbout
<1>17. FramesOk'
  <2> SUFFICES ASSUME NEW i \in DOMAIN frames PROVE FrameOk(i)'
    BY <1>9 DEF FramesOk
  <2>1. frames'[i].rest \subseteq frames[i].rest
        /\ frames'[i].legs = frames[i].legs /\ frames'[i].late = frames[i].late
        /\ (frames'[i].at = frames[i].at \/ frames'[i].at = at)
    BY <1>8, <1>9 DEF Top
  <2>2. \A u \in frames[i].legs : u \in frames'[i].legs \/ ~ Resting(leg'[u])
    BY <2>1
  <2>3. /\ stop'[at.on] # None
        /\ at.order \in DOMAIN placed'[at.on]
        /\ at.order = 1 => at.filled = 0
    <3>1. placed[s] \in Seq(Orders)
      BY InnerFacts
    <3>2. Len(placed[s]) = 0 => placed[s] = <<>>
      BY <3>1, EmptySeq
    <3>3. DOMAIN placed'[s] = 1 .. (Len(placed[s]) + 1)
      BY <1>11, LenProperties
    <3> QED
      BY <1>3, <1>7, <1>11, <3>2, <3>3
  <2>4. TypeOK /\ FramesOk /\ frames'[i].legs \subseteq frames[i].legs /\ raced \subseteq raced'
    BY <1>1, <2>1 DEF IInv
  <2>5. \/ frames'[i].at \in {None, frames[i].at}
        \/ /\ stop'[frames'[i].at.on] # None
           /\ frames'[i].at.order \in DOMAIN placed'[frames'[i].at.on]
           /\ frames'[i].at.order = 1 => frames'[i].at.filled = 0
    BY <2>1, <2>3
  <2>6. \A u \in frames'[i].late : u \in frames[i].late \/ stop'[u] # None
    BY <2>1
  <2> QED
    BY <1>9, <1>13, <1>15, <2>1, <2>2, <2>4, <2>5, <2>6, FrameStays
<1>18. StepOk'
  <2>1. Top' = f
    BY <1>9 DEF Top
  <2> QED
    BY <1>5, <1>7, <1>8, <1>9, <2>1 DEF IInv, StepOk
<1>19. fresh # None => leg'[fresh] = leg[fresh] /\ due'[fresh] = due[fresh]
  <2>1. fresh # None => fresh \in Stops
    BY StopLossAssumption DEF IInv, TypeOK
  <2> QED
    BY <1>1, <1>4, <1>10, <2>1 DEF OnlyAbout
<1>20. \A u \in Stops :
         /\ Rows(u, stop'[u], leg'[u], placed'[u])
         /\ Bounded(stop'[u], leg'[u], placed'[u], LockOf(u) - due'[u])
         /\ u \notin raced => Funded(stop'[u], leg'[u], placed'[u], LockOf(u) - due'[u])
  BY <1>1, <1>10, <1>11, RowsOfOthers
<1>21. step # "idle" /\ step' \notin {"idle", "match"}
  BY <1>1, <1>5
<1> QED
  BY <1>1, <1>13, <1>15, <1>16, <1>17, <1>18, <1>19, <1>20, <1>21, WorkKeeps

LEMMA SaveKeeps ==
  ASSUME IInv, Save
  PROVE  IInv'
<1>1. /\ step = "save" /\ step' = "loop" /\ frames # <<>> /\ Top.at # None /\ maker = None
      /\ UNCHANGED <<leg, placed, lock, maker, fresh, late, due, kept, others>>
      /\ UNCHANGED <<leg, placed, lock, maker, fresh, late, due, kept, canceler, closing, raced>>
  BY DEF Save, IInv, StepOk, MakerOk, others
<1>2. /\ Top \in Frames /\ Top.at \in Working /\ AtOk(Top.at)
      /\ Len(frames) \in DOMAIN frames
  BY <1>1, TopOk
<1>3. PICK s \in Stops : s = Top.at.on
  BY <1>2 DEF Working
<1>4. /\ stop[s] # None /\ stop[s] \in StopRows /\ s # fresh /\ LockOf(s) = lock[s]
      /\ Top.at.order \in DOMAIN placed[s]
      /\ Top.at.order = 1 => Top.at.filled = 0
      /\ Top.at.filled \in 0 .. (Amount - 1)
  BY <1>2, <1>3, StopLossAssumption, NoneAssumption
  DEF AtOk, IInv, TypeOK, StopColumn, FreshOk, LockOf, Working, Amounts
<1>5. PICK filled : filled = Top.at.filled + placed[s][Top.at.order].filled
  OBVIOUS
<1> DEFINE f == [Top EXCEPT !.at = None,
                   !.late = IF stop[s].market /\ ~ stop[s].canceled /\ filled < Amount THEN @ \cup {s} ELSE @]
<1>6. /\ StopFree(s)
      /\ stop' = [stop EXCEPT ![s].filled = filled]
      /\ wrote' = [wrote EXCEPT !.stops = @ \cup {s}]
      /\ frames' = WithTop(f)
  BY <1>3, <1>5 DEF Save
<1>7. /\ f \in Frames /\ f.legs = Top.legs /\ f.rest = Top.rest
      /\ f.at = None /\ f.late \subseteq Top.late \cup {s}
  BY <1>2 DEF Frames
<1> HIDE DEF f
<1>8. /\ frames' \in Seq(Frames)
      /\ DOMAIN frames = 1 .. Len(frames) /\ DOMAIN frames' = DOMAIN frames
      /\ Len(frames) \in Nat \ {0} /\ Len(frames') = Len(frames) /\ frames' # <<>>
      /\ \A i \in DOMAIN frames : frames'[i] = IF i = Len(frames) THEN f ELSE frames[i]
  <2>1. frames \in Seq(Frames) /\ frames' = WithTop(f)
    BY <1>6 DEF IInv, TypeOK
  <2> QED
    BY <1>1, <1>7, <2>1, TopChanged
<1>9. PICK sr : /\ sr = [stop[s] EXCEPT !.filled = filled] /\ sr = stop'[s]
                /\ stop' = [stop EXCEPT ![s] = sr]
  BY <1>6 DEF IInv, TypeOK, StopColumn
<1>10. /\ sr \in StopRows /\ sr # None /\ sr.canceled = stop[s].canceled
       /\ Rows(s, sr, leg[s], placed[s])
       /\ Bounded(sr, leg[s], placed[s], LockOf(s) - due[s])
       /\ s \notin raced => Funded(sr, leg[s], placed[s], LockOf(s) - due[s])
  <2>1. sr = [stop[s] EXCEPT !.filled = Top.at.filled + placed[s][Top.at.order].filled]
    BY <1>5, <1>9
  <2> DEFINE free == LockOf(s) - due[s]
  <2>2. /\ LegRow(leg[s]) /\ placed[s] \in Seq(Orders) /\ free \in Int
        /\ Rows(s, stop[s], leg[s], placed[s])
        /\ Bounded(stop[s], leg[s], placed[s], free)
        /\ s \notin raced => Funded(stop[s], leg[s], placed[s], free)
    BY InnerFacts
  <2> HIDE DEF free
  <2>3. /\ sr \in StopRows /\ sr # None /\ sr.canceled = stop[s].canceled
        /\ Rows(s, sr, leg[s], placed[s])
        /\ Bounded(stop[s], leg[s], placed[s], free) => Bounded(sr, leg[s], placed[s], free)
        /\ Funded(stop[s], leg[s], placed[s], free) => Funded(sr, leg[s], placed[s], free)
    BY <1>4, <2>1, <2>2, CopySaved
  <2> QED
    BY <2>2, <2>3 DEF free
<1>11. OnlyAbout(s)
  <2>1. stop \in StopColumn
    BY DEF IInv, TypeOK
  <2>2. \A u \in Stops \ {s} : stop'[u] = stop[u]
    BY <1>9, <2>1 DEF StopColumn
  <2> QED
    BY <1>1, <2>2 DEF OnlyAbout
<1>12. /\ wrote' \in WroteRows /\ wrote'.legs = wrote.legs /\ wrote'.stops = wrote.stops \cup {s}
  <2>1. wrote \in WroteRows /\ {s} \in SUBSET Stops
    BY DEF IInv, TypeOK
  <2> QED
    BY <1>6, <2>1, WroteMore
<1>13. TypeOK'
  <2>1. stop' \in StopColumn
    BY <1>9, <1>10 DEF IInv, TypeOK, StopColumn
  <2> QED
    BY <1>1, <1>8, <1>12, <2>1 DEF IInv, TypeOK
<1>14. \A u \in Stops : Grows(u) /\ Moves(u)
  <2>1. ASSUME NEW u \in Stops PROVE AtOrder(u) => AtOrder(u)' \/ u = s
    BY <1>3, <1>8 DEF AtOrder, Top
  <2>2. Grows(s) /\ Moves(s)
    BY <1>1, <1>4, <1>9, <1>10, <1>12 DEF Grows, Moves, Resting
  <2>3. ASSUME NEW u \in Stops \ {s} PROVE Grows(u) /\ Moves(u)
    <3>1. UNCHANGED <<lock, fresh, raced>> /\ placed'[u] = placed[u]
      BY <1>1
    <3> QED
      BY <1>11, <2>1, <3>1, RowsOfOthers DEF Moves, OnlyAbout
  <2> QED
    BY <2>2, <2>3
<1>15. Writes
  BY <1>1, <1>4, <1>6, <1>11, <1>12 DEF Writes, OnlyAbout
<1>16. FramesOk'
  <2> SUFFICES ASSUME NEW i \in DOMAIN frames PROVE FrameOk(i)'
    BY <1>8 DEF FramesOk
  <2>1. frames'[i].rest = frames[i].rest /\ frames'[i].at \in {None, frames[i].at}
        /\ frames'[i].legs = frames[i].legs
        /\ \A u \in frames'[i].late : u \in frames[i].late \/ u = s
    BY <1>7, <1>8 DEF Top
  <2>2. \A u \in frames[i].legs : u \in frames'[i].legs \/ ~ Resting(leg'[u])
    BY <2>1
  <2>3. \A u \in frames'[i].late : u \in frames[i].late \/ stop'[u] # None
    BY <1>9, <1>10, <2>1
  <2>4. TypeOK /\ FramesOk /\ frames'[i].legs \subseteq frames[i].legs
        /\ frames'[i].rest \subseteq frames[i].rest /\ raced \subseteq raced'
    BY <1>1, <2>1 DEF IInv
  <2> QED
    BY <1>8, <1>13, <1>14, <2>1, <2>2, <2>3, <2>4, FrameStays
<1>17. StepOk'
  <2>1. Top' = f
    BY <1>8 DEF Top
  <2> QED
    BY <1>1, <1>7, <1>8, <2>1 DEF IInv, StepOk
<1>18. fresh # None => leg'[fresh] = leg[fresh] /\ due'[fresh] = due[fresh]
  BY <1>1
<1>19. \A u \in Stops :
         /\ Rows(u, stop'[u], leg'[u], placed'[u])
         /\ Bounded(stop'[u], leg'[u], placed'[u], LockOf(u) - due'[u])
         /\ u \notin raced => Funded(stop'[u], leg'[u], placed'[u], LockOf(u) - due'[u])
  BY <1>1, <1>9, <1>10, <1>11, RowsOfOthers
<1> QED
  BY <1>1, <1>13, <1>14, <1>15, <1>16, <1>17, <1>18, <1>19, WorkKeeps

LEMMA ReturnKeeps ==
  ASSUME IInv, Return
  PROVE  IInv'
<1>1. /\ step = "loop" /\ frames # <<>> /\ Top.at = None /\ maker = None
      /\ step' = IF Len(frames) = 1 THEN "commit" ELSE "save"
      /\ UNCHANGED <<leg, placed, lock, maker, fresh, due, kept, others>>
      /\ UNCHANGED <<leg, placed, lock, maker, fresh, due, kept, canceler, closing, raced>>
      /\ frames' = Popped
  BY DEF Return, IInv, StepOk, MakerOk, others
<1>2. /\ Top \in Frames /\ \A u \in Top.late : u \in Stops /\ stop[u] # None
      /\ Top.late \in SUBSET Stops
  BY <1>1, TopOk
<1>3. /\ frames' \in Seq(Frames)
      /\ DOMAIN frames = 1 .. Len(frames) /\ DOMAIN frames' = 1 .. Len(frames')
      /\ Len(frames) \in Nat \ {0} /\ Len(frames') = Len(frames) - 1
      /\ \A i \in DOMAIN frames' : frames'[i] = frames[i]
  <2>1. frames \in Seq(Frames)
    BY DEF IInv, TypeOK
  <2> QED
    BY <1>1, <2>1, TopPopped
<1>4. \/ late' = Top.late /\ UNCHANGED <<stop, wrote>>
      \/ /\ \A s \in Top.late : StopFree(s)
         /\ stop' = [s \in Stops |-> IF s \in Top.late THEN [stop[s] EXCEPT !.canceled = TRUE] ELSE stop[s]]
         /\ wrote' = [wrote EXCEPT !.stops = @ \cup Top.late]
         /\ UNCHANGED late
  BY DEF Return
<1>5. /\ wrote \in WroteRows /\ wrote' \in WroteRows /\ wrote'.legs = wrote.legs
      /\ wrote.stops \subseteq wrote'.stops
      /\ wrote'.stops \subseteq wrote.stops \cup Top.late
      /\ \A u \in wrote'.stops \ wrote.stops : StopFree(u)
  <2>1. wrote \in WroteRows
    BY DEF IInv, TypeOK
  <2>2. CASE UNCHANGED <<stop, wrote>>
    BY <2>1, <2>2
  <2>3. CASE /\ \A s \in Top.late : StopFree(s)
             /\ wrote' = [wrote EXCEPT !.stops = @ \cup Top.late]
    <3>1. wrote' \in WroteRows /\ wrote'.legs = wrote.legs /\ wrote'.stops = wrote.stops \cup Top.late
      BY <1>2, <2>1, <2>3, WroteMore
    <3> QED
      BY <2>1, <2>3, <3>1
  <2> QED
    BY <1>4, <2>2, <2>3
<1>6. ASSUME NEW u \in Stops
      PROVE  CanceledStop(stop[u], stop'[u]) /\ (u \notin wrote'.stops => stop'[u] = stop[u])
  <2>1. CASE UNCHANGED <<stop, wrote>>
    BY <2>1 DEF CanceledStop
  <2>2. CASE /\ stop' = [s \in Stops |-> IF s \in Top.late THEN [stop[s] EXCEPT !.canceled = TRUE] ELSE stop[s]]
             /\ wrote' = [wrote EXCEPT !.stops = @ \cup Top.late]
    <3>1. wrote'.stops = wrote.stops \cup Top.late
      BY <1>2, <1>5, <2>2, WroteMore
    <3>2. stop'[u] = IF u \in Top.late THEN [stop[u] EXCEPT !.canceled = TRUE] ELSE stop[u]
      BY <2>2
    <3> QED
      BY <1>2, <3>1, <3>2 DEF CanceledStop
  <2> QED
    BY <1>4, <2>1, <2>2
<1>7. ASSUME NEW u \in Stops
      PROVE  /\ Row(stop'[u]) /\ (stop'[u] = None <=> stop[u] = None)
             /\ stop[u] # None => (stop[u].canceled => stop'[u].canceled)
             /\ Rows(u, stop'[u], leg[u], placed[u])
             /\ Bounded(stop'[u], leg[u], placed[u], LockOf(u) - due[u])
             /\ u \notin raced => Funded(stop'[u], leg[u], placed[u], LockOf(u) - due[u])
  <2>1. PICK sr : sr = stop'[u] /\ CanceledStop(stop[u], sr)
    BY <1>6
  <2>2. CanceledOrder(leg[u], leg[u]) /\ CanceledOrders(placed[u], placed[u])
    BY InnerFacts DEF CanceledOrders, CanceledOrder
  <2>3. LockOf(u) - due[u] <= LockOf(u) - due[u]
    BY InnerFacts
  <2>4. /\ Rows(u, sr, leg[u], placed[u])
        /\ Bounded(sr, leg[u], placed[u], LockOf(u) - due[u])
        /\ u \notin raced => Funded(sr, leg[u], placed[u], LockOf(u) - due[u])
    BY <2>1, <2>2, <2>3, InnerFacts, CancelKeeps
  <2>5. /\ Row(sr) /\ (sr = None <=> stop[u] = None)
        /\ stop[u] # None => (stop[u].canceled => sr.canceled)
    BY <2>1, InnerFacts, CanceledRow
  <2> QED
    BY <2>1, <2>4, <2>5
<1>8. TypeOK'
  <2>1. stop' \in StopColumn
    <3>1. DOMAIN stop' = Stops /\ stop' = [u \in Stops |-> stop'[u]]
      BY <1>4 DEF IInv, TypeOK, StopColumn
    <3> QED
      BY <1>7, <3>1 DEF Row, StopColumn
  <2>2. late' \in SUBSET Stops
    BY <1>2, <1>4 DEF IInv, TypeOK
  <2> QED
    BY <1>1, <1>3, <1>5, <2>1, <2>2 DEF IInv, TypeOK
<1>9. \A u \in Stops : Grows(u) /\ Moves(u)
  <2> SUFFICES ASSUME NEW u \in Stops PROVE Grows(u) /\ Moves(u)
    OBVIOUS
  <2>1. AtOrder(u) => AtOrder(u)'
    <3> SUFFICES ASSUME NEW i \in DOMAIN frames, frames[i].at # None, frames[i].at.on = u
                 PROVE  AtOrder(u)'
      BY DEF AtOrder
    <3>1. i # Len(frames)
      BY <1>1 DEF Top
    <3>2. i \in DOMAIN frames'
      BY <1>3, <3>1
    <3> QED
      BY <1>3, <3>2 DEF AtOrder
  <2> QED
    BY <1>1, <1>7, <2>1 DEF Grows, Moves, Resting
<1>10. Writes
  BY <1>1, <1>2, <1>5, <1>6 DEF Writes
<1>11. FramesOk'
  <2> SUFFICES ASSUME NEW i \in DOMAIN frames' PROVE FrameOk(i)'
    BY DEF FramesOk
  <2>1. i \in DOMAIN frames /\ frames'[i] = frames[i]
    BY <1>3
  <2>2. \A u \in frames[i].legs : u \in frames'[i].legs \/ ~ Resting(leg'[u])
    BY <2>1
  <2>3. TypeOK /\ FramesOk /\ raced \subseteq raced'
    BY <1>1 DEF IInv
  <2> QED
    BY <1>8, <1>9, <2>1, <2>2, <2>3, FrameStays
<1>12. StepOk'
  <2>1. \A i \in DOMAIN frames' : frames'[i].at # None
    <3> TAKE i \in DOMAIN frames'
    <3>1. i \in DOMAIN frames /\ i # Len(frames) /\ frames'[i] = frames[i]
      BY <1>3
    <3> QED
      BY <3>1 DEF IInv, StepOk
  <2>2. Len(frames) = 1 => frames' = <<>>
    BY <1>3, EmptySeq
  <2>3. Len(frames) # 1 => frames' # <<>> /\ Len(frames') \in DOMAIN frames'
    BY <1>3, EmptySeq
  <2>4. step' = "save" => frames' # <<>> /\ Top'.at # None
    BY <1>1, <2>1, <2>3 DEF Top
  <2> QED
    BY <1>1, <2>1, <2>2, <2>4 DEF StepOk
<1>13. \A u \in late' : u \in late \/ stop[u] # None
  BY <1>2, <1>4
<1>14. step # "idle" /\ step' \notin {"idle", "match"}
  BY <1>1
<1>15. \A u \in Stops :
         /\ Rows(u, stop'[u], leg'[u], placed'[u])
         /\ Bounded(stop'[u], leg'[u], placed'[u], LockOf(u) - due'[u])
         /\ u \notin raced => Funded(stop'[u], leg'[u], placed'[u], LockOf(u) - due'[u])
  BY <1>1, <1>7
<1> QED
  BY <1>1, <1>8, <1>9, <1>10, <1>11, <1>12, <1>13, <1>14, <1>15, WorkKeeps

LEMMA MatchLegKeeps ==
  ASSUME IInv, NEW s \in Stops, leg[s] # None, placed[s] = <<>>,
         NEW n \in 1 .. Amount, n <= Amount - leg[s].filled, MatchLeg(s, n)
  PROVE  /\ due' = [due EXCEPT ![s] = @ + n] => OnlyAbout(s)
         /\ leg' \in LegColumn /\ stop' \in StopColumn /\ placed' = placed /\ wrote' \in WroteRows
         /\ Rows(s, stop'[s], leg'[s], placed'[s])
         /\ Bounded(stop'[s], leg'[s], placed'[s], LockOf(s) - due[s] - n)
         /\ s \notin raced => Funded(stop'[s], leg'[s], placed'[s], LockOf(s) - due[s] - n)
         /\ Resting(leg'[s]) => Resting(leg[s])
         /\ leg'[s] # None /\ (stop'[s] = None <=> stop[s] = None)
         /\ stop[s] # None => stop'[s].canceled
         /\ Writes
<1>1. leg' = [leg EXCEPT ![s] = Fill(@, n)] /\ LegFree(s) /\ UNCHANGED placed
  BY DEF MatchLeg
<1>2. PICK lr : lr = Fill(leg[s], n) /\ lr = leg'[s] /\ leg' = [leg EXCEPT ![s] = lr]
  BY <1>1 DEF IInv, TypeOK, LegColumn
<1>3. wrote \in WroteRows /\ {s} \in SUBSET Stops /\ stop \in StopColumn /\ leg \in LegColumn
      /\ due \in [Stops -> Nat]
  BY DEF IInv, TypeOK
<1>4. PICK sr : /\ sr = stop'[s] /\ CanceledStop(stop[s], sr) /\ (sr = None \/ sr.canceled)
                /\ \A u \in Stops \ {s} : stop'[u] = stop[u]
                /\ stop' = [stop EXCEPT ![s] = sr]
  <2>1. CASE stop[s] = None \/ stop[s].canceled
    <3>1. stop' = stop
      BY <2>1 DEF MatchLeg
    <3>2. stop = [stop EXCEPT ![s] = stop[s]]
      BY <1>3 DEF StopColumn
    <3> QED
      BY <2>1, <3>1, <3>2 DEF CanceledStop
  <2>2. CASE ~ (stop[s] = None \/ stop[s].canceled)
    <3>1. stop' = [stop EXCEPT ![s].canceled = TRUE]
      BY <2>2 DEF MatchLeg
    <3>2. PICK st : st = stop[s] /\ st \in StopRows
      BY <1>3, <2>2 DEF StopColumn
    <3>3. /\ stop'[s] = [st EXCEPT !.canceled = TRUE]
          /\ \A u \in Stops \ {s} : stop'[u] = stop[u]
          /\ stop' = [stop EXCEPT ![s] = stop'[s]]
      BY <1>3, <3>1, <3>2 DEF StopColumn
    <3>4. stop'[s].canceled
      BY <3>2, <3>3 DEF StopRows
    <3> QED
      BY <2>2, <3>2, <3>3, <3>4 DEF CanceledStop
  <2> QED
    BY <2>1, <2>2
<1>5. /\ LegRow(lr) /\ lr # None /\ (Resting(lr) => Resting(leg[s]))
      /\ Rows(s, sr, lr, <<>>)
      /\ Bounded(sr, lr, <<>>, LockOf(s) - due[s] - n)
      /\ s \notin raced => Funded(sr, lr, <<>>, LockOf(s) - due[s] - n)
  <2>1. PICK st, lg, free :
          /\ st = stop[s] /\ lg = leg[s] /\ free = LockOf(s) - due[s]
          /\ Row(st) /\ LegRow(lg) /\ free \in Int
          /\ Rows(s, st, lg, <<>>)
          /\ Bounded(st, lg, <<>>, free)
          /\ s \notin raced => Funded(st, lg, <<>>, free)
    BY InnerFacts
  <2>2. lg # None /\ n <= Amount - lg.filled /\ lr = Fill(lg, n) /\ CanceledStop(st, sr)
    BY <1>2, <1>4, <2>1
  <2>3. /\ LegRow(lr) /\ lr # None /\ (Resting(lr) => Resting(lg))
        /\ Rows(s, sr, lr, <<>>)
        /\ Bounded(sr, lr, <<>>, free - n)
        /\ s \notin raced => Funded(sr, lr, <<>>, free - n)
    BY <1>4, <2>1, <2>2, LegSells
  <2> QED
    BY <2>1, <2>3
<1>6. /\ Row(sr) /\ (sr = None <=> stop[s] = None)
      /\ stop[s] # None => sr.canceled
  BY <1>4, InnerFacts, CanceledRow
<1>7. /\ wrote' \in WroteRows /\ wrote'.legs = wrote.legs \cup {s}
      /\ wrote'.stops = wrote.stops \/ (wrote'.stops = wrote.stops \cup {s} /\ StopFree(s) /\ stop[s] # None)
      /\ s \notin wrote'.stops => stop'[s] = stop[s]
  <2>1. CASE stop[s] = None \/ stop[s].canceled
    <3>1. wrote' = [wrote EXCEPT !.legs = @ \cup {s}] /\ stop' = stop
      BY <2>1 DEF MatchLeg
    <3> QED
      BY <1>3, <3>1, WroteMore
  <2>2. CASE ~ (stop[s] = None \/ stop[s].canceled)
    <3>1. wrote' = [stops |-> wrote.stops \cup {s}, legs |-> wrote.legs \cup {s}] /\ StopFree(s)
      BY <2>2 DEF MatchLeg
    <3> QED
      BY <1>3, <2>2, <3>1 DEF WroteRows
  <2> QED
    BY <2>1, <2>2
<1>8. \A u \in Stops \ {s} : leg'[u] = leg[u]
  BY <1>2, <1>3 DEF LegColumn
<1>9. Writes
  BY <1>1, <1>4, <1>7, <1>8 DEF Writes
<1>10. leg' \in LegColumn /\ stop' \in StopColumn
  <2>1. lr \in Orders \cup {None} /\ sr \in StopRows \cup {None}
    BY <1>5, <1>6 DEF LegRow, Row
  <2>2. leg' \in LegColumn
    BY <1>2, <1>3, <2>1 DEF LegColumn
  <2>3. stop' \in StopColumn
    <3>1. stop' = [stop EXCEPT ![s] = sr]
      BY <1>4
    <3> QED
      BY <1>3, <2>1, <3>1 DEF StopColumn
  <2> QED
    BY <2>2, <2>3
<1>11. due' = [due EXCEPT ![s] = @ + n] => OnlyAbout(s)
  BY <1>1, <1>3, <1>4, <1>8 DEF OnlyAbout
<1> QED
  BY <1>1, <1>2, <1>4, <1>5, <1>6, <1>7, <1>9, <1>10, <1>11

LEMMA MatchPlacedKeeps ==
  ASSUME IInv, NEW s \in Stops, NEW i \in DOMAIN placed[s], Resting(placed[s][i]),
         NEW n \in 1 .. Amount, n <= placed[s][i].amount - placed[s][i].filled, MatchPlaced(s, i, n)
  PROVE  /\ due' = [due EXCEPT ![s] = @ + n] => OnlyAbout(s)
         /\ leg' = leg /\ stop' \in StopColumn /\ placed' \in PlacedColumn /\ wrote' \in WroteRows
         /\ Rows(s, stop'[s], leg'[s], placed'[s])
         /\ Bounded(stop'[s], leg'[s], placed'[s], LockOf(s) - due[s] - n)
         /\ s \notin raced => Funded(stop'[s], leg'[s], placed'[s], LockOf(s) - due[s] - n)
         /\ stop'[s] # None /\ stop[s] # None /\ stop'[s].canceled = stop[s].canceled
         /\ s \in wrote'.stops
         /\ Writes
<1>1. /\ placed' = [placed EXCEPT ![s][i] = Fill(@, n)]
      /\ stop' = [stop EXCEPT ![s].filled = @ + n]
      /\ wrote' = [wrote EXCEPT !.stops = @ \cup {s}]
      /\ UNCHANGED leg /\ StopFree(s)
  BY DEF MatchPlaced
<1>2. wrote \in WroteRows /\ {s} \in SUBSET Stops /\ stop \in StopColumn /\ placed \in PlacedColumn
      /\ due \in [Stops -> Nat]
  BY DEF IInv, TypeOK
<1>3. PICK pr, sr :
        /\ pr = [placed[s] EXCEPT ![i] = Fill(@, n)] /\ pr = placed'[s]
        /\ sr = [stop[s] EXCEPT !.filled = @ + n] /\ sr = stop'[s]
        /\ placed' = [placed EXCEPT ![s] = pr] /\ stop' = [stop EXCEPT ![s] = sr]
  BY <1>1, <1>2 DEF StopColumn, PlacedColumn
<1>4. /\ stop[s] # None /\ Row(sr) /\ sr # None /\ sr.canceled = stop[s].canceled
      /\ pr \in Seq(Orders) /\ Len(pr) = Len(placed[s])
      /\ Rows(s, sr, leg[s], pr)
      /\ Bounded(sr, leg[s], pr, LockOf(s) - due[s] - n)
      /\ s \notin raced => Funded(sr, leg[s], pr, LockOf(s) - due[s] - n)
  <2>1. PICK st, lg, pl, free :
          /\ st = stop[s] /\ lg = leg[s] /\ pl = placed[s] /\ free = LockOf(s) - due[s]
          /\ Row(st) /\ LegRow(lg) /\ free \in Int /\ pl \in Seq(Orders)
          /\ Rows(s, st, lg, pl)
          /\ Bounded(st, lg, pl, free)
          /\ s \notin raced => Funded(st, lg, pl, free)
    BY InnerFacts
  <2>2. /\ i \in DOMAIN pl /\ Resting(pl[i]) /\ n <= pl[i].amount - pl[i].filled
        /\ pr = [pl EXCEPT ![i] = Fill(pl[i], n)] /\ sr = [st EXCEPT !.filled = @ + n]
    BY <1>3, <2>1 DEF Resting
  <2>3. /\ st # None /\ Row(sr) /\ sr # None /\ sr.canceled = st.canceled
        /\ pr \in Seq(Orders) /\ Len(pr) = Len(pl)
        /\ Rows(s, sr, lg, pr)
        /\ Bounded(st, lg, pl, free) => Bounded(sr, lg, pr, free - n)
        /\ Funded(st, lg, pl, free) => Funded(sr, lg, pr, free - n)
    <3>1. Selling(s, st, lg, pl, i, n, pr, sr, free)
      BY <2>1, <2>2 DEF Selling, Resting
    <3> QED
      BY <3>1, OrderSells
  <2> QED
    BY <2>1, <2>3
<1>5. wrote' \in WroteRows /\ wrote'.legs = wrote.legs /\ wrote'.stops = wrote.stops \cup {s}
  BY <1>1, <1>2, WroteMore
<1>6. \A u \in Stops \ {s} : stop'[u] = stop[u] /\ placed'[u] = placed[u]
  BY <1>2, <1>3 DEF StopColumn, PlacedColumn
<1>7. Writes
  BY <1>1, <1>4, <1>5, <1>6 DEF Writes
<1>8. stop' \in StopColumn /\ placed' \in PlacedColumn
  BY <1>2, <1>3, <1>4 DEF StopColumn, PlacedColumn, Row
<1>9. due' = [due EXCEPT ![s] = @ + n] => OnlyAbout(s)
  BY <1>1, <1>2, <1>6 DEF OnlyAbout
<1> QED
  BY <1>1, <1>3, <1>4, <1>5, <1>7, <1>8, <1>9

LEMMA MatchKeeps ==
  ASSUME IInv, Match
  PROVE  IInv'
<1>1. /\ step = "match" /\ step' = "list" /\ maker' = None /\ frames = <<>>
      /\ maker # None /\ maker \in Makers /\ fresh = None
      /\ UNCHANGED <<lock, fresh, frames, late, kept, others>>
      /\ UNCHANGED <<lock, fresh, frames, late, kept, canceler, closing, raced>>
  BY DEF Match, IInv, TypeOK, StepOk, MakerOk, others
<1>2. PICK s \in Stops, i \in Nat, rest \in 0 .. Amount :
        s = maker.on /\ i = maker.order /\ rest = maker.rest
  BY <1>1 DEF Makers, Amounts
<1>3. PICK n \in 1 .. rest :
        /\ IF i = 0 THEN MatchLeg(s, n) ELSE MatchPlaced(s, i, n)
        /\ due' = [due EXCEPT ![s] = @ + n]
  BY <1>2 DEF Match
<1>4. /\ i = 0 => leg[s] # None /\ leg[s].filled + rest = Amount /\ placed[s] = <<>>
      /\ i # 0 => /\ i \in DOMAIN placed[s]
                  /\ Resting(placed[s][i]) /\ placed[s][i].filled + rest = placed[s][i].amount
  BY <1>1, <1>2 DEF IInv, MakerOk, Resting
<1>5. n \in 1 .. Amount /\ Amount \in Nat /\ n \in Nat
  BY <1>2, StopLossAssumption
<1>6. due \in [Stops -> Nat] /\ due'[s] = due[s] + n /\ due' \in [Stops -> Nat]
      /\ LockOf(s) - due'[s] = LockOf(s) - due[s] - n
  <2>1. due \in [Stops -> Nat] /\ LockOf(s) - due[s] \in Int /\ due[s] \in Nat /\ lock[s] \in Nat
    BY InnerFacts DEF IInv, TypeOK
  <2>2. LockOf(s) \in Int
    BY <1>5, <2>1 DEF LockOf
  <2>3. due'[s] = due[s] + n /\ due' \in [Stops -> Nat]
    BY <1>3, <1>5, <2>1
  <2>4. LockOf(s) - (due[s] + n) = LockOf(s) - due[s] - n
    BY <1>5, <2>1, <2>2
  <2> QED
    BY <2>1, <2>3, <2>4
<1>7. /\ OnlyAbout(s)
      /\ leg' \in LegColumn /\ stop' \in StopColumn /\ placed' \in PlacedColumn /\ wrote' \in WroteRows
      /\ Rows(s, stop'[s], leg'[s], placed'[s])
      /\ Bounded(stop'[s], leg'[s], placed'[s], LockOf(s) - due'[s])
      /\ s \notin raced => Funded(stop'[s], leg'[s], placed'[s], LockOf(s) - due'[s])
      /\ stop'[s] = None <=> stop[s] = None
      /\ stop[s] # None /\ stop[s].canceled => stop'[s].canceled
      /\ leg[s] # None => leg'[s] # None
      /\ Resting(leg'[s]) => Resting(leg[s])
      /\ placed'[s] = placed[s] \/ s \in wrote'.stops
      /\ stop[s] # None \/ leg[s] # None
      /\ Writes
  <2>1. CASE i = 0
    <3>1. leg[s].filled \in Nat
      BY <1>4, <2>1, InnerFacts, OrderFields DEF LegRow
    <3>2. n <= Amount - leg[s].filled /\ MatchLeg(s, n) /\ leg[s] # None /\ placed[s] = <<>>
      BY <1>2, <1>3, <1>4, <2>1, <3>1
    <3>3. placed \in PlacedColumn
      BY DEF IInv, TypeOK
    <3> QED
      BY <1>3, <1>5, <1>6, <3>2, <3>3, MatchLegKeeps
  <2>2. CASE i # 0
    <3>1. /\ i \in DOMAIN placed[s] /\ Resting(placed[s][i]) /\ MatchPlaced(s, i, n)
          /\ placed[s][i].filled \in Nat
      BY <1>3, <1>4, <2>2, InnerFacts, OrderOf, OrderFields DEF Resting
    <3>2. n <= placed[s][i].amount - placed[s][i].filled
      BY <1>2, <1>4, <2>2, <3>1
    <3>3. leg \in LegColumn
      BY DEF IInv, TypeOK
    <3> QED
      BY <1>3, <1>5, <1>6, <3>1, <3>2, <3>3, MatchPlacedKeeps DEF Resting
  <2> QED
    BY <2>1, <2>2
<1>8. TypeOK'
  BY <1>1, <1>6, <1>7 DEF IInv, TypeOK
<1>9. \A u \in Stops : Moves(u)
  <2>1. ASSUME NEW u \in Stops PROVE ~ AtOrder(u)
    BY <1>1 DEF AtOrder
  <2>2. Moves(s)
    BY <1>7, <2>1 DEF Moves, Resting
  <2>3. ASSUME NEW u \in Stops \ {s} PROVE Moves(u)
    <3>1. UNCHANGED <<lock, fresh, raced>> /\ placed'[u] = placed[u]
      BY <1>1, <1>7 DEF OnlyAbout
    <3> QED
      BY <1>7, <2>1, <3>1, RowsOfOthers DEF Moves, OnlyAbout
  <2> QED
    BY <2>2, <2>3
<1>10. \A u \in Stops :
         /\ Rows(u, stop'[u], leg'[u], placed'[u])
         /\ Bounded(stop'[u], leg'[u], placed'[u], LockOf(u) - due'[u])
         /\ u \notin raced => Funded(stop'[u], leg'[u], placed'[u], LockOf(u) - due'[u])
  BY <1>1, <1>7, RowsOfOthers
<1>11. FramesOk' /\ StepOk'
  BY <1>1 DEF FramesOk, StepOk
<1> QED
  BY <1>1, <1>7, <1>8, <1>9, <1>10, <1>11, WorkKeeps

LEMMA IdleFacts ==
  ASSUME IInv, step = "idle"
  PROVE  /\ wrote.stops = {} /\ wrote.legs = {} /\ kept.placed = placed
         /\ fresh = None /\ late = {} /\ frames = <<>> /\ maker = None
         /\ \A u \in Stops : /\ kept.stop[u] = stop[u] /\ kept.leg[u] = leg[u]
                             /\ kept.placed[u] = placed[u]
                             /\ due[u] = 0 /\ LockOf(u) = lock[u]
<1>1. \A u \in Stops : TiedOk(u) /\ u # None
  BY NoneAssumption DEF IInv
<1> QED
  BY <1>1 DEF IInv, IdleOk, TiedOk, StepOk, MakerOk, LockOf

LEMMA EnterKeeps ==
  ASSUME IInv, Enter
  PROVE  IInv'
<1>1. /\ step = "idle"
      /\ UNCHANGED <<stop, leg, placed, lock, fresh, frames, late, due, wrote, kept, canceler, closing, raced>>
  BY DEF Enter, book, others
<1>2. \/ maker' = None /\ step' = "list"
      \/ /\ step' = "match"
         /\ \E s \in Stops :
              \/ Resting(leg[s]) /\ maker' = [on |-> s, order |-> 0, rest |-> Amount - leg[s].filled]
              \/ \E i \in DOMAIN placed[s] :
                   /\ Resting(placed[s][i])
                   /\ maker' = [on |-> s, order |-> i, rest |-> placed[s][i].amount - placed[s][i].filled]
  BY <1>1 DEF Enter
<1>3. fresh = None /\ frames = <<>>
  BY <1>1, IdleFacts
<1>4. MakerOk' /\ maker' \in Makers \cup {None}
  <2>1. CASE maker' = None /\ step' = "list"
    BY <2>1 DEF MakerOk
  <2>2. ASSUME NEW s \in Stops, Resting(leg[s]), step' = "match",
               maker' = [on |-> s, order |-> 0, rest |-> Amount - leg[s].filled]
        PROVE  MakerOk' /\ maker' \in Makers
    <3>1. leg[s] # None /\ leg[s] \in Orders /\ Rows(s, stop[s], leg[s], placed[s])
      BY <2>2, InnerFacts DEF Resting, LegRow
    <3>2. placed[s] = <<>> /\ leg[s].filled \in 0 .. Amount /\ Amount \in Nat
      BY <2>2, <3>1, OrderFields, StopLossAssumption DEF Rows, Resting
    <3>3. maker' \in Makers /\ maker' # None
      <4>1. maker' \in Makers
        BY <2>2, <3>2 DEF Makers, Amounts
      <4> QED
        BY <4>1, NoneAssumption
    <3>4. maker'.on = s /\ maker'.order = 0 /\ maker'.rest = Amount - leg[s].filled
      BY <2>2
    <3> QED
      BY <1>1, <1>3, <2>2, <3>1, <3>2, <3>3, <3>4 DEF MakerOk
  <2>3. ASSUME NEW s \in Stops, NEW i \in DOMAIN placed[s], Resting(placed[s][i]), step' = "match",
               maker' = [on |-> s, order |-> i, rest |-> placed[s][i].amount - placed[s][i].filled]
        PROVE  MakerOk' /\ maker' \in Makers
    <3>1. /\ placed[s] \in Seq(Orders) /\ placed[s][i] \in Orders /\ i \in Nat \ {0}
          /\ placed[s][i].filled <= placed[s][i].amount
      <4>1. placed[s] \in Seq(Orders) /\ Rows(s, stop[s], leg[s], placed[s])
        BY InnerFacts
      <4> QED
        BY <4>1, OrderOf DEF Rows
    <3>2. placed[s][i].filled \in 0 .. Amount /\ placed[s][i].amount \in 0 .. Amount
      BY <3>1, OrderFields
    <3>3. maker' \in Makers /\ maker' # None
      <4>1. placed[s][i].amount - placed[s][i].filled \in Amounts
        BY <3>1, <3>2, StopLossAssumption DEF Amounts
      <4>2. maker' \in Makers
        BY <2>3, <3>1, <4>1 DEF Makers
      <4> QED
        BY <4>2, NoneAssumption
    <3>4. maker'.on = s /\ maker'.order = i /\ maker'.rest = placed[s][i].amount - placed[s][i].filled
      BY <2>3
    <3> QED
      BY <1>1, <1>3, <2>3, <3>1, <3>2, <3>3, <3>4 DEF MakerOk, Resting
  <2> QED
    BY <1>2, <2>1, <2>2, <2>3
<1>5. TypeOK'
  BY <1>1, <1>2, <1>4 DEF IInv, TypeOK
<1>6. ASSUME NEW u \in Stops PROVE InnerOk(u)' /\ KeptOk(u)' /\ TiedOk(u)'
  <2>1. InnerOk(u) /\ KeptOk(u) /\ TiedOk(u) /\ LockOf(u)' = LockOf(u)
    BY <1>1 DEF IInv, LockOf
  <2>2. AtOrder(u)' = AtOrder(u)
    BY <1>1 DEF AtOrder
  <2> QED
    BY <1>1, <2>1, <2>2 DEF InnerOk, KeptOk, TiedOk, Resting
<1>7. IdleOk' /\ FreshOk' /\ FramesOk' /\ StepOk' /\ LaterOk'
  BY <1>1, <1>2, <1>3 DEF IInv, IdleOk, FreshOk, FramesOk, StepOk, LaterOk
<1>8. \A c \in Cancelers : canceler'[c] # None => RequestOk(c)'
  BY <1>1 DEF IInv, RequestOk, Resting
<1> QED
  BY <1>4, <1>5, <1>6, <1>7, <1>8 DEF IInv

LEMMA CreatePairKeeps ==
  ASSUME IInv, NEW s \in Stops, CreatePair(s)
  PROVE  IInv'
<1>1. /\ step = "idle" /\ s \in Pairs /\ leg[s] = None /\ fresh' = s
      /\ wrote' = [wrote EXCEPT !.legs = {s}]
      /\ UNCHANGED <<stop, placed, lock, maker, frames, late, kept, canceler, closing, raced>>
  BY DEF CreatePair, others
<1>2. PICK n \in 0 .. Amount :
        /\ leg' = [leg EXCEPT ![s] = Fill([status |-> "new", filled |-> 0, amount |-> Amount], n)]
        /\ due' = [due EXCEPT ![s] = n]
        /\ step' = IF n = 0 THEN "commit" ELSE "list"
  BY DEF CreatePair, Amounts
<1>3. Amount \in Nat /\ n \in Nat
  BY StopLossAssumption
<1>4. PICK lr : /\ lr \in Orders /\ lr # None /\ lr.filled = n /\ lr.amount = Amount
                /\ leg' = [leg EXCEPT ![s] = lr]
  <2> DEFINE o == [status |-> "new", filled |-> 0, amount |-> Amount]
  <2>1. o \in Orders /\ o.filled = 0 /\ o.amount = Amount
    BY <1>3 DEF Orders, Amounts
  <2>2. leg' = [leg EXCEPT ![s] = Fill(o, n)]
    BY <1>2
  <2> HIDE DEF o
  <2>3. Fill(o, n) \in Orders /\ Fill(o, n).filled = n /\ Fill(o, n).amount = Amount
    BY <1>3, <2>1, FillFields
  <2> QED
    BY <2>2, <2>3, NoneAssumption
<1>5. /\ leg'[s] = lr /\ due'[s] = n
      /\ \A u \in Stops \ {s} : leg'[u] = leg[u] /\ due'[u] = due[u]
  BY <1>2, <1>4 DEF IInv, TypeOK, LegColumn
<1>6. wrote' \in WroteRows /\ wrote'.stops = {} /\ wrote'.legs = {s}
  <2>1. wrote \in WroteRows /\ wrote.stops = {}
    BY <1>1, IdleFacts DEF IInv, TypeOK
  <2> QED
    BY <1>1, <2>1 DEF WroteRows
<1>7. /\ stop[s] = None /\ placed[s] = <<>> /\ fresh = None /\ frames = <<>> /\ maker = None
      /\ s # None
      /\ \A u \in Stops : /\ kept.stop[u] = stop[u] /\ kept.leg[u] = leg[u]
                          /\ kept.placed[u] = placed[u] /\ due[u] = 0
  <2>1. Rows(s, stop[s], leg[s], placed[s])
    BY InnerFacts
  <2> QED
    BY <1>1, <2>1, IdleFacts, NoneAssumption DEF Rows
<1>8. TypeOK'
  <2>1. leg' \in LegColumn
    BY <1>4 DEF IInv, TypeOK, LegColumn
  <2>2. due' \in [Stops -> Nat] /\ step' \in {"commit", "list"} /\ fresh' \in Pairs
    BY <1>1, <1>2, <1>3 DEF IInv, TypeOK
  <2> QED
    BY <1>1, <1>6, <2>1, <2>2 DEF IInv, TypeOK
<1>9. ASSUME NEW u \in Stops PROVE InnerOk(u)'
  <2>1. CASE u = s
    <3>1. LockOf(u)' = Amount
      BY <1>1, <2>1 DEF LockOf
    <3>2. Rows(s, None, lr, <<>>)
      BY <1>1, <1>3, <1>4 DEF Rows
    <3>3. Bounded(None, lr, <<>>, Amount - n)
      BY <1>3, <1>4, TradedNone DEF Bounded, SoldBy
    <3>4. Funded(None, lr, <<>>, Amount - n)
      BY <1>3, <1>4 DEF Funded, Open, Resting
    <3> QED
      BY <1>1, <1>5, <1>7, <2>1, <3>1, <3>2, <3>3, <3>4 DEF InnerOk
  <2>2. CASE u # s
    <3>1. LockOf(u)' = LockOf(u)
      BY <1>1, <1>7, <2>2, NoneAssumption DEF LockOf
    <3>2. InnerOk(u)
      BY DEF IInv
    <3> QED
      BY <1>1, <1>5, <2>2, <3>1, <3>2 DEF InnerOk
  <2> QED
    BY <2>1, <2>2
<1>10. ASSUME NEW u \in Stops PROVE KeptOk(u)'
  <2>1. KeptOk(u)
    BY DEF IInv
  <2> QED
    BY <1>1, <2>1 DEF KeptOk
<1>11. ASSUME NEW u \in Stops PROVE TiedOk(u)'
  <2>1. CASE u = s
    BY <1>1, <1>4, <1>5, <1>6, <1>7, <2>1 DEF TiedOk, Resting
  <2>2. CASE u # s
    BY <1>1, <1>5, <1>6, <1>7, <2>2 DEF TiedOk, Resting
  <2> QED
    BY <2>1, <2>2
<1>12. IdleOk' /\ FreshOk' /\ MakerOk' /\ FramesOk' /\ StepOk' /\ LaterOk'
  BY <1>1, <1>2, <1>4, <1>5, <1>7 DEF IInv, IdleOk, FreshOk, MakerOk, FramesOk, StepOk, LaterOk
<1>13. ASSUME NEW c \in Cancelers, canceler'[c] # None PROVE RequestOk(c)'
  <2>1. canceler'[c] = canceler[c] /\ RequestOk(c) /\ canceler[c] \in Requests
    BY <1>1, <1>13 DEF IInv, TypeOK
  <2>2. PICK u \in Stops : u = canceler[c].on
    BY <2>1 DEF Requests
  <2>3. canceler[c].closed => u \notin wrote'.legs
    BY <1>1, <1>6, <1>7, <2>1, <2>2 DEF RequestOk
  <2>4. canceler[c].marked => u \notin wrote'.stops
    BY <1>6
  <2> QED
    BY <1>1, <2>1, <2>2, <2>3, <2>4, RequestStays
<1> QED
  BY <1>8, <1>9, <1>10, <1>11, <1>12, <1>13 DEF IInv

(* The transaction is rolled back. *)
LEMMA UndoKeeps ==
  ASSUME IInv, Undo, Leaves, UNCHANGED <<canceler, raced>>, closing' \subseteq closing \cup late
  PROVE  IInv'
<1>1. /\ lock' = lock /\ step' = "idle" /\ maker' = None /\ fresh' = None /\ frames' = <<>>
      /\ late' = {} /\ due' = [s \in Stops |-> 0]
      /\ wrote' = [stops |-> {}, legs |-> {}]
      /\ kept' = [stop |-> stop', leg |-> leg', placed |-> placed']
  BY DEF Undo, Leaves
<1>2. \A u \in Stops : stop'[u] = kept.stop[u] /\ leg'[u] = kept.leg[u] /\ placed'[u] = kept.placed[u]
  BY DEF Undo, StopNow, LegNow, IInv, TiedOk
<1>3. \A u \in Stops : /\ kept'.stop[u] = kept.stop[u] /\ kept'.leg[u] = kept.leg[u]
                       /\ kept'.placed[u] = kept.placed[u] /\ due'[u] = 0
  BY <1>1, <1>2
<1>4. kept.stop \in StopColumn /\ kept.leg \in LegColumn /\ kept.placed \in PlacedColumn
  BY DEF IInv, TypeOK
<1>5. stop' \in StopColumn /\ leg' \in LegColumn /\ placed' \in PlacedColumn
  <2>1. /\ \A u \in Stops : kept.stop[u] \in StopRows \cup {None} /\ kept.leg[u] \in Orders \cup {None}
        /\ stop' = [u \in Stops |-> StopNow(u)] /\ leg' = [u \in Stops |-> LegNow(u)]
        /\ placed' = kept.placed
    BY <1>4 DEF StopColumn, LegColumn, Undo
  <2> HIDE DEF StopNow, LegNow
  <2>2. \A u \in Stops : StopNow(u) \in StopRows \cup {None} /\ LegNow(u) \in Orders \cup {None}
    BY <1>2, <2>1
  <2> QED
    BY <1>4, <2>1, <2>2 DEF StopColumn, LegColumn
<1>6. TypeOK'
  <2>1. kept' \in [stop : StopColumn, leg : LegColumn, placed : PlacedColumn]
    BY <1>1, <1>5
  <2>2. closing' \in SUBSET Stops
    BY DEF IInv, TypeOK
  <2>3. frames' \in Seq(Frames) /\ wrote' \in WroteRows /\ due' \in [Stops -> Nat]
    BY <1>1, EmptySeq DEF WroteRows
  <2> QED
    BY <1>1, <1>5, <2>1, <2>2, <2>3 DEF IInv, TypeOK
<1>7. ASSUME NEW u \in Stops PROVE InnerOk(u)' /\ KeptOk(u)'
  <2>1. LockOf(u)' = lock[u] /\ lock[u] - 0 = lock[u]
    BY <1>1, NoneAssumption, InnerFacts DEF LockOf
  <2>2. KeptOk(u)
    BY DEF IInv
  <2>3. LockOf(u)' - due'[u] = lock[u]
    BY <1>3, <2>1
  <2> QED
    BY <1>1, <1>2, <1>3, <2>2, <2>3 DEF InnerOk, KeptOk
<1>8. ASSUME NEW u \in Stops PROVE TiedOk(u)'
  BY <1>1, <1>2, <1>3 DEF TiedOk, Resting
<1>9. IdleOk' /\ FreshOk' /\ MakerOk' /\ FramesOk' /\ StepOk'
  BY <1>1 DEF IdleOk, FreshOk, MakerOk, FramesOk, StepOk
<1>10. LaterOk'
  BY <1>1, <1>3, <1>6 DEF IInv, LaterOk, TypeOK
<1>11. ASSUME NEW c \in Cancelers, canceler'[c] # None PROVE RequestOk(c)'
  <2>1. canceler'[c] = canceler[c] /\ RequestOk(c) /\ canceler[c] \in Requests
    BY <1>11 DEF IInv, TypeOK
  <2>2. PICK u \in Stops : u = canceler[c].on
    BY <2>1 DEF Requests
  <2>3. u \notin wrote'.stops /\ u \notin wrote'.legs
    BY <1>1
  <2> QED
    BY <1>3, <2>1, <2>2, <2>3, RequestStays DEF Resting
<1> QED
  BY <1>6, <1>7, <1>8, <1>9, <1>10, <1>11 DEF IInv

LEMMA FailsKeeps ==
  ASSUME IInv, Fails
  PROVE  IInv'
<1>1. Undo /\ Leaves /\ UNCHANGED <<canceler, raced>> /\ closing' \subseteq closing \cup late
  BY DEF Fails, others
<1> QED
  BY <1>1, UndoKeeps

LEMMA CommitKeeps ==
  ASSUME IInv, Commit
  PROVE  IInv'
<1>1. /\ step = "commit" /\ frames = <<>> /\ closing' = closing \cup late /\ Leaves
      /\ UNCHANGED <<canceler, raced>>
  BY DEF Commit, IInv, StepOk
<1>2. CASE ~ \A s \in Stops : due[s] <= LockOf(s)
  <2>1. Undo /\ closing' \subseteq closing \cup late
    BY <1>1, <1>2 DEF Commit
  <2> QED
    BY <1>1, <2>1, UndoKeeps
<1>3. CASE \A s \in Stops : due[s] <= LockOf(s)
  <2> DEFINE row == OcoStop
  <2>1. /\ lock' = [s \in Stops |-> LockOf(s) - due[s]]
        /\ stop' = IF fresh # None /\ leg[fresh].filled = 0 THEN [stop EXCEPT ![fresh] = row] ELSE stop
        /\ UNCHANGED <<leg, placed>>
    BY <1>3 DEF Commit
  <2>2. /\ step' = "idle" /\ maker' = None /\ fresh' = None /\ frames' = <<>>
        /\ late' = {} /\ due' = [s \in Stops |-> 0]
        /\ wrote' = [stops |-> {}, legs |-> {}]
        /\ kept' = [stop |-> stop', leg |-> leg', placed |-> placed']
    BY <1>1 DEF Leaves
  <2>3. row \in StopRows /\ row # None /\ row.filled = 0 /\ row.priced /\ ~ row.canceled
    <3>1. row \in StopRows
      BY DEF StopRows, OcoStop
    <3> QED
      BY <3>1, NoneAssumption DEF OcoStop
  <2> HIDE DEF row
  <2>4. ASSUME NEW u \in Stops
        PROVE  \/ stop'[u] = stop[u]
               \/ /\ u = fresh /\ fresh # None /\ stop[u] = None /\ stop'[u] = row
                  /\ leg[u] # None /\ leg[u].filled = 0 /\ due[u] = 0
    BY <2>1 DEF IInv, TypeOK, StopColumn, FreshOk
  <2>5. stop' \in StopColumn
    BY <2>1, <2>3 DEF IInv, TypeOK, StopColumn
  <2>6. \A u \in Stops : lock'[u] = LockOf(u) - due[u] /\ lock'[u] \in Nat
    <3> TAKE u \in Stops
    <3>1. due[u] \in Nat /\ LockOf(u) - due[u] \in Int /\ lock[u] \in Nat /\ Amount \in Nat
      BY InnerFacts, StopLossAssumption
    <3>2. LockOf(u) \in Nat /\ due[u] <= LockOf(u)
      BY <1>3, <3>1 DEF LockOf
    <3> QED
      BY <2>1, <3>1, <3>2
  <2>7. TypeOK'
    <3>1. lock' \in [Stops -> Nat]
      <4>1. DOMAIN lock' = Stops /\ lock' = [u \in Stops |-> lock'[u]]
        BY <2>1
      <4> QED
        BY <2>6, <4>1
    <3>2. leg' \in LegColumn /\ placed' \in PlacedColumn
      BY <2>1 DEF IInv, TypeOK
    <3>3. kept' \in [stop : StopColumn, leg : LegColumn, placed : PlacedColumn]
      BY <2>2, <2>5, <3>2
    <3>4. frames' \in Seq(Frames) /\ wrote' \in WroteRows /\ due' \in [Stops -> Nat]
      BY <2>2, EmptySeq DEF WroteRows
    <3>5. closing' \in SUBSET Stops
      BY <1>1 DEF IInv, TypeOK
    <3> QED
      BY <1>1, <2>2, <2>5, <3>1, <3>2, <3>3, <3>4, <3>5 DEF IInv, TypeOK
  <2>8. ASSUME NEW u \in Stops
        PROVE  /\ Rows(u, stop'[u], leg[u], placed[u])
               /\ Bounded(stop'[u], leg[u], placed[u], LockOf(u) - due[u])
               /\ u \notin raced => Funded(stop'[u], leg[u], placed[u], LockOf(u) - due[u])
    <3>1. CASE stop'[u] = stop[u]
      BY <3>1, InnerFacts
    <3>2. CASE /\ u = fresh /\ fresh # None /\ stop[u] = None /\ stop'[u] = row
               /\ leg[u] # None /\ leg[u].filled = 0 /\ due[u] = 0
      <4>1. /\ Rows(u, None, leg[u], placed[u])
            /\ Bounded(None, leg[u], placed[u], LockOf(u) - due[u])
            /\ u \notin raced => Funded(None, leg[u], placed[u], LockOf(u) - due[u])
        BY <3>2, InnerFacts
      <4>2. placed[u] = <<>> /\ u \in Pairs
        BY <3>2, <4>1 DEF Rows
      <4>3. Rows(u, row, leg[u], placed[u])
        BY <2>3, <3>2, <4>1, <4>2 DEF Rows, Resting
      <4>4. Bounded(row, leg[u], placed[u], LockOf(u) - due[u])
        BY <4>1, <4>2 DEF Bounded
      <4>5. LockOf(u) - due[u] = Amount
        BY <3>2, StopLossAssumption DEF LockOf
      <4>6. u \notin raced => Funded(row, leg[u], placed[u], LockOf(u) - due[u])
        BY <4>1, <4>2, <4>5 DEF Funded, Resting, Open
      <4> QED
        BY <3>2, <4>3, <4>4, <4>6
    <3> QED
      BY <2>4, <3>1, <3>2
  <2>9. ASSUME NEW u \in Stops PROVE InnerOk(u)' /\ KeptOk(u)'
    <3>1. LockOf(u)' = lock'[u] /\ due'[u] = 0 /\ lock'[u] - 0 = lock'[u]
      BY <2>2, <2>6, NoneAssumption DEF LockOf
    <3>2. LockOf(u)' - due'[u] = LockOf(u) - due[u] /\ lock'[u] = LockOf(u) - due[u]
      BY <2>6, <3>1
    <3>3. raced' = raced /\ leg' = leg /\ placed' = placed
          /\ kept'.stop = stop' /\ kept'.leg = leg' /\ kept'.placed = placed'
      BY <1>1, <2>1, <2>2
    <3> QED
      BY <2>8, <3>2, <3>3 DEF InnerOk, KeptOk
  <2>10. \A u \in Stops : TiedOk(u)'
    BY <2>2 DEF TiedOk, Resting
  <2>11. IdleOk' /\ FreshOk' /\ MakerOk' /\ FramesOk' /\ StepOk'
    BY <2>2 DEF IdleOk, FreshOk, MakerOk, FramesOk, StepOk
  <2>12. ASSUME NEW u \in Stops
         PROVE  /\ kept.stop[u] # None =>
                     kept'.stop[u] # None /\ (kept.stop[u].canceled => kept'.stop[u].canceled)
                /\ kept.leg[u] # None /\ kept.stop[u] = None => kept'.stop[u] = None
                /\ kept.leg[u] # None => kept'.leg[u] # None
                /\ kept.stop[u] # None /\ Resting(kept'.leg[u]) => Resting(kept.leg[u])
                /\ u \notin wrote.stops => kept'.placed[u] = kept.placed[u]
    <3>1. TiedOk(u) /\ (fresh # None => stop[fresh] = None /\ kept.leg[fresh] = None)
      BY DEF IInv, FreshOk
    <3>2. kept'.stop[u] = stop'[u] /\ kept'.leg[u] = leg[u] /\ kept'.placed[u] = placed[u]
      BY <2>1, <2>2
    <3>3. ~ AtOrder(u)
      BY <1>1 DEF AtOrder
    <3> QED
      BY <2>4, <3>1, <3>2, <3>3, NoneAssumption DEF TiedOk, Resting
  <2>13. LaterOk'
    <3>1. \A u \in late' \cup closing' : u \in late \cup closing /\ u \in Stops
      BY <1>1, <2>2 DEF IInv, TypeOK
    <3> QED
      BY <2>12, <3>1 DEF IInv, LaterOk
  <2>14. ASSUME NEW c \in Cancelers, canceler'[c] # None PROVE RequestOk(c)'
    <3>1. canceler'[c] = canceler[c] /\ RequestOk(c) /\ canceler[c] \in Requests
      BY <1>1, <2>14 DEF IInv, TypeOK
    <3>2. PICK u \in Stops : u = canceler[c].on
      BY <3>1 DEF Requests
    <3>3. u \notin wrote'.stops /\ u \notin wrote'.legs
      BY <2>2
    <3>4. canceler[c].marked => kept'.placed[u] = kept.placed[u]
      BY <2>12, <3>1, <3>2 DEF RequestOk
    <3> QED
      BY <2>12, <3>1, <3>2, <3>3, <3>4, RequestStays DEF Resting
  <2> QED
    BY <2>7, <2>9, <2>10, <2>11, <2>13, <2>14 DEF IInv
<1> QED
  BY <1>2, <1>3

-----------------------------------------------------------------------------
(* The steps of everybody else.                                               *)

(* Nothing of it needs the lock. *)
Settled(st, lg, pl) ==
  Len(pl) <= 1 =>
    /\ ~ Resting(lg) /\ (st = None \/ st.canceled)
    /\ \A i \in DOMAIN pl : ~ Resting(pl[i])

(* Rows of s that the transaction has not written are canceled.  What is      *)
(* released of the lock is missed by nobody, or s is in raced.                *)
Yields(s, sr, lr, pr, left) ==
  /\ stop' = [stop EXCEPT ![s] = sr] /\ leg' = [leg EXCEPT ![s] = lr]
  /\ placed' = [placed EXCEPT ![s] = pr] /\ lock' = [lock EXCEPT ![s] = left]
  /\ CanceledStop(stop[s], sr) /\ (sr = stop[s] \/ s \notin wrote.stops)
  /\ CanceledOrder(leg[s], lr) /\ (lr = leg[s] \/ s \notin wrote.legs)
  /\ CanceledOrders(placed[s], pr) /\ (pr = placed[s] \/ step = "idle")
  /\ left \in Nat /\ left <= lock[s]
  /\ raced \subseteq raced' /\ raced' \in SUBSET Stops
  /\ \/ left = lock[s] \/ s \in raced'
     \/ /\ ~ AtWork(s)
        /\ Settled(sr, lr, pr) /\ Settled(kept'.stop[s], kept'.leg[s], kept'.placed[s])

(* What the rows of u become, for the transaction or for the others. *)
LEMMA CancelSettles ==
  ASSUME NEW u \in Stops, NEW st, Row(st), NEW lg, LegRow(lg), NEW pl \in Seq(Orders),
         NEW sr, CanceledStop(st, sr), NEW lr, CanceledOrder(lg, lr),
         NEW pr, CanceledOrders(pl, pr), NEW free \in Int, NEW left \in Int, left <= free,
         Rows(u, st, lg, pl), Bounded(st, lg, pl, free), u \notin raced => Funded(st, lg, pl, free),
         raced \subseteq raced',
         left = free \/ u \in raced' \/ Settled(sr, lr, pr)
  PROVE  /\ Rows(u, sr, lr, pr) /\ Bounded(sr, lr, pr, left)
         /\ u \notin raced' => Funded(sr, lr, pr, left)
<1>1. /\ Rows(u, sr, lr, pr) /\ Bounded(sr, lr, pr, left)
      /\ Funded(st, lg, pl, free) /\ left = free => Funded(sr, lr, pr, left)
  BY CancelKeeps
<1>2. CASE left = free
  BY <1>1, <1>2
<1>3. CASE u \in raced'
  BY <1>1, <1>3
<1>4. CASE Settled(sr, lr, pr)
  <2>1. Funded(sr, lr, pr, left)
    BY <1>4 DEF Settled, Funded, Open, Resting
  <2> QED
    BY <1>1, <2>1
<1> QED
  BY <1>2, <1>3, <1>4

LEMMA YieldRows ==
  ASSUME IInv, Committed, UNCHANGED <<step, wrote>>,
         NEW s \in Stops, NEW sr, NEW lr, NEW pr, NEW left, Yields(s, sr, lr, pr, left),
         NEW u \in Stops
  PROVE  /\ CanceledStop(stop[u], stop'[u]) /\ (stop'[u] = stop[u] \/ u \notin wrote.stops)
         /\ CanceledOrder(leg[u], leg'[u]) /\ (leg'[u] = leg[u] \/ u \notin wrote.legs)
         /\ CanceledOrders(placed[u], placed'[u]) /\ (placed'[u] = placed[u] \/ step = "idle")
         /\ CanceledStop(kept.stop[u], kept'.stop[u])
         /\ CanceledOrder(kept.leg[u], kept'.leg[u])
         /\ CanceledOrders(kept.placed[u], kept'.placed[u])
         /\ kept'.stop[u] = IF u \in wrote.stops THEN kept.stop[u] ELSE stop'[u]
         /\ kept'.leg[u] = IF u \in wrote.legs THEN kept.leg[u] ELSE leg'[u]
         /\ kept'.placed[u] = IF step = "idle" THEN placed'[u] ELSE kept.placed[u]
         /\ lock'[u] \in Nat /\ lock'[u] <= lock[u]
         /\ \/ lock'[u] = lock[u] \/ u \in raced'
            \/ /\ ~ AtWork(u)
               /\ Settled(stop'[u], leg'[u], placed'[u])
               /\ Settled(kept'.stop[u], kept'.leg[u], kept'.placed[u])
<1>1. TiedOk(u) /\ stop \in StopColumn /\ leg \in LegColumn /\ placed \in PlacedColumn
      /\ lock \in [Stops -> Nat] /\ placed[u] \in Seq(Orders) /\ kept.placed[u] \in Seq(Orders)
  BY DEF IInv, TypeOK, PlacedColumn
<1>2. \/ stop'[u] = stop[u] /\ leg'[u] = leg[u] /\ placed'[u] = placed[u] /\ lock'[u] = lock[u]
      \/ u = s /\ stop'[u] = sr /\ leg'[u] = lr /\ placed'[u] = pr /\ lock'[u] = left
  BY <1>1 DEF Yields, StopColumn, LegColumn, PlacedColumn
<1>3. /\ kept'.stop[u] = IF u \in wrote.stops THEN kept.stop[u] ELSE stop'[u]
      /\ kept'.leg[u] = IF u \in wrote.legs THEN kept.leg[u] ELSE leg'[u]
      /\ kept'.placed[u] = IF step = "idle" THEN placed'[u] ELSE kept.placed[u]
  BY DEF Committed
<1>4. CanceledOrders(placed[u], placed[u]) /\ CanceledOrders(kept.placed[u], kept.placed[u])
  BY <1>1 DEF CanceledOrders, CanceledOrder
<1>5. /\ CanceledStop(stop[u], stop'[u]) /\ (stop'[u] = stop[u] \/ u \notin wrote.stops)
      /\ CanceledOrder(leg[u], leg'[u]) /\ (leg'[u] = leg[u] \/ u \notin wrote.legs)
      /\ CanceledOrders(placed[u], placed'[u]) /\ (placed'[u] = placed[u] \/ step = "idle")
  <2>1. CASE stop'[u] = stop[u] /\ leg'[u] = leg[u] /\ placed'[u] = placed[u]
    BY <1>4, <2>1 DEF CanceledStop, CanceledOrder
  <2>2. CASE u = s /\ stop'[u] = sr /\ leg'[u] = lr /\ placed'[u] = pr
    BY <2>2 DEF Yields
  <2> QED
    BY <1>2, <2>1, <2>2
<1>6. /\ CanceledStop(kept.stop[u], kept'.stop[u])
      /\ CanceledOrder(kept.leg[u], kept'.leg[u])
  BY <1>1, <1>3, <1>5 DEF TiedOk, CanceledStop, CanceledOrder
<1>7. CanceledOrders(kept.placed[u], kept'.placed[u])
  BY <1>3, <1>4, <1>5, IdleFacts
<1>8. lock'[u] \in Nat /\ lock'[u] <= lock[u]
  BY <1>1, <1>2 DEF Yields
<1>9. \/ lock'[u] = lock[u] \/ u \in raced'
      \/ /\ ~ AtWork(u)
         /\ Settled(stop'[u], leg'[u], placed'[u])
         /\ Settled(kept'.stop[u], kept'.leg[u], kept'.placed[u])
  BY <1>2 DEF Yields
<1> QED
  BY <1>3, <1>5, <1>6, <1>7, <1>8, <1>9

LEMMA YieldKeeps ==
  ASSUME IInv, ByOthers, NEW s \in Stops, NEW sr, NEW lr, NEW pr, NEW left,
         Yields(s, sr, lr, pr, left),
         canceler' \in [Cancelers -> Requests \cup {None}], closing' \subseteq closing,
         \A c \in Cancelers : canceler'[c] # None /\ canceler'[c] # canceler[c] => RequestOk(c)'
  PROVE  IInv'
<1>1. Committed /\ UNCHANGED <<step, maker, fresh, frames, late, due, wrote>>
      /\ UNCHANGED <<step, wrote>> /\ raced \subseteq raced'
  BY DEF ByOthers, Yields
<1>2. ASSUME NEW u \in Stops
      PROVE  /\ Row(stop[u]) /\ Row(kept.stop[u]) /\ LegRow(leg[u]) /\ LegRow(kept.leg[u])
             /\ placed[u] \in Seq(Orders) /\ kept.placed[u] \in Seq(Orders)
             /\ Row(stop'[u]) /\ Row(kept'.stop[u]) /\ LegRow(leg'[u]) /\ LegRow(kept'.leg[u])
             /\ placed'[u] \in Seq(Orders) /\ kept'.placed[u] \in Seq(Orders)
             /\ (stop'[u] = None <=> stop[u] = None) /\ (leg'[u] = None <=> leg[u] = None)
             /\ leg[u] # None => leg'[u].filled = leg[u].filled /\ leg'[u].amount = leg[u].amount
             /\ Resting(leg'[u]) => Resting(leg[u])
             /\ (kept'.stop[u] = None <=> kept.stop[u] = None) /\ (kept'.leg[u] = None <=> kept.leg[u] = None)
             /\ Resting(kept'.leg[u]) => Resting(kept.leg[u])
             /\ stop[u] # None => (stop[u].canceled => stop'[u].canceled)
             /\ kept.stop[u] # None => (kept.stop[u].canceled => kept'.stop[u].canceled)
             /\ Len(placed'[u]) = Len(placed[u]) /\ Len(kept'.placed[u]) = Len(kept.placed[u])
             /\ DOMAIN placed'[u] = DOMAIN placed[u] /\ DOMAIN kept'.placed[u] = DOMAIN kept.placed[u]
             /\ (placed'[u] = <<>> <=> placed[u] = <<>>) /\ (kept'.placed[u] = <<>> <=> kept.placed[u] = <<>>)
  <2>1. Row(stop[u]) /\ Row(kept.stop[u]) /\ LegRow(leg[u]) /\ LegRow(kept.leg[u])
        /\ placed[u] \in Seq(Orders) /\ kept.placed[u] \in Seq(Orders)
    BY DEF IInv, TypeOK, StopColumn, LegColumn, PlacedColumn, Row, LegRow
  <2>2. PICK tr, kr, mr, nr, qr, pk :
          /\ tr = stop'[u] /\ kr = kept'.stop[u] /\ mr = leg'[u] /\ nr = kept'.leg[u]
          /\ qr = placed'[u] /\ pk = kept'.placed[u]
          /\ CanceledStop(stop[u], tr) /\ CanceledStop(kept.stop[u], kr)
          /\ CanceledOrder(leg[u], mr) /\ CanceledOrder(kept.leg[u], nr)
          /\ CanceledOrders(placed[u], qr) /\ CanceledOrders(kept.placed[u], pk)
    BY <1>1, YieldRows
  <2>3. /\ Row(tr) /\ (tr = None <=> stop[u] = None)
        /\ stop[u] # None => (stop[u].canceled => tr.canceled)
    BY <2>1, <2>2, CanceledRow
  <2>4. /\ Row(kr) /\ (kr = None <=> kept.stop[u] = None)
        /\ kept.stop[u] # None => (kept.stop[u].canceled => kr.canceled)
    BY <2>1, <2>2, CanceledRow
  <2>5. /\ LegRow(mr) /\ (mr = None <=> leg[u] = None)
        /\ leg[u] # None => mr.filled = leg[u].filled /\ mr.amount = leg[u].amount
        /\ Resting(mr) => Resting(leg[u])
    BY <2>1, <2>2, CanceledLeg
  <2>6. /\ LegRow(nr) /\ (nr = None <=> kept.leg[u] = None)
        /\ Resting(nr) => Resting(kept.leg[u])
    BY <2>1, <2>2, CanceledLeg
  <2>7. /\ qr \in Seq(Orders) /\ Len(qr) = Len(placed[u]) /\ DOMAIN qr = DOMAIN placed[u]
        /\ (qr = <<>> <=> placed[u] = <<>>)
    BY <2>1, <2>2, LenProperties, EmptySeq DEF CanceledOrders
  <2>8. /\ pk \in Seq(Orders) /\ Len(pk) = Len(kept.placed[u]) /\ DOMAIN pk = DOMAIN kept.placed[u]
        /\ (pk = <<>> <=> kept.placed[u] = <<>>)
    BY <2>1, <2>2, LenProperties, EmptySeq DEF CanceledOrders
  <2> QED
    BY <2>1, <2>2, <2>3, <2>4, <2>5, <2>6, <2>7, <2>8 DEF Resting
<1>3. TypeOK'
  <2>1. stop' \in StopColumn /\ leg' \in LegColumn /\ placed' \in PlacedColumn
    <3>1. /\ stop' = [u \in Stops |-> stop'[u]] /\ leg' = [u \in Stops |-> leg'[u]]
          /\ placed' = [u \in Stops |-> placed'[u]]
      BY DEF Yields, IInv, TypeOK, StopColumn, LegColumn, PlacedColumn
    <3> QED
      BY <1>2, <3>1 DEF StopColumn, LegColumn, PlacedColumn, Row, LegRow
  <2>2. kept' \in [stop : StopColumn, leg : LegColumn, placed : PlacedColumn]
    <3>1. /\ kept'.stop \in StopColumn /\ kept'.leg \in LegColumn
      <4>1. /\ kept'.stop = [u \in Stops |-> kept'.stop[u]] /\ kept'.leg = [u \in Stops |-> kept'.leg[u]]
        BY DEF ByOthers, Committed
      <4> QED
        BY <1>2, <4>1 DEF StopColumn, LegColumn, Row, LegRow
    <3>2. kept'.placed \in PlacedColumn
      BY <2>1 DEF ByOthers, Committed, IInv, TypeOK
    <3>3. kept' = [stop |-> kept'.stop, leg |-> kept'.leg, placed |-> kept'.placed]
      BY DEF ByOthers, Committed
    <3> QED
      BY <3>1, <3>2, <3>3
  <2>3. lock' \in [Stops -> Nat] /\ raced' \in SUBSET Stops /\ closing' \in SUBSET Stops
    BY DEF Yields, IInv, TypeOK
  <2> QED
    BY <1>1, <2>1, <2>2, <2>3 DEF IInv, TypeOK
<1>4. ASSUME NEW u \in Stops PROVE InnerOk(u)'
  <2>1. PICK tr, mr, qr, was, less :
          /\ tr = stop'[u] /\ mr = leg'[u] /\ qr = placed'[u]
          /\ was = LockOf(u) - due[u] /\ less = LockOf(u)' - due'[u]
    OBVIOUS
  <2>2. /\ CanceledStop(stop[u], tr) /\ CanceledOrder(leg[u], mr) /\ CanceledOrders(placed[u], qr)
        /\ lock'[u] \in Nat /\ lock'[u] <= lock[u]
        /\ lock'[u] = lock[u] \/ u \in raced' \/ Settled(tr, mr, qr)
    BY <1>1, <2>1, YieldRows
  <2>3. was \in Int /\ less \in Int /\ less <= was
        /\ (less = was \/ u \in raced' \/ Settled(tr, mr, qr))
    <3>1. LockOf(u)' = IF u = fresh THEN Amount ELSE lock'[u]
      BY <1>1 DEF LockOf
    <3>2. due[u] \in Nat /\ lock[u] \in Nat /\ due'[u] = due[u] /\ Amount \in Nat
      BY <1>1, InnerFacts, StopLossAssumption
    <3> QED
      BY <2>1, <2>2, <3>1, <3>2 DEF LockOf
  <2>4. /\ Rows(u, stop[u], leg[u], placed[u]) /\ Bounded(stop[u], leg[u], placed[u], was)
        /\ u \notin raced => Funded(stop[u], leg[u], placed[u], was)
    BY <2>1, InnerFacts
  <2>5. /\ Rows(u, tr, mr, qr) /\ Bounded(tr, mr, qr, less)
        /\ u \notin raced' => Funded(tr, mr, qr, less)
    BY <1>1, <1>2, <2>2, <2>3, <2>4, CancelSettles
  <2> QED
    BY <2>1, <2>5 DEF InnerOk
<1>5. ASSUME NEW u \in Stops PROVE KeptOk(u)'
  <2>1. PICK tr, mr, qr :
          /\ tr = kept'.stop[u] /\ mr = kept'.leg[u] /\ qr = kept'.placed[u]
    OBVIOUS
  <2>2. /\ CanceledStop(kept.stop[u], tr) /\ CanceledOrder(kept.leg[u], mr)
        /\ CanceledOrders(kept.placed[u], qr)
        /\ lock'[u] \in Int /\ lock'[u] <= lock[u]
        /\ lock'[u] = lock[u] \/ u \in raced' \/ Settled(tr, mr, qr)
    BY <1>1, <2>1, YieldRows
  <2>3. lock[u] \in Int
    BY InnerFacts
  <2>4. /\ Rows(u, kept.stop[u], kept.leg[u], kept.placed[u])
        /\ Bounded(kept.stop[u], kept.leg[u], kept.placed[u], lock[u])
        /\ u \notin raced => Funded(kept.stop[u], kept.leg[u], kept.placed[u], lock[u])
    BY DEF IInv, KeptOk
  <2>5. PICK now : now = lock'[u]
    OBVIOUS
  <2>6. /\ Rows(u, tr, mr, qr) /\ Bounded(tr, mr, qr, now)
        /\ u \notin raced' => Funded(tr, mr, qr, now)
    BY <1>1, <1>2, <2>2, <2>3, <2>4, <2>5, CancelSettles
  <2> QED
    BY <2>1, <2>5, <2>6 DEF KeptOk
<1>6. ASSUME NEW u \in Stops PROVE TiedOk(u)'
  <2>1. TiedOk(u) /\ AtOrder(u)' = AtOrder(u)
    BY <1>1 DEF IInv, AtOrder
  <2>2. step = "idle" => wrote.stops = {} /\ wrote.legs = {}
    BY IdleFacts
  <2>3. /\ stop'[u] = stop[u] \/ u \notin wrote.stops
        /\ leg'[u] = leg[u] \/ u \notin wrote.legs
        /\ placed'[u] = placed[u] \/ step = "idle"
        /\ kept'.stop[u] = IF u \in wrote.stops THEN kept.stop[u] ELSE stop'[u]
        /\ kept'.leg[u] = IF u \in wrote.legs THEN kept.leg[u] ELSE leg'[u]
        /\ kept'.placed[u] = IF step = "idle" THEN placed'[u] ELSE kept.placed[u]
    BY <1>1, YieldRows
  <2> QED
    BY <1>1, <1>2, <2>1, <2>2, <2>3 DEF TiedOk, Resting
<1>7. IdleOk' /\ FreshOk'
  <2>1. IdleOk'
    BY <1>1 DEF IInv, IdleOk, Committed
  <2>2. fresh # None => fresh \in Stops
    BY StopLossAssumption DEF IInv, TypeOK
  <2>3. FreshOk'
    BY <1>1, <1>2, <2>2 DEF IInv, FreshOk
  <2> QED
    BY <2>1, <2>3
<1>8. MakerOk'
  <2>1. maker # None => maker.on \in Stops
    BY DEF IInv, TypeOK, Makers
  <2>2. step = "match" => \A u \in Stops : placed'[u] = placed[u]
    BY <1>1, YieldRows
  <2> QED
    BY <1>1, <1>2, <2>1, <2>2 DEF IInv, MakerOk, Resting
<1>9. ASSUME NEW u \in Stops PROVE Grows(u)
  <2>1. lock'[u] = lock[u] \/ u \in raced' \/ ~ AtWork(u)
    BY <1>1, YieldRows
  <2> QED
    BY <1>1, <1>2, <2>1 DEF Grows, Resting
<1>10. FramesOk' /\ StepOk'
  <2>1. ASSUME NEW i \in DOMAIN frames PROVE FrameOk(i)'
    <3>1. /\ frames'[i].rest \subseteq frames[i].rest /\ frames'[i].legs \subseteq frames[i].legs
          /\ \A u \in frames[i].legs : u \in frames'[i].legs \/ ~ Resting(leg'[u])
          /\ frames'[i].at \in {None, frames[i].at} /\ i \in DOMAIN frames'
          /\ \A u \in frames'[i].late : u \in frames[i].late \/ stop'[u] # None
      BY <1>1
    <3>2. TypeOK /\ FramesOk
      BY DEF IInv
    <3> QED
      BY <1>1, <1>3, <1>9, <3>1, <3>2, FrameStays
  <2> QED
    BY <1>1, <2>1 DEF IInv, FramesOk, StepOk, Top
<1>11. LaterOk'
  <2>1. \A u \in late' \cup closing' : u \in late \cup closing /\ u \in Stops
    BY <1>1 DEF IInv, TypeOK
  <2> QED
    BY <1>2, <2>1 DEF IInv, LaterOk
<1>12. ASSUME NEW c \in Cancelers, canceler'[c] # None PROVE RequestOk(c)'
  <2> SUFFICES ASSUME canceler'[c] = canceler[c] PROVE RequestOk(c)'
    BY <1>12
  <2>1. RequestOk(c) /\ canceler[c] \in Requests
    BY <1>12 DEF IInv, TypeOK
  <2>2. PICK u \in Stops : u = canceler[c].on
    BY <2>1 DEF Requests
  <2>3. /\ canceler[c].marked => u \notin wrote'.stops
        /\ canceler[c].closed => u \notin wrote'.legs
    BY <1>1, <2>1, <2>2 DEF RequestOk
  <2> QED
    BY <1>2, <2>1, <2>2, <2>3, RequestStays DEF Resting
<1> QED
  BY <1>3, <1>4, <1>5, <1>6, <1>7, <1>8, <1>10, <1>11, <1>12 DEF IInv

(* The rows as they are. *)
LEMMA StaysAsIs ==
  ASSUME IInv, NEW s \in Stops
  PROVE  /\ stop = [stop EXCEPT ![s] = stop[s]] /\ leg = [leg EXCEPT ![s] = leg[s]]
         /\ placed = [placed EXCEPT ![s] = placed[s]] /\ lock = [lock EXCEPT ![s] = lock[s]]
         /\ CanceledStop(stop[s], stop[s]) /\ CanceledOrder(leg[s], leg[s])
         /\ CanceledOrders(placed[s], placed[s])
         /\ lock[s] \in Nat /\ raced \in SUBSET Stops
         /\ TiedOk(s) /\ (stop[s] # None => s # fresh) /\ s # None
<1>1. placed[s] \in Seq(Orders)
  BY InnerFacts
<1> QED
  BY <1>1, NoneAssumption
  DEF IInv, TypeOK, StopColumn, LegColumn, PlacedColumn, CanceledStop, CanceledOrder, CanceledOrders, FreshOk

(* A row is canceled. *)
LEMMA StopCanceled ==
  ASSUME IInv, NEW s \in Stops, stop[s] # None, stop' = [stop EXCEPT ![s].canceled = TRUE]
  PROVE  \E sr : /\ stop' = [stop EXCEPT ![s] = sr] /\ CanceledStop(stop[s], sr)
                 /\ sr # None /\ sr.canceled
<1>1. stop[s] \in StopRows /\ stop \in StopColumn
  BY DEF IInv, TypeOK, StopColumn
<1>2. PICK st : st = stop[s] /\ st \in StopRows
  BY <1>1
<1> DEFINE sr == [st EXCEPT !.canceled = TRUE]
<1>3. sr \in StopRows /\ sr.canceled
  BY <1>2 DEF StopRows
<1>4. stop' = [stop EXCEPT ![s] = sr]
  BY <1>1, <1>2 DEF StopColumn
<1> QED
  BY <1>2, <1>3, <1>4, NoneAssumption DEF CanceledStop

LEMMA LegCanceled ==
  ASSUME IInv, NEW s \in Stops, leg[s] # None, leg' = [leg EXCEPT ![s].status = "canceled"]
  PROVE  \E lr : /\ leg' = [leg EXCEPT ![s] = lr] /\ CanceledOrder(leg[s], lr) /\ ~ Resting(lr)
<1>1. leg[s] \in Orders /\ leg \in LegColumn
  BY DEF IInv, TypeOK, LegColumn
<1>2. PICK lg : lg = leg[s] /\ lg \in Orders
  BY <1>1
<1> DEFINE lr == [lg EXCEPT !.status = "canceled"]
<1>3. lr.status = "canceled"
  BY <1>2 DEF Orders
<1>4. leg' = [leg EXCEPT ![s] = lr]
  BY <1>1, <1>2 DEF LegColumn
<1> QED
  BY <1>2, <1>3, <1>4 DEF CanceledOrder, Resting

LEMMA CloseKeeps ==
  ASSUME IInv, NEW s \in Stops, Close(s)
  PROVE  IInv'
<1>1. /\ s \in closing /\ closing' = closing \ {s} /\ ByOthers
      /\ UNCHANGED <<leg, placed, lock, canceler, raced>>
      /\ \/ s \notin wrote.stops /\ stop' = [stop EXCEPT ![s].canceled = TRUE]
         \/ UNCHANGED stop
  BY DEF Close
<1>2. stop[s] # None
  BY <1>1 DEF IInv, LaterOk, TiedOk
<1>3. PICK sr : /\ stop' = [stop EXCEPT ![s] = sr] /\ CanceledStop(stop[s], sr)
                /\ sr = stop[s] \/ s \notin wrote.stops
  <2>1. CASE UNCHANGED stop
    BY <2>1, StaysAsIs
  <2>2. CASE s \notin wrote.stops /\ stop' = [stop EXCEPT ![s].canceled = TRUE]
    BY <1>2, <2>2, StopCanceled
  <2> QED
    BY <1>1, <2>1, <2>2
<1>4. Yields(s, sr, leg[s], placed[s], lock[s])
  BY <1>1, <1>3, StaysAsIs DEF Yields
<1>5. canceler' \in [Cancelers -> Requests \cup {None}]
  BY <1>1 DEF IInv, TypeOK
<1> QED
  BY <1>1, <1>4, <1>5, YieldKeeps

(* A step that changes nothing but the request of c. *)
LEMMA AsksKeep ==
  ASSUME IInv, NEW c \in Cancelers, NEW r \in Requests \cup {None},
         canceler' = [canceler EXCEPT ![c] = r],
         UNCHANGED <<book, lock, match, closing, raced>>,
         r # None => RequestOk(c)'
  PROVE  IInv'
<1>1. UNCHANGED <<stop, leg, placed, lock, step, maker, fresh, frames, late, due, wrote, kept, closing, raced>>
  BY DEF book, match
<1>2. TypeOK'
  BY <1>1 DEF IInv, TypeOK
<1>3. ASSUME NEW u \in Stops PROVE InnerOk(u)' /\ KeptOk(u)' /\ TiedOk(u)'
  <2>1. InnerOk(u) /\ KeptOk(u) /\ TiedOk(u) /\ LockOf(u)' = LockOf(u) /\ AtOrder(u)' = AtOrder(u)
    BY <1>1 DEF IInv, LockOf, AtOrder
  <2> QED
    BY <1>1, <2>1 DEF InnerOk, KeptOk, TiedOk, Resting
<1>4. IdleOk' /\ FreshOk' /\ StepOk' /\ LaterOk'
  BY <1>1 DEF IInv, IdleOk, FreshOk, StepOk, LaterOk, Top
<1>5. MakerOk'
  BY <1>1 DEF IInv, MakerOk, Resting
<1>6. FramesOk'
  BY <1>1 DEF IInv, FramesOk, FrameOk, CopyOk, AtOk, Resting
<1>7. ASSUME NEW d \in Cancelers, canceler'[d] # None PROVE RequestOk(d)'
  <2>1. CASE d = c
    BY <1>7, <2>1 DEF IInv, TypeOK
  <2>2. CASE d # c
    <3>1. canceler'[d] = canceler[d] /\ RequestOk(d)
      BY <1>7, <2>2 DEF IInv, TypeOK
    <3> QED
      BY <1>1, <3>1 DEF RequestOk, Resting
  <2> QED
    BY <2>1, <2>2
<1> QED
  BY <1>2, <1>3, <1>4, <1>5, <1>6, <1>7 DEF IInv

LEMMA NowFacts ==
  ASSUME IInv, NEW s \in Stops
  PROVE  StopNow(s) = kept.stop[s] /\ LegNow(s) = kept.leg[s] /\ PlacedNow(s) = kept.placed[s]
<1>1. TiedOk(s)
  BY DEF IInv
<1> QED
  BY <1>1 DEF TiedOk, StopNow, LegNow, PlacedNow

LEMMA AskKeeps ==
  ASSUME IInv, NEW c \in Cancelers, Ask(c)
  PROVE  IInv'
<1>1. PICK s \in Stops :
        \/ Open(StopNow(s)) /\ Asks(c, "stop", s, Amount - StopNow(s).filled)
        \/ Resting(LegNow(s)) /\ Asks(c, "leg", s, 0)
        \/ StopNow(s) # None /\ Asks(c, "delete", s, 0)
  BY DEF Ask
<1>2. kept.stop[s] \in StopRows \cup {None} /\ kept.leg[s] \in Orders \cup {None}
  BY DEF IInv, TypeOK, StopColumn, LegColumn
<1>3. PICK how \in {"stop", "leg", "delete"}, unfilled \in Amounts :
        /\ Asks(c, how, s, unfilled)
        /\ how = "leg" => kept.leg[s] # None
        /\ how # "leg" => kept.stop[s] # None
  <2>1. CASE Open(StopNow(s)) /\ Asks(c, "stop", s, Amount - StopNow(s).filled)
    <3>1. kept.stop[s] # None /\ kept.stop[s].filled \in Nat /\ kept.stop[s].filled < Amount
      BY <1>2, <2>1, NowFacts DEF Open, StopRows
    <3>2. Amount - StopNow(s).filled \in Amounts
      BY <3>1, NowFacts, StopLossAssumption DEF Amounts
    <3> QED
      BY <2>1, <3>1, <3>2
  <2>2. CASE Resting(LegNow(s)) /\ Asks(c, "leg", s, 0)
    BY <2>2, NowFacts, StopLossAssumption DEF Resting, Amounts
  <2>3. CASE StopNow(s) # None /\ Asks(c, "delete", s, 0)
    BY <2>3, NowFacts, StopLossAssumption DEF Amounts
  <2> QED
    BY <1>1, <2>1, <2>2, <2>3
<1> DEFINE r == [how |-> how, on |-> s, unfilled |-> unfilled, stage |-> "asked",
                 marked |-> FALSE, closed |-> FALSE, order |-> 0]
<1>4. /\ canceler' = [canceler EXCEPT ![c] = r]
      /\ UNCHANGED <<book, lock, match, closing, raced>>
  BY <1>3 DEF Asks
<1>5. r \in Requests
  BY DEF Requests
<1>6. r.how = how /\ r.on = s /\ r.stage = "asked" /\ ~ r.marked /\ ~ r.closed
  OBVIOUS
<1> HIDE DEF r
<1>7. RequestOk(c)'
  <2>1. canceler'[c] = r /\ kept' = kept
    BY <1>4 DEF IInv, TypeOK, match
  <2> QED
    BY <1>3, <1>6, <2>1 DEF RequestOk, Resting
<1> QED
  BY <1>4, <1>5, <1>7, AsksKeep

(* What a request becomes. *)
Stages == {"asked", "leg", "write", "plan", "end", "release", "order"}
Becomes(c, stage, marked, closed, order) ==
  \E q \in Requests :
    /\ q.how = canceler[c].how /\ q.on = canceler[c].on
    /\ q.stage = stage /\ q.marked = marked /\ q.closed = closed /\ q.order = order
    /\ canceler' = [canceler EXCEPT ![c] = q]

LEMMA RequestFacts ==
  ASSUME IInv, NEW c \in Cancelers, canceler[c] # None
  PROVE  /\ canceler[c] \in Requests /\ canceler[c].on \in Stops /\ RequestOk(c)
         /\ canceler[c].marked \in BOOLEAN /\ canceler[c].closed \in BOOLEAN
         /\ canceler[c].order \in Nat /\ canceler[c].how \in {"stop", "leg", "delete"}
         /\ canceler[c].unfilled \in Nat /\ canceler[c].stage \in Stages
         /\ canceler \in [Cancelers -> Requests \cup {None}]
<1>1. canceler[c] \in Requests /\ RequestOk(c) /\ canceler \in [Cancelers -> Requests \cup {None}]
  BY DEF IInv, TypeOK
<1> QED
  BY <1>1, StopLossAssumption DEF Requests, Amounts, Stages

LEMMA RequestChanged ==
  ASSUME IInv, NEW c \in Cancelers, canceler[c] # None, NEW stage \in Stages, NEW order \in Nat
  PROVE  /\ canceler' = [canceler EXCEPT ![c].stage = stage] =>
              Becomes(c, stage, canceler[c].marked, canceler[c].closed, canceler[c].order)
         /\ canceler' = [canceler EXCEPT ![c].marked = TRUE, ![c].stage = stage] =>
              Becomes(c, stage, TRUE, canceler[c].closed, canceler[c].order)
         /\ canceler' = [canceler EXCEPT ![c].closed = TRUE, ![c].stage = stage] =>
              Becomes(c, stage, canceler[c].marked, TRUE, canceler[c].order)
         /\ canceler' = [canceler EXCEPT ![c].stage = stage, ![c].order = order] =>
              Becomes(c, stage, canceler[c].marked, canceler[c].closed, order)
<1>1. canceler[c] \in Requests /\ canceler \in [Cancelers -> Requests \cup {None}]
  BY RequestFacts
<1>2. PICK r \in Requests : r = canceler[c]
  BY <1>1
<1>3. ASSUME canceler' = [canceler EXCEPT ![c].stage = stage]
      PROVE  Becomes(c, stage, r.marked, r.closed, r.order)
  <2>1. PICK q : q = [r EXCEPT !.stage = stage]
    OBVIOUS
  <2>2. q \in Requests
    BY <2>1 DEF Requests, Stages
  <2>3. /\ q.how = r.how /\ q.on = r.on /\ q.stage = stage
        /\ q.marked = r.marked /\ q.closed = r.closed /\ q.order = r.order
    BY <2>1 DEF Requests
  <2>4. canceler' = [canceler EXCEPT ![c] = q]
    BY <1>1, <1>2, <1>3, <2>1
  <2> QED
    BY <1>2, <2>2, <2>3, <2>4 DEF Becomes
<1>4. ASSUME canceler' = [canceler EXCEPT ![c].marked = TRUE, ![c].stage = stage]
      PROVE  Becomes(c, stage, TRUE, r.closed, r.order)
  <2>1. PICK q : q = [r EXCEPT !.marked = TRUE, !.stage = stage]
    OBVIOUS
  <2>2. q \in Requests
    BY <2>1 DEF Requests, Stages
  <2>3. /\ q.how = r.how /\ q.on = r.on /\ q.stage = stage
        /\ q.marked = TRUE /\ q.closed = r.closed /\ q.order = r.order
    BY <2>1 DEF Requests
  <2>4. canceler' = [canceler EXCEPT ![c] = q]
    BY <1>1, <1>2, <1>4, <2>1
  <2> QED
    BY <1>2, <2>2, <2>3, <2>4 DEF Becomes
<1>5. ASSUME canceler' = [canceler EXCEPT ![c].closed = TRUE, ![c].stage = stage]
      PROVE  Becomes(c, stage, r.marked, TRUE, r.order)
  <2>1. PICK q : q = [r EXCEPT !.closed = TRUE, !.stage = stage]
    OBVIOUS
  <2>2. q \in Requests
    BY <2>1 DEF Requests, Stages
  <2>3. /\ q.how = r.how /\ q.on = r.on /\ q.stage = stage
        /\ q.marked = r.marked /\ q.closed = TRUE /\ q.order = r.order
    BY <2>1 DEF Requests
  <2>4. canceler' = [canceler EXCEPT ![c] = q]
    BY <1>1, <1>2, <1>5, <2>1
  <2> QED
    BY <1>2, <2>2, <2>3, <2>4 DEF Becomes
<1>6. ASSUME canceler' = [canceler EXCEPT ![c].stage = stage, ![c].order = order]
      PROVE  Becomes(c, stage, r.marked, r.closed, order)
  <2>1. PICK q : q = [r EXCEPT !.stage = stage, !.order = order]
    OBVIOUS
  <2>2. q \in Requests
    BY <2>1 DEF Requests, Stages
  <2>3. /\ q.how = r.how /\ q.on = r.on /\ q.stage = stage
        /\ q.marked = r.marked /\ q.closed = r.closed /\ q.order = order
    BY <2>1 DEF Requests
  <2>4. canceler' = [canceler EXCEPT ![c] = q]
    BY <1>1, <1>2, <1>6, <2>1
  <2> QED
    BY <1>2, <2>2, <2>3, <2>4 DEF Becomes
<1> QED
  BY <1>2, <1>3, <1>4, <1>5, <1>6

LEMMA KeptAsIs ==
  ASSUME IInv, Committed, UNCHANGED <<leg, placed>>, NEW s \in Stops
  PROVE  /\ kept'.leg[s] = kept.leg[s] /\ kept'.placed[s] = kept.placed[s]
         /\ kept'.stop[s] = IF s \in wrote.stops THEN kept.stop[s] ELSE stop'[s]
         /\ stop' = stop => kept'.stop[s] = kept.stop[s]
<1>1. TiedOk(s)
  BY DEF IInv
<1>2. step = "idle" => kept.placed = placed
  BY IdleFacts
<1> QED
  BY <1>1, <1>2 DEF Committed, TiedOk

(* What holds of a request about s. *)
LEMMA RequestAbout ==
  ASSUME IInv, NEW c \in Cancelers, canceler[c] # None, NEW s \in Stops, s = canceler[c].on
  PROVE  LET r == canceler[c] IN
         /\ r.marked => s \notin wrote.stops /\ kept.stop[s] # None
         /\ r.closed => s \notin wrote.legs /\ kept.leg[s] # None
         /\ r.how # "leg" => kept.stop[s] # None
         /\ r.how = "leg" => /\ kept.leg[s] # None
                             /\ r.stage \in {"asked", "order"}
                             /\ r.stage = "order" /\ ~ r.marked => kept.stop[s] = None \/ kept.stop[s].canceled
         /\ r.how = "delete" => ~ r.marked /\ r.stage \in {"asked", "leg", "write"}
         /\ r.how = "stop" =>
              /\ r.stage # "asked" => r.marked
              /\ r.stage \in {"plan", "end", "release", "order"} => r.closed \/ ~ Resting(kept.leg[s])
              /\ r.stage = "release" => kept.placed[s] = <<>>
              /\ r.stage = "order" => r.order \in DOMAIN kept.placed[s]
         /\ r.stage = "write" => kept.leg[s] # None
  BY DEF IInv, RequestOk, Resting

LEMMA MarkKeeps ==
  ASSUME IInv, NEW c \in Cancelers, Mark(c)
  PROVE  IInv'
<1>1. /\ canceler[c] # None /\ canceler[c].stage = "asked" /\ ByOthers
      /\ UNCHANGED <<leg, placed, lock, closing>> /\ UNCHANGED <<leg, placed>> /\ Committed
  BY DEF Mark, At, ByOthers
<1>2. PICK s \in Stops, how \in {"stop", "leg", "delete"} : s = canceler[c].on /\ how = canceler[c].how
  BY <1>1, RequestFacts
<1>3. CASE how = "leg" /\ (StopNow(s) = None \/ StopNow(s).canceled)
  <2>1. Goes(c, "order") /\ UNCHANGED <<stop, raced>>
    BY <1>2, <1>3 DEF Mark
  <2>2. Yields(s, stop[s], leg[s], placed[s], lock[s])
    BY <1>1, <2>1, StaysAsIs DEF Yields
  <2>3. Becomes(c, "order", canceler[c].marked, canceler[c].closed, canceler[c].order)
    BY <1>1, <2>1, RequestFacts, RequestChanged DEF Goes, Stages
  <2>4. PICK q \in Requests : /\ q.how = "leg" /\ q.on = s /\ q.stage = "order"
                              /\ q.marked = canceler[c].marked /\ q.closed = canceler[c].closed
                              /\ canceler' = [canceler EXCEPT ![c] = q]
    BY <1>2, <1>3, <2>3 DEF Becomes
  <2>5. /\ kept'.stop[s] = kept.stop[s] /\ kept'.leg[s] = kept.leg[s]
        /\ wrote' = wrote /\ canceler'[c] = q
    BY <1>1, <2>1, <2>4, KeptAsIs, RequestFacts DEF ByOthers
  <2>6. RequestOk(c)'
    <3>1. /\ canceler[c].marked => s \notin wrote.stops /\ kept.stop[s] # None
          /\ canceler[c].closed => s \notin wrote.legs /\ kept.leg[s] # None
          /\ kept.leg[s] # None
      BY <1>1, <1>2, <1>3, RequestAbout
    <3>2. kept.stop[s] = None \/ kept.stop[s].canceled
      BY <1>3, NowFacts
    <3> QED
      BY <2>4, <2>5, <3>1, <3>2 DEF RequestOk
  <2>7. /\ canceler' \in [Cancelers -> Requests \cup {None}]
        /\ \A d \in Cancelers : canceler'[d] # None /\ canceler'[d] # canceler[d] => RequestOk(d)'
    BY <1>1, <2>4, <2>6, RequestFacts
  <2> QED
    BY <1>1, <2>2, <2>7, YieldKeeps
<1>4. CASE ~ (how = "leg" /\ (StopNow(s) = None \/ StopNow(s).canceled))
  <2>1. /\ s \notin wrote.stops
        /\ IF how = "delete"
           THEN /\ stop' = [stop EXCEPT ![s].canceled = TRUE]
                /\ raced' = IF AtWork(s) THEN raced \cup {s} ELSE raced
                /\ Goes(c, "leg")
           ELSE /\ canceler' = [canceler EXCEPT ![c].marked = TRUE,
                                 ![c].stage = IF how = "leg" THEN "order" ELSE "leg"]
                /\ UNCHANGED <<stop, raced>>
    BY <1>2, <1>4 DEF Mark
  <2>2. kept.stop[s] # None /\ stop[s] # None
    <3>1. kept.stop[s] # None
      BY <1>1, <1>2, <1>4, RequestAbout, NowFacts
    <3> QED
      BY <3>1 DEF IInv, TiedOk
  <2>3. CASE how = "delete"
    <3>1. PICK sr : /\ stop' = [stop EXCEPT ![s] = sr] /\ CanceledStop(stop[s], sr)
                    /\ sr # None /\ sr.canceled
      BY <2>1, <2>2, <2>3, StopCanceled
    <3>2. Yields(s, sr, leg[s], placed[s], lock[s])
      BY <1>1, <2>1, <2>3, <3>1, StaysAsIs DEF Yields
    <3>3. Becomes(c, "leg", canceler[c].marked, canceler[c].closed, canceler[c].order)
      BY <1>1, <2>1, <2>3, RequestFacts, RequestChanged DEF Goes, Stages
    <3>4. PICK q \in Requests : /\ q.how = "delete" /\ q.on = s /\ q.stage = "leg"
                                /\ q.marked = canceler[c].marked /\ q.closed = canceler[c].closed
                                /\ canceler' = [canceler EXCEPT ![c] = q]
      BY <1>2, <2>3, <3>3 DEF Becomes
    <3>5. /\ kept'.stop[s] = stop'[s] /\ kept'.leg[s] = kept.leg[s]
          /\ wrote' = wrote /\ canceler'[c] = q /\ stop'[s] # None
      BY <1>1, <2>1, <3>1, <3>4, KeptAsIs, RequestFacts DEF ByOthers, IInv, TypeOK, StopColumn
    <3>6. RequestOk(c)'
      <4>1. ~ canceler[c].marked /\ (canceler[c].closed => s \notin wrote.legs /\ kept.leg[s] # None)
        BY <1>1, <1>2, <2>3, RequestAbout
      <4> QED
        BY <3>4, <3>5, <4>1 DEF RequestOk
    <3>7. /\ canceler' \in [Cancelers -> Requests \cup {None}]
          /\ \A d \in Cancelers : canceler'[d] # None /\ canceler'[d] # canceler[d] => RequestOk(d)'
      BY <1>1, <3>4, <3>6, RequestFacts
    <3> QED
      BY <1>1, <3>2, <3>7, YieldKeeps
  <2>4. CASE how # "delete"
    <3>1. Yields(s, stop[s], leg[s], placed[s], lock[s])
      BY <1>1, <2>1, <2>4, StaysAsIs DEF Yields
    <3>2. PICK stage \in {"leg", "order"} : stage = IF how = "leg" THEN "order" ELSE "leg"
      OBVIOUS
    <3>3. Becomes(c, stage, TRUE, canceler[c].closed, canceler[c].order)
      BY <1>1, <2>1, <2>4, <3>2, RequestFacts, RequestChanged DEF Stages
    <3>4. PICK q \in Requests : /\ q.how = how /\ q.on = s /\ q.stage = stage
                                /\ q.marked /\ q.closed = canceler[c].closed
                                /\ canceler' = [canceler EXCEPT ![c] = q]
      BY <1>2, <3>3 DEF Becomes
    <3>5. /\ kept'.stop[s] = kept.stop[s] /\ kept'.leg[s] = kept.leg[s]
          /\ wrote' = wrote /\ canceler'[c] = q
      BY <1>1, <2>1, <2>4, <3>4, KeptAsIs, RequestFacts DEF ByOthers
    <3>6. RequestOk(c)'
      BY <1>1, <1>2, <2>1, <2>2, <2>4, <3>2, <3>4, <3>5, RequestAbout DEF RequestOk, Resting
    <3>7. /\ canceler' \in [Cancelers -> Requests \cup {None}]
          /\ \A d \in Cancelers : canceler'[d] # None /\ canceler'[d] # canceler[d] => RequestOk(d)'
      BY <1>1, <3>4, <3>6, RequestFacts
    <3> QED
      BY <1>1, <3>1, <3>7, YieldKeeps
  <2> QED
    BY <2>3, <2>4
<1> QED
  BY <1>3, <1>4

LEMMA DoneKeeps ==
  ASSUME IInv, NEW c \in Cancelers, Done(c), UNCHANGED <<book, lock, match, closing, raced>>
  PROVE  IInv'
<1>1. canceler' = [canceler EXCEPT ![c] = None]
  BY DEF Done
<1> QED
  BY <1>1, AsksKeep

LEMMA ReadLegKeeps ==
  ASSUME IInv, NEW c \in Cancelers, ReadLeg(c)
  PROVE  IInv'
<1>1. /\ canceler[c] # None /\ canceler[c].stage = "leg"
      /\ UNCHANGED <<book, lock, match, closing, raced>>
  BY DEF ReadLeg, At
<1>2. PICK s \in Stops : s = canceler[c].on
  BY <1>1, RequestFacts
<1>3. CASE Done(c)
  BY <1>1, <1>3, DoneKeeps
<1>4. ASSUME NEW stage \in {"write", "plan"}, Goes(c, stage),
             stage = "write" => Resting(kept.leg[s]),
             stage = "plan" => ~ Resting(kept.leg[s]) /\ canceler[c].how # "delete"
      PROVE  IInv'
  <2>1. Becomes(c, stage, canceler[c].marked, canceler[c].closed, canceler[c].order)
    BY <1>1, <1>4, RequestFacts, RequestChanged DEF Goes, Stages
  <2>2. PICK q \in Requests : /\ q.how = canceler[c].how /\ q.on = s /\ q.stage = stage
                              /\ q.marked = canceler[c].marked /\ q.closed = canceler[c].closed
                              /\ canceler' = [canceler EXCEPT ![c] = q]
    BY <1>2, <2>1 DEF Becomes
  <2>3. canceler'[c] = q /\ kept' = kept /\ wrote' = wrote
    BY <1>1, <2>2, RequestFacts DEF match
  <2>4. RequestOk(c)'
    BY <1>1, <1>2, <1>4, <2>2, <2>3, RequestAbout DEF RequestOk, Resting
  <2> QED
    BY <1>1, <2>2, <2>4, AsksKeep
<1> QED
  BY <1>2, <1>3, <1>4, NowFacts DEF ReadLeg

LEMMA PlanKeeps ==
  ASSUME IInv, NEW c \in Cancelers, Plan(c)
  PROVE  IInv'
<1>1. /\ canceler[c] # None /\ canceler[c].stage = "plan"
      /\ UNCHANGED <<book, lock, match, closing, raced>>
  BY DEF Plan, At
<1>2. PICK s \in Stops : s = canceler[c].on
  BY <1>1, RequestFacts
<1>3. PICK orders \in Seq(Orders) : orders = kept.placed[s]
  BY DEF IInv, TypeOK, PlacedColumn
<1>4. canceler[c].how = "stop"
  BY <1>1, <1>2, RequestAbout, RequestFacts
<1>5. PICK stage \in {"end", "release", "order"}, i \in Nat :
        /\ Becomes(c, stage, canceler[c].marked, canceler[c].closed, i)
        /\ stage = "release" => orders = <<>>
        /\ stage = "order" => i \in DOMAIN orders
  <2>1. CASE orders = <<>>
    <3>1. Goes(c, "release")
      BY <1>2, <1>3, <2>1, NowFacts DEF Plan
    <3>2. Becomes(c, "release", canceler[c].marked, canceler[c].closed, canceler[c].order)
      BY <1>1, <3>1, RequestFacts, RequestChanged DEF Goes, Stages
    <3> QED
      BY <1>1, <2>1, <3>2, RequestFacts
  <2>2. CASE orders # <<>>
    <3> DEFINE P(i) == (\E j \in DOMAIN orders : ~ Resting(orders[j])) => ~ Resting(orders[i])
               i == CHOOSE k \in DOMAIN orders : P(k)
    <3>1. \E k \in DOMAIN orders : P(k)
      <4>1. DOMAIN orders # {}
        <5>1. Len(orders) \in Nat /\ Len(orders) # 0 /\ DOMAIN orders = 1 .. Len(orders)
          BY <2>2, OrderOf, EmptySeq
        <5>2. 1 \in DOMAIN orders
          BY <5>1
        <5> QED
          BY <5>2
      <4> QED
        BY <4>1 DEF Resting
    <3>2. i \in DOMAIN orders
      <4> HIDE DEF P
      <4> QED
        BY <3>1
    <3>3. canceler' = [canceler EXCEPT ![c].order = i,
                                       ![c].stage = IF Resting(orders[i]) THEN "order" ELSE "end"]
      BY <1>2, <1>3, <2>2, NowFacts DEF Plan
    <3> HIDE DEF i
    <3>4. i \in Nat
      BY <3>2, OrderOf
    <3>5. PICK stage \in {"end", "order"} : stage = IF Resting(orders[i]) THEN "order" ELSE "end"
      OBVIOUS
    <3>6. canceler' = [canceler EXCEPT ![c].stage = stage, ![c].order = i]
      BY <3>3, <3>5
    <3>7. Becomes(c, stage, canceler[c].marked, canceler[c].closed, i)
      BY <1>1, <3>4, <3>6, RequestFacts, RequestChanged DEF Stages
    <3> QED
      BY <3>2, <3>4, <3>7
  <2> QED
    BY <2>1, <2>2
<1>6. PICK q \in Requests : /\ q.how = "stop" /\ q.on = s /\ q.stage = stage /\ q.order = i
                            /\ q.marked = canceler[c].marked /\ q.closed = canceler[c].closed
                            /\ canceler' = [canceler EXCEPT ![c] = q]
  BY <1>2, <1>4, <1>5 DEF Becomes
<1>7. canceler'[c] = q /\ kept' = kept /\ wrote' = wrote
  BY <1>1, <1>6, RequestFacts DEF match
<1>8. RequestOk(c)'
  BY <1>1, <1>2, <1>3, <1>4, <1>5, <1>6, <1>7, RequestAbout DEF RequestOk, Resting
<1> QED
  BY <1>1, <1>6, <1>8, AsksKeep

LEMMA WriteLegKeeps ==
  ASSUME IInv, NEW c \in Cancelers, WriteLeg(c)
  PROVE  IInv'
<1>1. /\ canceler[c] # None /\ canceler[c].stage = "write" /\ ByOthers
      /\ UNCHANGED <<stop, placed, lock, closing, raced>> /\ Committed
  BY DEF WriteLeg, At, ByOthers
<1>2. PICK s \in Stops : s = canceler[c].on
  BY <1>1, RequestFacts
<1>3. kept.leg[s] # None /\ leg[s] # None /\ s \notin wrote.legs
  <2>1. kept.leg[s] # None
    BY <1>1, <1>2, RequestAbout
  <2> QED
    BY <1>2, <2>1 DEF IInv, TiedOk, WriteLeg
<1>4. CASE canceler[c].how = "delete"
  <2>1. leg' = [leg EXCEPT ![s].status = "canceled"] /\ canceler' = [canceler EXCEPT ![c] = None]
    BY <1>2, <1>4 DEF WriteLeg, Done
  <2>2. PICK lr : leg' = [leg EXCEPT ![s] = lr] /\ CanceledOrder(leg[s], lr)
    BY <1>3, <2>1, LegCanceled
  <2>3. Yields(s, stop[s], lr, placed[s], lock[s])
    BY <1>1, <1>3, <2>2, StaysAsIs DEF Yields
  <2>4. /\ canceler' \in [Cancelers -> Requests \cup {None}]
        /\ \A d \in Cancelers : canceler'[d] # None /\ canceler'[d] # canceler[d] => RequestOk(d)'
    BY <1>1, <2>1, RequestFacts
  <2> QED
    BY <1>1, <2>3, <2>4, YieldKeeps
<1>5. CASE canceler[c].how # "delete"
  <2>1. /\ canceler' = [canceler EXCEPT ![c].closed = TRUE, ![c].stage = "plan"]
        /\ UNCHANGED leg
    BY <1>5 DEF WriteLeg
  <2>2. Yields(s, stop[s], leg[s], placed[s], lock[s])
    BY <1>1, <2>1, StaysAsIs DEF Yields
  <2>3. Becomes(c, "plan", canceler[c].marked, TRUE, canceler[c].order)
    BY <1>1, <2>1, RequestFacts, RequestChanged DEF Stages
  <2>4. PICK q \in Requests : /\ q.how = canceler[c].how /\ q.on = s /\ q.stage = "plan"
                              /\ q.marked = canceler[c].marked /\ q.closed
                              /\ canceler' = [canceler EXCEPT ![c] = q]
    BY <1>2, <2>3 DEF Becomes
  <2>5. /\ kept'.stop[s] = kept.stop[s] /\ kept'.leg[s] = kept.leg[s]
        /\ wrote' = wrote /\ canceler'[c] = q
    BY <1>1, <2>1, <2>4, KeptAsIs, RequestFacts DEF ByOthers
  <2>6. RequestOk(c)'
    BY <1>1, <1>2, <1>3, <1>5, <2>4, <2>5, RequestAbout DEF RequestOk, Resting
  <2>7. /\ canceler' \in [Cancelers -> Requests \cup {None}]
        /\ \A d \in Cancelers : canceler'[d] # None /\ canceler'[d] # canceler[d] => RequestOk(d)'
    BY <1>1, <2>4, <2>6, RequestFacts
  <2> QED
    BY <1>1, <2>2, <2>7, YieldKeeps
<1> QED
  BY <1>4, <1>5

(* The rows a request has written become visible. *)
LEMMA Marked ==
  ASSUME IInv, NEW c \in Cancelers, canceler[c] # None, NEW s \in Stops, s = canceler[c].on, Marks(c)
  PROVE  /\ raced \subseteq raced' /\ raced' \in SUBSET Stops
         /\ canceler[c].marked /\ AtWork(s) => s \in raced'
         /\ \E sr : /\ stop' = [stop EXCEPT ![s] = sr] /\ CanceledStop(stop[s], sr)
                    /\ sr = stop[s] \/ s \notin wrote.stops
                    /\ canceler[c].marked => sr # None /\ sr.canceled /\ s \notin wrote.stops
                    /\ ~ canceler[c].marked => sr = stop[s]
<1>1. /\ stop' = IF canceler[c].marked THEN [stop EXCEPT ![s].canceled = TRUE] ELSE stop
      /\ raced' = IF canceler[c].marked /\ AtWork(s) THEN raced \cup {s} ELSE raced
  BY DEF Marks
<1>2. raced \subseteq raced' /\ raced' \in SUBSET Stops /\ (canceler[c].marked /\ AtWork(s) => s \in raced')
  BY <1>1, StaysAsIs
<1>3. CASE canceler[c].marked
  <2>1. kept.stop[s] # None /\ s \notin wrote.stops
    BY <1>3, RequestAbout
  <2>2. stop[s] # None
    BY <2>1 DEF IInv, TiedOk
  <2>3. stop' = [stop EXCEPT ![s].canceled = TRUE]
    BY <1>1, <1>3
  <2>4. PICK sr : /\ stop' = [stop EXCEPT ![s] = sr] /\ CanceledStop(stop[s], sr)
                  /\ sr # None /\ sr.canceled
    BY <2>2, <2>3, StopCanceled
  <2> QED
    BY <1>2, <1>3, <2>1, <2>4
<1>4. CASE ~ canceler[c].marked
  BY <1>1, <1>2, <1>4, StaysAsIs
<1> QED
  BY <1>3, <1>4

LEMMA DoneOk ==
  ASSUME IInv, NEW c \in Cancelers, canceler[c] # None, Done(c)
  PROVE  /\ canceler' \in [Cancelers -> Requests \cup {None}]
         /\ \A d \in Cancelers : canceler'[d] # None /\ canceler'[d] # canceler[d] => RequestOk(d)'
<1>1. canceler' = [canceler EXCEPT ![c] = None] /\ canceler \in [Cancelers -> Requests \cup {None}]
  BY RequestFacts DEF Done
<1> QED
  BY <1>1

(* The leg that the request has closed, if it has. *)
LEMMA Closed ==
  ASSUME IInv, NEW c \in Cancelers, canceler[c] # None, NEW s \in Stops, s = canceler[c].on,
         leg' = IF canceler[c].closed THEN [leg EXCEPT ![s].status = "canceled"] ELSE leg
  PROVE  \E lr : /\ leg' = [leg EXCEPT ![s] = lr] /\ CanceledOrder(leg[s], lr)
                 /\ lr = leg[s] \/ s \notin wrote.legs
                 /\ canceler[c].closed => ~ Resting(lr) /\ s \notin wrote.legs
                 /\ ~ canceler[c].closed => lr = leg[s]
<1>1. CASE canceler[c].closed
  <2>1. kept.leg[s] # None /\ s \notin wrote.legs
    BY <1>1, RequestAbout
  <2>2. leg[s] # None /\ leg' = [leg EXCEPT ![s].status = "canceled"]
    BY <1>1, <2>1 DEF IInv, TiedOk
  <2>3. PICK lr : /\ leg' = [leg EXCEPT ![s] = lr] /\ CanceledOrder(leg[s], lr) /\ ~ Resting(lr)
    BY <2>2, LegCanceled
  <2> QED
    BY <1>1, <2>1, <2>3
<1>2. CASE ~ canceler[c].closed
  BY <1>2, StaysAsIs
<1> QED
  BY <1>1, <1>2

LEMMA EndKeeps ==
  ASSUME IInv, NEW c \in Cancelers, End(c)
  PROVE  IInv'
<1>1. /\ canceler[c] # None /\ ByOthers /\ Done(c) /\ Marks(c) /\ ClosesLeg(c)
      /\ UNCHANGED <<placed, lock, closing>>
  BY DEF End, At
<1>2. PICK s \in Stops : s = canceler[c].on
  BY <1>1, RequestFacts
<1>3. /\ raced \subseteq raced' /\ raced' \in SUBSET Stops
  BY <1>1, <1>2, Marked
<1>4. PICK sr : /\ stop' = [stop EXCEPT ![s] = sr] /\ CanceledStop(stop[s], sr)
                /\ sr = stop[s] \/ s \notin wrote.stops
  BY <1>1, <1>2, Marked
<1>5. PICK lr : /\ leg' = [leg EXCEPT ![s] = lr] /\ CanceledOrder(leg[s], lr)
                /\ lr = leg[s] \/ s \notin wrote.legs
  BY <1>1, <1>2, Closed DEF ClosesLeg
<1>6. /\ placed' = [placed EXCEPT ![s] = placed[s]] /\ lock' = [lock EXCEPT ![s] = lock[s]]
      /\ CanceledOrders(placed[s], placed[s]) /\ lock[s] \in Nat /\ lock[s] <= lock[s]
  BY <1>1, StaysAsIs
<1>7. Yields(s, sr, lr, placed[s], lock[s])
  BY <1>3, <1>4, <1>5, <1>6 DEF Yields
<1> QED
  BY <1>1, <1>7, DoneOk, YieldKeeps

LEMMA ReleaseKeeps ==
  ASSUME IInv, NEW c \in Cancelers, Release(c)
  PROVE  IInv'
<1>1. /\ canceler[c] # None /\ canceler[c].stage = "release" /\ ByOthers /\ Done(c)
      /\ UNCHANGED <<placed, closing>> /\ Committed /\ UNCHANGED <<step, wrote>>
  BY DEF Release, At, ByOthers
<1>2. PICK s \in Stops : s = canceler[c].on
  BY <1>1, RequestFacts
<1>3. PICK unfilled \in Nat : unfilled = canceler[c].unfilled
  BY <1>1, RequestFacts
<1>4. CASE ~ (unfilled <= lock[s])
  <2>1. UNCHANGED <<stop, raced, leg, lock>>
    BY <1>2, <1>3, <1>4 DEF Release
  <2>2. Yields(s, stop[s], leg[s], placed[s], lock[s])
    BY <1>1, <2>1, StaysAsIs DEF Yields
  <2> QED
    BY <1>1, <2>2, DoneOk, YieldKeeps
<1>5. CASE unfilled <= lock[s]
  <2>1. /\ Marks(c)
        /\ leg' = IF canceler[c].closed THEN [leg EXCEPT ![s].status = "canceled"] ELSE leg
        /\ lock' = [lock EXCEPT ![s] = @ - unfilled]
    BY <1>2, <1>3, <1>5 DEF Release, ClosesLeg
  <2>2. /\ canceler[c].marked /\ s \notin wrote.stops /\ kept.stop[s] # None
        /\ canceler[c].closed \/ ~ Resting(kept.leg[s])
        /\ kept.placed[s] = <<>>
    BY <1>1, <1>2, RequestAbout, RequestFacts
  <2>3. /\ raced \subseteq raced' /\ raced' \in SUBSET Stops /\ (AtWork(s) => s \in raced')
    BY <1>1, <1>2, <2>1, <2>2, Marked
  <2>4. PICK sr : /\ stop' = [stop EXCEPT ![s] = sr] /\ CanceledStop(stop[s], sr)
                  /\ sr # None /\ sr.canceled
    BY <1>1, <1>2, <2>1, <2>2, Marked
  <2>5. PICK lr : /\ leg' = [leg EXCEPT ![s] = lr] /\ CanceledOrder(leg[s], lr)
                  /\ lr = leg[s] \/ s \notin wrote.legs
                  /\ canceler[c].closed => ~ Resting(lr) /\ s \notin wrote.legs
                  /\ ~ canceler[c].closed => lr = leg[s]
    BY <1>1, <1>2, <2>1, Closed
  <2>6. PICK left \in Nat : left = lock[s] - unfilled /\ left <= lock[s] /\ lock' = [lock EXCEPT ![s] = left]
    <3>1. lock[s] \in Nat /\ lock \in [Stops -> Nat]
      BY DEF IInv, TypeOK
    <3>2. lock[s] - unfilled \in Nat /\ lock[s] - unfilled <= lock[s]
      BY <1>3, <1>5, <3>1
    <3> QED
      BY <2>1, <3>2
  <2>7. ~ AtWork(s) => Settled(sr, lr, placed[s]) /\ Settled(kept'.stop[s], kept'.leg[s], kept'.placed[s])
    <3> SUFFICES ASSUME ~ AtWork(s)
                 PROVE  Settled(sr, lr, placed[s]) /\ Settled(kept'.stop[s], kept'.leg[s], kept'.placed[s])
      OBVIOUS
    <3>1. TiedOk(s) /\ ~ AtOrder(s) /\ s # fresh
      <4>1. stop[s] # None
        BY <2>2, StaysAsIs DEF TiedOk
      <4> QED
        BY <4>1, StaysAsIs DEF AtWork, AtOrder
    <3>2. placed[s] = <<>>
      BY <2>2, <3>1 DEF TiedOk
    <3>3. ~ Resting(lr)
      BY <2>2, <2>5, <3>1 DEF TiedOk, Resting
    <3>4. /\ kept'.stop[s] = stop'[s] /\ kept'.placed[s] = <<>>
          /\ kept'.leg[s] = IF s \in wrote.legs THEN kept.leg[s] ELSE leg'[s]
      BY <1>1, <2>2, <3>2 DEF Committed
    <3>5. leg'[s] = lr /\ stop'[s] = sr
      BY <2>4, <2>5 DEF IInv, TypeOK, StopColumn, LegColumn
    <3>6. ~ Resting(kept'.leg[s])
      BY <2>2, <2>5, <3>3, <3>4, <3>5 DEF Resting
    <3>7. DOMAIN <<>> = {}
      OBVIOUS
    <3> QED
      BY <2>4, <3>2, <3>3, <3>4, <3>5, <3>6, <3>7 DEF Settled
  <2>8. Yields(s, sr, lr, placed[s], left)
    BY <1>1, <2>2, <2>3, <2>4, <2>5, <2>6, <2>7, StaysAsIs DEF Yields
  <2> QED
    BY <1>1, <2>8, DoneOk, YieldKeeps
<1> QED
  BY <1>3, <1>4, <1>5

(* While no transaction is at work. *)
LEMMA IdleKept ==
  ASSUME IInv, step = "idle", Committed, NEW s \in Stops
  PROVE  /\ kept'.stop[s] = stop'[s] /\ kept'.leg[s] = leg'[s] /\ kept'.placed[s] = placed'[s]
         /\ ~ AtWork(s) /\ s \notin wrote.stops /\ s \notin wrote.legs
  BY IdleFacts DEF Committed, AtWork

LEMMA CancelPlacedKeeps ==
  ASSUME IInv, NEW c \in Cancelers, CancelPlaced(c)
  PROVE  IInv'
<1>1. /\ canceler[c] # None /\ canceler[c].stage = "order" /\ canceler[c].how = "stop"
      /\ step = "idle" /\ ByOthers /\ Done(c)
      /\ UNCHANGED <<closing>> /\ Committed /\ UNCHANGED <<step, wrote>>
  BY DEF CancelPlaced, At, ByOthers
<1>2. PICK s \in Stops, i \in Nat : s = canceler[c].on /\ i = canceler[c].order
  BY <1>1, RequestFacts
<1>3. /\ canceler[c].marked /\ kept.stop[s] # None
      /\ i \in DOMAIN placed[s]
  BY <1>1, <1>2, RequestAbout, IdleFacts
<1>4. CASE ~ Resting(placed[s][i])
  <2>1. /\ Marks(c)
        /\ leg' = IF canceler[c].closed THEN [leg EXCEPT ![s].status = "canceled"] ELSE leg
        /\ UNCHANGED <<placed, lock>>
    BY <1>2, <1>4 DEF CancelPlaced, ClosesLeg
  <2>2. /\ raced \subseteq raced' /\ raced' \in SUBSET Stops
    BY <1>1, <1>2, <2>1, Marked
  <2>3. PICK sr : stop' = [stop EXCEPT ![s] = sr] /\ CanceledStop(stop[s], sr)
    BY <1>1, <1>2, <2>1, Marked
  <2>4. PICK lr : leg' = [leg EXCEPT ![s] = lr] /\ CanceledOrder(leg[s], lr)
    BY <1>1, <1>2, <2>1, Closed
  <2>5. Yields(s, sr, lr, placed[s], lock[s])
    <3>1. s \notin wrote.stops /\ s \notin wrote.legs
      BY <1>1, IdleKept
    <3>2. /\ placed' = [placed EXCEPT ![s] = placed[s]] /\ lock' = [lock EXCEPT ![s] = lock[s]]
          /\ CanceledOrders(placed[s], placed[s]) /\ lock[s] \in Nat /\ lock[s] <= lock[s]
      BY <2>1, StaysAsIs
    <3> QED
      BY <2>2, <2>3, <2>4, <3>1, <3>2 DEF Yields
  <2> QED
    BY <1>1, <2>5, DoneOk, YieldKeeps
<1>5. CASE Resting(placed[s][i]) /\ (canceler[c].closed \/ ~ Unique(s, "canceled"))
  <2>1. UNCHANGED <<stop, raced, leg, placed, lock>>
    BY <1>2, <1>5 DEF CancelPlaced
  <2>2. Yields(s, stop[s], leg[s], placed[s], lock[s])
    BY <1>1, <2>1, StaysAsIs DEF Yields
  <2> QED
    BY <1>1, <2>2, DoneOk, YieldKeeps
<1>6. CASE Resting(placed[s][i]) /\ ~ (canceler[c].closed \/ ~ Unique(s, "canceled"))
  <2>1. /\ Marks(c)
        /\ placed' = [placed EXCEPT ![s][i].status = "canceled"]
        /\ lock' = [lock EXCEPT ![s] = 0]
        /\ UNCHANGED leg
    BY <1>2, <1>6 DEF CancelPlaced
  <2>2. /\ raced \subseteq raced' /\ raced' \in SUBSET Stops
    BY <1>1, <1>2, <2>1, Marked
  <2>3. PICK sr : /\ stop' = [stop EXCEPT ![s] = sr] /\ CanceledStop(stop[s], sr)
                  /\ sr # None /\ sr.canceled
    BY <1>1, <1>2, <1>3, <2>1, Marked
  <2>4. PICK pl \in Seq(Orders) : pl = placed[s]
    BY InnerFacts
  <2>5. PICK o \in Orders : o = pl[i] /\ o # None
    BY <1>3, <2>4, OrderOf, NoneAssumption
  <2>6. PICK p : p = [o EXCEPT !.status = "canceled"] /\ p \in Orders /\ ~ Resting(p) /\ CanceledOrder(o, p)
    <3> DEFINE p == [o EXCEPT !.status = "canceled"]
    <3>1. p \in Orders /\ p.status = "canceled"
      BY DEF Orders
    <3> QED
      BY <2>5, <3>1 DEF Resting, CanceledOrder
  <2>7. PICK pr : pr = [pl EXCEPT ![i] = p] /\ placed' = [placed EXCEPT ![s] = pr]
    <3>1. placed \in PlacedColumn
      BY DEF IInv, TypeOK
    <3> QED
      BY <1>3, <2>1, <2>4, <2>5, <2>6, <3>1 DEF PlacedColumn
  <2>8. pr \in Seq(Orders) /\ Len(pr) = Len(pl) /\ DOMAIN pr = DOMAIN pl /\ pr[i] = p
        /\ \A j \in DOMAIN pl \ {i} : pr[j] = pl[j]
    BY <1>3, <2>4, <2>6, <2>7, TradedExcept
  <2>9. CanceledOrders(pl, pr)
    BY <2>5, <2>6, <2>8 DEF CanceledOrders, CanceledOrder
  <2>10. Settled(sr, leg[s], pr)
    <3>1. ~ Resting(leg[s])
      <4>1. Rows(s, stop[s], leg[s], pl) /\ pl # <<>>
        BY <1>3, <2>4, InnerFacts
      <4> QED
        BY <4>1 DEF Rows
    <3>2. Len(pr) <= 1 => DOMAIN pr = {i}
      <4>1. Len(pl) \in Nat /\ DOMAIN pl = 1 .. Len(pl) /\ i \in 1 .. Len(pl)
        BY <1>3, <2>4, LenProperties
      <4> QED
        BY <2>8, <4>1
    <3> QED
      BY <2>3, <2>6, <2>8, <3>1, <3>2 DEF Settled, Resting
  <2>11. stop'[s] = sr /\ leg'[s] = leg[s] /\ placed'[s] = pr
    BY <2>1, <2>3, <2>7 DEF IInv, TypeOK, StopColumn, PlacedColumn
  <2>12. Settled(kept'.stop[s], kept'.leg[s], kept'.placed[s])
    BY <1>1, <2>10, <2>11, IdleKept
  <2>13. Yields(s, sr, leg[s], pr, 0)
    <3>1. s \notin wrote.stops /\ s \notin wrote.legs /\ ~ AtWork(s)
      BY <1>1, IdleKept
    <3>2. /\ leg' = [leg EXCEPT ![s] = leg[s]] /\ CanceledOrder(leg[s], leg[s])
          /\ 0 \in Nat /\ 0 <= lock[s]
      BY <2>1, StaysAsIs
    <3>3. CanceledOrders(placed[s], pr) /\ placed' = [placed EXCEPT ![s] = pr]
      BY <2>4, <2>7, <2>9
    <3> QED
      BY <1>1, <2>1, <2>2, <2>3, <2>10, <2>12, <3>1, <3>2, <3>3 DEF Yields
  <2> QED
    BY <1>1, <2>13, DoneOk, YieldKeeps
<1> QED
  BY <1>4, <1>5, <1>6

LEMMA CancelLegOrderKeeps ==
  ASSUME IInv, NEW c \in Cancelers, CancelLegOrder(c)
  PROVE  IInv'
<1>1. /\ canceler[c] # None /\ canceler[c].stage = "order" /\ canceler[c].how = "leg"
      /\ step = "idle" /\ ByOthers /\ Done(c) /\ Marks(c)
      /\ UNCHANGED <<placed, closing>> /\ Committed /\ UNCHANGED <<step, wrote>>
  BY DEF CancelLegOrder, At, ByOthers
<1>2. PICK s \in Stops : s = canceler[c].on
  BY <1>1, RequestFacts
<1>3. /\ raced \subseteq raced' /\ raced' \in SUBSET Stops
  BY <1>1, <1>2, Marked
<1>4. PICK sr : /\ stop' = [stop EXCEPT ![s] = sr] /\ CanceledStop(stop[s], sr)
                /\ canceler[c].marked => sr # None /\ sr.canceled
                /\ ~ canceler[c].marked => sr = stop[s]
  BY <1>1, <1>2, Marked
<1>5. CASE ~ Resting(leg[s])
  <2>1. UNCHANGED <<leg, lock>>
    BY <1>2, <1>5 DEF CancelLegOrder
  <2>2. Yields(s, sr, leg[s], placed[s], lock[s])
    BY <1>1, <1>3, <1>4, <2>1, IdleKept, StaysAsIs DEF Yields
  <2> QED
    BY <1>1, <2>2, DoneOk, YieldKeeps
<1>6. CASE Resting(leg[s])
  <2>1. leg' = [leg EXCEPT ![s].status = "canceled"] /\ lock' = [lock EXCEPT ![s] = 0]
    BY <1>2, <1>6 DEF CancelLegOrder
  <2>2. leg[s] # None
    BY <1>6 DEF Resting
  <2>3. PICK lr : leg' = [leg EXCEPT ![s] = lr] /\ CanceledOrder(leg[s], lr) /\ ~ Resting(lr)
    BY <2>1, <2>2, LegCanceled
  <2>4. sr = None \/ sr.canceled
    <3>1. ~ canceler[c].marked => kept.stop[s] = None \/ kept.stop[s].canceled
      BY <1>1, <1>2, RequestAbout
    <3>2. kept.stop[s] = stop[s]
      BY <1>1, IdleFacts
    <3> QED
      BY <1>4, <3>1, <3>2
  <2>5. placed[s] = <<>>
    <3>1. Rows(s, stop[s], leg[s], placed[s])
      BY InnerFacts
    <3> QED
      BY <1>6, <3>1 DEF Rows
  <2>6. Settled(sr, lr, placed[s])
    <3>1. DOMAIN <<>> = {}
      OBVIOUS
    <3> QED
      BY <2>3, <2>4, <2>5, <3>1 DEF Settled
  <2>7. stop'[s] = sr /\ leg'[s] = lr /\ placed'[s] = placed[s]
    BY <1>1, <1>4, <2>3 DEF IInv, TypeOK, StopColumn, LegColumn
  <2>8. Settled(kept'.stop[s], kept'.leg[s], kept'.placed[s])
    BY <1>1, <2>6, <2>7, IdleKept
  <2>9. Yields(s, sr, lr, placed[s], 0)
    <3>1. s \notin wrote.stops /\ s \notin wrote.legs /\ ~ AtWork(s)
      BY <1>1, IdleKept
    <3>2. /\ placed' = [placed EXCEPT ![s] = placed[s]] /\ CanceledOrders(placed[s], placed[s])
          /\ 0 \in Nat /\ 0 <= lock[s]
      BY <1>1, StaysAsIs
    <3> QED
      BY <1>3, <1>4, <2>1, <2>3, <2>6, <2>8, <3>1, <3>2 DEF Yields
  <2> QED
    BY <1>1, <2>9, DoneOk, YieldKeeps
<1> QED
  BY <1>5, <1>6

LEMMA CreateStopKeeps ==
  ASSUME IInv, NEW s \in Stops, CreateStop(s)
  PROVE  IInv'
<1>1. /\ s \notin Pairs /\ stop[s] = None
      /\ lock' = [lock EXCEPT ![s] = Amount]
      /\ UNCHANGED <<leg, placed, canceler, closing, raced>>
      /\ Committed /\ UNCHANGED <<step, maker, fresh, frames, late, due, wrote>>
  BY DEF CreateStop, ByOthers, others
<1>2. PICK row : /\ row \in StopRows /\ row # None /\ row.filled = 0 /\ ~ row.canceled
                 /\ stop' = [stop EXCEPT ![s] = row]
  <2>1. PICK market \in BOOLEAN, priced \in BOOLEAN :
          stop' = [stop EXCEPT ![s] =
            [market |-> market, priced |-> priced, canceled |-> FALSE, filled |-> 0]]
    BY DEF CreateStop
  <2> DEFINE row == [market |-> market, priced |-> priced, canceled |-> FALSE, filled |-> 0]
  <2>2. row \in StopRows /\ row.filled = 0 /\ ~ row.canceled
    BY DEF StopRows
  <2> QED
    BY <2>1, <2>2, NoneAssumption
<1>3. TiedOk(s) /\ KeptOk(s) /\ InnerOk(s) /\ Amount \in Nat /\ lock[s] \in Nat
  BY StopLossAssumption DEF IInv, TypeOK
<1>4. /\ leg[s] = None /\ placed[s] = <<>> /\ s \notin wrote.stops /\ s \notin wrote.legs
      /\ kept.stop[s] = None /\ kept.leg[s] = None /\ kept.placed[s] = <<>> /\ due[s] = 0
      /\ s # fresh
  BY <1>1, <1>3, NoneAssumption DEF TiedOk, KeptOk, InnerOk, Rows, IInv, TypeOK
<1>5. /\ stop'[s] = row /\ lock'[s] = Amount
      /\ \A u \in Stops \ {s} : stop'[u] = stop[u] /\ lock'[u] = lock[u]
  BY <1>1, <1>2 DEF IInv, TypeOK, StopColumn
<1>6. /\ kept'.stop[s] = row /\ kept'.leg[s] = None /\ kept'.placed[s] = <<>>
      /\ \A u \in Stops : kept'.leg[u] = kept.leg[u] /\ kept'.placed[u] = kept.placed[u]
      /\ \A u \in Stops \ {s} : kept'.stop[u] = kept.stop[u]
  <2>1. \A u \in Stops : TiedOk(u) /\ kept'.leg[u] = kept.leg[u] /\ kept'.placed[u] = kept.placed[u]
    BY <1>1, KeptAsIs DEF IInv
  <2>2. \A u \in Stops : kept'.stop[u] = IF u \in wrote.stops THEN kept.stop[u] ELSE stop'[u]
    BY <1>1 DEF Committed
  <2> QED
    BY <1>4, <1>5, <2>1, <2>2 DEF TiedOk
<1>7. TypeOK'
  <2>1. stop' \in StopColumn /\ lock' \in [Stops -> Nat]
    BY <1>1, <1>2, <1>3 DEF IInv, TypeOK, StopColumn
  <2>2. kept' \in [stop : StopColumn, leg : LegColumn, placed : PlacedColumn]
    <3>1. kept'.stop \in StopColumn
      <4>1. kept'.stop = [u \in Stops |-> kept'.stop[u]]
        BY <1>1 DEF Committed
      <4>2. \A u \in Stops : kept'.stop[u] \in StopRows \cup {None}
        BY <1>2, <1>6 DEF IInv, TypeOK, StopColumn
      <4> QED
        BY <4>1, <4>2 DEF StopColumn
    <3>2. kept'.leg \in LegColumn
      <4>1. kept'.leg = [u \in Stops |-> kept'.leg[u]]
        BY <1>1 DEF Committed
      <4>2. \A u \in Stops : kept'.leg[u] \in Orders \cup {None}
        BY <1>6 DEF IInv, TypeOK, LegColumn
      <4> QED
        BY <4>1, <4>2 DEF LegColumn
    <3>3. kept'.placed \in PlacedColumn
      BY <1>1 DEF Committed, IInv, TypeOK
    <3>4. kept' = [stop |-> kept'.stop, leg |-> kept'.leg, placed |-> kept'.placed]
      BY <1>1 DEF Committed
    <3> QED
      BY <3>1, <3>2, <3>3, <3>4
  <2> QED
    BY <1>1, <2>1, <2>2 DEF IInv, TypeOK
<1>8. /\ Rows(s, row, None, <<>>)
      /\ Bounded(row, None, <<>>, Amount)
      /\ Funded(row, None, <<>>, Amount)
  <2>1. Len(<<>>) = 0 /\ DOMAIN <<>> = {}
    OBVIOUS
  <2> QED
    BY <1>1, <1>2, <1>3, <2>1, TradedNone DEF Rows, Bounded, Funded, SoldBy, Resting
<1>9. ASSUME NEW u \in Stops PROVE InnerOk(u)' /\ KeptOk(u)'
  <2>1. CASE u = s
    <3>1. LockOf(u)' - due'[u] = Amount
      BY <1>1, <1>3, <1>4, <1>5, <2>1 DEF LockOf
    <3> QED
      BY <1>1, <1>4, <1>5, <1>6, <1>8, <2>1, <3>1 DEF InnerOk, KeptOk
  <2>2. CASE u # s
    <3>1. InnerOk(u) /\ KeptOk(u) /\ LockOf(u)' = LockOf(u)
      BY <1>1, <1>5, <2>2 DEF IInv, LockOf
    <3> QED
      BY <1>1, <1>5, <1>6, <2>2, <3>1 DEF InnerOk, KeptOk
  <2> QED
    BY <2>1, <2>2
<1>10. ASSUME NEW u \in Stops PROVE TiedOk(u)'
  <2>1. TiedOk(u) /\ AtOrder(u)' = AtOrder(u)
    BY <1>1 DEF IInv, AtOrder
  <2> QED
    BY <1>1, <1>2, <1>4, <1>5, <1>6, <2>1 DEF TiedOk, Resting
<1>11. IdleOk' /\ FreshOk' /\ MakerOk' /\ StepOk' /\ LaterOk'
  <2>1. IdleOk'
    BY <1>1 DEF IInv, IdleOk, Committed
  <2>2. FreshOk'
    <3>1. fresh # None => fresh \in Stops
      BY StopLossAssumption DEF IInv, TypeOK
    <3> QED
      BY <1>1, <1>4, <1>5, <1>6, <3>1 DEF IInv, FreshOk
  <2>3. MakerOk' /\ StepOk'
    BY <1>1 DEF IInv, MakerOk, StepOk, Top, Resting
  <2>4. LaterOk'
    BY <1>1, <1>2, <1>6 DEF IInv, LaterOk, TypeOK
  <2> QED
    BY <2>1, <2>2, <2>3, <2>4
<1>12. FramesOk'
  <2>1. \A u \in Stops : Grows(u)
    BY <1>1, <1>5 DEF Grows, Resting
  <2>2. ASSUME NEW i \in DOMAIN frames PROVE FrameOk(i)'
    <3>1. /\ frames'[i].rest \subseteq frames[i].rest /\ frames'[i].legs \subseteq frames[i].legs
          /\ \A u \in frames[i].legs : u \in frames'[i].legs \/ ~ Resting(leg'[u])
          /\ frames'[i].at \in {None, frames[i].at} /\ i \in DOMAIN frames'
          /\ \A u \in frames'[i].late : u \in frames[i].late \/ stop'[u] # None
      BY <1>1
    <3>2. TypeOK /\ FramesOk /\ raced \subseteq raced'
      BY <1>1 DEF IInv
    <3> QED
      BY <1>7, <2>1, <3>1, <3>2, FrameStays
  <2> QED
    BY <1>1, <2>2 DEF FramesOk
<1>13. ASSUME NEW c \in Cancelers, canceler'[c] # None PROVE RequestOk(c)'
  <2>1. canceler'[c] = canceler[c] /\ RequestOk(c) /\ canceler[c] \in Requests
    BY <1>1, <1>13 DEF IInv, TypeOK
  <2>2. PICK u \in Stops : u = canceler[c].on
    BY <2>1 DEF Requests
  <2>3. /\ canceler[c].marked => u \notin wrote'.stops
        /\ canceler[c].closed => u \notin wrote'.legs
    BY <1>1, <2>1, <2>2 DEF RequestOk
  <2>4. /\ kept.stop[u] # None =>
             kept'.stop[u] # None /\ (kept.stop[u].canceled => kept'.stop[u].canceled)
        /\ kept.leg[u] # None /\ kept.stop[u] = None => kept'.stop[u] = None
    BY <1>4, <1>6
  <2> QED
    BY <1>6, <2>1, <2>2, <2>3, <2>4, RequestStays DEF Resting
<1> QED
  BY <1>7, <1>9, <1>10, <1>11, <1>12, <1>13 DEF IInv

-----------------------------------------------------------------------------
LEMMA InitKeeps ==
  ASSUME Init
  PROVE  IInv
<1>1. Amount \in Nat /\ DOMAIN <<>> = {} /\ Len(<<>>) = 0 /\ <<>> \in Seq(Orders) /\ <<>> \in Seq(Frames)
  BY StopLossAssumption, EmptySeq
<1>2. /\ step = "idle" /\ maker = None /\ fresh = None /\ frames = <<>> /\ late = {} /\ closing = {}
      /\ wrote.stops = {} /\ wrote.legs = {} /\ kept.placed = placed /\ raced = {}
      /\ \A s \in Stops :
           /\ stop[s] = None /\ leg[s] = None /\ placed[s] = <<>> /\ lock[s] = 0 /\ due[s] = 0
           /\ kept.stop[s] = None /\ kept.leg[s] = None /\ kept.placed[s] = <<>>
      /\ \A c \in Cancelers : canceler[c] = None
  BY DEF Init
<1>3. TypeOK
  <2>1. stop \in StopColumn /\ leg \in LegColumn /\ placed \in PlacedColumn
    BY <1>1 DEF Init, StopColumn, LegColumn, PlacedColumn
  <2>2. kept \in [stop : StopColumn, leg : LegColumn, placed : PlacedColumn] /\ wrote \in WroteRows
    BY <2>1 DEF Init, WroteRows
  <2> QED
    BY <1>1, <2>1, <2>2 DEF Init, TypeOK
<1>4. ASSUME NEW s \in Stops PROVE InnerOk(s) /\ KeptOk(s) /\ TiedOk(s)
  <2>1. LockOf(s) = 0 /\ LockOf(s) - due[s] = 0
    BY <1>2, NoneAssumption DEF LockOf
  <2>2. Rows(s, None, None, <<>>)
    BY <1>1 DEF Rows, Resting
  <2>3. Bounded(None, None, <<>>, 0) /\ Funded(None, None, <<>>, 0)
    BY <1>1, TradedNone DEF Bounded, Funded, SoldBy, Resting, Open
  <2>4. InnerOk(s) /\ KeptOk(s)
    BY <1>2, <2>1, <2>2, <2>3 DEF InnerOk, KeptOk
  <2>5. TiedOk(s)
    BY <1>2 DEF TiedOk, Resting
  <2> QED
    BY <2>4, <2>5
<1>5. IdleOk /\ FreshOk /\ MakerOk /\ StepOk /\ FramesOk /\ LaterOk
  BY <1>1, <1>2 DEF IdleOk, FreshOk, MakerOk, StepOk, FramesOk, LaterOk
<1> QED
  BY <1>2, <1>3, <1>4, <1>5 DEF IInv

LEMMA NextKeeps ==
  ASSUME IInv, [Next]_vars
  PROVE  IInv'
<1>1. ASSUME NEW s \in Stops, CreateStop(s) \/ Close(s) PROVE IInv'
  BY <1>1, CreateStopKeeps, CloseKeeps
<1>2. CASE Matching
  <2>1. CASE Place
    <3>1. PICK copy \in Top.rest : PlaceOrder(copy) \/ PlaceNone(copy)
      BY <2>1 DEF Place
    <3> QED
      BY <2>1, <3>1, PlaceOrderKeeps, PlaceNoneKeeps
  <2>2. ASSUME NEW s \in Stops, CreatePair(s) PROVE IInv'
    BY <2>2, CreatePairKeeps
  <2> QED
    BY <1>2, <2>1, <2>2, EnterKeeps, MatchKeeps, ListKeeps, CancelLegKeeps, SaveKeeps,
       ReturnKeeps, CommitKeeps, FailsKeeps DEF Matching
<1>3. ASSUME NEW c \in Cancelers, Canceling(c) PROVE IInv'
  <2>1. CASE Drops(c)
    BY <2>1, DoneKeeps DEF Drops
  <2> QED
    BY <1>3, <2>1, AskKeeps, MarkKeeps, ReadLegKeeps, WriteLegKeeps, PlanKeeps,
       EndKeeps, ReleaseKeeps, CancelPlacedKeeps, CancelLegOrderKeeps DEF Canceling
<1>4. CASE UNCHANGED vars
  <2>1. UNCHANGED <<stop, leg, placed, lock, step, maker, fresh, frames, late, due, wrote, kept,
                    canceler, closing, raced>>
    BY <1>4 DEF vars, book, match, others
  <2>2. ASSUME NEW u \in Stops PROVE InnerOk(u)' /\ KeptOk(u)' /\ TiedOk(u)'
    <3>1. InnerOk(u) /\ KeptOk(u) /\ TiedOk(u) /\ LockOf(u)' = LockOf(u) /\ AtOrder(u)' = AtOrder(u)
      BY <2>1 DEF IInv, LockOf, AtOrder
    <3> QED
      BY <2>1, <3>1 DEF InnerOk, KeptOk, TiedOk, Resting
  <2>3. TypeOK' /\ IdleOk' /\ FreshOk' /\ StepOk' /\ LaterOk'
    BY <2>1 DEF IInv, TypeOK, IdleOk, FreshOk, StepOk, LaterOk, Top
  <2>4. MakerOk' /\ FramesOk'
    BY <2>1 DEF IInv, MakerOk, FramesOk, FrameOk, CopyOk, AtOk, Resting
  <2>5. \A c \in Cancelers : canceler'[c] # None => RequestOk(c)'
    BY <2>1 DEF IInv, RequestOk, Resting
  <2> QED
    BY <2>2, <2>3, <2>4, <2>5 DEF IInv
<1> QED
  BY <1>1, <1>2, <1>3, <1>4 DEF Next

(* What a request, a trade and the lists of the transaction rely on holds in  *)
(* every state.                                                               *)
THEOREM TypesAndRows == Spec => []IInv
<1>1. Init => IInv
  BY InitKeeps
<1>2. IInv /\ [Next]_vars => IInv'
  BY NextKeeps
<1> QED
  BY <1>1, <1>2, PTL DEF Spec

-----------------------------------------------------------------------------
(* What others see of a stop-loss. *)
LEMMA SeenOk ==
  ASSUME IInv, NEW s \in Stops
  PROVE  /\ StopNow(s) = kept.stop[s] /\ LegNow(s) = kept.leg[s] /\ PlacedNow(s) = kept.placed[s]
         /\ Row(kept.stop[s]) /\ LegRow(kept.leg[s]) /\ kept.placed[s] \in Seq(Orders)
         /\ KeptOk(s) /\ SoldByLeg(s) = SoldBy(kept.leg[s]) /\ SoldBy(kept.leg[s]) \in Nat
         /\ lock[s] \in Nat
<1>1. /\ StopNow(s) = kept.stop[s] /\ LegNow(s) = kept.leg[s] /\ PlacedNow(s) = kept.placed[s]
  BY NowFacts
<1>2. /\ Row(kept.stop[s]) /\ LegRow(kept.leg[s]) /\ kept.placed[s] \in Seq(Orders)
      /\ KeptOk(s) /\ lock[s] \in Nat
  BY DEF IInv, TypeOK, StopColumn, LegColumn, PlacedColumn, Row, LegRow
<1>3. SoldByLeg(s) = SoldBy(kept.leg[s]) /\ SoldBy(kept.leg[s]) \in Nat
  BY <1>1, <1>2, OrderFields DEF SoldByLeg, SoldBy, LegRow
<1> QED
  BY <1>1, <1>2, <1>3

(* Whatever is triggered again or canceled meanwhile, no more is sold for a   *)
(* customer than the amount that was locked, and what is still locked was not *)
(* sold: unless a MARKET stop-loss was triggered twice, which takes the whole *)
(* lock each time.                                                            *)
THEOREM SoldAlwaysOnce == Spec => []SoldOnce
<1>1. IInv => SoldOnce
  <2> SUFFICES ASSUME IInv, NEW s \in Stops, ~ (Twice(s) /\ ~ StopNow(s).priced)
               PROVE  SoldByLeg(s) + Traded(PlacedNow(s)) + lock[s] <= Amount
    BY DEF SoldOnce
  <2>1. ~ (Len(kept.placed[s]) > 1 /\ ~ kept.stop[s].priced)
    BY SeenOk DEF Twice
  <2>2. SoldBy(kept.leg[s]) + Traded(kept.placed[s]) + lock[s] <= Amount
    BY <2>1, SeenOk DEF KeptOk, Bounded
  <2> QED
    BY <2>2, SeenOk
<1> QED
  BY <1>1, TypesAndRows, PTL

(* filled_amount tells what a stop-loss's orders have sold, although it is    *)
(* written from the copy of a list; and only one half of an OCO ever trades.  *)
THEOREM FilledAlwaysSold == Spec => []FilledIsSold
<1>1. IInv => FilledIsSold
  <2> SUFFICES ASSUME IInv, NEW s \in Stops, ~ Twice(s)
               PROVE  /\ StopNow(s) # None => StopNow(s).filled = Traded(PlacedNow(s))
                      /\ OcoFilled(s) = SoldByLeg(s) + Traded(PlacedNow(s))
    BY DEF FilledIsSold
  <2>1. PICK st, lg, pl : st = kept.stop[s] /\ lg = kept.leg[s] /\ pl = kept.placed[s]
    OBVIOUS
  <2>2. /\ StopNow(s) = st /\ LegNow(s) = lg /\ PlacedNow(s) = pl
        /\ Row(st) /\ LegRow(lg) /\ pl \in Seq(Orders) /\ Rows(s, st, lg, pl)
        /\ SoldByLeg(s) = SoldBy(lg) /\ SoldBy(lg) \in Nat
    BY <2>1, SeenOk DEF KeptOk
  <2>3. Len(pl) \in Nat /\ Len(pl) <= 1 /\ (Len(pl) = 0 => pl = <<>>)
    BY <2>2, LenProperties, EmptySeq DEF Twice
  <2>4. st # None => st.filled = Traded(pl)
    <3>1. CASE Len(pl) = 0
      BY <2>2, <2>3, <3>1, TradedNone DEF Rows
    <3>2. CASE Len(pl) = 1
      BY <2>2, <3>2, TradedOne DEF Rows
    <3> QED
      BY <2>3, <3>1, <3>2
  <2>5. st = None => Traded(pl) = 0
    BY <2>2, TradedNone DEF Rows
  <2>6. SoldBy(lg) > 0 => Traded(pl) = 0
    <3>1. SoldBy(lg) > 0 => pl = <<>>
      BY <2>2 DEF Rows, SoldBy
    <3> QED
      BY <3>1, TradedNone
  <2>7. Traded(pl) \in Nat
    BY <2>2, TradedNat
  <2>8. OcoFilled(s) = IF SoldBy(lg) > 0 THEN SoldBy(lg) ELSE IF st = None THEN 0 ELSE st.filled
    BY <2>2 DEF OcoFilled
  <2> QED
    BY <2>2, <2>4, <2>5, <2>6, <2>7, <2>8
<1> QED
  BY <1>1, TypesAndRows, PTL

(* What rests in the book, and a stop-loss that waits, has the lock it needs  *)
(* to be matched: unless it was canceled while a trade triggered it, or was   *)
(* triggered twice.                                                           *)
THEOREM OpenAlwaysFunded == Spec => []OpenIsFunded
<1>1. IInv => OpenIsFunded
  <2> SUFFICES ASSUME IInv, NEW s \in Stops, s \notin raced, ~ Twice(s)
               PROVE  /\ Resting(LegNow(s)) => lock[s] >= Amount - LegNow(s).filled
                      /\ \A i \in DOMAIN PlacedNow(s) :
                           Resting(PlacedNow(s)[i]) =>
                             lock[s] >= PlacedNow(s)[i].amount - PlacedNow(s)[i].filled
                      /\ Open(StopNow(s)) /\ PlacedNow(s) = <<>> => lock[s] = Amount
    BY DEF OpenIsFunded
  <2>1. kept.placed[s] \in Seq(Orders) /\ Len(kept.placed[s]) <= 1
    <3>1. Len(kept.placed[s]) \in Nat
      BY SeenOk, LenProperties
    <3> QED
      BY <3>1, SeenOk DEF Twice
  <2>2. Funded(kept.stop[s], kept.leg[s], kept.placed[s], lock[s])
    BY SeenOk DEF KeptOk
  <2> QED
    BY <2>1, <2>2, SeenOk DEF Funded, Resting, Open
<1> QED
  BY <1>1, TypesAndRows, PTL
=============================================================================
