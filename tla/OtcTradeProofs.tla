--------------------------- MODULE OtcTradeProofs ---------------------------
(***************************************************************************)
(* For any number of trades and handlers: no handler of an OTC trade looks *)
(* at its status when it writes it, and yet a trade is PENDING exactly     *)
(* while its amount is held, its row says what happened to the amount      *)
(* unless a handler set about it too late, and it is charged once.         *)
(*                                                                         *)
(* The argument is what a handler saw of the lock: a trade whose lock it   *)
(* saw released already had left PENDING, for good (SawTrue); one whose    *)
(* lock it saw is written only if the hold is still there.                 *)
(***************************************************************************)
EXTENDS OtcTrade, TLAPS

Existing == {t \in Trades : status[t] # "none"}

Working(h) == handler[h] # None

SawRight(h) ==
  Working(h) =>
    /\ handler[h].on \subseteq Existing
    /\ handler[h].saw \subseteq handler[h].on
    /\ handler[h].stage # "listed" =>
         \A t \in handler[h].on \ handler[h].saw : funds[t] # "held" /\ t \in outdated

SawTrue == \A h \in Handlers : SawRight(h)

SumOrdered(h) ==
  Working(h) /\ handler[h].stage = "ordered" =>
    /\ handler[h].on \subseteq handler[h].sum
    /\ handler[h].answer = "taken" => handler[h].sum \subseteq ordered
    /\ handler[h].answer = "unhedged" => \A t \in handler[h].on : asset[t] \in paused

SumsOrdered == \A h \in Handlers : SumOrdered(h)

(* Where a trade that is not PENDING has got to. *)
NotYet == \A t \in Trades : status[t] = "none" <=> funds[t] = "none"

IInv ==
  /\ TypeOK /\ HeldWhilePending /\ StatusTrue /\ NotYet
  /\ SawTrue /\ HedgedWasOrdered /\ SumsOrdered

-----------------------------------------------------------------------------
(* Types.                                                                     *)

(* A request is typed, *)
LEMMA RequestTyped ==
  ASSUME TypeOK, NEW h \in Handlers, NEW t \in Trades, Request(h, t)
  PROVE  TypeOK'
<1>1. Listed("execute", {t}) \in HandlerStates
  BY DEF Listed, HandlerStates, Acts, Answers
<1>2. handler' \in [Handlers -> HandlerStates \cup {None}]
  BY <1>1 DEF Request, Becomes, TypeOK
<1>3. QED BY <1>2 DEF Request, TypeOK, Statuses

(* and the lists of the others,                                               *)
LEMMA ListsTyped ==
  ASSUME TypeOK, NEW h \in Handlers, NEW act \in Acts, NEW on \in SUBSET Trades,
         Lists(h, act, on)
  PROVE  TypeOK'
<1>1. Listed(act, on) \in HandlerStates
  BY DEF Listed, HandlerStates, Answers
<1>2. QED BY <1>1 DEF Lists, Becomes, TypeOK, ledger, hedges

(* and what a handler does next.                                              *)
LEMMA WorkTyped ==
  ASSUME TypeOK, NEW h \in Handlers,
         Release(h) \/ Order(h) \/ Refused(h) \/ Commits(h) \/ Undone(h)
  PROVE  TypeOK'
<1>1. handler[h] \in HandlerStates
  BY DEF Release, Order, Refused, Commits, Close, Fill, Settle, Revert, Undone, At, TypeOK
<1>2. Listed("reject", handler[h].on) \in HandlerStates
  BY <1>1 DEF Listed, HandlerStates, Acts, Answers
<1>3. CASE Release(h)
  <2>1. [handler[h] EXCEPT !.stage = "released",
                           !.saw = {t \in handler[h].on : funds[t] = "held"}] \in HandlerStates
    BY <1>1 DEF HandlerStates
  <2>2. handler' \in [Handlers -> HandlerStates \cup {None}]
    BY <1>2, <1>3, <2>1 DEF Release, Becomes, TypeOK
  <2>3. outdated' \in SUBSET Trades
    BY <1>1, <1>3 DEF Release, TypeOK, HandlerStates
  <2>4. QED BY <1>3, <2>2, <2>3 DEF Release, TypeOK, ledger, hedges
<1>4. CASE Order(h)
  <2>1. PICK t \in handler[h].on, answer \in MayAnswer(h) :
          LET sum == PendingHedge(asset[t]) \cup handler[h].on IN
            /\ ordered' = IF answer = "taken" THEN ordered \cup sum ELSE ordered
            /\ Becomes(h, [handler[h] EXCEPT
                 !.stage = "ordered", !.sum = sum, !.answer = answer])
    BY <1>4 DEF Order
  <2>2. PendingHedge(asset[t]) \cup handler[h].on \in SUBSET Trades
    BY <1>1 DEF PendingHedge, Provided, HandlerStates
  <2>3. [handler[h] EXCEPT !.stage = "ordered", !.answer = answer,
           !.sum = PendingHedge(asset[t]) \cup handler[h].on] \in HandlerStates
    BY <1>1, <2>2 DEF HandlerStates, MayAnswer, Answers
  <2>4. QED BY <1>4, <2>1, <2>2, <2>3 DEF Order, Becomes, TypeOK, ledger
<1>5. CASE Refused(h) \/ Undone(h)
  BY <1>2, <1>5 DEF Refused, Undone, Becomes, TypeOK, ledger, hedges
<1>6. CASE Close(h)
  BY <1>1, <1>6
  DEF Close, ClosedBy, Becomes, TypeOK, Statuses, Closed, HandlerStates, ledger, hedges
<1>7. CASE Fill(h)
  <2>1. /\ status' \in [Trades -> Statuses \cup {"none"}]
        /\ funds' \in [Trades -> {"none", "held", "charged", "returned", "reverted"}]
    BY <1>1, <1>7 DEF Fill, Charge, TypeOK, Statuses, HandlerStates, ledger
  <2>2. QED BY <1>2, <1>7, <2>1 DEF Fill, Becomes, TypeOK, hedges
<1>8. CASE Settle(h)
  <2>1. PICK t \in handler[h].on :
          /\ Charge(t)
          /\ LET marked == IF handler[h].answer = "none" THEN {}
                           ELSE PendingHedge(asset[t]) \cup {t} IN
               hedged' = [u \in Trades |-> hedged[u] \/ u \in marked]
          /\ slipped' = slipped \cup Slips(h, t)
    BY <1>8 DEF Settle
  <2>2. t \in Trades
    BY <1>1, <2>1 DEF HandlerStates
  <2>3. /\ status' \in [Trades -> Statuses \cup {"none"}]
        /\ funds' \in [Trades -> {"none", "held", "charged", "returned", "reverted"}]
    BY <2>1, <2>2 DEF Charge, TypeOK, Statuses
  <2>4. hedged' \in [Trades -> BOOLEAN] /\ slipped' \in SUBSET Trades
    BY <2>1, <2>2 DEF TypeOK, Slips, PendingHedge, Provided
  <2>5. QED BY <1>8, <2>3, <2>4 DEF Settle, Becomes, TypeOK
<1>9. CASE Revert(h)
  BY <1>1, <1>9 DEF Revert, Becomes, TypeOK, Statuses, HandlerStates, hedges
<1>10. QED BY <1>3, <1>4, <1>5, <1>6, <1>7, <1>8, <1>9 DEF Commits

(* What sets a handler to work, with the list it works on.                    *)
LEMMA StartsLists ==
  ASSUME TypeOK, NEW h \in Handlers, Starts(h)
  PROVE  \/ \E t \in Trades : Request(h, t)
         \/ \E act \in Acts, on \in SUBSET Existing : Lists(h, act, on)
<1>1. ASSUME NEW t \in Trades,
             CancelLists(h, t) \/ TriggerLists(h, t) \/ RetryLists(h, t) \/ StaffLists(h, t)
      PROVE  \E act \in Acts : Lists(h, act, {t}) /\ {t} \in SUBSET Existing
  BY <1>1
  DEF CancelLists, TriggerLists, RetryLists, StaffLists, Pending, Acts, Existing
<1>2. CASE ExpireLists(h)
  <2>1. {t \in Limits : Pending(t) /\ expired[t]} \in SUBSET Existing
    BY OtcAssumption DEF Existing, Pending
  <2>2. QED BY <1>2, <2>1 DEF ExpireLists, Acts
<1>3. QED BY <1>1, <1>2 DEF Starts

(* Every step. *)
LEMMA NextTyped ==
  ASSUME TypeOK, Next
  PROVE  TypeOK'
<1>1. ASSUME NEW t \in Trades, Expires(t)
      PROVE  TypeOK'
  BY <1>1 DEF Expires, TypeOK, ledger, hedges
<1>2. ASSUME NEW h \in Handlers, Starts(h)
      PROVE  TypeOK'
  <2>1. SUBSET Existing \subseteq SUBSET Trades
    BY DEF Existing
  <2>2. QED BY <1>2, <2>1, StartsLists, RequestTyped, ListsTyped
<1>3. ASSUME NEW a \in Assets, Pause(a)
      PROVE  TypeOK'
  BY <1>3 DEF Pause, TypeOK, ledger
<1>4. QED BY <1>1, <1>2, <1>3, WorkTyped DEF Next

-----------------------------------------------------------------------------
(* Rows and funds.                                                            *)

(* What a step may do to the row and the funds of a trade. *)
RowLaw(t) ==
  \/ status'[t] = status[t] /\ funds'[t] = funds[t]
  \/ status[t] = "none" /\ status'[t] = "PENDING" /\ funds[t] = "none" /\ funds'[t] = "held"
  \/ status'[t] \in Closed /\ funds[t] = "held" /\ funds'[t] = "returned"
  \/ /\ status'[t] \in Closed /\ t \in outdated
     /\ funds[t] \notin {"held", "none"} /\ funds'[t] = funds[t]
  \/ status'[t] = "DONE" /\ funds[t] = "held" /\ funds'[t] = "charged"
  \/ status'[t] = "DONE" /\ t \in outdated /\ funds[t] = "returned" /\ funds'[t] = "charged"
  \/ status'[t] = "REVERT" /\ funds[t] = "charged" /\ funds'[t] = "reverted"

(* What the handlers write obeys it: what they saw of the lock is all they    *)
(* need to look at.                                                           *)
LEMMA WorkLaw ==
  ASSUME IInv, NEW h \in Handlers, Commits(h)
  PROVE  /\ \A t \in Trades : RowLaw(t)
         /\ outdated' = outdated
<1>1. /\ handler[h] \in HandlerStates /\ Working(h)
      /\ handler[h].on \subseteq Existing
      /\ handler[h].saw \subseteq handler[h].on
      /\ handler[h].stage # "listed" =>
           \A t \in handler[h].on \ handler[h].saw : funds[t] # "held" /\ t \in outdated
  BY DEF Commits, Close, Fill, Settle, Revert, At, IInv, TypeOK, SawTrue, SawRight, Working
<1>2. \A t \in handler[h].on : t \in Trades /\ funds[t] # "none"
  BY <1>1 DEF Existing, IInv, NotYet
<1>3. CASE Close(h)
  <2>1. CASE UNCHANGED ledger
    BY <1>3, <2>1 DEF Close, ledger, RowLaw
  <2>2. CASE ~ UNCHANGED ledger
    <3> DEFINE on == handler[h].on
               saw == handler[h].saw
    <3>1. /\ \A t \in saw : funds[t] = "held"
          /\ status' = [t \in Trades |-> IF t \in on THEN ClosedBy(handler[h].act) ELSE status[t]]
          /\ funds' = [t \in Trades |-> IF t \in saw THEN "returned" ELSE funds[t]]
          /\ handler[h].stage = "released" /\ outdated' = outdated
      BY <1>3, <2>2 DEF Close, At, ledger
    <3>2. ClosedBy(handler[h].act) \in Closed
      BY DEF ClosedBy, Closed
    <3>3. ASSUME NEW t \in Trades PROVE RowLaw(t)
      <4>1. CASE t \in saw
        BY <1>1, <3>1, <3>2, <4>1 DEF RowLaw
      <4>2. CASE t \in on \ saw
        <5>1. funds[t] \notin {"held", "none"} /\ t \in outdated
          BY <1>1, <1>2, <3>1, <4>2
        <5>2. QED BY <3>1, <3>2, <4>2, <5>1 DEF RowLaw
      <4>3. CASE t \notin on
        BY <1>1, <3>1, <4>3 DEF RowLaw
      <4>4. QED BY <4>1, <4>2, <4>3
    <3>4. QED BY <3>1, <3>3
  <2>3. QED BY <2>1, <2>2
<1>4. CASE Fill(h) \/ Settle(h)
  <2>1. CASE UNCHANGED ledger
    BY <1>4, <2>1 DEF Fill, Settle, ledger, RowLaw
  <2>2. CASE ~ UNCHANGED ledger
    <3>1. PICK t \in handler[h].on : MayCharge(h, t) /\ Charge(t)
      BY <1>4, <2>2 DEF Fill, Settle
    <3>2. t \in Trades /\ handler[h].stage # "listed" /\ outdated' = outdated
      BY <1>2, <1>4, <3>1 DEF Fill, Settle, At
    <3>3. RowLaw(t)
      BY <1>1, <3>1, <3>2 DEF MayCharge, Charge, RowLaw, IInv, TypeOK
    <3>4. \A u \in Trades \ {t} : RowLaw(u)
      BY <3>1, <3>2 DEF Charge, RowLaw, IInv, TypeOK
    <3>5. QED BY <3>2, <3>3, <3>4
  <2>3. QED BY <2>1, <2>2
<1>5. CASE Revert(h)
  <2>1. PICK t \in handler[h].on :
          /\ funds[t] = "charged"
          /\ status' = [status EXCEPT ![t] = "REVERT"]
          /\ funds' = [funds EXCEPT ![t] = "reverted"]
    BY <1>5 DEF Revert
  <2>2. t \in Trades /\ outdated' = outdated
    BY <1>2, <1>5, <2>1 DEF Revert
  <2>3. \A u \in Trades : RowLaw(u)
    BY <2>1, <2>2 DEF RowLaw, IInv, TypeOK
  <2>4. QED BY <2>2, <2>3
<1>6. QED BY <1>3, <1>4, <1>5 DEF Commits

(* So does every step.                                                        *)
LEMMA NextLaw ==
  ASSUME IInv, Next
  PROVE  /\ \A t \in Trades : RowLaw(t)
         /\ outdated \subseteq outdated'
<1>1. ASSUME NEW h \in Handlers, NEW t \in Trades, Request(h, t)
      PROVE  (\A u \in Trades : RowLaw(u)) /\ outdated' = outdated
  BY <1>1 DEF Request, RowLaw, IInv, TypeOK, NotYet
<1>2. ASSUME NEW h \in Handlers, NEW act \in Acts, NEW on \in SUBSET Existing,
             Lists(h, act, on)
      PROVE  (\A u \in Trades : RowLaw(u)) /\ outdated' = outdated
  BY <1>2 DEF Lists, ledger, RowLaw
<1>3. ASSUME NEW h \in Handlers, Starts(h)
      PROVE  (\A u \in Trades : RowLaw(u)) /\ outdated' = outdated
  BY <1>1, <1>2, <1>3, StartsLists DEF IInv
<1>4. ASSUME NEW h \in Handlers, Release(h) \/ Order(h) \/ Refused(h) \/ Undone(h)
      PROVE  (\A u \in Trades : RowLaw(u)) /\ outdated \subseteq outdated'
  BY <1>4 DEF Release, Order, Refused, Undone, ledger, RowLaw
<1>5. ASSUME NEW t \in Trades, Expires(t)
      PROVE  (\A u \in Trades : RowLaw(u)) /\ outdated' = outdated
  BY <1>5 DEF Expires, ledger, RowLaw
<1>6. ASSUME NEW a \in Assets, Pause(a)
      PROVE  (\A u \in Trades : RowLaw(u)) /\ outdated' = outdated
  BY <1>6 DEF Pause, ledger, RowLaw
<1>7. QED BY <1>3, <1>4, <1>5, <1>6, WorkLaw DEF Next

(* Hence rows and funds keep agreeing. *)
LEMMA NextRows ==
  ASSUME IInv, Next
  PROVE  HeldWhilePending' /\ StatusTrue' /\ NotYet'
<1>1. \A t \in Trades : RowLaw(t) /\ (t \in outdated => t \in outdated')
  BY NextLaw
<1>2. HeldWhilePending' /\ NotYet'
  <2>1. ASSUME NEW t \in Trades
        PROVE  /\ status'[t] = "PENDING" <=> funds'[t] = "held"
               /\ status'[t] = "none" <=> funds'[t] = "none"
    BY <1>1 DEF RowLaw, IInv, HeldWhilePending, NotYet, Closed
  <2>2. QED BY <2>1 DEF HeldWhilePending, NotYet
<1>3. StatusTrue'
  <2>1. ASSUME NEW t \in Trades \ outdated'
        PROVE  /\ status'[t] = "DONE" <=> funds'[t] = "charged"
               /\ status'[t] \in Closed <=> funds'[t] = "returned"
               /\ status'[t] = "REVERT" <=> funds'[t] = "reverted"
    BY <1>1 DEF RowLaw, IInv, StatusTrue, Closed
  <2>2. QED BY <2>1 DEF StatusTrue
<1>4. QED BY <1>2, <1>3

-----------------------------------------------------------------------------
(* What the handlers saw.                                                     *)

(* A trade's hold does not come back, and the row does not go.                *)
LEMMA NoHoldAgain ==
  ASSUME IInv, Next, NEW t \in Existing
  PROVE  /\ t \in Existing'
         /\ funds[t] # "held" => funds'[t] # "held"
         /\ t \in outdated => t \in outdated'
  BY NextLaw DEF RowLaw, Existing, Closed, IInv, NotYet

(* A handler that a step leaves alone goes on having seen the truth,          *)
LEMMA SawKept ==
  ASSUME IInv, Next, NEW g \in Handlers, handler'[g] = handler[g]
  PROVE  SawRight(g)'
<1>1. CASE ~ Working(g)
  BY <1>1 DEF SawRight, Working
<1>2. CASE Working(g)
  <2>1. handler[g].on \subseteq Existing
    BY <1>2 DEF IInv, SawTrue, SawRight
  <2>2. QED BY <1>2, <2>1, NoHoldAgain DEF IInv, SawTrue, SawRight, Working
<1>3. QED BY <1>1, <1>2

(* one that is set to work has seen nothing yet,                              *)
LEMMA SawListed ==
  ASSUME IInv, Next, NEW h \in Handlers, NEW act, NEW on \in SUBSET Existing',
         handler'[h] = Listed(act, on)
  PROVE  SawRight(h)'
  BY DEF SawRight, Working, Listed

(* and the rest follows from what it saw when it read the locks.              *)
LEMMA SawByRelease ==
  ASSUME IInv, Next, NEW h \in Handlers, Release(h)
  PROVE  SawRight(h)'
<1>1. /\ handler[h] \in HandlerStates /\ Working(h)
      /\ handler[h].on \subseteq Existing
  BY DEF Release, At, IInv, TypeOK, SawTrue, SawRight, Working
<1>2. handler[h].on \in SUBSET Existing'
  BY <1>1, NoHoldAgain
<1>3. CASE handler'[h] = Listed("reject", handler[h].on)
  BY <1>2, <1>3, SawListed
<1>4. CASE handler'[h] # Listed("reject", handler[h].on)
  <2>1. /\ handler'[h] = [handler[h] EXCEPT
             !.stage = "released", !.saw = {t \in handler[h].on : funds[t] = "held"}]
        /\ outdated' = outdated \cup {t \in handler[h].on : ~ Pending(t)}
        /\ UNCHANGED ledger
    BY <1>4 DEF Release, Becomes, IInv, TypeOK
  <2>2. /\ handler'[h].on = handler[h].on
        /\ handler'[h].saw = {t \in handler[h].on : funds[t] = "held"}
    BY <1>1, <2>1 DEF HandlerStates
  <2>3. \A t \in handler[h].on : funds[t] # "held" => t \in outdated'
    BY <1>1, <2>1 DEF Pending, IInv, HeldWhilePending, Existing
  <2>4. QED BY <1>2, <2>1, <2>2, <2>3 DEF SawRight, ledger
<1>5. QED BY <1>3, <1>4

(* What the other steps make of the handler.                                  *)
LEMMA WorkHandler ==
  ASSUME IInv, NEW h \in Handlers, Order(h) \/ Refused(h) \/ Commits(h) \/ Undone(h)
  PROVE  /\ Working(h) /\ handler[h] \in HandlerStates
         /\ \A g \in Handlers \ {h} : handler'[g] = handler[g]
         /\ \/ handler'[h] = None
            \/ handler'[h] = Listed("reject", handler[h].on)
            \/ /\ Order(h) /\ handler[h].stage = "released"
               /\ handler'[h] \in HandlerStates
               /\ handler'[h].on = handler[h].on /\ handler'[h].saw = handler[h].saw
               /\ handler[h].on \subseteq handler'[h].sum
               /\ handler'[h].answer = "taken" => handler'[h].sum \subseteq ordered'
               /\ handler'[h].answer = "unhedged" => \A t \in handler[h].on : asset[t] \in paused
<1>1. Working(h) /\ handler[h] \in HandlerStates
  BY DEF Order, Refused, Commits, Close, Fill, Settle, Revert, Undone, At, IInv, TypeOK, Working
<1>2. CASE Order(h)
  <2>1. PICK t \in handler[h].on, answer \in MayAnswer(h) :
          LET sum == PendingHedge(asset[t]) \cup handler[h].on IN
            /\ ordered' = IF answer = "taken" THEN ordered \cup sum ELSE ordered
            /\ handler' = [handler EXCEPT ![h] = [handler[h] EXCEPT
                 !.stage = "ordered", !.sum = sum, !.answer = answer]]
    BY <1>2 DEF Order, Becomes
  <2> DEFINE sum == PendingHedge(asset[t]) \cup handler[h].on
  <2>2. handler'[h] = [handler[h] EXCEPT !.stage = "ordered", !.sum = sum, !.answer = answer]
    BY <2>1 DEF IInv, TypeOK
  <2>3. sum \in SUBSET Trades /\ answer \in Answers
    BY <1>1 DEF PendingHedge, Provided, HandlerStates, MayAnswer, Answers
  <2>4. /\ handler'[h] \in HandlerStates
        /\ handler'[h].on = handler[h].on /\ handler'[h].saw = handler[h].saw
        /\ handler'[h].sum = sum
        /\ handler'[h].answer = answer
    BY <1>1, <2>2, <2>3 DEF HandlerStates
  <2>5. answer = "unhedged" => \A u \in handler[h].on : asset[u] \in paused
    BY DEF MayAnswer
  <2>6. \A g \in Handlers \ {h} : handler'[g] = handler[g]
    BY <2>1 DEF IInv, TypeOK
  <2>7. handler[h].stage = "released"
    BY <1>2 DEF Order, At
  <2>8. QED BY <1>1, <1>2, <2>1, <2>4, <2>6, <2>7, <2>5
<1>3. CASE Refused(h) \/ Commits(h) \/ Undone(h)
  BY <1>1, <1>3 DEF Refused, Commits, Close, Fill, Settle, Revert, Undone, Becomes, IInv, TypeOK
<1>4. QED BY <1>2, <1>3

(* None of them reads the locks again.                                        *)
LEMMA SawByWork ==
  ASSUME IInv, Next, NEW h \in Handlers, Order(h) \/ Refused(h) \/ Commits(h) \/ Undone(h)
  PROVE  SawRight(h)'
<1>1. SawRight(h) /\ handler[h].on \subseteq Existing
  BY WorkHandler DEF IInv, SawTrue, SawRight
<1>2. handler[h].on \in SUBSET Existing'
  BY <1>1, NoHoldAgain
<1>3. CASE handler'[h] = None
  BY <1>3 DEF SawRight, Working
<1>4. CASE handler'[h] = Listed("reject", handler[h].on)
  BY <1>2, <1>4, SawListed
<1>5. CASE /\ handler[h].stage = "released"
           /\ handler'[h].on = handler[h].on /\ handler'[h].saw = handler[h].saw
  <2>1. /\ handler[h].saw \subseteq handler[h].on
        /\ \A t \in handler[h].on \ handler[h].saw : funds[t] # "held" /\ t \in outdated
    BY <1>1, <1>5, WorkHandler DEF SawRight
  <2>2. QED BY <1>1, <1>2, <1>5, <2>1, NoHoldAgain DEF SawRight
<1>6. QED BY <1>3, <1>4, <1>5, WorkHandler

(* Every step. *)
LEMMA NextSaw ==
  ASSUME IInv, Next
  PROVE  SawTrue'
<1>1. ASSUME NEW t \in Trades, Expires(t)
      PROVE  SawTrue'
  BY <1>1, SawKept DEF Expires, SawTrue
<1>2. ASSUME NEW h \in Handlers, NEW t \in Trades, Request(h, t)
      PROVE  SawTrue'
  <2>1. \A g \in Handlers \ {h} : handler'[g] = handler[g]
    BY <1>2 DEF Request, Becomes, IInv, TypeOK
  <2>2. {t} \in SUBSET Existing'
    BY <1>2 DEF Request, Existing, IInv, TypeOK
  <2>3. handler'[h] = None \/ handler'[h] = Listed("execute", {t})
    BY <1>2 DEF Request, Becomes, IInv, TypeOK
  <2>4. SawRight(h)'
    <3>1. CASE handler'[h] = None BY <3>1 DEF SawRight, Working
    <3>2. CASE handler'[h] = Listed("execute", {t}) BY <2>2, <3>2, SawListed
    <3>3. QED BY <2>3, <3>1, <3>2
  <2>5. QED BY <2>1, <2>4, SawKept DEF SawTrue
<1>3. ASSUME NEW h \in Handlers, NEW act \in Acts, NEW on \in SUBSET Existing,
             Lists(h, act, on)
      PROVE  SawTrue'
  <2>1. /\ \A g \in Handlers \ {h} : handler'[g] = handler[g]
        /\ handler'[h] = Listed(act, on)
    BY <1>3 DEF Lists, Becomes, IInv, TypeOK
  <2>2. on \in SUBSET Existing'
    BY NoHoldAgain
  <2>3. QED BY <2>1, <2>2, SawListed, SawKept DEF SawTrue
<1>4. ASSUME NEW h \in Handlers, Starts(h)
      PROVE  SawTrue'
  BY <1>2, <1>3, <1>4, StartsLists DEF IInv
<1>5. ASSUME NEW h \in Handlers, Release(h)
      PROVE  SawTrue'
  <2>1. \A g \in Handlers \ {h} : handler'[g] = handler[g]
    BY <1>5 DEF Release, Becomes, IInv, TypeOK
  <2>2. QED BY <1>5, <2>1, SawByRelease, SawKept DEF SawTrue
<1>6. ASSUME NEW h \in Handlers, Order(h) \/ Refused(h) \/ Commits(h) \/ Undone(h)
      PROVE  SawTrue'
  <2>1. \A g \in Handlers \ {h} : handler'[g] = handler[g]
    BY <1>6, WorkHandler
  <2>2. QED BY <1>6, <2>1, SawByWork, SawKept DEF SawTrue
<1>7. ASSUME NEW a \in Assets, Pause(a)
      PROVE  SawTrue'
  BY <1>7, SawKept DEF Pause, SawTrue
<1>8. QED BY <1>1, <1>4, <1>5, <1>6, <1>7 DEF Next

-----------------------------------------------------------------------------
(* What the provider was asked for.                                           *)

(* A row's asset is what it was created with; what was paused or ordered      *)
(* stays in the history.                                                      *)
LEMMA NextAssets ==
  ASSUME IInv, Next
  PROVE  /\ \A t \in Existing : asset'[t] = asset[t]
         /\ paused \subseteq paused' /\ ordered \subseteq ordered'
<1>1. ASSUME NEW h \in Handlers, NEW t \in Trades, Request(h, t)
      PROVE  /\ \A u \in Existing : asset'[u] = asset[u]
             /\ paused' = paused /\ ordered' = ordered
  BY <1>1 DEF Request, Existing, IInv, TypeOK
<1>2. ASSUME NEW h \in Handlers, Starts(h)
      PROVE  /\ \A u \in Existing : asset'[u] = asset[u]
             /\ paused' = paused /\ ordered' = ordered
  BY <1>1, <1>2, StartsLists DEF Lists, hedges, IInv
<1>3. ASSUME NEW h \in Handlers,
             Release(h) \/ Order(h) \/ Refused(h) \/ Commits(h) \/ Undone(h)
      PROVE  asset' = asset /\ paused' = paused /\ ordered \subseteq ordered'
  BY <1>3
  DEF Release, Order, Refused, Commits, Close, Fill, Settle, Revert, Undone, hedges
<1>4. ASSUME \/ \E t \in Trades : Expires(t)
             \/ \E a \in Assets : Pause(a)
      PROVE  asset' = asset /\ paused \subseteq paused' /\ ordered' = ordered
  BY <1>4 DEF Expires, Pause, hedges
<1>5. QED BY <1>2, <1>3, <1>4 DEF Next

(* What a step asks for is what it sums, of an asset that is hedged.          *)
LEMMA NextSums ==
  ASSUME IInv, Next
  PROVE  SumsOrdered'
<1>1. ASSUME NEW g \in Handlers, handler'[g] = handler[g]
      PROVE  SumOrdered(g)'
  <2>1. Working(g) => handler[g].on \subseteq Existing
    BY DEF IInv, SawTrue, SawRight
  <2>2. SumOrdered(g)
    BY DEF IInv, SumsOrdered
  <2>3. QED BY <1>1, <2>1, <2>2, NextAssets DEF SumOrdered, Working
<1>2. ASSUME NEW h \in Handlers, handler'[h] # None => handler'[h].stage # "ordered",
             \A g \in Handlers \ {h} : handler'[g] = handler[g]
      PROVE  SumsOrdered'
  <2>1. SumOrdered(h)'
    BY <1>2 DEF SumOrdered, Working
  <2>2. QED BY <1>1, <1>2, <2>1 DEF SumsOrdered
<1>3. ASSUME \/ \E t \in Trades : Expires(t)
             \/ \E a \in Assets : Pause(a)
      PROVE  SumsOrdered'
  BY <1>1, <1>3 DEF Expires, Pause, SumsOrdered
<1>4. ASSUME NEW h \in Handlers, NEW t \in Trades, Request(h, t)
      PROVE  SumsOrdered'
  <2>1. \A g \in Handlers \ {h} : handler'[g] = handler[g]
    BY <1>4 DEF Request, Becomes, IInv, TypeOK
  <2>2. handler'[h] = None \/ handler'[h].stage = "listed"
    BY <1>4 DEF Request, Becomes, Listed, IInv, TypeOK
  <2>3. QED BY <1>2, <2>1, <2>2
<1>5. ASSUME NEW h \in Handlers, NEW act \in Acts, NEW on \in SUBSET Existing,
             Lists(h, act, on)
      PROVE  SumsOrdered'
  <2>1. \A g \in Handlers \ {h} : handler'[g] = handler[g]
    BY <1>5 DEF Lists, Becomes, IInv, TypeOK
  <2>2. handler'[h].stage = "listed"
    BY <1>5 DEF Lists, Becomes, Listed, IInv, TypeOK
  <2>3. QED BY <1>2, <2>1, <2>2
<1>6. ASSUME NEW h \in Handlers, Starts(h)
      PROVE  SumsOrdered'
  BY <1>4, <1>5, <1>6, StartsLists DEF IInv
<1>7. ASSUME NEW h \in Handlers, Release(h)
      PROVE  SumsOrdered'
  <2>1. \A g \in Handlers \ {h} : handler'[g] = handler[g]
    BY <1>7 DEF Release, Becomes, IInv, TypeOK
  <2>2. handler[h] \in HandlerStates
    BY <1>7 DEF Release, At, IInv, TypeOK
  <2>3. \/ handler'[h] = Listed("reject", handler[h].on)
        \/ handler'[h] = [handler[h] EXCEPT
             !.stage = "released", !.saw = {t \in handler[h].on : funds[t] = "held"}]
    BY <1>7 DEF Release, Becomes, IInv, TypeOK
  <2>4. handler'[h].stage # "ordered"
    <3>1. CASE handler'[h] = Listed("reject", handler[h].on)
      BY <3>1 DEF Listed
    <3>2. CASE \E saw : handler'[h] = [handler[h] EXCEPT !.stage = "released", !.saw = saw]
      BY <2>2, <3>2 DEF HandlerStates
    <3>3. QED BY <2>3, <3>1, <3>2
  <2>5. QED BY <1>2, <2>1, <2>4
<1>8. ASSUME NEW h \in Handlers, Order(h) \/ Refused(h) \/ Commits(h) \/ Undone(h)
      PROVE  SumsOrdered'
  <2>1. CASE handler'[h] = None
    BY <1>2, <1>8, <2>1, WorkHandler
  <2>2. CASE handler'[h] = Listed("reject", handler[h].on)
    BY <1>2, <1>8, <2>2, WorkHandler DEF Listed
  <2>3. CASE Order(h)
    <3>1. UNCHANGED <<asset, paused>>
      BY <2>3 DEF Order
    <3>2. CASE /\ handler'[h].on = handler[h].on
               /\ handler[h].on \subseteq handler'[h].sum
               /\ handler'[h].answer = "taken" => handler'[h].sum \subseteq ordered'
               /\ handler'[h].answer = "unhedged" =>
                    \A t \in handler[h].on : asset[t] \in paused
      <4>1. SumOrdered(h)'
        BY <3>1, <3>2 DEF SumOrdered
      <4>2. QED BY <1>1, <1>8, <4>1, WorkHandler DEF SumsOrdered
    <3>3. QED BY <1>8, <2>1, <2>2, <3>2, WorkHandler
  <2>4. QED BY <1>8, <2>1, <2>2, <2>3, WorkHandler
<1>9. QED BY <1>3, <1>6, <1>7, <1>8 DEF Next

(* What a provider's order marks was asked for, or came too late for it.      *)
LEMMA NextHedged ==
  ASSUME IInv, Next
  PROVE  HedgedWasOrdered'
<1>1. ASSUME UNCHANGED <<asset, internal, hedged>>, slipped' = slipped
      PROVE  HedgedWasOrdered'
  BY <1>1, NextAssets DEF HedgedWasOrdered, Provided, IInv
<1>2. ASSUME NEW h \in Handlers, NEW t \in Trades, Request(h, t)
      PROVE  HedgedWasOrdered'
  <2>1. /\ hedged'[t] = (t \in internal')
        /\ \A u \in Trades \ {t} : hedged'[u] = hedged[u] /\ (u \in internal' <=> u \in internal)
        /\ UNCHANGED <<paused, ordered, slipped>>
    BY <1>2 DEF Request, IInv, TypeOK
  <2>2. \A u \in Trades \ {t} : asset'[u] = asset[u]
    BY <1>2 DEF Request, IInv, TypeOK
  <2>3. QED BY <2>1, <2>2 DEF HedgedWasOrdered, Provided, IInv
<1>3. ASSUME NEW h \in Handlers, Settle(h)
      PROVE  HedgedWasOrdered'
  <2>1. PICK t \in handler[h].on :
          /\ LET marked == IF handler[h].answer = "none" THEN {}
                           ELSE PendingHedge(asset[t]) \cup {t} IN
               hedged' = [u \in Trades |-> hedged[u] \/ u \in marked]
          /\ slipped' = slipped \cup Slips(h, t)
    BY <1>3 DEF Settle
  <2>2. /\ t \in handler[h].sum
        /\ handler[h].answer = "taken" => handler[h].sum \subseteq ordered
        /\ handler[h].answer = "unhedged" => asset[t] \in paused
        /\ handler[h].answer \in Answers
        /\ UNCHANGED <<asset, paused, internal, ordered>>
    BY <1>3, <2>1
    DEF Settle, At, IInv, TypeOK, HandlerStates, SumsOrdered, SumOrdered, Working
  <2>3. SUFFICES ASSUME NEW u \in Provided, hedged'[u], asset[u] \notin paused
                 PROVE  u \in ordered \cup slipped'
    BY <2>2 DEF HedgedWasOrdered, Provided
  <2>4. CASE hedged[u]
    BY <2>1, <2>3, <2>4 DEF HedgedWasOrdered, IInv
  <2>5. CASE ~ hedged[u]
    <3>1. handler[h].answer # "none" /\ u \in PendingHedge(asset[t]) \cup {t}
      BY <2>1, <2>3, <2>5 DEF Provided
    <3>2. handler[h].answer = "taken"
      BY <2>2, <2>3, <3>1 DEF PendingHedge, Answers
    <3>3. CASE u \in handler[h].sum
      BY <2>2, <3>2, <3>3
    <3>4. CASE u \notin handler[h].sum
      BY <2>1, <2>2, <3>1, <3>2, <3>4 DEF Slips
    <3>5. QED BY <3>3, <3>4
  <2>6. QED BY <2>4, <2>5
<1>4. ASSUME NEW h \in Handlers, NEW act \in Acts, NEW on \in SUBSET Existing,
             Lists(h, act, on)
      PROVE  HedgedWasOrdered'
  BY <1>1, <1>4 DEF Lists, hedges
<1>5. ASSUME NEW h \in Handlers, Starts(h)
      PROVE  HedgedWasOrdered'
  BY <1>2, <1>4, <1>5, StartsLists DEF IInv
<1>6. ASSUME NEW h \in Handlers,
             Release(h) \/ Order(h) \/ Refused(h) \/ Close(h) \/ Fill(h) \/ Revert(h) \/ Undone(h)
      PROVE  HedgedWasOrdered'
  BY <1>1, <1>6 DEF Release, Order, Refused, Close, Fill, Revert, Undone, hedges
<1>7. ASSUME \/ \E t \in Trades : Expires(t)
             \/ \E a \in Assets : Pause(a)
      PROVE  HedgedWasOrdered'
  BY <1>1, <1>7 DEF Expires, Pause, hedges
<1>8. QED BY <1>3, <1>5, <1>6, <1>7 DEF Next, Commits

-----------------------------------------------------------------------------
(* The inductive invariant. *)
LEMMA AlwaysIInv == Spec => []IInv
<1>1. Init => IInv
  <2> SUFFICES ASSUME Init PROVE IInv
    OBVIOUS
  <2>1. TypeOK /\ HeldWhilePending /\ NotYet
    BY DEF Init, TypeOK, HeldWhilePending, NotYet
  <2>2. StatusTrue
    BY DEF Init, StatusTrue, Closed
  <2>3. SawTrue /\ SumsOrdered /\ HedgedWasOrdered
    BY DEF Init, SawTrue, SawRight, SumsOrdered, SumOrdered, Working, HedgedWasOrdered, Provided
  <2>4. QED BY <2>1, <2>2, <2>3 DEF IInv
<1>2. IInv /\ [Next]_vars => IInv'
  <2>1. ASSUME IInv, Next PROVE IInv'
    BY <2>1, NextTyped, NextRows, NextSaw, NextSums, NextHedged DEF IInv
  <2>2. ASSUME IInv, UNCHANGED vars PROVE IInv'
    <3>1. /\ UNCHANGED <<status, funds, asset, paused, internal, hedged, expired, handler>>
          /\ UNCHANGED <<outdated, ordered, slipped>>
      BY <2>2 DEF vars, ledger, hedges
    <3>2. TypeOK' /\ HeldWhilePending' /\ StatusTrue' /\ NotYet'
      BY <2>2, <3>1 DEF IInv, TypeOK, HeldWhilePending, StatusTrue, NotYet
    <3>3. SawTrue'
      BY <2>2, <3>1 DEF IInv, SawTrue, SawRight, Working, Existing
    <3>4. SumsOrdered' /\ HedgedWasOrdered'
      BY <2>2, <3>1
      DEF IInv, SumsOrdered, SumOrdered, Working, HedgedWasOrdered, Provided
    <3>5. QED BY <3>2, <3>3, <3>4 DEF IInv
  <2>3. QED BY <2>1, <2>2
<1>3. QED BY <1>1, <1>2, PTL DEF Spec

(* The variables keep their types: the statuses of OTCTrade, and handlers     *)
(* that are where their code can be.                                          *)
THEOREM TypeCorrect == Spec => []TypeOK
<1>1. IInv => TypeOK BY DEF IInv
<1>2. QED BY <1>1, AlwaysIInv, PTL

(* Any number of requests, tasks and staff work on a trade without looking at *)
(* its status, and its amount is held exactly while it is PENDING.            *)
THEOREM AlwaysHeldWhilePending == Spec => []HeldWhilePending
<1>1. IInv => HeldWhilePending BY DEF IInv
<1>2. QED BY <1>1, AlwaysIInv, PTL

(* The row of a trade says what became of the customer's amount, unless a     *)
(* handler set about the trade when it was no longer PENDING.                 *)
THEOREM StatusAlwaysTrue == Spec => []StatusTrue
<1>1. IInv => StatusTrue BY DEF IInv
<1>2. QED BY <1>1, AlwaysIInv, PTL

(* A trade that is marked hedged was asked of the provider, or became DONE    *)
(* while it was being asked, or is of an asset whose hedging has been off.    *)
THEOREM HedgedAlwaysOrdered == Spec => []HedgedWasOrdered
<1>1. IInv => HedgedWasOrdered BY DEF IInv
<1>2. QED BY <1>1, AlwaysIInv, PTL

(* OTC trades settle as Settlement promises: one charge, after one hold, and  *)
(* one reversal.                                                              *)
THEOREM TradesSettled == Spec => ChargedOnce
<1>1. Init => Promise!Init
  BY DEF Init, Promise!Init
<1>2. IInv /\ [Next]_vars => [Promise!Next]_<<funds, outdated>>
  <2>1. ASSUME IInv, Next PROVE Promise!Next
    <3>1. outdated \subseteq outdated' /\ \A t \in Trades : RowLaw(t)
      BY <2>1, NextLaw
    <3>2. \A t \in Trades :
            \/ Promise!Hold(t) \/ Promise!Charge(t) \/ Promise!Return(t) \/ Promise!Revert(t)
            \/ funds'[t] = funds[t]
      BY <3>1 DEF RowLaw, Promise!Hold, Promise!Charge, Promise!Return, Promise!Revert
    <3>3. QED BY <3>1, <3>2 DEF Promise!Next
  <2>2. CASE UNCHANGED vars
    BY <2>2 DEF vars, ledger
  <2>3. QED BY <2>1, <2>2
<1>3. QED BY <1>1, <1>2, AlwaysIInv, PTL DEF Spec, ChargedOnce, Promise!Spec
=============================================================================
