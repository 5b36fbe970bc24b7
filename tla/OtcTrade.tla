------------------------------- MODULE OtcTrade -------------------------------
(***************************************************************************)
(* OTC trades: a customer buys from or sells to the exchange, which hedges *)
(* the trade in its own market or with a provider.  The request, the       *)
(* triggers and the expiry of limit trades, the retry of trades that did   *)
(* not get through, the customer's cancellation and the staff all work on  *)
(* a copy of the row and never look at its status again.                   *)
(*                                                                         *)
(* A handler reads which trades it will work on, then the lock row of each *)
(* (release_lock, without a row lock), then writes the trade's row, which  *)
(* it keeps locked to the end of its transaction.  What it read of the     *)
(* lock is subtracted at the end: when the hold is gone by then the CHECK  *)
(* constraint of BalanceLock undoes the transaction, but a handler that    *)
(* came so late that it read 0 is not stopped.                             *)
(***************************************************************************)
EXTENDS Integers

CONSTANTS
  Trades,
  Limits,     \* OTCRequest.type = LIMIT
  Assets,
  Handlers,   \* requests, tasks and actions in progress at once
  None

Closed == {"CANCELED", "USER_CANCELED", "EXPIRED"}
Statuses == {"PENDING", "DONE", "REVERT"} \cup Closed

(* execute_trade; hedge_with_provider with and without hedging; reject by the *)
(* exchange and by the customer; handle_expired; revert.                      *)
Acts == {"execute", "hedge", "hedgeless", "reject", "cancel", "expire", "revert"}

(* What comes of asking the provider: it took an order; it found the sum too  *)
(* small, or was not asked at all; the asset is one that is not hedged.       *)
Answers == {"taken", "none", "unhedged"}

HandlerStates ==
  [act : Acts,
   on : SUBSET Trades,
   stage : {"listed", "released", "ordered"},
   saw : SUBSET Trades,   \* those whose lock it read as not yet released
   sum : SUBSET Trades,   \* those whose amounts it asked the provider for
   answer : Answers]      \* the provider's

ASSUME OtcAssumption ==
  /\ Limits \subseteq Trades
  /\ None \notin HandlerStates /\ None \notin Assets

VARIABLES
  status,     \* OTCTrade.status, "none" before the row exists
  funds,      \* what is held, charged, returned or reverted in the ledger
  asset,      \* of the request's symbol, None before the row exists
  paused,     \* history: assets whose Asset.hedge was off at some time
  internal,   \* trades of execution_type MARKET: hedged in the exchange's market
  hedged,     \* OTCTrade.hedged
  expired,    \* the token or gtd of the request has run out
  handler,
  outdated,   \* history: trades some handler set about when not PENDING any more
  ordered,    \* history: trades whose amounts the provider was asked for
  slipped     \* history: DONE too late for the order that marked them hedged

ledger == <<status, funds>>
hedges == <<asset, paused, internal, hedged, ordered, slipped>>
vars == <<ledger, hedges, expired, handler, outdated>>

Provided == Trades \ internal

Init ==
  /\ status = [t \in Trades |-> "none"]
  /\ funds = [t \in Trades |-> "none"]
  /\ asset = [t \in Trades |-> None]
  /\ paused = {} /\ internal = {}
  /\ hedged = [t \in Trades |-> FALSE]
  /\ expired = [t \in Trades |-> FALSE]
  /\ handler = [h \in Handlers |-> None]
  /\ outdated = {} /\ ordered = {} /\ slipped = {}

Listed(act, on) ==
  [act |-> act, on |-> on, stage |-> "listed", saw |-> {}, sum |-> {}, answer |-> "none"]

At(h, acts, stage) ==
  handler[h] # None /\ handler[h].act \in acts /\ handler[h].stage = stage

Becomes(h, next) == handler' = [handler EXCEPT ![h] = next]

(* A handler that waits for the provider has written its trade's row. *)
RowFree(t) == \A h \in Handlers : At(h, Acts, "ordered") => t \notin handler[h].on

-----------------------------------------------------------------------------
(* The trade is created, for the market its symbol is hedged in by now, and   *)
(* its amount is held; a market trade is executed by the same request.        *)
Request(h, t) ==
  /\ status[t] = "none" /\ handler[h] = None
  /\ status' = [status EXCEPT ![t] = "PENDING"]
  /\ funds' = [funds EXCEPT ![t] = "held"]
  /\ \E a \in Assets : asset' = [asset EXCEPT ![t] = a]
  /\ internal' \in {internal, internal \cup {t}}
  /\ hedged' = [hedged EXCEPT ![t] = t \in internal']
  /\ Becomes(h, IF t \in Limits THEN None ELSE Listed("execute", {t}))
  /\ UNCHANGED <<paused, expired, outdated, ordered, slipped>>

(* Staff stop hedging an asset.  They may start again, and handlers keep the  *)
(* copy of its row that they have read: from now on a handler finds either.   *)
Pause(a) ==
  /\ a \notin paused
  /\ paused' = paused \cup {a}
  /\ UNCHANGED <<ledger, asset, internal, hedged, ordered, slipped, expired, handler, outdated>>

Expires(t) ==
  /\ status[t] # "none" /\ ~ expired[t]
  /\ expired' = [expired EXCEPT ![t] = TRUE]
  /\ UNCHANGED <<ledger, hedges, handler, outdated>>

(* What the handlers set about: a list read without locks.                    *)
Lists(h, act, on) ==
  /\ handler[h] = None /\ on # {}
  /\ Becomes(h, Listed(act, on))
  /\ UNCHANGED <<ledger, hedges, expired, outdated>>

Pending(t) == status[t] = "PENDING"

CancelLists(h, t) == t \in Limits /\ Pending(t) /\ Lists(h, "cancel", {t})

(* Whether the price triggers the trade is left open.                         *)
TriggerLists(h, t) ==
  t \in Limits /\ Pending(t) /\ ~ expired[t] /\ Lists(h, "execute", {t})

ExpireLists(h) == Lists(h, "expire", {t \in Limits : Pending(t) /\ expired[t]})

(* Mutant: a request whose token has run out is not retried. *)
RetryListsFresh(h, t) ==
  t \in Provided \ Limits /\ Pending(t) /\ ~ expired[t] /\ Lists(h, "hedge", {t})

RetryLists(h, t) == t \in Provided \ Limits /\ Pending(t) /\ Lists(h, "hedge", {t})

StaffLists(h, t) ==
  \/ /\ t \in Provided /\ Pending(t)
     /\ \E act \in {"hedge", "hedgeless"} : Lists(h, act, {t})
  \/ Pending(t) /\ Lists(h, "reject", {t})
  \/ status[t] = "DONE" /\ Lists(h, "revert", {t})

(* release_lock reads the locks; execute_trade rejects a market trade whose   *)
(* token has run out.                                                         *)
Release(h) ==
  /\ At(h, Acts \ {"revert"}, "listed")
  /\ LET on == handler[h].on IN
       IF handler[h].act = "execute" /\ \E t \in on \ Limits : expired[t]
       THEN Becomes(h, Listed("reject", on)) /\ UNCHANGED outdated
       ELSE /\ Becomes(h, [handler[h] EXCEPT
                 !.stage = "released", !.saw = {t \in on : funds[t] = "held"}])
            /\ outdated' = outdated \cup {t \in on : ~ Pending(t)}
  /\ UNCHANGED <<ledger, hedges, expired>>

-----------------------------------------------------------------------------
(* reject() and handle_expired.                                               *)

ClosedBy(act) ==
  IF act = "cancel" THEN "USER_CANCELED" ELSE IF act = "expire" THEN "EXPIRED" ELSE "CANCELED"

Closers == {"reject", "cancel", "expire"}

(* Mutant: BalanceLock has no CHECK constraint. *)
CloseUnchecked(h) ==
  /\ At(h, Closers, "released")
  /\ \A t \in handler[h].on : RowFree(t)
  /\ LET on == handler[h].on IN
       /\ status' = [t \in Trades |-> IF t \in on THEN ClosedBy(handler[h].act) ELSE status[t]]
       /\ funds' = [t \in Trades |-> IF t \in handler[h].saw THEN "returned" ELSE funds[t]]
  /\ Becomes(h, None)
  /\ UNCHANGED <<hedges, expired, outdated>>

(* Mutant: the lock is not released. *)
CloseKeepsHold(h) ==
  /\ At(h, Closers, "released")
  /\ \A t \in handler[h].on : RowFree(t)
  /\ LET on == handler[h].on IN
       status' = [t \in Trades |-> IF t \in on THEN ClosedBy(handler[h].act) ELSE status[t]]
  /\ Becomes(h, None)
  /\ UNCHANGED <<funds, hedges, expired, outdated>>

(* Mutant: the rows are written before, and not in, the pipeline's transaction. *)
CloseHalfway(h) ==
  /\ At(h, Closers, "released")
  /\ \A t \in handler[h].on : RowFree(t)
  /\ LET on == handler[h].on
         saw == handler[h].saw IN
       /\ status' = [t \in Trades |-> IF t \in on THEN ClosedBy(handler[h].act) ELSE status[t]]
       /\ funds' = [t \in Trades |->
                      IF t \in saw /\ funds[t] = "held" THEN "returned" ELSE funds[t]]
  /\ Becomes(h, None)
  /\ UNCHANGED <<hedges, expired, outdated>>

(* The rows are written over, and the holds that were seen are given back,    *)
(* all or none.                                                               *)
Close(h) ==
  /\ At(h, Closers, "released")
  /\ \A t \in handler[h].on : RowFree(t)
  /\ LET on == handler[h].on
         saw == handler[h].saw IN
       IF \A t \in saw : funds[t] = "held"
       THEN /\ status' = [t \in Trades |-> IF t \in on THEN ClosedBy(handler[h].act) ELSE status[t]]
            /\ funds' = [t \in Trades |-> IF t \in saw THEN "returned" ELSE funds[t]]
       ELSE UNCHANGED ledger
  /\ Becomes(h, None)
  /\ UNCHANGED <<hedges, expired, outdated>>

-----------------------------------------------------------------------------
(* accept(), at the end of its transaction.                                   *)

(* The hold that was seen is still there, or none was seen and the customer   *)
(* can pay again; and the journal has no entry of the group yet.              *)
MayCharge(h, t) ==
  IF t \in handler[h].saw THEN funds[t] = "held" ELSE funds[t] = "returned"

Charge(t) ==
  /\ status' = [status EXCEPT ![t] = "DONE"]
  /\ funds' = [funds EXCEPT ![t] = "charged"]

(* try_fok_fill.  Whatever goes wrong (the book cannot fill the order, the    *)
(* transaction is undone at its end), the trade is rejected.                  *)
Fill(h) ==
  /\ At(h, {"execute"}, "released") /\ handler[h].on \subseteq internal
  /\ \A t \in handler[h].on : RowFree(t)
  /\ \/ \E t \in handler[h].on : MayCharge(h, t) /\ Charge(t) /\ Becomes(h, None)
     \/ UNCHANGED ledger /\ Becomes(h, Listed("reject", handler[h].on))
  /\ UNCHANGED <<hedges, expired, outdated>>

PendingHedge(a) ==
  {t \in Provided : status[t] = "DONE" /\ ~ hedged[t] /\ asset[t] = a}

(* What may come of a handler's asking.                                       *)
MayAnswer(h) ==
  IF handler[h].act = "hedgeless" THEN {"none"}
  ELSE {"taken", "none"}
       \cup (IF \A t \in handler[h].on : asset[t] \in paused THEN {"unhedged"} ELSE {})

(* Mutant: the sum is taken before the trade is DONE. *)
OrderWithoutOwn(h) ==
  /\ At(h, {"execute", "hedge", "hedgeless"}, "released") /\ handler[h].on \subseteq Provided
  /\ \A t \in handler[h].on : RowFree(t)
  /\ \E t \in handler[h].on : \E answer \in MayAnswer(h) :
       LET sum == PendingHedge(asset[t]) IN
         /\ ordered' = IF answer = "taken" THEN ordered \cup sum ELSE ordered
         /\ Becomes(h, [handler[h] EXCEPT !.stage = "ordered", !.sum = sum, !.answer = answer])
  /\ UNCHANGED <<ledger, asset, paused, internal, hedged, slipped, expired, outdated>>

(* hedge_with_provider: with the row DONE in this transaction, the amounts of *)
(* all unhedged trades of the asset are summed, and the provider takes an     *)
(* order for them, or does not.                                               *)
Order(h) ==
  /\ At(h, {"execute", "hedge", "hedgeless"}, "released") /\ handler[h].on \subseteq Provided
  /\ \A t \in handler[h].on : RowFree(t)
  /\ \E t \in handler[h].on : \E answer \in MayAnswer(h) :
       LET sum == PendingHedge(asset[t]) \cup handler[h].on IN
         /\ ordered' = IF answer = "taken" THEN ordered \cup sum ELSE ordered
         /\ Becomes(h, [handler[h] EXCEPT !.stage = "ordered", !.sum = sum, !.answer = answer])
  /\ UNCHANGED <<ledger, asset, paused, internal, hedged, slipped, expired, outdated>>

(* The provider refuses: only execute_trade rejects the trade for it.         *)
Refused(h) ==
  /\ At(h, {"execute", "hedge"}, "released") /\ handler[h].on \subseteq Provided
  /\ \A t \in handler[h].on : RowFree(t)
  /\ Becomes(h, IF handler[h].act = "execute" THEN Listed("reject", handler[h].on) ELSE None)
  /\ UNCHANGED <<ledger, hedges, expired, outdated>>

(* Those DONE by now that the order taken for their asset does not cover.     *)
Slips(h, t) ==
  IF handler[h].answer = "taken" THEN PendingHedge(asset[t]) \ handler[h].sum ELSE {}

(* Mutant: whatever the asset, the pending trades are marked. *)
SettleMarksAll(h) ==
  /\ At(h, Acts, "ordered")
  /\ \E t \in handler[h].on :
       /\ MayCharge(h, t)
       /\ Charge(t)
       /\ LET marked == IF handler[h].answer = "none" THEN {}
                        ELSE UNION {PendingHedge(a) : a \in Assets} \cup {t} IN
            hedged' = [u \in Trades |-> hedged[u] \/ u \in marked]
       /\ slipped' = slipped \cup Slips(h, t)
  /\ Becomes(h, None)
  /\ UNCHANGED <<asset, paused, internal, expired, outdated, ordered>>

(* The answer is there: if an order was taken, or the asset is not hedged,    *)
(* every trade of the asset that is DONE and unhedged now is marked, also     *)
(* those that were not summed; commit.                                        *)
Settle(h) ==
  /\ At(h, Acts, "ordered")
  /\ \E t \in handler[h].on :
       /\ MayCharge(h, t)
       /\ Charge(t)
       /\ LET marked == IF handler[h].answer = "none" THEN {}
                        ELSE PendingHedge(asset[t]) \cup {t} IN
            hedged' = [u \in Trades |-> hedged[u] \/ u \in marked]
       /\ slipped' = slipped \cup Slips(h, t)
  /\ Becomes(h, None)
  /\ UNCHANGED <<asset, paused, internal, expired, outdated, ordered>>

(* The transaction is undone: the process dies, the provider or its answer is *)
(* lost, the customer has spent what was given back, a constraint refuses.    *)
(* One that waits for a row may as well be undone when it gets it.            *)
Undone(h) ==
  /\ handler[h] # None
  /\ handler[h].stage = "released" => \A t \in handler[h].on : RowFree(t)
  /\ Becomes(h, None)
  /\ UNCHANGED <<ledger, hedges, expired, outdated>>

(* Mutant: entries of a group may be posted twice. *)
RevertAgain(h) ==
  /\ At(h, {"revert"}, "listed")
  /\ \E t \in handler[h].on :
       /\ RowFree(t)
       /\ status' = [status EXCEPT ![t] = "REVERT"]
       /\ funds' = [funds EXCEPT ![t] = IF @ = "reverted" THEN "charged" ELSE "reverted"]
  /\ Becomes(h, None)
  /\ UNCHANGED <<hedges, expired, outdated>>

(* revert(): a second one is refused by the unique key of the journal.        *)
Revert(h) ==
  /\ At(h, {"revert"}, "listed")
  /\ \E t \in handler[h].on :
       /\ RowFree(t) /\ funds[t] = "charged"
       /\ status' = [status EXCEPT ![t] = "REVERT"]
       /\ funds' = [funds EXCEPT ![t] = "reverted"]
  /\ Becomes(h, None)
  /\ UNCHANGED <<hedges, expired, outdated>>

-----------------------------------------------------------------------------
Starts(h) ==
  \/ \E t \in Trades :
       \/ Request(h, t) \/ CancelLists(h, t) \/ TriggerLists(h, t)
       \/ RetryLists(h, t) \/ StaffLists(h, t)
  \/ ExpireLists(h)

Commits(h) == Close(h) \/ Fill(h) \/ Settle(h) \/ Revert(h)

Next ==
  \/ \E t \in Trades : Expires(t)
  \/ \E a \in Assets : Pause(a)
  \/ \E h \in Handlers :
       Starts(h) \/ Release(h) \/ Order(h) \/ Refused(h) \/ Commits(h) \/ Undone(h)

Spec == Init /\ [][Next]_vars

Expiring(h) == handler[h] # None /\ handler[h].act = "expire"

Retrying(h, t) == handler[h] # None /\ handler[h].act = "hedge" /\ handler[h].on = {t}

(* A handler comes to an end.  celery's beat runs both tasks every few        *)
(* seconds, and their runs do not all fail: not at any of their steps.        *)
FairSpec ==
  /\ Spec
  /\ \A h \in Handlers :
       WF_vars(Release(h) \/ Order(h) \/ Refused(h) \/ Commits(h) \/ Undone(h))
  /\ SF_vars(\E h \in Handlers : ExpireLists(h))
  /\ SF_vars(\E h \in Handlers : Expiring(h) /\ Release(h))
  /\ SF_vars(\E h \in Handlers : Expiring(h) /\ Close(h))
  /\ \A t \in Trades \ Limits :
       /\ SF_vars(\E h \in Handlers : RetryLists(h, t))
       /\ SF_vars(\E h \in Handlers : Retrying(h, t) /\ Release(h))
       /\ SF_vars(\E h \in Handlers : Retrying(h, t) /\ Order(h))
       /\ SF_vars(\E h \in Handlers : Retrying(h, t) /\ Settle(h))

-----------------------------------------------------------------------------
(* Type invariant. *)
TypeOK ==
  /\ status \in [Trades -> Statuses \cup {"none"}]
  /\ funds \in [Trades -> {"none", "held", "charged", "returned", "reverted"}]
  /\ asset \in [Trades -> Assets \cup {None}]
  /\ paused \in SUBSET Assets /\ internal \in SUBSET Trades
  /\ hedged \in [Trades -> BOOLEAN]
  /\ expired \in [Trades -> BOOLEAN]
  /\ handler \in [Handlers -> HandlerStates \cup {None}]
  /\ outdated \in SUBSET Trades /\ ordered \in SUBSET Trades /\ slipped \in SUBSET Trades

(* An amount is held exactly while its trade is PENDING, although no handler  *)
(* looks at the status when it writes it: none ends a trade and leaves the    *)
(* hold, none takes the hold from a trade it leaves PENDING.                  *)
HeldWhilePending == \A t \in Trades : status[t] = "PENDING" <=> funds[t] = "held"

(* What the row says is what happened to the customer's funds, whichever      *)
(* handlers raced for the trade, unless one of them set about it when it was  *)
(* no longer PENDING.                                                         *)
StatusTrue ==
  \A t \in Trades \ outdated :
    /\ status[t] = "DONE" <=> funds[t] = "charged"
    /\ status[t] \in Closed <=> funds[t] = "returned"
    /\ status[t] = "REVERT" <=> funds[t] = "reverted"

(* A trade is charged at most once and reverted at most once; a hold is       *)
(* charged after it was given back only by a handler that came too late.      *)
Promise == INSTANCE Settlement WITH
  Requests <- Trades, funds <- funds, contested <- outdated

ChargedOnce == Promise!Spec

(* A trade that is marked hedged was in the sum some order was placed for,    *)
(* or became DONE while the order that marked it was being placed - unless    *)
(* the hedging of its asset has been off: not that of another asset.          *)
HedgedWasOrdered ==
  \A t \in Provided : hedged[t] /\ asset[t] \notin paused => t \in ordered \cup slipped

(* A market trade hedged by a provider is executed or closed in the end, even *)
(* if the request that should have done so died; a limit trade whose time has *)
(* run out is closed or was executed.                                         *)
PendingEnds ==
  /\ \A t \in Trades \ Limits : Pending(t) /\ t \in Provided ~> ~ Pending(t)
  /\ \A t \in Limits : Pending(t) /\ expired[t] ~> ~ Pending(t)
=============================================================================
