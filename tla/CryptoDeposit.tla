---------------------------- MODULE CryptoDeposit ----------------------------
(***************************************************************************)
(* Deposits of coins: the callbacks of blocklink that create a Transfer    *)
(* row and move it on, the staff's actions and form, the requests to       *)
(* recover a deposit blocklink could not place, and what follows a refund: *)
(* a debt when the coins are gone, and its collection.                     *)
(*                                                                         *)
(* A callback looks the row up, creates it and changes its status in three *)
(* transactions.  accept(), reject() and revert() lock the row and look at *)
(* its status; each is one step, except that revert() reads the customer's *)
(* wallet, which it does not lock, before it posts.                        *)
(*                                                                         *)
(* Every deposit has the amount 1 and is the same customer's.  funds is    *)
(* what the journal says of the row's group: nothing, credited ("charged") *)
(* or reverted; entries that exist are refused by the journal's unique key.*)
(***************************************************************************)
EXTENDS Integers, FiniteSets

CONSTANTS
  Deposits,    \* pairs of a hash and an address of the customer on a network: what a
               \* callback looks for, which takes a second transfer for a repeat of it
  Recoveries,  \* DepositRecoveryRequest rows
  Callbacks,   \* callbacks of blocklink in progress at once
  Staff,       \* actions of the staff in progress at once
  Clearers,    \* runs of clear_debt in progress at once
  MaxSaves,    \* bound: saves of the staff's forms
  MaxSpent,    \* bound: coins the customer spends
  None

ASSUME DepositAssumption ==
  /\ IsFiniteSet(Deposits)
  /\ MaxSaves \in Nat /\ MaxSpent \in Nat

Complete == {"CANCELED", "DONE"}    \* Transfer.COMPLETE_STATUSES
Statuses == {"INIT", "PENDING", "REFUND"} \cup Complete
Reportable == {"PENDING", "DONE", "CANCELED"}

VARIABLES
  status,     \* Transfer.status, "none" before the row exists
  funds,      \* "none", "charged" or "reverted"
  recovery,   \* DepositRecoveryRequest.status, "none" before the row exists
  made,       \* how many transfers create_transfer made of a recovery
  wallet,     \* the customer's spot wallet
  debt,       \* what the customer's DEBT wallet is below zero
  spent,      \* coins the customer spent
  chain,      \* what blocklink knows: "unseen", "seen", "final", "dropped"
  callback,   \* what a callback has read and is about to do
  action,     \* what a member of the staff has read and is about to do
  clearing,   \* the amount a run of clear_debt has computed
  saves,      \* saves of the forms so far
  overruled,  \* history: rows whose status the form changed
  overtaken   \* history: recoveries verified when their status had changed, or
              \* opened again by their form

rows == <<status, funds>>
coins == <<wallet, debt, spent>>
recoveries == <<recovery, made, overtaken>>
pending == <<callback, action, clearing>>
form == <<saves, overruled>>
vars == <<rows, coins, recoveries, chain, pending, form>>

CallbackStates == [deposit : Deposits, report : Reportable, created : BOOLEAN]

(* What the staff do after reading a row: reject or revert it, post a revert  *)
(* from the customer's wallet or as a debt, accept it although CANCELED,      *)
(* verify a recovery.                                                         *)
RowActs == {"reject", "revert", "post", "postDebt", "reaccept"}
ActionStates == [act : RowActs, on : Deposits] \cup [act : {"verify"}, on : Recoveries]

ASSUME NoneAssumption == None \notin CallbackStates \cup ActionStates

Init ==
  /\ status = [d \in Deposits |-> "none"]
  /\ funds = [d \in Deposits |-> "none"]
  /\ recovery = [r \in Recoveries |-> "none"]
  /\ made = [r \in Recoveries |-> 0]
  /\ wallet = 0 /\ debt = 0 /\ spent = 0
  /\ chain = [d \in Deposits |-> "unseen"]
  /\ callback = [c \in Callbacks |-> None]
  /\ action = [a \in Staff |-> None]
  /\ clearing = [k \in Clearers |-> 0]
  /\ saves = 0
  /\ overruled = {} /\ overtaken = {}

(* A revert in progress holds the row lock. *)
RowFree(d) ==
  \A a \in Staff : action[a] # None /\ action[a].on = d
                     => action[a].act \notin {"post", "postDebt"}

-----------------------------------------------------------------------------
(* Transfer.accept, Transfer.reject and the UPDATE of change_status.          *)

(* Mutant: build_trx posts in a group of its own. *)
AcceptNewGroup(d) ==
  IF status[d] \in Complete THEN UNCHANGED <<status, funds, wallet>>
  ELSE /\ status' = [status EXCEPT ![d] = "DONE"]
       /\ funds' = [funds EXCEPT ![d] = "charged"]
       /\ wallet' = wallet + 1

(* accept(): nothing happens to a complete row; if the row was credited       *)
(* before, an IntegrityError undoes it.                                       *)
Accept(d) ==
  IF status[d] \in Complete \/ funds[d] # "none" THEN UNCHANGED <<status, funds, wallet>>
  ELSE /\ status' = [status EXCEPT ![d] = "DONE"]
       /\ funds' = [funds EXCEPT ![d] = "charged"]
       /\ wallet' = wallet + 1

(* Mutant: the status is not looked at again once the row is locked. *)
RejectUnchecked(d) ==
  /\ status' = [status EXCEPT ![d] = "CANCELED"]
  /\ UNCHANGED <<funds, wallet>>

Reject(d) ==
  /\ status' = [status EXCEPT ![d] = IF @ \in Complete THEN @ ELSE "CANCELED"]
  /\ UNCHANGED <<funds, wallet>>

SetOpen(d, s) ==
  /\ status' = [status EXCEPT ![d] = IF @ \in Complete THEN @ ELSE s]
  /\ UNCHANGED <<funds, wallet>>

-----------------------------------------------------------------------------
(* blocklink and its callbacks.                                               *)

(* It sees a transfer, which becomes final or is dropped from the chain. *)
ChainMoves(d) ==
  /\ \/ chain[d] = "unseen" /\ chain' = [chain EXCEPT ![d] = "seen"]
     \/ /\ chain[d] = "seen"
        /\ \E end \in {"final", "dropped"} : chain' = [chain EXCEPT ![d] = end]
  /\ UNCHANGED <<rows, coins, recoveries, pending, form>>

(* What it reports: again and again, late, and out of order. *)
Reports(d) ==
  CASE chain[d] = "unseen" -> {}
    [] chain[d] = "seen" -> {"PENDING"}
    [] chain[d] = "final" -> {"PENDING", "DONE"}
    [] chain[d] = "dropped" -> {"PENDING", "CANCELED"}

(* Mutant: a transfer that exists is never looked at again. *)
CallbackReadUnknown(c, d, report) ==
  /\ callback[c] = None
  /\ report \in Reports(d)
  /\ status[d] = "none"
  /\ callback' = [callback EXCEPT ![c] =
       [deposit |-> d, report |-> report, created |-> FALSE]]
  /\ UNCHANGED <<rows, coins, recoveries, chain, action, clearing, form>>

(* The lookup, with no lock: the row is unknown, or moves from PENDING on.    *)
CallbackRead(c, d, report) ==
  /\ callback[c] = None
  /\ report \in Reports(d)
  /\ \/ status[d] = "none"
     \/ status[d] = "PENDING" /\ report # "PENDING"
  /\ callback' = [callback EXCEPT ![c] =
       [deposit |-> d, report |-> report, created |-> status[d] # "none"]]
  /\ UNCHANGED <<rows, coins, recoveries, chain, action, clearing, form>>

(* Mutant: create instead of get_or_create, and no unique key. *)
CallbackCreateAgain(c) ==
  /\ callback[c] # None /\ ~ callback[c].created
  /\ status' = [status EXCEPT ![callback[c].deposit] = "PENDING"]
  /\ funds' = [funds EXCEPT ![callback[c].deposit] = "none"]
  /\ callback' = [callback EXCEPT ![c].created = TRUE]
  /\ UNCHANGED <<coins, recoveries, chain, action, clearing, form>>

(* get_or_create: another callback may have created the row meanwhile. *)
CallbackCreate(c) ==
  /\ callback[c] # None /\ ~ callback[c].created
  /\ LET d == callback[c].deposit IN
       status' = [status EXCEPT ![d] = IF @ = "none" THEN "PENDING" ELSE @]
  /\ callback' = [callback EXCEPT ![c].created = TRUE]
  /\ UNCHANGED <<funds, coins, recoveries, chain, action, clearing, form>>

(* change_status to what was reported, or to INIT when deposits are banned or *)
(* disabled: the staff then have to look at it.                               *)
CallbackApply(c) ==
  /\ callback[c] # None /\ callback[c].created
  /\ LET d == callback[c].deposit
         report == callback[c].report IN
       /\ RowFree(d)
       /\ \/ report = "DONE" /\ Accept(d)
          \/ report = "CANCELED" /\ Reject(d)
          \/ report = "PENDING" /\ SetOpen(d, "PENDING")
          \/ SetOpen(d, "INIT")
  /\ callback' = [callback EXCEPT ![c] = None]
  /\ UNCHANGED <<debt, spent, recoveries, chain, action, clearing, form>>

(* A price is missing, a notification fails, the process dies. *)
CallbackDies(c) ==
  /\ callback[c] # None
  /\ callback' = [callback EXCEPT ![c] = None]
  /\ UNCHANGED <<rows, coins, recoveries, chain, action, clearing, form>>

-----------------------------------------------------------------------------
(* The staff.                                                                 *)

Reads(a, act, on) ==
  /\ action[a] = None
  /\ action' = [action EXCEPT ![a] = [act |-> act, on |-> on]]
  /\ UNCHANGED <<rows, coins, recoveries, chain, callback, clearing, form>>

Done(a) == action' = [action EXCEPT ![a] = None]

(* accept_deposit locks the rows that are INIT by an UPDATE, then accepts.    *)
AcceptDeposit(d) ==
  /\ status[d] = "INIT" /\ RowFree(d)
  /\ Accept(d)
  /\ UNCHANGED <<debt, spent, recoveries, chain, pending, form>>

(* reject_deposit, refund_deposit and accept_canceled_deposits read the rows  *)
(* that qualify, and then take them one by one.                               *)
StaffReads(a, d) ==
  \/ status[d] \in {"INIT", "PENDING"} /\ Reads(a, "reject", d)
  \/ status[d] = "DONE" /\ Reads(a, "revert", d)
  \/ status[d] = "CANCELED" /\ Reads(a, "reaccept", d)

RejectDeposit(a) ==
  /\ action[a] # None /\ action[a].act = "reject" /\ RowFree(action[a].on)
  /\ Reject(action[a].on)
  /\ Done(a)
  /\ UNCHANGED <<debt, spent, recoveries, chain, callback, clearing, form>>

(* Mutant: has_balance is asked the wrong way round. *)
RevertLocksOther(a) ==
  /\ action[a] # None /\ action[a].act = "revert" /\ RowFree(action[a].on)
  /\ action' = [action EXCEPT ![a] =
       IF status[@.on] # "DONE" THEN None
       ELSE [act |-> IF wallet > 0 THEN "postDebt" ELSE "post", on |-> @.on]]
  /\ UNCHANGED <<rows, coins, recoveries, chain, callback, clearing, form>>

(* revert() with the row locked: nothing but a DONE row is reverted; the      *)
(* customer's wallet, if it has the coins now, or a debt will pay.            *)
RevertLocks(a) ==
  /\ action[a] # None /\ action[a].act = "revert" /\ RowFree(action[a].on)
  /\ action' = [action EXCEPT ![a] =
       IF status[@.on] # "DONE" THEN None
       ELSE [act |-> IF wallet > 0 THEN "post" ELSE "postDebt", on |-> @.on]]
  /\ UNCHANGED <<rows, coins, recoveries, chain, callback, clearing, form>>

(* The reverting entries of a credited row are refused if the wallet does not *)
(* have the coins any more, those of a reverted row because they exist: all   *)
(* is rolled back.  A row that the form made DONE has no entries to revert.   *)
RevertPosts(a) ==
  /\ action[a] # None /\ action[a].act \in {"post", "postDebt"}
  /\ LET d == action[a].on
         refused == \/ funds[d] = "reverted"
                    \/ funds[d] = "charged" /\ action[a].act = "post" /\ wallet = 0
     IN IF refused THEN UNCHANGED <<rows, wallet, debt>>
        ELSE /\ status' = [status EXCEPT ![d] = "REFUND"]
             /\ IF funds[d] = "none" THEN UNCHANGED <<funds, wallet, debt>>
                ELSE /\ funds' = [funds EXCEPT ![d] = "reverted"]
                     /\ IF action[a].act = "post" THEN wallet' = wallet - 1 /\ UNCHANGED debt
                        ELSE debt' = debt + 1 /\ UNCHANGED wallet
  /\ Done(a)
  /\ UNCHANGED <<spent, recoveries, chain, callback, clearing, form>>

(* accept_canceled_deposits: INIT is saved over the row as it may be by now,  *)
(* then accepted, in one transaction.                                         *)
Reaccept(a) ==
  /\ action[a] # None /\ action[a].act = "reaccept" /\ RowFree(action[a].on)
  /\ LET d == action[a].on IN
       IF funds[d] # "none" THEN UNCHANGED <<rows, wallet>>
       ELSE /\ status' = [status EXCEPT ![d] = "DONE"]
            /\ funds' = [funds EXCEPT ![d] = "charged"]
            /\ wallet' = wallet + 1
  /\ Done(a)
  /\ UNCHANGED <<debt, spent, recoveries, chain, callback, clearing, form>>

(* TransferAdmin.save_model: a form that says DONE accepts first, and is      *)
(* refused if that fails; then it is saved over the row.                      *)
SaveForm(d, s) ==
  /\ status[d] # "none" /\ RowFree(d) /\ saves < MaxSaves
  /\ IF s = "DONE" /\ status[d] \notin Complete
     THEN /\ funds[d] = "none"
          /\ funds' = [funds EXCEPT ![d] = "charged"]
          /\ wallet' = wallet + 1
     ELSE UNCHANGED <<funds, wallet>>
  /\ status' = [status EXCEPT ![d] = s]
  /\ saves' = saves + 1
  /\ overruled' = IF s = status[d] THEN overruled ELSE overruled \cup {d}
  /\ UNCHANGED <<debt, spent, recoveries, chain, pending>>

-----------------------------------------------------------------------------
(* Recoveries of what blocklink could not place.                              *)

RecoveryStatuses == {"INIT", "PROCESS", "PENDING", "REFUND"} \cup Complete
OpenRecovery == {"PROCESS", "PENDING"}

RecoveryAsked(r) ==
  /\ recovery[r] = "none"
  /\ recovery' = [recovery EXCEPT ![r] = "PROCESS"]
  /\ UNCHANGED <<rows, coins, made, overtaken, chain, pending, form>>

(* verify() of a row that is PROCESS, when no transfer has its hash; PENDING  *)
(* is saved later, over whatever the status is by then.                       *)
VerifyReads(a, r) ==
  recovery[r] = "PROCESS" /\ Reads(a, "verify", r)

VerifySaves(a) ==
  /\ action[a] # None /\ action[a].act = "verify"
  /\ LET r == action[a].on IN
       /\ recovery' = [recovery EXCEPT ![r] = "PENDING"]
       /\ overtaken' = IF recovery[r] = "PROCESS" THEN overtaken ELSE overtaken \cup {r}
  /\ Done(a)
  /\ UNCHANGED <<rows, coins, made, chain, callback, clearing, form>>

RejectRecovery(r) ==
  /\ recovery[r] \in OpenRecovery
  /\ recovery' = [recovery EXCEPT ![r] = "CANCELED"]
  /\ UNCHANGED <<rows, coins, made, overtaken, chain, pending, form>>

(* Mutant: the status is not looked at again once the row is locked. *)
CreateTransferUnchecked(r) ==
  /\ recovery[r] # "none" /\ made[r] < 2
  /\ recovery' = [recovery EXCEPT ![r] = "DONE"]
  /\ made' = [made EXCEPT ![r] = @ + 1]
  /\ wallet' = wallet + 1
  /\ UNCHANGED <<rows, debt, spent, overtaken, chain, pending, form>>

(* create_transfer locks the row, looks again, and creates a transfer that is *)
(* accepted in the same transaction.                                          *)
CreateTransfer(r) ==
  /\ recovery[r] \in OpenRecovery
  /\ recovery' = [recovery EXCEPT ![r] = "DONE"]
  /\ made' = [made EXCEPT ![r] = @ + 1]
  /\ wallet' = wallet + 1
  /\ UNCHANGED <<rows, debt, spent, overtaken, chain, pending, form>>

(* DepositRecoveryRequestAdmin's form: the status it shows or was given is    *)
(* saved over the row as it is by now.                                        *)
SaveRecoveryForm(r, s) ==
  /\ recovery[r] # "none" /\ saves < MaxSaves
  /\ recovery' = [recovery EXCEPT ![r] = s]
  /\ saves' = saves + 1
  /\ overtaken' = IF s \in OpenRecovery /\ recovery[r] \notin OpenRecovery
                  THEN overtaken \cup {r} ELSE overtaken
  /\ UNCHANGED <<rows, coins, made, chain, pending, overruled>>

-----------------------------------------------------------------------------
(* The customer's coins.                                                      *)

Spend ==
  /\ wallet > 0 /\ spent < MaxSpent
  /\ wallet' = wallet - 1 /\ spent' = spent + 1
  /\ UNCHANGED <<rows, debt, recoveries, chain, pending, form>>

Least(m, n) == IF m < n THEN m ELSE n

(* Mutant: a wallet is only looked at when it covers more than the debt. *)
ClearReadsStrictly(k) ==
  /\ clearing[k] = 0 /\ wallet > debt /\ debt > 0
  /\ clearing' = [clearing EXCEPT ![k] = Least(wallet, debt)]
  /\ UNCHANGED <<rows, coins, recoveries, chain, callback, action, form>>

(* clear_debt computes what can be moved from the two wallets as it reads     *)
(* them (auto_clear_debts every minute, and the staff).                       *)
ClearReads(k) ==
  /\ clearing[k] = 0 /\ wallet > 0 /\ debt > 0
  /\ clearing' = [clearing EXCEPT ![k] = Least(wallet, debt)]
  /\ UNCHANGED <<rows, coins, recoveries, chain, callback, action, form>>

(* and moves it, unless a wallet's constraint refuses: a spot wallet is never *)
(* below zero, a DEBT wallet never above.                                     *)
ClearPosts(k) ==
  /\ clearing[k] > 0
  /\ IF clearing[k] <= Least(wallet, debt)
     THEN wallet' = wallet - clearing[k] /\ debt' = debt - clearing[k]
     ELSE UNCHANGED <<wallet, debt>>
  /\ clearing' = [clearing EXCEPT ![k] = 0]
  /\ UNCHANGED <<rows, spent, recoveries, chain, callback, action, form>>

-----------------------------------------------------------------------------
Blocklink ==
  \/ \E d \in Deposits : ChainMoves(d)
  \/ \E c \in Callbacks, d \in Deposits, report \in Reportable : CallbackRead(c, d, report)
  \/ \E c \in Callbacks : CallbackCreate(c) \/ CallbackApply(c) \/ CallbackDies(c)

StaffActs ==
  \/ \E d \in Deposits : AcceptDeposit(d) \/ \E s \in Statuses : SaveForm(d, s)
  \/ \E a \in Staff, d \in Deposits : StaffReads(a, d)
  \/ \E a \in Staff : RejectDeposit(a) \/ RevertLocks(a) \/ RevertPosts(a) \/ Reaccept(a)

Recovers ==
  \/ \E r \in Recoveries : RecoveryAsked(r) \/ RejectRecovery(r) \/ CreateTransfer(r)
  \/ \E r \in Recoveries, s \in RecoveryStatuses : SaveRecoveryForm(r, s)
  \/ \E a \in Staff, r \in Recoveries : VerifyReads(a, r)
  \/ \E a \in Staff : VerifySaves(a)

Clears == \E k \in Clearers : ClearReads(k) \/ ClearPosts(k)

Next == Blocklink \/ StaffActs \/ Recovers \/ Spend \/ Clears

Spec == Init /\ [][Next]_vars

(* Requests end; blocklink repeats a report that was not acknowledged, and    *)
(* not every callback dies; celery's beat runs auto_clear_debts every minute. *)
FairSpec ==
  /\ Spec
  /\ \A d \in Deposits :
       /\ SF_vars(\E c \in Callbacks : CallbackRead(c, d, "DONE"))
       /\ SF_vars(\E c \in Callbacks :
                    /\ callback[c] # None
                    /\ callback[c].deposit = d /\ callback[c].report = "DONE"
                    /\ CallbackCreate(c) \/ CallbackApply(c))
  /\ \A c \in Callbacks :
       WF_vars(CallbackCreate(c) \/ CallbackApply(c) \/ CallbackDies(c))
  /\ \A a \in Staff : WF_vars(RevertPosts(a))
  /\ \A k \in Clearers : WF_vars(ClearReads(k) \/ ClearPosts(k))

-----------------------------------------------------------------------------
(* Type invariant.  wallet \in Nat and debt \in Nat are the constraints on    *)
(* wallets, which two runs of clear_debt at once would break.                 *)
TypeOK ==
  /\ status \in [Deposits -> Statuses \cup {"none"}]
  /\ funds \in [Deposits -> {"none", "charged", "reverted"}]
  /\ recovery \in [Recoveries -> RecoveryStatuses \cup {"none"}]
  /\ made \in [Recoveries -> Nat]
  /\ wallet \in Nat /\ debt \in Nat /\ spent \in 0 .. MaxSpent
  /\ chain \in [Deposits -> {"unseen", "seen", "final", "dropped"}]
  /\ callback \in [Callbacks -> CallbackStates \cup {None}]
  /\ action \in [Staff -> ActionStates \cup {None}]
  /\ clearing \in [Clearers -> Nat]
  /\ saves \in 0 .. MaxSaves
  /\ overruled \in SUBSET Deposits
  /\ overtaken \in SUBSET Recoveries

(* A deposit is DONE exactly when the journal has credited it and not         *)
(* reverted it, however many callbacks and members of the staff worked on     *)
(* stale copies of the row; unless the staff's form set its status.           *)
DoneIffCredited ==
  \A d \in Deposits \ overruled : status[d] = "DONE" <=> funds[d] = "charged"

(* A deposit is credited at most once and reverted at most once, also by the  *)
(* form: REFUND is no complete status, so that a refunded row can be accepted *)
(* again, but not credited.                                                   *)
Promise == INSTANCE Settlement WITH
  Requests <- Deposits, funds <- funds, contested <- {}

CreditedOnce == Promise!Spec

(* A recovery is credited at most once, whoever works on an old copy of it,   *)
(* unless a verification decided before the row was closed, or its form,      *)
(* opens it again.                                                            *)
RecoveredOnce == \A r \in Recoveries \ overtaken : made[r] <= 1

(* Refunds put a customer into debt only for coins that were spent, not for   *)
(* coins that are still in the wallet while has_balance and the posting of    *)
(* the entries see different balances.                                        *)
DebtsWereSpent == debt <= spent

(* Coins a customer has are used for what the customer owes.                  *)
DebtsCollected == debt > 0 /\ wallet > 0 ~> debt = 0 \/ wallet = 0

(* A deposit that is final on the chain does not stay unknown or PENDING: it  *)
(* is credited, or it is the staff's to look at.                              *)
FinalIsTaken ==
  \A d \in Deposits :
    chain[d] = "final" ~>
      \/ status[d] \notin {"none", "PENDING"}
      \/ funds[d] = "reverted" \/ d \in overruled
=============================================================================
