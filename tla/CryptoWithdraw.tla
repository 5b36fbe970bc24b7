--------------------------- MODULE CryptoWithdraw ---------------------------
(***************************************************************************)
(* Withdrawals of coins: ledger/models/transfer.py with everybody who      *)
(* changes a Transfer row of deposit = False: the customer's request and   *)
(* cancellation, the staff's actions and form, the celery tasks that ask   *)
(* blocklink (the service that signs and broadcasts) to pay, and the       *)
(* callbacks by which blocklink reports what became of a payment.          *)
(*                                                                         *)
(* accept() and reject() lock the row, look at its status and change row   *)
(* and ledger in one WalletPipeline: one action each.  What is read before *)
(* the row is locked is an action of its own.  The worker keeps the row    *)
(* locked while it talks to blocklink, so nobody else writes it meanwhile. *)
(*                                                                         *)
(* Amounts are left out: what a withdrawal does to the ledger is whether   *)
(* its amount is held by its BalanceLock, was posted to the journal, or    *)
(* was given back.  Withdrawals share nothing but workers and requests.    *)
(***************************************************************************)
EXTENDS Naturals

CONSTANTS
  Transfers,
  Workers,     \* celery workers running create_withdraw
  Cancellers,  \* requests to cancel or reject, in progress at once
  Callbacks,   \* callbacks of blocklink, in progress at once
  MaxSaves,    \* bound: saves of the staff's form
  None

ASSUME WithdrawAssumption == None \notin Transfers /\ MaxSaves \in Nat

Open == {"INIT", "PROCESS", "PENDING"}
Complete == {"CANCELED", "DONE"}     \* Transfer.COMPLETE_STATUSES
Statuses == Open \cup Complete \cup {"REFUND"}

(* WithdrawSources; "manual" stands for "provider" as well: the tasks leave   *)
(* both to the staff.                                                         *)
Sources == {"self", "internal", "manual"}

VARIABLES
  status,     \* Transfer.status, "none" before the row exists
  source,     \* Transfer.source
  frozen,     \* in_freeze_time(): 30 seconds from its creation
  funds,      \* the amount in the ledger: "held", "charged", "returned", "reverted"
  receiver,   \* status of the other row of a transfer between two customers
  tasks,      \* create_withdraw tasks in the celery queue
  asking,     \* which row a worker has locked, waiting for blocklink's answer
  inflight,   \* requests to blocklink that it has not processed yet
  chain,      \* what blocklink did: "none", "taken", "paid", "dropped"
  canceling,  \* the row a canceller has read
  notice,     \* the row a callback has read, and the status it reports
  saves,      \* saves of the form so far
  overruled   \* history: rows whose outcome the staff changed by the form

row == <<status, source, frozen, receiver>>
worker == <<tasks, asking>>
blocklink == <<inflight, chain>>
requests == <<canceling, notice>>
staff == <<saves, overruled>>
vars == <<row, funds, worker, blocklink, requests, staff>>

Notices == [transfer : Transfers, status : {"PENDING", "DONE", "CANCELED"}]

Init ==
  /\ status = [t \in Transfers |-> "none"]
  /\ source = [t \in Transfers |-> "self"]
  /\ frozen = [t \in Transfers |-> FALSE]
  /\ funds = [t \in Transfers |-> "none"]
  /\ receiver = [t \in Transfers |-> "none"]
  /\ tasks = {}
  /\ asking = [w \in Workers |-> None]
  /\ inflight = {}
  /\ chain = [t \in Transfers |-> "none"]
  /\ canceling = [c \in Cancellers |-> None]
  /\ notice = [c \in Callbacks |-> None]
  /\ saves = 0
  /\ overruled = {}

RowFree(t) == \A w \in Workers : asking[w] # t

-----------------------------------------------------------------------------
(* Transfer.accept and Transfer.reject.                                       *)

(* The entries of the journal can be posted: the hold pays for them or, when  *)
(* it is gone, the wallet may or may not be good for them; entries of this    *)
(* group_id that exist are refused by the journal's unique key (the entry of  *)
(* check_fast_forward has a key of its own, and is taken for one of these).   *)
Postable(t) == funds[t] \in {"held", "returned"}

(* accept(): nothing happens to a complete row; an IntegrityError undoes it.  *)
Accept(t) ==
  IF status[t] \in Complete THEN UNCHANGED <<status, funds>>
  ELSE \/ /\ Postable(t)
          /\ status' = [status EXCEPT ![t] = "DONE"]
          /\ funds' = [funds EXCEPT ![t] = "charged"]
       \/ /\ funds[t] # "held"
          /\ UNCHANGED <<status, funds>>

(* Mutant: the status is not looked at again once the row is locked. *)
RejectUnchecked(t) ==
  /\ status' = [status EXCEPT ![t] = "CANCELED"]
  /\ funds' = [funds EXCEPT ![t] = IF @ = "held" THEN "returned" ELSE @]

(* reject(): release_lock gives back what is left of the hold. *)
Reject(t) ==
  IF status[t] \in Complete THEN UNCHANGED <<status, funds>>
  ELSE /\ status' = [status EXCEPT ![t] = "CANCELED"]
       /\ funds' = [funds EXCEPT ![t] = IF @ = "held" THEN "returned" ELSE @]

(* Mutant: the UPDATE does not exclude complete rows. *)
MarkPendingAlways(t) ==
  /\ status' = [status EXCEPT ![t] = "PENDING"]
  /\ UNCHANGED funds

(* change_status to anything else: one UPDATE that excludes complete rows.    *)
MarkPending(t) ==
  /\ status' = [status EXCEPT ![t] = IF @ \in Complete THEN @ ELSE "PENDING"]
  /\ UNCHANGED funds

-----------------------------------------------------------------------------
(* The customer.                                                              *)

(* new_withdraw in the transaction of its view: the row, its hold and, when   *)
(* no risk was found, the status PROCESS become visible at once.              *)
NewWithdraw(t) ==
  /\ status[t] = "none"
  /\ \E s \in {"INIT", "PROCESS"}, via \in {"self", "manual"} :
       /\ status' = [status EXCEPT ![t] = s]
       /\ source' = [source EXCEPT ![t] = via]
  /\ frozen' = [frozen EXCEPT ![t] = TRUE]
  /\ funds' = [funds EXCEPT ![t] = "held"]
  /\ UNCHANGED <<receiver, worker, blocklink, requests, staff>>

(* check_fast_forward: the address belongs to another customer; both rows are *)
(* DONE at once, and share the entries of one group.                          *)
FastForward(t) ==
  /\ status[t] = "none"
  /\ status' = [status EXCEPT ![t] = "DONE"]
  /\ source' = [source EXCEPT ![t] = "internal"]
  /\ frozen' = [frozen EXCEPT ![t] = TRUE]
  /\ funds' = [funds EXCEPT ![t] = "charged"]
  /\ receiver' = [receiver EXCEPT ![t] = "DONE"]
  /\ UNCHANGED <<worker, blocklink, requests, staff>>

FreezeEnds(t) ==
  /\ frozen[t]
  /\ frozen' = [frozen EXCEPT ![t] = FALSE]
  /\ UNCHANGED <<status, source, receiver, funds, worker, blocklink, requests, staff>>

(* perform_destroy reads the row and decides; reject() comes later. *)
CancelRead(c, t) ==
  /\ canceling[c] = None
  /\ status[t] # "none"
  /\ status[t] = "INIT" \/ frozen[t]
  /\ canceling' = [canceling EXCEPT ![c] = t]
  /\ UNCHANGED <<row, funds, worker, blocklink, notice, staff>>

(* The staff's reject_withdraw reads its rows, then rejects them one by one.  *)
RejectRead(c, t) ==
  /\ canceling[c] = None
  /\ status[t] = "INIT"
  /\ canceling' = [canceling EXCEPT ![c] = t]
  /\ UNCHANGED <<row, funds, worker, blocklink, notice, staff>>

(* Mutant: the row is written without waiting for whoever has it locked. *)
CancelWithoutRowLock(c) ==
  /\ canceling[c] # None
  /\ Reject(canceling[c])
  /\ canceling' = [canceling EXCEPT ![c] = None]
  /\ UNCHANGED <<source, frozen, receiver, worker, blocklink, notice, staff>>

CancelApply(c) ==
  /\ canceling[c] # None
  /\ RowFree(canceling[c])
  /\ Reject(canceling[c])
  /\ canceling' = [canceling EXCEPT ![c] = None]
  /\ UNCHANGED <<source, frozen, receiver, worker, blocklink, notice, staff>>

-----------------------------------------------------------------------------
(* The staff.                                                                 *)

(* accept_withdraw: one UPDATE of the rows that are INIT. *)
AcceptWithdraw(t) ==
  /\ status[t] = "INIT" /\ RowFree(t)
  /\ status' = [status EXCEPT ![t] = "PROCESS"]
  /\ UNCHANGED <<source, frozen, receiver, funds, worker, blocklink, requests, staff>>

(* refund_deposit of the receiver's row reverts the entries of the group; the *)
(* sender's row is neither locked nor written.                                *)
RefundReceiver(t) ==
  /\ receiver[t] = "DONE"
  /\ receiver' = [receiver EXCEPT ![t] = "REFUND"]
  /\ funds' = [funds EXCEPT ![t] = "reverted"]
  /\ UNCHANGED <<status, source, frozen, worker, blocklink, requests, staff>>

(* Saving s over the row changes an outcome, or ends it without the ledger.   *)
Overrules(t, s) ==
  /\ s # status[t]
  /\ s \in {"CANCELED", "REFUND"} \/ status[t] \in Complete \cup {"REFUND"}

(* TransferAdmin.save_model: a form that says DONE accepts the row first;     *)
(* then the form is saved over the row, whatever the row says by now.         *)
SaveForm(t, s, via) ==
  /\ status[t] # "none" /\ RowFree(t)
  /\ saves < MaxSaves
  /\ IF s = "DONE" /\ status[t] \notin Complete
     THEN Postable(t) /\ funds' = [funds EXCEPT ![t] = "charged"]
     ELSE UNCHANGED funds
  /\ status' = [status EXCEPT ![t] = s]
  /\ source' = [source EXCEPT ![t] = via]
  /\ saves' = saves + 1
  /\ overruled' = IF Overrules(t, s) THEN overruled \cup {t} ELSE overruled
  /\ UNCHANGED <<frozen, receiver, worker, blocklink, requests>>

-----------------------------------------------------------------------------
(* The tasks.                                                                 *)

(* Mutant: the comparison with the creation time is turned round. *)
DispatchYoung(t) ==
  /\ status[t] = "PROCESS" /\ source[t] = "self" /\ frozen[t]
  /\ t \notin tasks
  /\ tasks' = tasks \cup {t}
  /\ UNCHANGED <<row, funds, asking, blocklink, requests, staff>>

(* update_withdraws, every 10 seconds: a task for each row that is due, also  *)
(* when an earlier one is still at work on it.                                *)
Dispatch(t) ==
  /\ status[t] = "PROCESS" /\ source[t] = "self" /\ ~ frozen[t]
  /\ t \notin tasks
  /\ tasks' = tasks \cup {t}
  /\ UNCHANGED <<row, funds, asking, blocklink, requests, staff>>

(* Mutant: the row the scheduler found is processed without looking again. *)
AskWithoutCheck(w, t) ==
  /\ t \in tasks /\ asking[w] = None /\ RowFree(t)
  /\ tasks' = tasks \ {t}
  /\ asking' = [asking EXCEPT ![w] = t]
  /\ inflight' = inflight \cup {t}
  /\ UNCHANGED <<row, funds, chain, requests, staff>>

(* create_withdraw locks the row, checks it again and sends the request. *)
Ask(w, t) ==
  /\ t \in tasks /\ asking[w] = None /\ RowFree(t)
  /\ status[t] = "PROCESS" /\ source[t] = "self" /\ ~ frozen[t]
  /\ tasks' = tasks \ {t}
  /\ asking' = [asking EXCEPT ![w] = t]
  /\ inflight' = inflight \cup {t}
  /\ UNCHANGED <<row, funds, chain, requests, staff>>

(* Withdrawals are banned, the row is not due any more, or the task is lost.  *)
Skip(t) ==
  /\ t \in tasks
  /\ tasks' = tasks \ {t}
  /\ UNCHANGED <<row, funds, asking, blocklink, requests, staff>>

(* The answer of blocklink ends the worker's transaction. *)
Answered(w) ==
  /\ asking[w] # None
  /\ asking' = [asking EXCEPT ![w] = None]
  /\ UNCHANGED <<tasks, frozen, receiver, chain, requests, staff>>

(* 2xx, or an error the code cannot read: PENDING. *)
AnswerPending(w) ==
  /\ Answered(w)
  /\ status' = [status EXCEPT ![asking[w]] = "PENDING"]
  /\ UNCHANGED <<source, funds, inflight>>

(* 400 Invalid, which blocklink says only of what it has not taken. *)
AnswerInvalid(w) ==
  /\ Answered(w)
  /\ chain[asking[w]] = "none"
  /\ Reject(asking[w])
  /\ inflight' = inflight \ {asking[w]}
  /\ UNCHANGED source

(* 400 NotHandled: change_to_manual. *)
AnswerNotHandled(w) ==
  /\ Answered(w)
  /\ chain[asking[w]] = "none"
  /\ source' = [source EXCEPT ![asking[w]] = "manual"]
  /\ inflight' = inflight \ {asking[w]}
  /\ UNCHANGED <<status, funds>>

(* Mutant: no usable answer is taken for a refusal. *)
NoAnswerRejects(w) ==
  /\ Answered(w)
  /\ Reject(asking[w])
  /\ UNCHANGED <<source, inflight>>

(* 403, 5xx, a timeout or the death of the worker: the row is left as it was, *)
(* and the request may still be on its way.                                   *)
NoAnswer(w) ==
  /\ Answered(w)
  /\ UNCHANGED <<status, source, funds, inflight>>

-----------------------------------------------------------------------------
(* blocklink and its callbacks.                                               *)

(* It takes a requester_id once, whenever the request reaches it. *)
Takes(t) ==
  /\ t \in inflight
  /\ inflight' = inflight \ {t}
  /\ chain' = [chain EXCEPT ![t] = IF @ = "none" THEN "taken" ELSE @]
  /\ UNCHANGED <<row, funds, worker, requests, staff>>

(* It pays, or drops the payment, by itself or because the staff asked with   *)
(* terminate_withdraw.                                                        *)
Finishes(t) ==
  /\ chain[t] = "taken"
  /\ \E end \in {"paid", "dropped"} : chain' = [chain EXCEPT ![t] = end]
  /\ UNCHANGED <<row, funds, worker, inflight, requests, staff>>

(* What it reports of t: late, more than once, out of order. *)
Reports(t) ==
  CASE chain[t] = "none" -> {}
    [] chain[t] = "taken" -> {"PENDING"}
    [] chain[t] = "paid" -> {"PENDING", "DONE"}
    [] chain[t] = "dropped" -> {"PENDING", "CANCELED"}

ValidTransitions ==
  ({"PENDING"} \X {"PENDING", "DONE", "CANCELED"})
    \cup ({"PROCESS"} \X {"DONE", "CANCELED"})

(* WithdrawSerializer.create reads the row without a lock and checks source   *)
(* and transition on what it read.                                            *)
NotifyRead(c, t, to) ==
  /\ notice[c] = None
  /\ to \in Reports(t)
  /\ source[t] = "self"
  /\ <<status[t], to>> \in ValidTransitions
  /\ notice' = [notice EXCEPT ![c] = [transfer |-> t, status |-> to]]
  /\ UNCHANGED <<row, funds, worker, blocklink, canceling, staff>>

(* change_status, when the row is free. *)
NotifyApply(c) ==
  /\ notice[c] # None
  /\ LET n == notice[c] IN
       /\ RowFree(n.transfer)
       /\ \/ n.status = "DONE" /\ Accept(n.transfer)
          \/ n.status = "CANCELED" /\ Reject(n.transfer)
          \/ n.status = "PENDING" /\ MarkPending(n.transfer)
  /\ notice' = [notice EXCEPT ![c] = None]
  /\ UNCHANGED <<source, frozen, receiver, worker, blocklink, canceling, staff>>

-----------------------------------------------------------------------------
Customer(t) ==
  NewWithdraw(t) \/ FastForward(t) \/ FreezeEnds(t)
    \/ \E c \in Cancellers : CancelRead(c, t)

Staff(t) ==
  AcceptWithdraw(t) \/ RefundReceiver(t)
    \/ (\E c \in Cancellers : RejectRead(c, t))
    \/ \E s \in Statuses, via \in Sources : SaveForm(t, s, via)

Conclusive(w) == AnswerPending(w) \/ AnswerInvalid(w) \/ AnswerNotHandled(w)

Tasks(t) == Dispatch(t) \/ Skip(t) \/ \E w \in Workers : Ask(w, t)

Blocklink(t) ==
  Takes(t) \/ Finishes(t)
    \/ \E c \in Callbacks, to \in Statuses : NotifyRead(c, t, to)

Next ==
  \/ \E t \in Transfers : Customer(t) \/ Staff(t) \/ Tasks(t) \/ Blocklink(t)
  \/ \E w \in Workers : Conclusive(w) \/ NoAnswer(w)
  \/ \E c \in Cancellers : CancelApply(c)
  \/ \E c \in Callbacks : NotifyApply(c)

Spec == Init /\ [][Next]_vars

(* Celery's beat goes on, time passes, a request to blocklink ends; and       *)
(* tasks are not lost, withdrawals not banned and blocklink not down for ever.*)
FairSpec ==
  /\ Spec
  /\ \A t \in Transfers :
       /\ WF_vars(Dispatch(t)) /\ WF_vars(FreezeEnds(t))
       /\ SF_vars(\E w \in Workers : Ask(w, t))
  /\ \A w \in Workers :
       WF_vars(Conclusive(w) \/ NoAnswer(w)) /\ SF_vars(Conclusive(w))

-----------------------------------------------------------------------------
(* Type invariant. *)
TypeOK ==
  /\ status \in [Transfers -> Statuses \cup {"none"}]
  /\ source \in [Transfers -> Sources]
  /\ frozen \in [Transfers -> BOOLEAN]
  /\ funds \in [Transfers -> {"none", "held", "charged", "returned", "reverted"}]
  /\ receiver \in [Transfers -> {"none", "DONE", "REFUND"}]
  /\ tasks \in SUBSET Transfers
  /\ asking \in [Workers -> Transfers \cup {None}]
  /\ inflight \in SUBSET Transfers
  /\ chain \in [Transfers -> {"none", "taken", "paid", "dropped"}]
  /\ canceling \in [Cancellers -> Transfers \cup {None}]
  /\ notice \in [Callbacks -> Notices \cup {None}]
  /\ saves \in 0 .. MaxSaves
  /\ overruled \in SUBSET Transfers

(* What the ledger says of the amount of a row with this status. *)
Agree(s, f) ==
  \/ s = "none" /\ f = "none"
  \/ s \in Open /\ f = "held"
  \/ s = "DONE" /\ f \in {"charged", "reverted"}
  \/ s = "CANCELED" /\ f = "returned"

(* Row and ledger agree, whoever changed the row last and on however stale a  *)
(* copy it decided: the amount is held while the withdrawal is open, charged  *)
(* when it is DONE, given back when it is CANCELED; unless the staff's form   *)
(* changed the outcome.  A charge is reverted for one reason only: the row of *)
(* the customer who received it was refunded.                                 *)
LedgerMatchesStatus ==
  \A t \in Transfers \ overruled :
    /\ Agree(status[t], funds[t])
    /\ funds[t] = "reverted" <=> receiver[t] = "REFUND"

(* accept, reject and the UPDATE of change_status leave a row that is DONE or *)
(* CANCELED alone: a late cancel or callback that read an older row changes   *)
(* nothing.  Only the staff's form changes an outcome, and a refund of the    *)
(* receiver's row takes back what was charged.                                *)
OutcomeIsFinal ==
  [][\A t \in Transfers \ overruled' :
       status[t] \in Complete =>
         status'[t] = status[t] /\ (funds'[t] = funds[t] \/ receiver'[t] # receiver[t])]_vars

(* While blocklink is being asked to pay, the row stays PROCESS, the task's   *)
(* to pay, and its amount held; and no two workers ask for the same row.      *)
AskedWhileHeld ==
  /\ \A w \in Workers : asking[w] \in Transfers \ overruled =>
       /\ status[asking[w]] = "PROCESS"
       /\ source[asking[w]] = "self"
       /\ funds[asking[w]] = "held"
  /\ \A v, w \in Workers : asking[v] = asking[w] /\ asking[v] # None => v = w

(* The amount of a withdrawal is held once, charged at most once, and never   *)
(* charged after it was given back; unless the staff's form reopened it.      *)
Promise == INSTANCE Settlement WITH
  Requests <- Transfers, funds <- funds, contested <- overruled

SettledOnce == Promise!Spec

(* What blocklink pays stays covered: from the moment it takes a request, the *)
(* amount is held or charged, never given back to the customer, also when     *)
(* answers are lost, requests repeated and callbacks overtake each other.     *)
PaymentsCovered ==
  \A t \in Transfers \ overruled :
    chain[t] \in {"taken", "paid"} => funds[t] \in {"held", "charged"}

(* A withdrawal the tasks have to pay does not stay PROCESS: it is asked for  *)
(* again after every lost task and lost answer until blocklink answers.       *)
EventuallyAsked ==
  \A t \in Transfers :
    status[t] = "PROCESS" /\ source[t] = "self"
      ~> ~ (status[t] = "PROCESS" /\ source[t] = "self")

(* perform_destroy: after the time for it a withdrawal is not canceled (the   *)
(* message of withdraw_viewset.py says so): a cancel request leaves alone     *)
(* what blocklink has taken to pay.                                           *)
NotCanceledLate ==
  [][\A c \in Cancellers, t \in Transfers :
       canceling[c] = t /\ canceling'[c] = None
         /\ status[t] = "PENDING" /\ ~ frozen[t] /\ chain[t] # "none"
       => status'[t] = "PENDING"]_vars
=============================================================================
