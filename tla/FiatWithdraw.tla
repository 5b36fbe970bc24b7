----------------------------- MODULE FiatWithdraw -----------------------------
(***************************************************************************)
(* Withdrawals of money to a bank account.  change_status and the worker   *)
(* that asks the provider take the row's lock; everybody else decides on a *)
(* copy read without it and then calls change_status, which looks only at  *)
(* the final statuses: the request that creates the withdrawal and starts  *)
(* it, the customer who cancels it, the staff's actions and form, and the  *)
(* task that asks the provider what became of it.                          *)
(*                                                                         *)
(* The worker calls the provider with the row locked and saves the answer  *)
(* afterwards: if the answer is lost the transaction is undone, and the    *)
(* provider, which knows the withdrawal by its id, is asked again.         *)
(***************************************************************************)
CONSTANTS
  Requests,
  Handlers,   \* requests, tasks and actions in progress at once
  None

Open == {"INIT", "PROCESS", "PENDING"}
Statuses == Open \cup {"DONE", "CANCELED", "REFUND"}

Rows == [status : Statuses, ref : BOOLEAN, gateway : {"provider", "manual"}, recent : BOOLEAN]

(* The creator's change to PROCESS; the customer's or the staff's CANCELED;   *)
(* accept_manual; refund; the form; process_withdraw; update_withdraw_status. *)
Acts == {"start", "cancel", "manual", "refund", "form", "process", "update"}

HandlerStates ==
  [act : Acts, on : Requests,
   copy : Rows \cup {None},   \* the form's: the row as it read it
   knew : BOOLEAN,   \* when it read, a canceler's: the provider had been asked;
                     \* the updater's: the row had the provider's number
   stage : {"read", "asking"} \cup Statuses]   \* what the provider has answered

ASSUME NoneAssumption == None \notin Rows /\ None \notin HandlerStates

VARIABLES
  row,        \* FiatWithdrawRequest: status, ref_id, gateway, withdraw_datetime
  funds,      \* what is held, charged, returned or reverted in the ledger
  frozen,     \* FREEZE_TIME since the creation is not over
  payment,    \* what the provider has made of it
  handler,
  disputed,   \* history: acted on by a copy that was outdated, or moved to
              \* another gateway when it had been asked, or paid by hand
  late        \* history: canceled or taken back to INIT after it was asked, as
              \* was decided before

vars == <<row, funds, frozen, payment, handler, disputed, late>>

Init ==
  /\ row = [r \in Requests |-> None]
  /\ funds = [r \in Requests |-> "none"]
  /\ frozen = [r \in Requests |-> TRUE]
  /\ payment = [r \in Requests |-> "none"]
  /\ handler = [h \in Handlers |-> None]
  /\ disputed = {} /\ late = {}

Exists(r) == row[r] # None
Is(r, S) == Exists(r) /\ row[r].status \in S
Asked(r) == payment[r] # "none"
Underway(r) == Asked(r) \/ row[r].ref   \* asked, or paid by hand

At(h, act, stage) ==
  handler[h] # None /\ handler[h].act = act /\ handler[h].stage = stage

(* The worker keeps the row locked while it asks the provider.                *)
RowFree(r) == \A h \in Handlers : At(h, "process", "asking") => handler[h].on # r

Reads(h, act, r) ==
  /\ handler[h] = None
  /\ handler' = [handler EXCEPT ![h] =
       [act |-> act, on |-> r,
        copy |-> IF act = "form" THEN row[r] ELSE None,
        knew |-> (act = "cancel" /\ Asked(r)) \/ (act = "update" /\ row[r].ref),
        stage |-> "read"]]
  /\ UNCHANGED <<row, funds, frozen, payment, disputed, late>>

Turns(h, stage) == handler' = [handler EXCEPT ![h].stage = stage]
Ends(h) == handler' = [handler EXCEPT ![h] = None]

-----------------------------------------------------------------------------
(* change_status.                                                             *)

(* The assertion, and the unique key of Trx: build_trx once per group.        *)
Refuses(r, new) ==
  /\ row[r].status # new
  /\ row[r].status \in {"DONE", "CANCELED"} \/ (new = "DONE" /\ funds[r] # "held")

FundsAfter(r, new) ==
  IF new = row[r].status THEN funds[r]
  ELSE IF new = "DONE" THEN "charged"
  ELSE IF new = "CANCELED" /\ funds[r] = "held" THEN "returned" ELSE funds[r]

(* Mutant: without the assertion. *)
ChangeStatusUnasserted(r, next) ==
  /\ row' = [row EXCEPT ![r] = next]
  /\ funds' = [funds EXCEPT ![r] = FundsAfter(r, next.status)]

(* It is given next, the row as it is otherwise written.                      *)
ChangeStatus(r, next) ==
  IF Refuses(r, next.status) THEN UNCHANGED <<row, funds>>
  ELSE /\ row' = [row EXCEPT ![r] = next]
       /\ funds' = [funds EXCEPT ![r] = FundsAfter(r, next.status)]

To(r, status) == [row[r] EXCEPT !.status = status]

-----------------------------------------------------------------------------
Create(r, h) ==
  /\ ~ Exists(r) /\ handler[h] = None
  /\ \E gateway \in {"provider", "manual"} :
       LET new == [status |-> "INIT", ref |-> FALSE, gateway |-> gateway, recent |-> FALSE] IN
         /\ row' = [row EXCEPT ![r] = new]
         /\ handler' = [handler EXCEPT ![h] =
              [act |-> "start", on |-> r, copy |-> None, knew |-> FALSE, stage |-> "read"]]
  /\ funds' = [funds EXCEPT ![r] = "held"]
  /\ UNCHANGED <<frozen, payment, disputed, late>>

(* auto_verify_fiat_withdraw finds no risks. *)
Start(h) ==
  /\ At(h, "start", "read") /\ RowFree(handler[h].on)
  /\ ChangeStatus(handler[h].on, To(handler[h].on, "PROCESS"))
  /\ Ends(h) /\ UNCHANGED <<frozen, payment, disputed, late>>

FreezeEnds(r) ==
  /\ Exists(r) /\ frozen[r]
  /\ frozen' = [frozen EXCEPT ![r] = FALSE]
  /\ UNCHANGED <<row, funds, payment, handler, disputed, late>>

(* withdraw_datetime is more than ten minutes ago. *)
RecentEnds(r) ==
  /\ Exists(r) /\ row[r].recent
  /\ RowFree(r)
  /\ row' = [row EXCEPT ![r].recent = FALSE]
  /\ UNCHANGED <<funds, frozen, payment, handler, disputed, late>>

-----------------------------------------------------------------------------
(* The customer and the staff.                                                *)

DestroyReads(h, r) ==
  frozen[r] /\ Exists(r) /\ ~ Is(r, {"PENDING", "DONE"}) /\ Reads(h, "cancel", r)

RejectReads(h, r) == Is(r, {"INIT"}) /\ Reads(h, "cancel", r)

AcceptManualReads(h, r) ==
  Exists(r) /\ row[r].gateway = "manual" /\ row[r].ref /\ Reads(h, "manual", r)

RefundReads(h, r) == Is(r, {"DONE"}) /\ Reads(h, "refund", r)

CancelIsLate(h, r) ==
  LET decidedBefore == Asked(r) /\ ~ handler[h].knew IN
    /\ disputed' = IF decidedBefore THEN disputed \cup {r} ELSE disputed
    /\ late' = IF decidedBefore /\ ~ Refuses(r, "CANCELED") THEN late \cup {r} ELSE late

(* Mutant: the worker does not lock the row while it asks. *)
CancelAnyway(h) ==
  /\ At(h, "cancel", "read")
  /\ LET r == handler[h].on IN
       /\ ChangeStatus(r, To(r, "CANCELED"))
       /\ CancelIsLate(h, r)
  /\ Ends(h) /\ UNCHANGED <<frozen, payment>>

Cancel(h) ==
  /\ At(h, "cancel", "read") /\ RowFree(handler[h].on)
  /\ LET r == handler[h].on IN
       /\ ChangeStatus(r, To(r, "CANCELED"))
       /\ CancelIsLate(h, r)
  /\ Ends(h) /\ UNCHANGED <<frozen, payment>>

AcceptManual(h) ==
  /\ At(h, "manual", "read") /\ RowFree(handler[h].on)
  /\ ChangeStatus(handler[h].on, To(handler[h].on, "DONE"))
  /\ Ends(h) /\ UNCHANGED <<frozen, payment, disputed, late>>

(* Mutant: reverted entries can be reverted again. *)
RefundAgain(h) ==
  /\ At(h, "refund", "read") /\ RowFree(handler[h].on)
  /\ LET r == handler[h].on IN
       /\ row' = [row EXCEPT ![r].status = "REFUND"]
       /\ funds' = [funds EXCEPT ![r] = IF @ = "reverted" THEN "charged" ELSE "reverted"]
  /\ Ends(h) /\ UNCHANGED <<frozen, payment, disputed, late>>

(* The assertion looks at the copy; the unique key of Trx at the entries.     *)
Refund(h) ==
  /\ At(h, "refund", "read") /\ RowFree(handler[h].on)
  /\ LET r == handler[h].on IN
       IF funds[r] = "charged"
       THEN /\ row' = [row EXCEPT ![r].status = "REFUND"]
            /\ funds' = [funds EXCEPT ![r] = "reverted"]
       ELSE UNCHANGED <<row, funds>>
  /\ Ends(h) /\ UNCHANGED <<frozen, payment, disputed, late>>

(* The UPDATEs of the actions.                                                *)
StaffMoves(r) ==
  /\ RowFree(r)
  /\ \/ /\ Is(r, {"INIT", "PENDING"})
        /\ row' = [row EXCEPT ![r].status = "PROCESS"] /\ UNCHANGED disputed
     \/ /\ Is(r, {"PROCESS"})
        /\ \E gateway \in {"provider", "manual"} \ {row[r].gateway} :
             row' = [row EXCEPT ![r].gateway = gateway]
        /\ disputed' = IF Underway(r) THEN disputed \cup {r} ELSE disputed
  /\ UNCHANGED <<funds, frozen, payment, handler, late>>

FormReads(h, r) == Exists(r) /\ Reads(h, "form", r)

(* Mutant: the form writes its copy over any row. *)
SaveFormUnclean(h) ==
  /\ At(h, "form", "read") /\ RowFree(handler[h].on)
  /\ LET r == handler[h].on
         copy == handler[h].copy IN
       /\ row' = [row EXCEPT ![r] = copy]
       /\ disputed' = IF row[r] # copy THEN disputed \cup {r} ELSE disputed
       /\ late' = late
  /\ Ends(h) /\ UNCHANGED <<funds, frozen, payment>>

(* clean() changes the row to the status of the form's copy, unless it is     *)
(* final by now; then the copy is saved, with another gateway or, once the    *)
(* staff has paid by hand, the number of the payment.                         *)
SaveForm(h) ==
  /\ At(h, "form", "read") /\ RowFree(handler[h].on)
  /\ LET r == handler[h].on
         copy == handler[h].copy IN
       \E gateway \in {"provider", "manual"}, ref \in BOOLEAN :
         /\ ref # copy.ref => gateway = "manual"
         /\ ChangeStatus(r, [copy EXCEPT !.gateway = gateway, !.ref = ref])
         /\ disputed' = IF row[r] # copy \/ (gateway # copy.gateway /\ Underway(r))
                        THEN disputed \cup {r} ELSE disputed
         /\ late' = IF Asked(r) /\ copy.status = "INIT" THEN late \cup {r} ELSE late
  /\ Ends(h) /\ UNCHANGED <<frozen, payment>>

-----------------------------------------------------------------------------
(* process_withdraw, queued every few seconds.                                *)

Dispatch(h, r) ==
  Is(r, {"PROCESS"}) /\ ~ frozen[r] /\ ~ row[r].recent /\ Reads(h, "process", r)

(* Mutant: the status is not checked again with the row locked. *)
LockStale(h) ==
  /\ At(h, "process", "read") /\ RowFree(handler[h].on)
  /\ LET r == handler[h].on IN
       IF row[r].gateway = "manual"
       THEN Ends(h) /\ UNCHANGED row
       ELSE Turns(h, "asking") /\ UNCHANGED row
  /\ UNCHANGED <<funds, frozen, payment, disputed, late>>

(* The row is locked and read; one with a number is on its way already, the   *)
(* manual gateway has no channel.                                             *)
Lock(h) ==
  /\ At(h, "process", "read") /\ RowFree(handler[h].on)
  /\ LET r == handler[h].on IN
       IF Is(r, {"PROCESS"}) /\ row[r].ref
       THEN Ends(h) /\ row' = [row EXCEPT ![r].status = "PENDING"]
       ELSE IF ~ Is(r, {"PROCESS"}) \/ row[r].gateway = "manual"
       THEN Ends(h) /\ UNCHANGED row
       ELSE Turns(h, "asking") /\ UNCHANGED row
  /\ UNCHANGED <<funds, frozen, payment, disputed, late>>

(* The provider gets the request; it takes a withdrawal once.                 *)
Takes(h) ==
  /\ At(h, "process", "asking") /\ ~ Asked(handler[h].on)
  /\ payment' = [payment EXCEPT ![handler[h].on] = "taken"]
  /\ UNCHANGED <<row, funds, frozen, handler, disputed, late>>

(* What it may answer, or say later of a withdrawal: the outcome, when there  *)
(* is one (Zibal says DONE of what it has only taken).  That it cancels only  *)
(* what it has not taken, or has failed to pay, is assumed of the provider.   *)
Answers(r) ==
  IF payment[r] = "none" THEN {"CANCELED"}
  ELSE IF payment[r] = "failed" THEN {"PENDING", "CANCELED"} ELSE {"PENDING", "DONE"}

Answer(h) ==
  /\ At(h, "process", "asking")
  /\ LET r == handler[h].on IN
       \E status \in Answers(r), ref \in BOOLEAN :
         ChangeStatus(r, [row[r] EXCEPT !.status = status, !.ref = ref, !.recent = TRUE])
  /\ Ends(h) /\ UNCHANGED <<frozen, payment, disputed, late>>

(* ProviderError: the status stays, and it is left alone for ten minutes.     *)
ProviderRefuses(h) ==
  /\ At(h, "process", "asking")
  /\ row' = [row EXCEPT ![handler[h].on].recent = TRUE]
  /\ Ends(h) /\ UNCHANGED <<funds, frozen, payment, disputed, late>>

(* Mutant: an answer that does not come is taken for a refusal. *)
AnswerLostCancels(h) ==
  /\ At(h, "process", "asking")
  /\ ChangeStatus(handler[h].on, To(handler[h].on, "CANCELED"))
  /\ Ends(h) /\ UNCHANGED <<frozen, payment, disputed, late>>

(* No answer, or an unexpected one: the transaction is undone.                *)
AnswerLost(h) ==
  /\ At(h, "process", "asking")
  /\ Ends(h) /\ UNCHANGED <<row, funds, frozen, payment, disputed, late>>

ProviderPays(r) ==
  /\ payment[r] = "taken"
  /\ \E outcome \in {"paid", "failed"} : payment' = [payment EXCEPT ![r] = outcome]
  /\ UNCHANGED <<row, funds, frozen, handler, disputed, late>>

-----------------------------------------------------------------------------
(* update_withdraw_status.                                                    *)

(* Mutant: only rows that have the provider's number are followed. *)
UpdateReadsNumbered(h, r) ==
  Is(r, {"PENDING"}) /\ row[r].gateway = "provider" /\ row[r].ref /\ Reads(h, "update", r)

UpdateReads(h, r) ==
  Is(r, {"PENDING"}) /\ row[r].gateway = "provider" /\ Reads(h, "update", r)

(* The provider is asked by the copy's gateway; it may know nothing of it.  A *)
(* withdrawal still PENDING is written only if the copy has no number.        *)
Poll(h) ==
  /\ At(h, "update", "read")
  /\ LET r == handler[h].on IN
       IF Asked(r)
       THEN \E status \in Answers(r) :
              IF status = "PENDING" /\ handler[h].knew THEN Ends(h) ELSE Turns(h, status)
       ELSE Ends(h)
  /\ UNCHANGED <<row, funds, frozen, payment, disputed, late>>

(* change_status to an outcome; the number is saved if the copy had none and  *)
(* the provider told it.                                                      *)
Update(h) ==
  \E status \in {"PENDING", "DONE", "CANCELED"} :
    /\ At(h, "update", status) /\ RowFree(handler[h].on)
    /\ LET r == handler[h].on
           new == IF status = "PENDING" THEN row[r].status ELSE status IN
         \E ref \in {row[r].ref, row[r].ref \/ ~ handler[h].knew} :
           ChangeStatus(r, [row[r] EXCEPT !.status = new, !.ref = ref])
    /\ Ends(h) /\ UNCHANGED <<frozen, payment, disputed, late>>

(* A task or a request dies before it writes, or its answer is lost (one that *)
(* waits for the row dies no sooner than it could have it).                   *)
Dies(h) ==
  /\ handler[h] # None /\ handler[h].stage # "asking" /\ RowFree(handler[h].on)
  /\ Ends(h) /\ UNCHANGED <<row, funds, frozen, payment, disputed, late>>

-----------------------------------------------------------------------------
Staff(h) ==
  \/ \E r \in Requests : \/ RejectReads(h, r) \/ AcceptManualReads(h, r)
                         \/ RefundReads(h, r) \/ FormReads(h, r)
  \/ AcceptManual(h) \/ Refund(h) \/ SaveForm(h)

Customer(h) == (\E r \in Requests : Create(r, h) \/ DestroyReads(h, r)) \/ Start(h) \/ Cancel(h)

Worker(h) ==
  \/ \E r \in Requests : Dispatch(h, r)
  \/ Lock(h) \/ Takes(h) \/ Answer(h) \/ ProviderRefuses(h) \/ AnswerLost(h)

Updater(h) == (\E r \in Requests : UpdateReads(h, r)) \/ Poll(h) \/ Update(h)

Next ==
  \/ \E h \in Handlers : Staff(h) \/ Customer(h) \/ Worker(h) \/ Updater(h) \/ Dies(h)
  \/ \E r \in Requests : FreezeEnds(r) \/ RecentEnds(r) \/ StaffMoves(r) \/ ProviderPays(r)

Spec == Init /\ [][Next]_vars

(* Handlers come to an end.  celery's beat runs both tasks every few seconds, *)
(* and their calls do not all fail.                                           *)
FairSpec ==
  /\ Spec
  /\ \A h \in Handlers : WF_vars(Start(h) \/ Cancel(h) \/ AcceptManual(h) \/ Refund(h)
                                 \/ SaveForm(h) \/ Lock(h) \/ Answer(h) \/ AnswerLost(h)
                                 \/ Poll(h) \/ Update(h) \/ Dies(h))
  /\ \A r \in Requests :
       /\ WF_vars(FreezeEnds(r)) /\ WF_vars(RecentEnds(r)) /\ WF_vars(ProviderPays(r))
       /\ SF_vars(\E h \in Handlers : Dispatch(h, r))
       /\ SF_vars(\E h \in Handlers : UpdateReads(h, r))
  /\ SF_vars(\E h \in Handlers : Lock(h))
  /\ SF_vars(\E h \in Handlers : Takes(h) \/ Answer(h))
  /\ SF_vars(\E h \in Handlers : \E s \in {"DONE", "CANCELED"} : Poll(h) /\ Turns(h, s))
  /\ SF_vars(\E h \in Handlers : Update(h) /\ handler[h].stage # "PENDING")

-----------------------------------------------------------------------------
(* Type invariant. *)
TypeOK ==
  /\ row \in [Requests -> Rows \cup {None}]
  /\ funds \in [Requests -> {"none", "held", "charged", "returned", "reverted"}]
  /\ frozen \in [Requests -> BOOLEAN]
  /\ payment \in [Requests -> {"none", "taken", "paid", "failed"}]
  /\ handler \in [Handlers -> HandlerStates \cup {None}]
  /\ disputed \in SUBSET Requests /\ late \in SUBSET Requests

Due(status) ==
  IF status \in Open THEN "held"
  ELSE IF status = "DONE" THEN "charged"
  ELSE IF status = "CANCELED" THEN "returned" ELSE "reverted"

(* Whoever decided on whichever copy, the row says what happened to the       *)
(* customer's money; only of a refunded one may an outdated copy take the     *)
(* status back.                                                               *)
StatusTrue ==
  \A r \in Requests : Exists(r) => funds[r] \in {Due(row[r].status), "reverted"}

(* The money of a withdrawal which the provider has taken and not failed is   *)
(* not given back, although answers are lost, requests repeated and outdated  *)
(* copies written: until the staff refund it, and unless it was canceled, or  *)
(* taken back to INIT, by someone who had decided so before it was taken.     *)
PaidCovered ==
  \A r \in Requests \ late :
    payment[r] \in {"taken", "paid"} => funds[r] \in {"held", "charged", "reverted"}

(* A withdrawal is charged at most once and only while its hold is there, and *)
(* reverted at most once.                                                     *)
Promise == INSTANCE Settlement WITH
  Requests <- Requests, funds <- funds, contested <- {}

SettledOnce == Promise!Spec

(* A withdrawal that has been accepted comes to its end, however many answers *)
(* are lost on the way and however often the staff sends it back: unless it   *)
(* is given to the manual gateway, is disputed, or was refunded before.       *)
AcceptedEnds ==
  \A r \in Requests :
    Is(r, {"PROCESS"})
      ~> \/ ~ Is(r, Open) \/ funds[r] = "reverted"
         \/ row[r].gateway = "manual" \/ r \in disputed
=============================================================================
