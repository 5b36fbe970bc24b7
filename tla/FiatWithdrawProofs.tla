-------------------------- MODULE FiatWithdrawProofs --------------------------
(***************************************************************************)
(* For any number of withdrawals, workers, staff and lost answers: the row *)
(* of a withdrawal says what happened to its amount, which is charged at   *)
(* most once, and is not given back when the provider has taken it, unless *)
(* somebody does who had decided so before.                                *)
(*                                                                         *)
(* The argument for the last: the provider is asked only with the row      *)
(* locked, in PROCESS and after the freeze time, so the hold is there when *)
(* it takes the withdrawal (Asking); from then on the customer cannot      *)
(* decide to cancel, the row is not INIT, so nor can the staff, unless an  *)
(* older copy took it back and it is late (AskedLate), and only the        *)
(* provider's own failure says CANCELED (Asking again).  Whoever read the  *)
(* row earlier makes it late by canceling it.                              *)
(***************************************************************************)
EXTENDS FiatWithdraw, TLAPS

NotYet == \A r \in Requests : ~ Exists(r) => funds[r] = "none" /\ payment[r] = "none"

AskedLate ==
  \A r \in Requests : Asked(r) => ~ frozen[r] /\ (row[r].status = "INIT" => r \in late)

(* What a handler may rely on. *)
Sound(h) ==
  handler[h] # None =>
    LET d == handler[h] IN
    /\ Exists(d.on)
    /\ d.act = "form" => d.copy # None
    /\ d.copy # None /\ d.copy.status = "REFUND" => funds[d.on] = "reverted"
    /\ d.copy # None /\ d.copy.status = "CANCELED" => row[d.on].status = "CANCELED"
    /\ d.act = "cancel" /\ d.knew => d.on \in late
    /\ d.act = "process" => ~ frozen[d.on]
    /\ d.stage = "asking" => d.act = "process" /\ row[d.on].status = "PROCESS"
    /\ d.stage = "CANCELED" => payment[d.on] = "failed"

AskingOne ==
  \A g, h \in Handlers :
    /\ handler[g] # None /\ handler[h] # None
    /\ handler[g].stage = "asking" /\ handler[h].stage = "asking"
    /\ handler[g].on = handler[h].on
    => g = h

IInv ==
  /\ TypeOK /\ StatusTrue /\ PaidCovered
  /\ NotYet /\ AskedLate /\ AskingOne
  /\ \A h \in Handlers : Sound(h)

Funds == {"none", "held", "charged", "returned", "reverted"}

(* A step of Settlement for one request. *)
Lawful(r) ==
  \/ Promise!Hold(r) \/ Promise!Charge(r) \/ Promise!Return(r) \/ Promise!Revert(r)
  \/ funds'[r] = funds[r]

-----------------------------------------------------------------------------
(* A transaction that writes the row of r, with the row locked or as the one  *)
(* who has it locked.                                                         *)
Writes(r) ==
  /\ Exists(r)
  /\ row' \in [Requests -> Rows \cup {None}] /\ row'[r] \in Rows
  /\ funds' \in [Requests -> Funds]
  /\ \A s \in Requests \ {r} : row'[s] = row[s] /\ funds'[s] = funds[s]
  /\ funds'[r] \in {Due(row'[r].status), "reverted"}
  /\ Lawful(r)
  /\ UNCHANGED <<frozen, payment>>
  /\ disputed' \in SUBSET Requests /\ late \subseteq late' /\ late' \in SUBSET Requests
  /\ row[r].status = "CANCELED" => row'[r].status = "CANCELED"
  /\ funds[r] # "returned" /\ funds'[r] = "returned" /\ payment[r] \in {"taken", "paid"}
       => r \in late'
  /\ row'[r].status = "INIT" /\ row[r].status # "INIT" /\ Asked(r) => r \in late'
  /\ handler' = handler \/ \E h \in Handlers : Ends(h)
  /\ \A h \in Handlers :
       handler'[h] # None /\ handler'[h].stage = "asking" => handler'[h].on # r

(* It keeps the invariant. *)
LEMMA WritesKeep ==
  ASSUME IInv, NEW r \in Requests, Writes(r)
  PROVE  IInv' /\ \A s \in Requests : Lawful(s)
<1> USE DEF IInv
<1>1. /\ handler' \in [Handlers -> HandlerStates \cup {None}]
      /\ \A h \in Handlers : handler'[h] # None => handler'[h] = handler[h]
  BY DEF Writes, Ends, TypeOK
<1>2. TypeOK'
  BY <1>1 DEF Writes, TypeOK, Funds
<1>3. \A s \in Requests : Exists(s)' <=> Exists(s)
  BY NoneAssumption DEF Writes, Exists
<1>4. StatusTrue'
  BY <1>3 DEF Writes, StatusTrue, Exists
<1>5. PaidCovered'
  <2>1. ASSUME NEW s \in Requests \ late', payment'[s] \in {"taken", "paid"}
        PROVE  funds'[s] \in {"held", "charged", "reverted"}
    <3>1. s \notin late /\ funds[s] \in {"held", "charged", "reverted"}
      BY <2>1 DEF Writes, PaidCovered
    <3>2. CASE s = r
      BY <2>1, <3>1, <3>2
      DEF Writes, Due, Rows, Statuses, Open
    <3>3. QED BY <3>1, <3>2 DEF Writes
  <2>2. QED BY <2>1 DEF PaidCovered
<1>6. NotYet'
  BY <1>3 DEF Writes, NotYet, Exists
<1>7. AskedLate'
  BY DEF Writes, AskedLate, Asked
<1>8. AskingOne'
  BY <1>1 DEF AskingOne
<1>9. ASSUME NEW h \in Handlers PROVE Sound(h)'
  <2>1. CASE handler'[h] # None
    <3>1. handler'[h] = handler[h] /\ Sound(h) /\ handler[h].on \in Requests
      BY <1>1, <2>1 DEF TypeOK, HandlerStates
    <3>2. QED BY <1>3, <2>1, <3>1
      DEF Sound, Writes, Exists, Lawful, Promise!Hold, Promise!Charge, Promise!Return,
          Promise!Revert
  <2>2. QED BY <2>1 DEF Sound
<1>10. \A s \in Requests : Lawful(s)
  BY DEF Writes, Lawful
<1>11. QED BY <1>2, <1>4, <1>5, <1>6, <1>7, <1>8, <1>9, <1>10

(* change_status writes a row, or is refused. *)
LEMMA ChangeStatusWrites ==
  ASSUME IInv, NEW r \in Requests, Exists(r), NEW next \in Rows, ChangeStatus(r, next),
         next.status = "REFUND" => funds[r] = "reverted"
  PROVE  /\ row' \in [Requests -> Rows \cup {None}] /\ row'[r] \in Rows
         /\ funds' \in [Requests -> Funds]
         /\ \A s \in Requests \ {r} : row'[s] = row[s] /\ funds'[s] = funds[s]
         /\ funds'[r] \in {Due(row'[r].status), "reverted"}
         /\ Lawful(r)
         /\ row'[r].status \in {row[r].status, next.status}
         /\ row[r].status = "CANCELED" => row'[r].status = "CANCELED"
         /\ funds[r] # "returned" /\ funds'[r] = "returned" =>
              next.status = "CANCELED" /\ ~ Refuses(r, "CANCELED") /\ row[r].status # "CANCELED"
<1> USE DEF IInv
<1>1. /\ row \in [Requests -> Rows \cup {None}] /\ row[r] \in Rows
      /\ funds \in [Requests -> Funds]
      /\ row[r].status \in Statuses /\ next.status \in Statuses
      /\ funds[r] \in {Due(row[r].status), "reverted"}
  BY DEF TypeOK, Exists, Rows, StatusTrue, Funds
<1>2. CASE Refuses(r, next.status)
  BY <1>1, <1>2 DEF ChangeStatus, Lawful
<1>3. CASE ~ Refuses(r, next.status)
  <2>1. /\ row' = [row EXCEPT ![r] = next]
        /\ funds' = [funds EXCEPT ![r] = FundsAfter(r, next.status)]
    BY <1>3 DEF ChangeStatus
  <2>2. CASE row[r].status = next.status
    BY <1>1, <2>1, <2>2
    DEF FundsAfter, Due, Funds, Lawful, Statuses, Open, Promise!Charge
  <2>3. CASE row[r].status # next.status
    BY <1>1, <1>3, <2>1, <2>3
    DEF FundsAfter, Due, Funds, Lawful, Statuses, Open, Refuses,
        Promise!Charge, Promise!Return
  <2>4. QED BY <2>2, <2>3
<1>4. QED BY <1>2, <1>3

(* A row nobody else has locked is not being asked about afterwards.          *)
LEMMA FreeRow ==
  ASSUME IInv, NEW r \in Requests,
         RowFree(r) /\ (handler' = handler \/ \E h \in Handlers : Ends(h))
  PROVE  \A h \in Handlers :
           handler'[h] # None /\ handler'[h].stage = "asking" => handler'[h].on # r
<1> USE DEF IInv
<1>1. \A h \in Handlers : handler'[h] # None => handler'[h] = handler[h]
  BY DEF Ends, TypeOK
<1>2. QED BY <1>1 DEF RowFree, At, Sound

(* Nor is one whose asking handler ends.                                      *)
LEMMA AskedRow ==
  ASSUME IInv, NEW g \in Handlers, At(g, "process", "asking"), Ends(g)
  PROVE  \A h \in Handlers :
           handler'[h] # None /\ handler'[h].stage = "asking" => handler'[h].on # handler[g].on
<1>1. QED BY DEF IInv, At, Ends, AskingOne, TypeOK

(* The transactions that change the status of a free row write it:            *)
LEMMA ChangesWrite ==
  ASSUME IInv, NEW h \in Handlers, NEW r \in Requests, NEW next \in Rows,
         Exists(r) /\ r = handler[h].on /\ RowFree(r),
         ChangeStatus(r, next) /\ Ends(h) /\ UNCHANGED <<frozen, payment>>,
         disputed' \in SUBSET Requests /\ late \subseteq late' /\ late' \in SUBSET Requests,
         next.status = "REFUND" => funds[r] = "reverted",
         next.status = "CANCELED" /\ ~ Refuses(r, "CANCELED") /\ row[r].status # "CANCELED"
           => payment[r] = "failed" \/ r \in late' \/ ~ Asked(r),
         next.status = "INIT" /\ row[r].status # "INIT" /\ Asked(r) => r \in late'
  PROVE  Writes(r)
<1>1. /\ row' \in [Requests -> Rows \cup {None}] /\ row'[r] \in Rows
      /\ funds' \in [Requests -> Funds]
      /\ \A s \in Requests \ {r} : row'[s] = row[s] /\ funds'[s] = funds[s]
      /\ funds'[r] \in {Due(row'[r].status), "reverted"}
      /\ Lawful(r)
      /\ row'[r].status \in {row[r].status, next.status}
      /\ row[r].status = "CANCELED" => row'[r].status = "CANCELED"
      /\ funds[r] # "returned" /\ funds'[r] = "returned" =>
           next.status = "CANCELED" /\ ~ Refuses(r, "CANCELED") /\ row[r].status # "CANCELED"
  BY ChangeStatusWrites
<1>2. \A g \in Handlers :
        handler'[g] # None /\ handler'[g].stage = "asking" => handler'[g].on # r
  BY FreeRow
<1>3. QED BY <1>1, <1>2 DEF Writes, Asked

(* the creator's, the customer's, the staff's and the updater's.              *)
LEMMA HandlersWrite ==
  ASSUME IInv, NEW h \in Handlers,
         Start(h) \/ Cancel(h) \/ AcceptManual(h) \/ SaveForm(h) \/ Update(h)
  PROVE  \E r \in Requests : Writes(r)
<1> USE DEF IInv
<1>1. handler[h] \in HandlerStates /\ handler[h] # None /\ Sound(h)
  BY DEF Start, Cancel, AcceptManual, SaveForm, Update, At, TypeOK
<1>2. PICK r \in Requests : r = handler[h].on
  BY <1>1 DEF HandlerStates
<1>3. Exists(r) /\ row[r] \in Rows /\ disputed \in SUBSET Requests /\ late \in SUBSET Requests
  BY <1>1, <1>2 DEF Sound, Exists, TypeOK
<1>4. \A status \in Statuses : To(r, status) \in Rows /\ To(r, status).status = status
  BY <1>3 DEF To, Rows
<1>5. CASE Start(h)
  BY <1>2, <1>3, <1>4, <1>5, ChangesWrite DEF Start, Statuses, Open
<1>6. CASE Cancel(h)
  <2>1. PICK next \in Rows : next = To(r, "CANCELED") /\ next.status = "CANCELED"
    BY <1>4 DEF Statuses
  <2>2. /\ RowFree(r) /\ ChangeStatus(r, next) /\ CancelIsLate(h, r)
        /\ Ends(h) /\ UNCHANGED <<frozen, payment>> /\ handler[h].act = "cancel"
    BY <1>2, <1>6, <2>1 DEF Cancel, At
  <2>3. /\ disputed' \in SUBSET Requests /\ late \subseteq late' /\ late' \in SUBSET Requests
        /\ ~ Refuses(r, "CANCELED") => r \in late' \/ ~ Asked(r)
    BY <1>1, <1>2, <1>3, <2>2 DEF CancelIsLate, Sound
  <2>4. QED BY <1>2, <1>3, <2>1, <2>2, <2>3, ChangesWrite
<1>7. CASE AcceptManual(h)
  BY <1>2, <1>3, <1>4, <1>7, ChangesWrite DEF AcceptManual, Statuses, Open
<1>8. CASE SaveForm(h)
  <2>1. handler[h].copy \in Rows
    BY <1>1, <1>8 DEF SaveForm, At, Sound, HandlerStates
  <2>2. PICK copy \in Rows : copy = handler[h].copy
    BY <2>1
  <2>3. PICK gateway \in {"provider", "manual"}, ref \in BOOLEAN :
          /\ ChangeStatus(r, [copy EXCEPT !.gateway = gateway, !.ref = ref])
          /\ disputed' = IF row[r] # copy \/ (gateway # copy.gateway /\ Underway(r))
                         THEN disputed \cup {r} ELSE disputed
          /\ late' = IF Asked(r) /\ copy.status = "INIT" THEN late \cup {r} ELSE late
    BY <1>2, <1>8, <2>2 DEF SaveForm
  <2>4. /\ [copy EXCEPT !.gateway = gateway, !.ref = ref] \in Rows
        /\ [copy EXCEPT !.gateway = gateway, !.ref = ref].status = copy.status
    BY <2>2 DEF Rows
  <2>5. PICK next \in Rows :
          next = [copy EXCEPT !.gateway = gateway, !.ref = ref] /\ next.status = copy.status
    BY <2>4
  <2>6. /\ next.status = "REFUND" => funds[r] = "reverted"
        /\ next.status = "CANCELED" => row[r].status = "CANCELED"
    BY <1>1, <1>2, <2>2, <2>5, NoneAssumption DEF Sound
  <2>7. QED BY <1>2, <1>3, <1>8, <2>3, <2>5, <2>6, ChangesWrite DEF SaveForm
<1>9. CASE Update(h)
  <2>1. PICK status \in {"PENDING", "DONE", "CANCELED"} :
          /\ At(h, "update", status)
          /\ LET new == IF status = "PENDING" THEN row[r].status ELSE status IN
               \E ref \in {row[r].ref, row[r].ref \/ ~ handler[h].knew} :
                 ChangeStatus(r, [row[r] EXCEPT !.status = new, !.ref = ref])
    BY <1>2, <1>9 DEF Update
  <2>2. handler[h].knew \in BOOLEAN
    BY <1>1 DEF HandlerStates
  <2>3. PICK new \in Statuses, ref \in BOOLEAN :
          /\ ChangeStatus(r, [row[r] EXCEPT !.status = new, !.ref = ref])
          /\ new = row[r].status \/ new = status
    BY <1>3, <2>1, <2>2 DEF Rows, Statuses, Open
  <2>4. /\ [row[r] EXCEPT !.status = new, !.ref = ref] \in Rows
        /\ [row[r] EXCEPT !.status = new, !.ref = ref].status = new
    BY <1>3 DEF Rows
  <2>5. PICK next \in Rows :
          next = [row[r] EXCEPT !.status = new, !.ref = ref] /\ next.status = new
    BY <2>4
  <2>6. new = "CANCELED" /\ row[r].status # "CANCELED" => payment[r] = "failed"
    BY <1>1, <1>2, <2>1, <2>3 DEF Sound, At
  <2>7. new = "REFUND" => funds[r] = "reverted"
    BY <1>3, <2>1, <2>3 DEF StatusTrue, Due, Open
  <2>8. new = "INIT" => row[r].status = "INIT"
    BY <2>1, <2>3
  <2>9. QED BY <1>2, <1>3, <1>9, <2>3, <2>5, <2>6, <2>7, <2>8, ChangesWrite DEF Update
<1>10. QED BY <1>5, <1>6, <1>7, <1>8, <1>9

(* So do the others that write a row: the worker,                             *)
LEMMA WorkersWrite ==
  ASSUME IInv, NEW h \in Handlers, Answer(h) \/ ProviderRefuses(h)
  PROVE  \E r \in Requests : Writes(r)
<1> USE DEF IInv
<1>1. handler[h] \in HandlerStates /\ handler[h] # None /\ Sound(h)
  BY DEF Answer, ProviderRefuses, At, TypeOK
<1>2. PICK r \in Requests : r = handler[h].on
  BY <1>1 DEF HandlerStates
<1>3. /\ Exists(r) /\ row[r] \in Rows /\ row[r].status = "PROCESS"
      /\ disputed \in SUBSET Requests /\ late \in SUBSET Requests
      /\ payment[r] \in {"none", "taken", "paid", "failed"}
      /\ funds[r] \in {Due("PROCESS"), "reverted"}
  BY <1>1, <1>2
  DEF Answer, ProviderRefuses, At, Sound, Exists, TypeOK, StatusTrue
<1>4. \A g \in Handlers :
        handler'[g] # None /\ handler'[g].stage = "asking" => handler'[g].on # r
  BY <1>2, AskedRow DEF Answer, ProviderRefuses
<1>5. CASE Answer(h)
  <2>1. PICK status \in Answers(r), ref \in BOOLEAN :
          ChangeStatus(r, [row[r] EXCEPT !.status = status, !.ref = ref, !.recent = TRUE])
    BY <1>2, <1>5 DEF Answer
  <2>2. status \in {"PENDING", "DONE", "CANCELED"}
        /\ (status = "CANCELED" => payment[r] \notin {"taken", "paid"})
    BY <1>3, <2>1 DEF Answers
  <2>3. /\ [row[r] EXCEPT !.status = status, !.ref = ref, !.recent = TRUE] \in Rows
        /\ [row[r] EXCEPT !.status = status, !.ref = ref, !.recent = TRUE].status = status
    BY <1>3, <2>1, <2>2 DEF Rows, Statuses, Open
  <2>4. PICK next \in Rows :
          /\ next = [row[r] EXCEPT !.status = status, !.ref = ref, !.recent = TRUE]
          /\ next.status = status
    BY <2>3
  <2>5. /\ row' \in [Requests -> Rows \cup {None}] /\ row'[r] \in Rows
        /\ funds' \in [Requests -> Funds]
        /\ \A s \in Requests \ {r} : row'[s] = row[s] /\ funds'[s] = funds[s]
        /\ funds'[r] \in {Due(row'[r].status), "reverted"}
        /\ Lawful(r)
        /\ row'[r].status \in {row[r].status, status}
        /\ funds[r] # "returned" /\ funds'[r] = "returned" => status = "CANCELED"
    BY <1>3, <2>1, <2>2, <2>4, ChangeStatusWrites
  <2>6. QED BY <1>3, <1>4, <1>5, <2>2, <2>5 DEF Answer, Writes
<1>6. CASE ProviderRefuses(h)
  <2>1. /\ row' = [row EXCEPT ![r].recent = TRUE]
        /\ UNCHANGED <<funds, frozen, payment, disputed, late>>
        /\ Ends(h)
    BY <1>2, <1>6 DEF ProviderRefuses
  <2>2. row'[r] \in Rows /\ row'[r].status = "PROCESS"
    BY <1>3, <2>1 DEF TypeOK, Rows
  <2>3. QED BY <1>3, <1>4, <2>1, <2>2 DEF Writes, TypeOK, Lawful, Funds
<1>7. QED BY <1>5, <1>6

(* the worker that finds a number, the staff and the clock.                   *)
LEMMA OthersWrite ==
  ASSUME IInv,
         \/ \E h \in Handlers : Refund(h) \/ (Lock(h) /\ row' # row)
         \/ \E r \in Requests : StaffMoves(r) \/ RecentEnds(r)
  PROVE  \/ \E r \in Requests : Writes(r)
         \/ /\ UNCHANGED <<row, funds, frozen, payment, disputed, late>>
            /\ \E h \in Handlers : Ends(h)
<1> USE DEF IInv
<1>1. ASSUME NEW h \in Handlers, Refund(h)
      PROVE  \/ \E r \in Requests : Writes(r)
             \/ UNCHANGED <<row, funds, frozen, payment, disputed, late>> /\ Ends(h)
  <2>1. PICK r \in Requests : r = handler[h].on /\ Exists(r) /\ RowFree(r)
    BY <1>1 DEF Refund, At, Sound, TypeOK, HandlerStates
  <2>2. /\ \A g \in Handlers :
             handler'[g] # None /\ handler'[g].stage = "asking" => handler'[g].on # r
        /\ row[r] \in Rows /\ UNCHANGED <<frozen, payment, disputed, late>> /\ Ends(h)
    BY <1>1, <2>1, FreeRow DEF Refund, Exists, TypeOK
  <2>3. CASE funds[r] = "charged"
    <3>1. /\ row' = [row EXCEPT ![r].status = "REFUND"]
          /\ funds' = [funds EXCEPT ![r] = "reverted"]
      BY <1>1, <2>1, <2>3 DEF Refund
    <3>2. row'[r] \in Rows /\ row'[r].status = "REFUND"
      BY <2>2, <3>1 DEF TypeOK, Rows, Statuses
    <3>3. row[r].status # "CANCELED"
      BY <2>1, <2>3 DEF StatusTrue, Due, Open
    <3>4. QED BY <2>1, <2>2, <2>3, <3>1, <3>2, <3>3
      DEF Writes, TypeOK, Lawful, Funds, Promise!Revert
  <2>4. CASE funds[r] # "charged"
    BY <1>1, <2>1, <2>2, <2>4 DEF Refund
  <2>5. QED BY <2>3, <2>4
<1>2. ASSUME NEW h \in Handlers, Lock(h), row' # row
      PROVE  \E r \in Requests : Writes(r)
  <2>1. PICK r \in Requests :
          /\ r = handler[h].on /\ Exists(r) /\ RowFree(r) /\ row[r].status = "PROCESS"
          /\ Ends(h) /\ row' = [row EXCEPT ![r].status = "PENDING"]
          /\ UNCHANGED <<funds, frozen, payment, disputed, late>>
    BY <1>2 DEF Lock, At, Sound, TypeOK, HandlerStates, Is
  <2>2. row[r] \in Rows /\ row'[r] \in Rows /\ row'[r].status = "PENDING"
    BY <2>1 DEF TypeOK, Rows, Statuses, Open, Exists
  <2>3. \A g \in Handlers :
          handler'[g] # None /\ handler'[g].stage = "asking" => handler'[g].on # r
    BY <2>1, FreeRow
  <2>4. QED BY <2>1, <2>2, <2>3
    DEF Writes, TypeOK, Lawful, Funds, StatusTrue, Due, Open
<1>3. ASSUME NEW r \in Requests, StaffMoves(r) PROVE Writes(r)
  <2>1. /\ Exists(r) /\ row[r] \in Rows /\ RowFree(r)
        /\ UNCHANGED <<funds, frozen, payment, handler>>
    BY <1>3 DEF StaffMoves, Is, Exists, TypeOK
  <2>2. \A g \in Handlers :
          handler'[g] # None /\ handler'[g].stage = "asking" => handler'[g].on # r
    BY <2>1, FreeRow
  <2>3. /\ row[r].status \in Open
        /\ \/ row' = [row EXCEPT ![r].status = "PROCESS"]
           \/ \E gateway \in {"provider", "manual"} :
                row' = [row EXCEPT ![r].gateway = gateway] /\ row[r].status = "PROCESS"
        /\ disputed' \in {disputed, disputed \cup {r}} /\ late' = late
    BY <1>3 DEF StaffMoves, Is, Open
  <2>4. row'[r] \in Rows /\ row'[r].status = "PROCESS" /\ \A s \in Requests \ {r} : row'[s] = row[s]
    BY <2>1, <2>3 DEF TypeOK, Rows, Statuses, Open
  <2>5. row' \in [Requests -> Rows \cup {None}]
    BY <2>1, <2>3, <2>4 DEF TypeOK
  <2>6. QED BY <2>1, <2>2, <2>3, <2>4, <2>5
    DEF Writes, TypeOK, Lawful, Funds, StatusTrue, Due, Open
<1>4. ASSUME NEW r \in Requests, RecentEnds(r) PROVE Writes(r)
  <2>1. /\ Exists(r) /\ row[r] \in Rows /\ RowFree(r)
        /\ UNCHANGED <<funds, frozen, payment, handler, disputed, late>>
        /\ row' = [row EXCEPT ![r].recent = FALSE]
    BY <1>4 DEF RecentEnds, Exists, TypeOK
  <2>2. row'[r] \in Rows /\ row'[r].status = row[r].status
    BY <2>1 DEF TypeOK, Rows
  <2>3. \A g \in Handlers :
          handler'[g] # None /\ handler'[g].stage = "asking" => handler'[g].on # r
    BY <2>1, FreeRow
  <2>4. QED BY <2>1, <2>2, <2>3 DEF Writes, TypeOK, Lawful, Funds, StatusTrue
<1>5. QED BY <1>1, <1>2, <1>3, <1>4

-----------------------------------------------------------------------------
(* Steps that write no row of a withdrawal there is.                          *)

(* Reading a row to act on it keeps the invariant, *)
LEMMA ReadsKeep ==
  ASSUME IInv, NEW h \in Handlers, NEW r \in Requests, NEW act \in Acts,
         Exists(r), Reads(h, act, r),
         act = "process" => ~ frozen[r],
         act = "cancel" /\ Asked(r) => r \in late
  PROVE  IInv'
<1> USE DEF IInv
<1>1. row[r] \in Rows /\ (row[r].status = "REFUND" => funds[r] = "reverted")
  BY DEF Exists, TypeOK, StatusTrue, Due, Open
<1>2. PICK copy \in Rows \cup {None} :
        /\ copy = IF act = "form" THEN row[r] ELSE None
        /\ handler' = [handler EXCEPT ![h] =
             [act |-> act, on |-> r, copy |-> copy,
              knew |-> (act = "cancel" /\ Asked(r)) \/ (act = "update" /\ row[r].ref),
              stage |-> "read"]]
  BY <1>1 DEF Reads
<1>3. PICK knew \in BOOLEAN :
        knew = ((act = "cancel" /\ Asked(r)) \/ (act = "update" /\ row[r].ref))
  OBVIOUS
<1>4. handler' = [handler EXCEPT ![h] =
        [act |-> act, on |-> r, copy |-> copy, knew |-> knew, stage |-> "read"]]
  BY <1>2, <1>3
<1>5. [act |-> act, on |-> r, copy |-> copy, knew |-> knew, stage |-> "read"] \in HandlerStates
  BY DEF HandlerStates
<1>6. UNCHANGED <<row, funds, frozen, payment, disputed, late>>
  BY DEF Reads
<1>7. TypeOK'
  BY <1>4, <1>5, <1>6 DEF TypeOK
<1>8. StatusTrue' /\ PaidCovered' /\ NotYet' /\ AskedLate'
  BY <1>6 DEF StatusTrue, PaidCovered, NotYet, AskedLate, Exists, Asked
<1>9. AskingOne'
  BY <1>4, <1>7 DEF AskingOne, TypeOK
<1>10. ASSUME NEW g \in Handlers PROVE Sound(g)'
  <2>1. CASE g = h
    <3>1. act = "cancel" /\ knew => r \in late
      BY <1>3
    <3>2. /\ act = "form" => copy # None
          /\ copy # None /\ copy.status = "CANCELED" => row[r].status = "CANCELED"
          /\ copy # None /\ copy.status = "REFUND" => funds[r] = "reverted"
      BY <1>1, <1>2, NoneAssumption
    <3>3. /\ handler'[h].act = act /\ handler'[h].on = r /\ handler'[h].copy = copy
          /\ handler'[h].knew = knew /\ handler'[h].stage = "read"
      BY <1>4 DEF TypeOK
    <3>4. QED BY <1>6, <2>1, <3>1, <3>2, <3>3 DEF Sound, Exists
  <2>2. CASE g # h
    BY <1>4, <1>6, <2>2 DEF Sound, Exists, TypeOK
  <2>3. QED BY <2>1, <2>2
<1>11. QED BY <1>7, <1>8, <1>9, <1>10

(* whoever reads it;                                                          *)
LEMMA ReadersKeep ==
  ASSUME IInv, NEW h \in Handlers, NEW r \in Requests,
         \/ DestroyReads(h, r) \/ RejectReads(h, r) \/ AcceptManualReads(h, r)
         \/ RefundReads(h, r) \/ FormReads(h, r) \/ Dispatch(h, r) \/ UpdateReads(h, r)
  PROVE  IInv' /\ \A s \in Requests : Lawful(s)
<1>1. /\ Exists(r)
      /\ \E act \in Acts :
           /\ Reads(h, act, r)
           /\ act = "process" => ~ frozen[r]
           /\ act = "cancel" /\ Asked(r) => r \in late
  BY DEF DestroyReads, RejectReads, AcceptManualReads, RefundReads, FormReads, Dispatch,
         UpdateReads, Is, Acts, IInv, AskedLate
<1>2. IInv'
  BY <1>1, ReadsKeep
<1>3. UNCHANGED funds
  BY <1>1 DEF Reads
<1>4. QED BY <1>2, <1>3 DEF Lawful

(* so does a handler that ends,                                               *)
LEMMA EndsKeep ==
  ASSUME IInv, NEW h \in Handlers, Ends(h),
         UNCHANGED <<row, funds, frozen, payment, disputed, late>>
  PROVE  IInv'
<1> USE DEF IInv
<1>1. /\ handler' \in [Handlers -> HandlerStates \cup {None}]
      /\ \A g \in Handlers : handler'[g] # None => handler'[g] = handler[g]
  BY DEF Ends, TypeOK
<1>2. TypeOK' /\ StatusTrue' /\ PaidCovered' /\ NotYet' /\ AskedLate' /\ AskingOne'
  BY <1>1 DEF TypeOK, StatusTrue, PaidCovered, NotYet, AskedLate, AskingOne, Exists, Asked
<1>3. \A g \in Handlers : Sound(g)'
  BY <1>1 DEF Sound, Exists
<1>4. QED BY <1>2, <1>3

(* or goes on: the worker with a free row in PROCESS, the updater with what   *)
(* the provider said.                                                         *)
LEMMA TurnsKeep ==
  ASSUME IInv, NEW h \in Handlers, NEW stage \in {"asking"} \cup Statuses,
         handler[h] # None, Turns(h, stage),
         UNCHANGED <<row, funds, frozen, payment, disputed, late>>,
         stage = "CANCELED" => payment[handler[h].on] = "failed",
         stage = "asking" => /\ handler[h].act = "process" /\ RowFree(handler[h].on)
                             /\ row[handler[h].on].status = "PROCESS"
  PROVE  IInv'
<1> USE DEF IInv
<1>1. PICK d \in HandlerStates : d = handler[h]
  BY DEF TypeOK
<1>2. [d EXCEPT !.stage = stage] \in HandlerStates
  BY DEF HandlerStates
<1>3. PICK e \in HandlerStates :
        /\ e.act = d.act /\ e.on = d.on /\ e.copy = d.copy /\ e.knew = d.knew
        /\ e.stage = stage /\ handler' = [handler EXCEPT ![h] = e]
  BY <1>1, <1>2 DEF Turns, TypeOK, HandlerStates
<1>4. e # None
  BY NoneAssumption
<1>5. TypeOK'
  BY <1>3 DEF TypeOK
<1>6. StatusTrue' /\ PaidCovered' /\ NotYet' /\ AskedLate'
  BY DEF StatusTrue, PaidCovered, NotYet, AskedLate, Exists, Asked
<1>7. AskingOne'
  <2>1. ASSUME NEW g \in Handlers \ {h}, handler[g] # None, handler[g].stage = "asking",
               stage = "asking"
        PROVE  handler[g].on # d.on
    BY <1>1, <2>1 DEF RowFree, At, Sound
  <2>2. QED BY <1>3, <1>4, <2>1 DEF AskingOne, TypeOK
<1>8. ASSUME NEW g \in Handlers PROVE Sound(g)'
  <2>1. CASE g = h
    BY <1>1, <1>3, <1>4, <2>1 DEF Sound, Exists, TypeOK
  <2>2. CASE g # h
    BY <1>3, <2>2 DEF Sound, Exists, TypeOK
  <2>3. QED BY <2>1, <2>2
<1>9. QED BY <1>5, <1>6, <1>7, <1>8

(* the handlers that write nothing, or have nothing written;                  *)
LEMMA IdleKeep ==
  ASSUME IInv, NEW h \in Handlers,
         Dies(h) \/ AnswerLost(h) \/ Poll(h) \/ (Lock(h) /\ row' = row)
  PROVE  IInv' /\ \A s \in Requests : Lawful(s)
<1>1. UNCHANGED <<row, funds, frozen, payment, disputed, late>> /\ handler[h] # None
  BY DEF Dies, AnswerLost, Poll, Lock, At
<1> SUFFICES IInv'
  BY <1>1 DEF Lawful
<1>2. CASE Ends(h)
  BY <1>1, <1>2, EndsKeep
<1>3. CASE ~ Ends(h) /\ Poll(h)
  <2>1. PICK r \in Requests : r = handler[h].on
    BY <1>1 DEF IInv, TypeOK, HandlerStates
  <2>2. PICK status \in Answers(r) : Turns(h, status)
    BY <1>3, <2>1 DEF Poll
  <2>3. status \in Statuses /\ (status = "CANCELED" => payment[r] \in {"none", "failed"})
    BY <2>1, <2>2 DEF Answers, Statuses, Open, IInv, TypeOK
  <2>4. payment[r] # "none"
    BY <1>3, <2>1 DEF Poll, Asked
  <2>5. QED BY <1>1, <2>1, <2>2, <2>3, <2>4, TurnsKeep DEF Statuses, Open
<1>4. CASE ~ Ends(h) /\ Lock(h)
  <2>1. Turns(h, "asking") /\ handler[h].act = "process" /\ RowFree(handler[h].on)
        /\ row[handler[h].on].status = "PROCESS"
    BY <1>4 DEF Lock, At, Is
  <2>2. QED BY <1>1, <2>1, TurnsKeep
<1>5. QED BY <1>2, <1>3, <1>4 DEF Dies, AnswerLost

(* a new withdrawal,                                                          *)
LEMMA CreateKeeps ==
  ASSUME IInv, NEW h \in Handlers, NEW r \in Requests, Create(r, h)
  PROVE  IInv' /\ \A s \in Requests : Lawful(s)
<1> USE DEF IInv
<1>1. PICK new \in Rows :
        /\ new.status = "INIT" /\ row' = [row EXCEPT ![r] = new]
        /\ handler' = [handler EXCEPT ![h] =
             [act |-> "start", on |-> r, copy |-> None, knew |-> FALSE, stage |-> "read"]]
  BY DEF Create, Rows, Statuses, Open
<1>2. [act |-> "start", on |-> r, copy |-> None, knew |-> FALSE, stage |-> "read"]
        \in HandlerStates
  BY DEF HandlerStates, Acts
<1>3. /\ funds[r] = "none" /\ payment[r] = "none" /\ row[r] = None
      /\ funds' = [funds EXCEPT ![r] = "held"] /\ UNCHANGED <<frozen, payment, disputed, late>>
  BY DEF Create, NotYet, Exists
<1>4. new # None
  BY NoneAssumption
<1>5. TypeOK'
  BY <1>1, <1>2, <1>3 DEF TypeOK
<1>6. StatusTrue' /\ NotYet'
  BY <1>1, <1>3, <1>4 DEF StatusTrue, NotYet, Exists, Due, Open, TypeOK
<1>7. PaidCovered' /\ AskedLate'
  BY <1>1, <1>3 DEF PaidCovered, AskedLate, Asked, TypeOK
<1>8. AskingOne'
  BY <1>1, <1>5 DEF AskingOne, TypeOK
<1>9. ASSUME NEW g \in Handlers PROVE Sound(g)'
  <2>1. CASE g = h
    <3>1. /\ handler'[h].act = "start" /\ handler'[h].on = r /\ handler'[h].copy = None
          /\ handler'[h].knew = FALSE /\ handler'[h].stage = "read"
      BY <1>1 DEF TypeOK
    <3>2. row'[r] # None
      BY <1>1, <1>4 DEF TypeOK
    <3>3. QED BY <2>1, <3>1, <3>2 DEF Sound, Exists
  <2>2. CASE g # h
    BY <1>1, <1>3, <2>2 DEF Sound, Exists, TypeOK
  <2>3. QED BY <2>1, <2>2
<1>10. \A s \in Requests : Lawful(s)
  BY <1>3 DEF Lawful, Promise!Hold, TypeOK
<1>11. QED BY <1>5, <1>6, <1>7, <1>8, <1>9, <1>10

(* the clock and the provider, which takes only what is held.                 *)
LEMMA WorldKeeps ==
  ASSUME IInv,
         \/ \E h \in Handlers : Takes(h)
         \/ \E r \in Requests : FreezeEnds(r) \/ ProviderPays(r)
  PROVE  IInv' /\ \A s \in Requests : Lawful(s)
<1> USE DEF IInv
<1>1. UNCHANGED <<row, funds, handler, disputed, late>>
  BY DEF Takes, FreezeEnds, ProviderPays
<1>2. /\ frozen' \in [Requests -> BOOLEAN] /\ \A r \in Requests : ~ frozen[r] => ~ frozen'[r]
      /\ payment' \in [Requests -> {"none", "taken", "paid", "failed"}]
      /\ \A r \in Requests :
           \/ payment'[r] = payment[r]
           \/ payment[r] = "taken" /\ payment'[r] \in {"paid", "failed"}
           \/ /\ payment[r] = "none" /\ payment'[r] = "taken"
              /\ Exists(r) /\ ~ frozen[r] /\ row[r].status = "PROCESS"
  <2>1. ASSUME NEW h \in Handlers, Takes(h)
        PROVE  /\ handler[h].on \in Requests /\ Exists(handler[h].on)
               /\ ~ frozen[handler[h].on] /\ row[handler[h].on].status = "PROCESS"
               /\ payment[handler[h].on] = "none"
               /\ payment' = [payment EXCEPT ![handler[h].on] = "taken"] /\ frozen' = frozen
    BY <2>1 DEF Takes, Asked, At, Sound, TypeOK, HandlerStates
  <2>2. ASSUME NEW r \in Requests, FreezeEnds(r)
        PROVE  frozen' = [frozen EXCEPT ![r] = FALSE] /\ payment' = payment
    BY <2>2 DEF FreezeEnds
  <2>3. ASSUME NEW r \in Requests, ProviderPays(r)
        PROVE  /\ payment[r] = "taken" /\ frozen' = frozen
               /\ \E outcome \in {"paid", "failed"} : payment' = [payment EXCEPT ![r] = outcome]
    BY <2>3 DEF ProviderPays
  <2>4. CASE \E h \in Handlers : Takes(h)
    BY <2>1, <2>4 DEF TypeOK
  <2>5. CASE \E r \in Requests : FreezeEnds(r)
    BY <2>2, <2>5 DEF TypeOK
  <2>6. CASE \E r \in Requests : ProviderPays(r)
    BY <2>3, <2>6 DEF TypeOK
  <2>7. QED BY <2>4, <2>5, <2>6
<1>3. TypeOK'
  BY <1>1, <1>2 DEF TypeOK
<1>4. StatusTrue' /\ AskingOne'
  BY <1>1 DEF StatusTrue, AskingOne, Exists
<1>5. PaidCovered'
  BY <1>1, <1>2 DEF PaidCovered, StatusTrue, Due, Open
<1>6. NotYet'
  BY <1>1, <1>2 DEF NotYet, Exists
<1>7. AskedLate'
  BY <1>1, <1>2 DEF AskedLate, Asked
<1>8. ASSUME NEW h \in Handlers PROVE Sound(h)'
  <2>1. Sound(h) /\ (handler[h] # None => handler[h].on \in Requests)
    BY DEF TypeOK, HandlerStates
  <2>2. \A r \in Requests : payment[r] = "failed" => payment'[r] = "failed"
    BY <1>2
  <2>3. QED BY <1>1, <1>2, <2>1, <2>2 DEF Sound, Exists
<1>9. QED BY <1>1, <1>3, <1>4, <1>5, <1>6, <1>7, <1>8 DEF Lawful

-----------------------------------------------------------------------------
(* Who frees the money of a withdrawal that the provider has taken.           *)

Secured(r) == payment[r] \in {"taken", "paid"} /\ funds[r] \in {"held", "charged"}

(* A refund by the staff, or a cancellation decided before the provider was   *)
(* asked or on a row that an older copy of the form took back to INIT.        *)
Frees(h, r) ==
  /\ handler[h] # None /\ handler[h].on = r
  /\ Refund(h) \/ (Cancel(h) /\ (~ handler[h].knew \/ r \in late))

(* change_status frees it only when it is told CANCELED. *)
LEMMA ChangeStatusFrees ==
  ASSUME IInv, NEW r \in Requests, Exists(r), NEW next, ChangeStatus(r, next),
         NEW s \in Requests, funds[s] \in {"held", "charged"},
         funds'[s] \notin {"held", "charged"}
  PROVE  s = r /\ next.status = "CANCELED" /\ row[r].status # "CANCELED"
<1>1. /\ funds' = [funds EXCEPT ![r] = FundsAfter(r, next.status)]
      /\ ~ Refuses(r, next.status)
  BY DEF ChangeStatus
<1>2. s = r /\ FundsAfter(r, next.status) \notin {"held", "charged"}
  BY <1>1 DEF IInv, TypeOK
<1>3. QED BY <1>2 DEF FundsAfter

(* Nobody else does. *)
LEMMA StepFrees ==
  ASSUME IInv, Next, NEW r \in Requests, Secured(r), funds'[r] \notin {"held", "charged"}
  PROVE  \E h \in Handlers : Frees(h, r)
<1> USE DEF IInv
<1>1. PICK h \in Handlers :
        \/ \E s \in Requests : Create(s, h)
        \/ Start(h) \/ Cancel(h) \/ AcceptManual(h) \/ Refund(h) \/ SaveForm(h)
        \/ Answer(h) \/ Update(h)
  <2>1. funds' # funds
    BY DEF Secured
  <2>2. ASSUME NEW h \in Handlers, NEW act, NEW s, Reads(h, act, s)
        PROVE  funds' = funds
    BY <2>2 DEF Reads
  <2>3. QED BY <2>1, <2>2
    DEF Next, Staff, Customer, Worker, Updater, RejectReads, AcceptManualReads, RefundReads,
        FormReads, DestroyReads, Dispatch, Lock, Takes, ProviderRefuses, AnswerLost,
        UpdateReads, Poll, Dies, FreezeEnds, RecentEnds, StaffMoves, ProviderPays
<1>2. CASE \E s \in Requests : Create(s, h)
  BY <1>2 DEF Create, NotYet, Secured, TypeOK
<1>3. CASE ~ \E s \in Requests : Create(s, h)
  <2>1. PICK s \in Requests : handler[h] # None /\ s = handler[h].on /\ Exists(s) /\ Sound(h)
    BY <1>1, <1>3
    DEF Start, Cancel, AcceptManual, Refund, SaveForm, Answer, Update, At, Sound, TypeOK,
        HandlerStates
  <2>2. funds[r] \in {"held", "charged"} /\ payment[r] \in {"taken", "paid"} /\ Asked(r)
    BY DEF Secured, Asked
  <2>3. CASE Refund(h)
    BY <2>1, <2>2, <2>3 DEF Refund, Frees, TypeOK
  <2>4. CASE Cancel(h)
    <3>1. s = r
      BY <2>1, <2>2, <2>4, ChangeStatusFrees DEF Cancel
    <3>2. handler[h].knew => r \in late
      BY <2>1, <2>4, <3>1 DEF Cancel, At, Sound
    <3>3. QED BY <2>1, <2>4, <3>1, <3>2 DEF Frees
  <2>5. CASE Start(h) \/ AcceptManual(h)
    <3>1. \E status \in {"PROCESS", "DONE"} : ChangeStatus(s, To(s, status))
      BY <2>1, <2>5 DEF Start, AcceptManual
    <3>2. \A status \in {"PROCESS", "DONE"} : To(s, status).status = status
      BY <2>1 DEF To, Exists, TypeOK, Rows
    <3>3. QED BY <2>1, <2>2, <3>1, <3>2, ChangeStatusFrees
  <2>6. CASE SaveForm(h)
    <3>1. PICK copy \in Rows :
            copy = handler[h].copy /\ (copy.status = "CANCELED" => row[s].status = "CANCELED")
      BY <2>1, <2>6, NoneAssumption DEF SaveForm, At, Sound, TypeOK, HandlerStates
    <3>2. PICK next : ChangeStatus(s, next) /\ next.status = copy.status
      <4>1. PICK gateway, ref : ChangeStatus(s, [copy EXCEPT !.gateway = gateway, !.ref = ref])
        BY <2>1, <2>6, <3>1 DEF SaveForm
      <4>2. [copy EXCEPT !.gateway = gateway, !.ref = ref].status = copy.status
        BY DEF Rows
      <4>3. QED BY <4>1, <4>2
    <3>3. QED BY <2>1, <2>2, <3>1, <3>2, ChangeStatusFrees
  <2>7. CASE Update(h)
    <3>1. PICK status \in {"PENDING", "DONE", "CANCELED"} :
            /\ At(h, "update", status)
            /\ \E new, ref : /\ ChangeStatus(s, [row[s] EXCEPT !.status = new, !.ref = ref])
                            /\ new = IF status = "PENDING" THEN row[s].status ELSE status
      BY <2>1, <2>7 DEF Update
    <3>2. PICK new, ref : /\ ChangeStatus(s, [row[s] EXCEPT !.status = new, !.ref = ref])
                          /\ new = IF status = "PENDING" THEN row[s].status ELSE status
      BY <3>1
    <3>3. [row[s] EXCEPT !.status = new, !.ref = ref].status = new
      BY <2>1 DEF Exists, TypeOK, Rows
    <3>4. status = "CANCELED" => payment[s] = "failed"
      BY <2>1, <3>1 DEF At, Sound
    <3>5. s = r /\ new = "CANCELED" /\ row[s].status # "CANCELED"
      BY <2>1, <2>2, <3>2, <3>3, ChangeStatusFrees
    <3>6. QED BY <2>2, <3>2, <3>4, <3>5
  <2>8. CASE Answer(h)
    <3>1. PICK status \in Answers(s), ref \in BOOLEAN :
            ChangeStatus(s, [row[s] EXCEPT !.status = status, !.ref = ref, !.recent = TRUE])
      BY <2>1, <2>8 DEF Answer
    <3>2. \A next : next = [row[s] EXCEPT !.status = status, !.ref = ref, !.recent = TRUE]
                     => next.status = status
      BY <2>1 DEF Exists, TypeOK, Rows
    <3>3. s = r /\ status = "CANCELED"
      BY <2>1, <2>2, <3>1, <3>2, ChangeStatusFrees
    <3>4. QED BY <2>2, <3>1, <3>3 DEF Answers
  <2>9. QED BY <1>1, <1>3, <2>3, <2>4, <2>5, <2>6, <2>7, <2>8
<1>4. QED BY <1>2, <1>3

-----------------------------------------------------------------------------
(* Every step keeps the invariant and Settlement's promise.                   *)
LEMMA NextKeeps ==
  ASSUME IInv, Next
  PROVE  IInv' /\ \A s \in Requests : Lawful(s)
<1>1. ASSUME \E r \in Requests : Writes(r) PROVE IInv' /\ \A s \in Requests : Lawful(s)
  BY <1>1, WritesKeep
<1>2. ASSUME NEW h \in Handlers, Staff(h) \/ Customer(h)
      PROVE  IInv' /\ \A s \in Requests : Lawful(s)
  <2>1. CASE Refund(h)
    BY <1>1, <2>1, OthersWrite, EndsKeep DEF Lawful
  <2>2. CASE ~ Refund(h)
    BY <1>1, <1>2, <2>2, HandlersWrite, ReadersKeep, CreateKeeps DEF Staff, Customer
  <2>3. QED BY <2>1, <2>2
<1>3. ASSUME NEW h \in Handlers, Worker(h) \/ Updater(h) \/ Dies(h)
      PROVE  IInv' /\ \A s \in Requests : Lawful(s)
  <2>1. CASE Lock(h)
    <3>1. CASE row' = row
      BY <2>1, <3>1, IdleKeep
    <3>2. CASE row' # row
      BY <1>1, <2>1, <3>2, OthersWrite, EndsKeep DEF Lawful
    <3>3. QED BY <3>1, <3>2
  <2>2. CASE ~ Lock(h)
    BY <1>1, <1>3, <2>2, WorkersWrite, HandlersWrite, ReadersKeep, IdleKeep, WorldKeeps
    DEF Worker, Updater
  <2>3. QED BY <2>1, <2>2
<1>4. ASSUME NEW r \in Requests, FreezeEnds(r) \/ ProviderPays(r)
      PROVE  IInv' /\ \A s \in Requests : Lawful(s)
  BY <1>4, WorldKeeps
<1>5. ASSUME NEW r \in Requests, RecentEnds(r) \/ StaffMoves(r)
      PROVE  IInv' /\ \A s \in Requests : Lawful(s)
  BY <1>1, <1>5, OthersWrite, EndsKeep DEF Lawful
<1>6. QED BY <1>2, <1>3, <1>4, <1>5 DEF Next

(* The invariant is inductive. *)
LEMMA AlwaysIInv == Spec => []IInv
<1>1. Init => IInv
  BY DEF Init, IInv, TypeOK, StatusTrue, PaidCovered, NotYet, AskedLate, AskingOne, Sound,
         Exists, Asked
<1>2. IInv /\ [Next]_vars => IInv'
  <2>1. ASSUME IInv, Next PROVE IInv'
    BY <2>1, NextKeeps
  <2>2. ASSUME IInv, UNCHANGED vars PROVE IInv'
    BY <2>2
    DEF vars, IInv, TypeOK, StatusTrue, PaidCovered, NotYet, AskedLate, AskingOne, Sound,
        Exists, Asked
  <2>3. QED BY <2>1, <2>2
<1>3. QED BY <1>1, <1>2, PTL DEF Spec

(* Every reachable state is well typed. *)
THEOREM TypeCorrect == Spec => []TypeOK
<1>1. IInv => TypeOK
  BY DEF IInv
<1>2. QED BY <1>1, AlwaysIInv, PTL

(* Whoever changes the status of a fiat withdrawal, on whichever copy, its    *)
(* row says what happened to the customer's money (change_status, refund).    *)
THEOREM StatusAlwaysTrue == Spec => []StatusTrue
<1>1. IInv => StatusTrue
  BY DEF IInv
<1>2. QED BY <1>1, AlwaysIInv, PTL

(* However often process_withdraw asks the provider and loses the answer,     *)
(* money the provider has taken is not given back to the customer as well,    *)
(* short of the staff's refund and of those in late: see the next theorem.    *)
THEOREM PaidAlwaysCovered == Spec => []PaidCovered
<1>1. IInv => PaidCovered
  BY DEF IInv
<1>2. QED BY <1>1, AlwaysIInv, PTL

(* Once the provider has taken a withdrawal, and unless it fails to pay it,   *)
(* no answer, repeat, poll, form or action of the staff frees its money but   *)
(* two: their refund, and a cancellation decided before the provider was      *)
(* asked or of a row that an older copy of the form took back to INIT.        *)
THEOREM OnlyLateFrees ==
  Spec => [][\A r \in Requests :
               Secured(r) => funds'[r] \in {"held", "charged"}
                             \/ \E h \in Handlers : Frees(h, r)]_vars
<1>1. IInv /\ [Next]_vars =>
        [\A r \in Requests :
           Secured(r) => funds'[r] \in {"held", "charged"}
                         \/ \E h \in Handlers : Frees(h, r)]_vars
  BY StepFrees
<1>2. QED BY <1>1, AlwaysIInv, PTL DEF Spec

(* Fiat withdrawals implement Settlement: held, charged or returned, and      *)
(* reverted at most once, for any number of handlers.                         *)
THEOREM WithdrawalsSettled == Spec => SettledOnce
<1>1. Init => Promise!Init
  BY DEF Init, Promise!Init
<1>2. IInv /\ [Next]_vars => [Promise!Next]_<<funds, {}>>
  <2>1. ASSUME IInv, Next PROVE Promise!Next
    BY <2>1, NextKeeps DEF Promise!Next, Lawful
  <2>2. CASE UNCHANGED vars
    BY <2>2 DEF vars
  <2>3. QED BY <2>1, <2>2
<1>3. QED BY AlwaysIInv, <1>1, <1>2, PTL DEF Spec, SettledOnce, Promise!Spec
=============================================================================
