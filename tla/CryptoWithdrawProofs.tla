------------------------ MODULE CryptoWithdrawProofs ------------------------
(***************************************************************************)
(* For any number of withdrawals, workers, cancel requests, callbacks and  *)
(* saves of the staff's form: what the ledger holds, charged or gave back  *)
(* for a withdrawal matches its status, its outcome is final, and blocklink*)
(* is only asked to pay amounts that are held.  What it may pay is given   *)
(* back by cancellations only.                                             *)
(*                                                                         *)
(* The argument: a handler that locks the row decides on the row as it is, *)
(* and what it read earlier only tells it which row to lock.  The one      *)
(* writer that does not look again is the worker, whose row nobody else    *)
(* writes while it waits; so the three properties hold together.           *)
(***************************************************************************)
EXTENDS CryptoWithdraw, TLAPS

Existing == {t \in Transfers : status[t] # "none"}

(* The rows that requests, workers and the staff are at work on exist. *)
RowsExist ==
  /\ \A c \in Cancellers : canceling[c] \in Existing \cup {None}
  /\ \A c \in Callbacks : notice[c] # None => notice[c].transfer \in Existing
  /\ \A w \in Workers : asking[w] \in Existing \cup {None}
  /\ overruled \subseteq Existing

(* The part of LedgerMatchesStatus that needs no receiver. *)
RowsAgree == \A t \in Transfers \ overruled : Agree(status[t], funds[t])

(* What was charged to the sender is reverted with the row of the receiver.   *)
ReceiversAgree ==
  \A t \in Transfers :
    /\ receiver[t] = "DONE" => funds[t] = "charged"
    /\ receiver[t] = "REFUND" <=> funds[t] = "reverted"

BaseInv == TypeOK /\ RowsAgree /\ AskedWhileHeld /\ RowsExist

IInv == BaseInv /\ ReceiversAgree

-----------------------------------------------------------------------------
(* A step that writes the row and the hold of t only. *)
WritesOnly(t) ==
  /\ status' \in [Transfers -> Statuses \cup {"none"}]
  /\ funds' \in [Transfers -> {"none", "held", "charged", "returned", "reverted"}]
  /\ source' \in [Transfers -> Sources]
  /\ \A u \in Transfers \ {t} :
       status'[u] = status[u] /\ funds'[u] = funds[u] /\ source'[u] = source[u]
  /\ status'[t] # "none"

(* accept() of an existing row leaves row and ledger in agreement, and a      *)
(* complete row alone.                                                        *)
LEMMA AcceptKeeps ==
  ASSUME BaseInv, NEW t \in Transfers, status[t] # "none", Accept(t), source' = source
  PROVE  /\ WritesOnly(t)
         /\ t \notin overruled => Agree(status'[t], funds'[t])
         /\ status[t] \in Complete => status'[t] = status[t] /\ funds'[t] = funds[t]
<1>1. CASE status[t] \in Complete
  BY <1>1 DEF BaseInv, TypeOK, RowsAgree, Accept, WritesOnly
<1>2. CASE status[t] \notin Complete
  <2>1. CASE /\ Postable(t)
             /\ status' = [status EXCEPT ![t] = "DONE"]
             /\ funds' = [funds EXCEPT ![t] = "charged"]
    BY <1>2, <2>1 DEF BaseInv, TypeOK, WritesOnly, Agree, Open, Complete, Statuses
  <2>2. CASE funds[t] # "held" /\ UNCHANGED <<status, funds>>
    BY <1>2, <2>2 DEF BaseInv, TypeOK, RowsAgree, WritesOnly
  <2>3. QED BY <1>2, <2>1, <2>2 DEF Accept
<1>3. QED BY <1>1, <1>2

(* reject() likewise. *)
LEMMA RejectKeeps ==
  ASSUME BaseInv, NEW t \in Transfers, status[t] # "none", Reject(t), source' = source
  PROVE  /\ WritesOnly(t)
         /\ t \notin overruled => Agree(status'[t], funds'[t])
         /\ status[t] \in Complete => status'[t] = status[t] /\ funds'[t] = funds[t]
<1>1. CASE status[t] \in Complete
  BY <1>1 DEF BaseInv, TypeOK, RowsAgree, Reject, WritesOnly
<1>2. CASE status[t] \notin Complete
  <2>1. /\ status' = [status EXCEPT ![t] = "CANCELED"]
        /\ funds' = [funds EXCEPT ![t] = IF @ = "held" THEN "returned" ELSE @]
    BY <1>2 DEF Reject
  <2>2. WritesOnly(t)
    BY <2>1 DEF BaseInv, TypeOK, WritesOnly, Complete, Statuses
  <2>3. t \notin overruled => funds[t] = "held"
    BY <1>2 DEF BaseInv, TypeOK, RowsAgree, Agree, Open, Complete, Statuses
  <2>4. t \notin overruled => Agree(status'[t], funds'[t])
    BY <2>1, <2>3 DEF BaseInv, TypeOK, Agree, Open
  <2>5. QED BY <1>2, <2>2, <2>4
<1>3. QED BY <1>1, <1>2

(* The UPDATE of change_status likewise. *)
LEMMA MarkPendingKeeps ==
  ASSUME BaseInv, NEW t \in Transfers, status[t] # "none", MarkPending(t), source' = source
  PROVE  /\ WritesOnly(t)
         /\ t \notin overruled => Agree(status'[t], funds'[t])
         /\ status[t] \in Complete => status'[t] = status[t] /\ funds'[t] = funds[t]
<1>1. WritesOnly(t)
  BY DEF BaseInv, TypeOK, MarkPending, WritesOnly, Complete, Open, Statuses
<1>2. status[t] \in Complete => status'[t] = status[t] /\ funds'[t] = funds[t]
  BY DEF BaseInv, TypeOK, MarkPending
<1>3. CASE status[t] \in Complete
  BY <1>2, <1>3, <1>1 DEF BaseInv, RowsAgree
<1>4. CASE status[t] \notin Complete
  <2>1. t \notin overruled => funds[t] = "held"
    BY <1>4 DEF BaseInv, TypeOK, RowsAgree, Agree, Open, Complete, Statuses
  <2>2. status'[t] = "PENDING" /\ funds'[t] = funds[t]
    BY <1>4 DEF BaseInv, TypeOK, MarkPending
  <2>3. QED BY <1>1, <1>2, <2>1, <2>2 DEF Agree, Open
<1>5. QED BY <1>3, <1>4

(* A handler of t that writes its row only while no worker has it locked, or  *)
(* as the worker itself, keeps what relates the rows, the ledger and the      *)
(* requests.                                                                  *)
LEMMA RowStep ==
  ASSUME BaseInv, NEW t \in Transfers, WritesOnly(t),
         t \notin overruled' => Agree(status'[t], funds'[t]),
         overruled \subseteq overruled', overruled' \subseteq overruled \cup {t},
         \A w \in Workers : asking'[w] = asking[w] \/ asking'[w] = None,
         \A w \in Workers : asking'[w] # t,
         \A c \in Cancellers : canceling'[c] = canceling[c] \/ canceling'[c] = None,
         \A c \in Callbacks : notice'[c] = notice[c] \/ notice'[c] = None
  PROVE  RowsAgree' /\ AskedWhileHeld' /\ RowsExist'
<1>1. RowsAgree'
  BY DEF BaseInv, RowsAgree, WritesOnly
<1>2. AskedWhileHeld'
  <2>1. ASSUME NEW w \in Workers, asking'[w] \in Transfers \ overruled'
        PROVE  /\ status'[asking'[w]] = "PROCESS"
               /\ source'[asking'[w]] = "self"
               /\ funds'[asking'[w]] = "held"
    <3>1. asking'[w] = asking[w] /\ asking[w] \in Transfers \ overruled
      BY <2>1, WithdrawAssumption
    <3>2. asking[w] # t
      BY <3>1
    <3>3. QED BY <3>1, <3>2 DEF BaseInv, AskedWhileHeld, WritesOnly
  <2>2. ASSUME NEW v \in Workers, NEW w \in Workers,
               asking'[v] = asking'[w], asking'[v] # None
        PROVE  v = w
    BY <2>2 DEF BaseInv, AskedWhileHeld
  <2>3. QED BY <2>1, <2>2 DEF AskedWhileHeld
<1>3. RowsExist'
  <2>1. Existing \subseteq Existing' /\ t \in Existing'
    BY DEF WritesOnly, Existing
  <2>2. \A c \in Cancellers : canceling'[c] \in Existing' \cup {None}
    BY <2>1 DEF BaseInv, RowsExist
  <2>3. \A c \in Callbacks : notice'[c] # None => notice'[c].transfer \in Existing'
    BY <2>1 DEF BaseInv, RowsExist
  <2>4. \A w \in Workers : asking'[w] \in Existing' \cup {None}
    BY <2>1 DEF BaseInv, RowsExist
  <2>5. overruled' \subseteq Existing'
    BY <2>1 DEF BaseInv, RowsExist
  <2>6. QED BY <2>2, <2>3, <2>4, <2>5 DEF RowsExist
<1>4. QED BY <1>1, <1>2, <1>3

(* A step that writes no row and starts no request to blocklink. *)
LEMMA QuietStep ==
  ASSUME BaseInv, UNCHANGED <<status, source, funds, overruled>>,
         \A w \in Workers : asking'[w] = asking[w] \/ asking'[w] = None,
         \A c \in Cancellers :
           canceling'[c] = canceling[c] \/ canceling'[c] \in Existing,
         \A c \in Callbacks :
           notice'[c] = notice[c] \/ notice'[c].transfer \in Existing
  PROVE  RowsAgree' /\ AskedWhileHeld' /\ RowsExist'
<1>1. RowsAgree'
  BY DEF BaseInv, RowsAgree
<1>2. AskedWhileHeld'
  BY WithdrawAssumption DEF BaseInv, AskedWhileHeld
<1>3. RowsExist'
  <2>1. Existing' = Existing
    BY DEF Existing
  <2>2. \A c \in Cancellers : canceling'[c] \in Existing \cup {None}
    BY DEF BaseInv, RowsExist
  <2>3. \A c \in Callbacks : notice'[c] # None => notice'[c].transfer \in Existing
    BY DEF BaseInv, RowsExist
  <2>4. (\A w \in Workers : asking'[w] \in Existing \cup {None}) /\ overruled' \subseteq Existing
    BY DEF BaseInv, RowsExist
  <2>5. QED BY <2>1, <2>2, <2>3, <2>4 DEF RowsExist
<1>4. QED BY <1>1, <1>2, <1>3

-----------------------------------------------------------------------------
LEMMA CustomerKeeps ==
  ASSUME BaseInv, NEW t \in Transfers, Customer(t)
  PROVE  BaseInv'
<1>1. CASE NewWithdraw(t)
  <2>1. WritesOnly(t) /\ Agree(status'[t], funds'[t])
    BY <1>1 DEF NewWithdraw, BaseInv, TypeOK, WritesOnly, Agree, Open, Statuses, Sources
  <2>2. TypeOK'
    BY <1>1, <2>1 DEF NewWithdraw, BaseInv, TypeOK, WritesOnly, worker, blocklink, requests, staff
  <2>3. \A w \in Workers : asking[w] # t
    BY <1>1, WithdrawAssumption DEF NewWithdraw, BaseInv, RowsExist, Existing
  <2>4. QED
    BY <1>1, <2>1, <2>2, <2>3, RowStep DEF NewWithdraw, BaseInv, worker, requests, staff
<1>2. CASE FastForward(t)
  <2>1. WritesOnly(t) /\ Agree(status'[t], funds'[t])
    BY <1>2 DEF FastForward, BaseInv, TypeOK, WritesOnly, Agree, Open, Statuses, Complete, Sources
  <2>2. TypeOK'
    BY <1>2, <2>1 DEF FastForward, BaseInv, TypeOK, WritesOnly, worker, blocklink, requests, staff
  <2>3. \A w \in Workers : asking[w] # t
    BY <1>2, WithdrawAssumption DEF FastForward, BaseInv, RowsExist, Existing
  <2>4. QED
    BY <1>2, <2>1, <2>2, <2>3, RowStep DEF FastForward, BaseInv, worker, requests, staff
<1>3. CASE FreezeEnds(t)
  <2>1. TypeOK'
    BY <1>3 DEF FreezeEnds, BaseInv, TypeOK, worker, blocklink, requests, staff
  <2>2. QED BY <1>3, <2>1, QuietStep DEF FreezeEnds, BaseInv, worker, requests, staff
<1>4. CASE \E c \in Cancellers : CancelRead(c, t)
  <2>1. PICK c \in Cancellers : CancelRead(c, t)
    BY <1>4
  <2>2. TypeOK'
    BY <2>1 DEF CancelRead, BaseInv, TypeOK, row, worker, blocklink, staff
  <2>3. \A d \in Cancellers : canceling'[d] = canceling[d] \/ canceling'[d] \in Existing
    BY <2>1 DEF CancelRead, BaseInv, TypeOK, Existing
  <2>4. QED BY <2>1, <2>2, <2>3, QuietStep DEF CancelRead, BaseInv, row, worker, staff
<1>5. QED BY <1>1, <1>2, <1>3, <1>4 DEF Customer

LEMMA StaffKeeps ==
  ASSUME BaseInv, ReceiversAgree, NEW t \in Transfers, Staff(t)
  PROVE  BaseInv'
<1>1. CASE AcceptWithdraw(t)
  <2>1. WritesOnly(t)
    BY <1>1 DEF AcceptWithdraw, BaseInv, TypeOK, WritesOnly, Open, Statuses
  <2>2. t \notin overruled => Agree(status'[t], funds'[t])
    BY <1>1 DEF AcceptWithdraw, BaseInv, TypeOK, RowsAgree, Agree, Open, Complete, Statuses
  <2>3. TypeOK'
    BY <1>1, <2>1
    DEF AcceptWithdraw, BaseInv, TypeOK, WritesOnly, worker, blocklink, requests, staff
  <2>4. QED
    BY <1>1, <2>1, <2>2, <2>3, RowStep
    DEF AcceptWithdraw, BaseInv, RowFree, worker, requests, staff
<1>2. CASE \E c \in Cancellers : RejectRead(c, t)
  <2>1. PICK c \in Cancellers : RejectRead(c, t)
    BY <1>2
  <2>2. TypeOK'
    BY <2>1 DEF RejectRead, BaseInv, TypeOK, row, worker, blocklink, staff
  <2>3. \A d \in Cancellers : canceling'[d] = canceling[d] \/ canceling'[d] \in Existing
    BY <2>1 DEF RejectRead, BaseInv, TypeOK, Existing
  <2>4. QED BY <2>1, <2>2, <2>3, QuietStep DEF RejectRead, BaseInv, row, worker, staff
<1>3. CASE \E s \in Statuses, via \in Sources : SaveForm(t, s, via)
  <2>1. PICK s \in Statuses, via \in Sources : SaveForm(t, s, via)
    BY <1>3
  <2>2. WritesOnly(t)
    BY <2>1 DEF SaveForm, BaseInv, TypeOK, WritesOnly, Open, Complete, Statuses
  <2>3. /\ status[t] # "none" /\ status'[t] = s
        /\ overruled' = IF Overrules(t, s) THEN overruled \cup {t} ELSE overruled
    BY <2>1 DEF SaveForm, BaseInv, TypeOK
  <2>4. ASSUME t \notin overruled' PROVE Agree(status'[t], funds'[t])
    <3>1. t \notin overruled /\ ~ Overrules(t, s)
      BY <2>3, <2>4
    <3>2. Agree(status[t], funds[t])
      BY <3>1 DEF BaseInv, RowsAgree
    <3>3. CASE s = "DONE" /\ status[t] \notin Complete
      BY <2>1, <2>3, <3>3 DEF SaveForm, BaseInv, TypeOK, Agree
    <3>4. CASE ~ (s = "DONE" /\ status[t] \notin Complete)
      <4>1. funds'[t] = funds[t]
        BY <2>1, <3>4 DEF SaveForm
      <4>2. s = status[t] \/ (s \in Open /\ status[t] \in Open)
        BY <2>3, <3>1, <3>4 DEF BaseInv, TypeOK, Overrules, Open, Complete, Statuses
      <4>3. QED BY <2>3, <3>2, <4>1, <4>2 DEF Agree, Open
    <3>5. QED BY <3>3, <3>4
  <2>5. TypeOK'
    <3>1. saves' \in 0 .. MaxSaves
      BY <2>1, WithdrawAssumption DEF SaveForm, BaseInv, TypeOK
    <3>2. overruled' \in SUBSET Transfers
      BY <2>3 DEF BaseInv, TypeOK
    <3>3. QED
      BY <2>1, <2>2, <3>1, <3>2
      DEF SaveForm, BaseInv, TypeOK, WritesOnly, worker, blocklink, requests
  <2>6. QED
    BY <2>1, <2>2, <2>3, <2>4, <2>5, RowStep DEF SaveForm, BaseInv, RowFree, worker, requests
<1>4. CASE RefundReceiver(t)
  <2>1. /\ funds[t] = "charged" /\ funds' = [funds EXCEPT ![t] = "reverted"]
        /\ UNCHANGED <<status, source, worker, requests, staff>>
    BY <1>4 DEF RefundReceiver, ReceiversAgree
  <2>2. TypeOK'
    BY <1>4 DEF RefundReceiver, BaseInv, TypeOK, worker, blocklink, requests, staff
  <2>3. RowsAgree'
    BY <2>1 DEF BaseInv, TypeOK, RowsAgree, Agree, staff
  <2>4. AskedWhileHeld'
    <3>1. \A w \in Workers : asking[w] \in Transfers \ overruled => asking[w] # t
      BY <2>1 DEF BaseInv, AskedWhileHeld
    <3> QED
      BY <2>1, <3>1 DEF BaseInv, TypeOK, AskedWhileHeld, worker, staff
  <2>5. RowsExist'
    BY <2>1 DEF BaseInv, RowsExist, Existing, worker, requests, staff
  <2>6. QED BY <2>2, <2>3, <2>4, <2>5 DEF BaseInv
<1>5. QED BY <1>1, <1>2, <1>3, <1>4 DEF Staff

LEMMA TasksKeep ==
  ASSUME BaseInv, NEW t \in Transfers, Tasks(t)
  PROVE  BaseInv'
<1>1. CASE Dispatch(t)
  <2>1. TypeOK'
    BY <1>1 DEF Dispatch, BaseInv, TypeOK, row, blocklink, requests, staff
  <2>2. QED BY <1>1, <2>1, QuietStep DEF Dispatch, BaseInv, row, requests, staff
<1>2. CASE Skip(t)
  <2>1. TypeOK'
    BY <1>2 DEF Skip, BaseInv, TypeOK, row, blocklink, requests, staff
  <2>2. QED BY <1>2, <2>1, QuietStep DEF Skip, BaseInv, row, requests, staff
<1>3. CASE \E w \in Workers : Ask(w, t)
  <2>1. PICK w \in Workers : Ask(w, t)
    BY <1>3
  <2>2. TypeOK'
    BY <2>1 DEF Ask, BaseInv, TypeOK, row, requests, staff
  <2>3. RowsAgree'
    BY <2>1 DEF Ask, BaseInv, RowsAgree, row, staff
  <2>4. /\ asking'[w] = t
        /\ \A v \in Workers \ {w} : asking'[v] = asking[v] /\ asking[v] # t
    BY <2>1 DEF Ask, RowFree, BaseInv, TypeOK
  <2>5. t \notin overruled =>
          status[t] = "PROCESS" /\ source[t] = "self" /\ funds[t] = "held"
    BY <2>1 DEF Ask, BaseInv, RowsAgree, Agree, Open
  <2>6. UNCHANGED <<status, source, funds, overruled, canceling, notice>>
    BY <2>1 DEF Ask, row, requests, staff
  <2>7. AskedWhileHeld'
    BY <2>4, <2>5, <2>6 DEF BaseInv, AskedWhileHeld
  <2>8. RowsExist'
    <3>1. Existing' = Existing /\ t \in Existing
      BY <2>1, <2>6 DEF Ask, Existing
    <3>2. \A v \in Workers : asking'[v] \in Existing \cup {None}
      BY <2>4, <3>1 DEF BaseInv, RowsExist
    <3>3. QED BY <2>6, <3>1, <3>2 DEF BaseInv, RowsExist
  <2>9. QED BY <2>2, <2>3, <2>7, <2>8 DEF BaseInv
<1>4. QED BY <1>1, <1>2, <1>3 DEF Tasks

(* A worker that was asking about t does not any more, and nobody else was. *)
LEMMA AnsweredFreesRow ==
  ASSUME BaseInv, NEW w \in Workers, Answered(w)
  PROVE  /\ asking[w] \in Transfers /\ status[asking[w]] # "none"
         /\ \A v \in Workers : asking'[v] = asking[v] \/ asking'[v] = None
         /\ \A v \in Workers : asking'[v] # asking[w]
         /\ asking' \in [Workers -> Transfers \cup {None}]
<1>1. asking[w] \in Existing
  BY DEF Answered, BaseInv, RowsExist
<1>2. asking' = [asking EXCEPT ![w] = None] /\ asking[w] # None
  BY DEF Answered
<1>3. asking \in [Workers -> Transfers \cup {None}]
  BY DEF BaseInv, TypeOK
<1>4. \A v \in Workers : asking'[v] # asking[w]
  BY <1>2, <1>3 DEF BaseInv, AskedWhileHeld
<1>5. QED BY <1>1, <1>2, <1>3, <1>4 DEF Existing

LEMMA AnswersKeep ==
  ASSUME BaseInv, NEW w \in Workers, Conclusive(w) \/ NoAnswer(w)
  PROVE  BaseInv'
<1> DEFINE t == asking[w]
<1>1. Answered(w)
  BY DEF Conclusive, AnswerPending, AnswerInvalid, AnswerNotHandled, NoAnswer
<1>2. /\ t \in Transfers /\ status[t] # "none"
      /\ \A v \in Workers : asking'[v] = asking[v] \/ asking'[v] = None
      /\ \A v \in Workers : asking'[v] # t
      /\ asking' \in [Workers -> Transfers \cup {None}]
  BY <1>1, AnsweredFreesRow
<1>3. UNCHANGED <<tasks, frozen, receiver, chain, canceling, notice, saves, overruled>>
  BY <1>1 DEF Answered, requests, staff
<1>4. t \notin overruled => status[t] = "PROCESS" /\ funds[t] = "held"
  BY <1>2 DEF BaseInv, AskedWhileHeld
<1> HIDE DEF t
<1>5. CASE AnswerPending(w)
  <2>1. status' = [status EXCEPT ![t] = "PENDING"] /\ UNCHANGED <<source, funds, inflight>>
    BY <1>5 DEF AnswerPending, t
  <2>2. WritesOnly(t)
    BY <1>2, <2>1 DEF BaseInv, TypeOK, WritesOnly, Open, Statuses
  <2>3. t \notin overruled => Agree(status'[t], funds'[t])
    BY <1>2, <1>4, <2>1 DEF BaseInv, TypeOK, Agree, Open
  <2>4. TypeOK'
    BY <1>2, <1>3, <2>1, <2>2 DEF BaseInv, TypeOK, WritesOnly
  <2>5. QED BY <1>2, <1>3, <2>2, <2>3, <2>4, RowStep DEF BaseInv
<1>6. CASE AnswerInvalid(w)
  <2>1. Reject(t) /\ UNCHANGED source /\ inflight' = inflight \ {t}
    BY <1>6 DEF AnswerInvalid, t
  <2>2. WritesOnly(t) /\ (t \notin overruled => Agree(status'[t], funds'[t]))
    BY <1>2, <2>1, RejectKeeps
  <2>3. TypeOK'
    BY <1>2, <1>3, <2>1, <2>2 DEF BaseInv, TypeOK, WritesOnly
  <2>4. QED BY <1>2, <1>3, <2>2, <2>3, RowStep DEF BaseInv
<1>7. CASE AnswerNotHandled(w)
  <2>1. /\ source' = [source EXCEPT ![t] = "manual"] /\ UNCHANGED <<status, funds>>
        /\ inflight' = inflight \ {t}
    BY <1>7 DEF AnswerNotHandled, t
  <2>2. WritesOnly(t)
    BY <1>2, <2>1 DEF BaseInv, TypeOK, WritesOnly, Sources
  <2>3. t \notin overruled => Agree(status'[t], funds'[t])
    BY <1>2, <2>1 DEF BaseInv, RowsAgree
  <2>4. TypeOK'
    BY <1>2, <1>3, <2>1, <2>2 DEF BaseInv, TypeOK, WritesOnly
  <2>5. QED BY <1>2, <1>3, <2>2, <2>3, <2>4, RowStep DEF BaseInv
<1>8. CASE NoAnswer(w)
  <2>1. UNCHANGED <<status, source, funds, inflight>>
    BY <1>8 DEF NoAnswer
  <2>2. TypeOK'
    BY <1>2, <1>3, <2>1 DEF BaseInv, TypeOK
  <2>3. QED BY <1>2, <1>3, <2>1, <2>2, QuietStep DEF BaseInv
<1>9. QED BY <1>5, <1>6, <1>7, <1>8 DEF Conclusive

LEMMA BlocklinkKeeps ==
  ASSUME BaseInv, NEW t \in Transfers, Blocklink(t)
  PROVE  BaseInv'
<1>1. CASE Takes(t)
  <2>1. TypeOK'
    BY <1>1 DEF Takes, BaseInv, TypeOK, row, worker, requests, staff
  <2>2. QED BY <1>1, <2>1, QuietStep DEF Takes, BaseInv, row, worker, requests, staff
<1>2. CASE Finishes(t)
  <2>1. TypeOK'
    BY <1>2 DEF Finishes, BaseInv, TypeOK, row, worker, requests, staff
  <2>2. QED BY <1>2, <2>1, QuietStep DEF Finishes, BaseInv, row, worker, requests, staff
<1>3. CASE \E c \in Callbacks, to \in Statuses : NotifyRead(c, t, to)
  <2>1. PICK c \in Callbacks, to \in Statuses : NotifyRead(c, t, to)
    BY <1>3
  <2>2. status[t] # "none" /\ to \in {"PENDING", "DONE", "CANCELED"}
    BY <2>1 DEF NotifyRead, ValidTransitions
  <2>3. /\ notice' = [notice EXCEPT ![c] = [transfer |-> t, status |-> to]]
        /\ UNCHANGED <<row, funds, worker, blocklink, canceling, staff>>
    BY <2>1 DEF NotifyRead
  <2>4. [transfer |-> t, status |-> to] \in Notices
    BY <2>2 DEF Notices
  <2>5. TypeOK'
    BY <2>3, <2>4 DEF BaseInv, TypeOK, row, worker, blocklink, staff
  <2>6. \A d \in Callbacks : notice'[d] = notice[d] \/ notice'[d].transfer \in Existing
    BY <2>2, <2>3 DEF BaseInv, TypeOK, Existing
  <2>7. QED BY <2>3, <2>5, <2>6, QuietStep DEF BaseInv, row, worker, staff
<1>4. QED BY <1>1, <1>2, <1>3 DEF Blocklink

LEMMA CancelApplyKeeps ==
  ASSUME BaseInv, NEW c \in Cancellers, CancelApply(c)
  PROVE  BaseInv'
<1> DEFINE t == canceling[c]
<1>1. t \in Transfers /\ status[t] # "none"
  BY DEF CancelApply, BaseInv, RowsExist, Existing
<1>2. /\ Reject(t) /\ RowFree(t)
      /\ canceling' = [canceling EXCEPT ![c] = None]
      /\ UNCHANGED <<source, frozen, receiver, worker, blocklink, notice, staff>>
  BY DEF CancelApply
<1> HIDE DEF t
<1>3. WritesOnly(t) /\ (t \notin overruled => Agree(status'[t], funds'[t]))
  BY <1>1, <1>2, RejectKeeps
<1>4. TypeOK'
  BY <1>2, <1>3 DEF BaseInv, TypeOK, WritesOnly, worker, blocklink, staff
<1>5. \A d \in Cancellers : canceling'[d] = canceling[d] \/ canceling'[d] = None
  BY <1>2 DEF BaseInv, TypeOK
<1>6. QED
  BY <1>1, <1>2, <1>3, <1>4, <1>5, RowStep DEF BaseInv, RowFree, worker, staff

LEMMA NotifyApplyKeeps ==
  ASSUME BaseInv, NEW c \in Callbacks, NotifyApply(c)
  PROVE  BaseInv'
<1> DEFINE t == notice[c].transfer
<1>1. t \in Transfers /\ status[t] # "none"
  BY DEF NotifyApply, BaseInv, RowsExist, Existing
<1>2. /\ Accept(t) \/ Reject(t) \/ MarkPending(t)
      /\ RowFree(t)
      /\ notice' = [notice EXCEPT ![c] = None]
      /\ UNCHANGED <<source, frozen, receiver, worker, blocklink, canceling, staff>>
  BY DEF NotifyApply
<1> HIDE DEF t
<1>3. WritesOnly(t) /\ (t \notin overruled => Agree(status'[t], funds'[t]))
  BY <1>1, <1>2, AcceptKeeps, RejectKeeps, MarkPendingKeeps
<1>4. TypeOK'
  BY <1>2, <1>3 DEF BaseInv, TypeOK, WritesOnly, worker, blocklink, staff
<1>5. \A d \in Callbacks : notice'[d] = notice[d] \/ notice'[d] = None
  BY <1>2 DEF BaseInv, TypeOK
<1>6. QED
  BY <1>1, <1>2, <1>3, <1>4, <1>5, RowStep DEF BaseInv, RowFree, worker, staff

-----------------------------------------------------------------------------
LEMMA InitEstablishes == Init => IInv
  BY WithdrawAssumption
  DEF Init, IInv, BaseInv, ReceiversAgree, TypeOK, RowsAgree, AskedWhileHeld, RowsExist, Existing,
      Agree, Statuses, Sources, Notices

LEMMA NextKeeps ==
  ASSUME BaseInv, ReceiversAgree, [Next]_vars
  PROVE  BaseInv'
<1>1. CASE \E t \in Transfers : Customer(t) \/ Staff(t) \/ Tasks(t) \/ Blocklink(t)
  BY <1>1, CustomerKeeps, StaffKeeps, TasksKeep, BlocklinkKeeps
<1>2. CASE \E w \in Workers : Conclusive(w) \/ NoAnswer(w)
  BY <1>2, AnswersKeep
<1>3. CASE \E c \in Cancellers : CancelApply(c)
  BY <1>3, CancelApplyKeeps
<1>4. CASE \E c \in Callbacks : NotifyApply(c)
  BY <1>4, NotifyApplyKeeps
<1>5. CASE UNCHANGED vars
  BY <1>5 DEF vars, row, worker, blocklink, requests, staff, BaseInv, TypeOK,
              RowsAgree, AskedWhileHeld, RowsExist, Existing
<1>6. QED BY <1>1, <1>2, <1>3, <1>4, <1>5 DEF Next

(* A step that leaves the receivers alone, and of the senders what is charged *)
(* or reverted.                                                               *)
LEMMA SendersStep ==
  ASSUME ReceiversAgree, receiver' = receiver,
         \A t \in Transfers :
           \/ funds'[t] = funds[t]
           \/ /\ funds[t] \notin {"charged", "reverted"}
              /\ funds'[t] # "reverted"
  PROVE  ReceiversAgree'
BY DEF ReceiversAgree

(* A row that does not exist has no entries.                                  *)
LEMMA NoRowNoFunds ==
  ASSUME BaseInv, NEW t \in Transfers, status[t] = "none"
  PROVE  funds[t] = "none"
BY DEF BaseInv, RowsAgree, RowsExist, Existing, Agree, Open

(* The handlers charge or return only what was not charged.                   *)
LEMMA HandlersSend ==
  ASSUME BaseInv, ReceiversAgree, receiver' = receiver, NEW t \in Transfers,
         Accept(t) \/ Reject(t) \/ MarkPending(t)
  PROVE  ReceiversAgree'
<1>1. CASE Accept(t)
  BY <1>1, SendersStep DEF Accept, Postable, BaseInv, TypeOK
<1>2. CASE Reject(t)
  BY <1>2, SendersStep DEF Reject, BaseInv, TypeOK
<1>3. CASE MarkPending(t)
  BY <1>3, SendersStep DEF MarkPending
<1>4. QED BY <1>1, <1>2, <1>3

LEMMA ReceiversKept ==
  ASSUME BaseInv, ReceiversAgree, [Next]_vars
  PROVE  ReceiversAgree'
<1>1. ASSUME NEW t \in Transfers, Customer(t) PROVE ReceiversAgree'
  <2>1. CASE NewWithdraw(t)
    BY <2>1, NoRowNoFunds, SendersStep DEF NewWithdraw, BaseInv, TypeOK
  <2>2. CASE FastForward(t)
    <3>1. /\ funds' = [funds EXCEPT ![t] = "charged"]
          /\ receiver' = [receiver EXCEPT ![t] = "DONE"]
      BY <2>2 DEF FastForward
    <3> QED
      BY <3>1 DEF ReceiversAgree, BaseInv, TypeOK
  <2>3. CASE FreezeEnds(t) \/ \E c \in Cancellers : CancelRead(c, t)
    BY <2>3, SendersStep DEF FreezeEnds, CancelRead, row
  <2> QED
    BY <1>1, <2>1, <2>2, <2>3 DEF Customer
<1>2. ASSUME NEW t \in Transfers, Staff(t) PROVE ReceiversAgree'
  <2>1. CASE AcceptWithdraw(t) \/ \E c \in Cancellers : RejectRead(c, t)
    BY <2>1, SendersStep DEF AcceptWithdraw, RejectRead, row
  <2>2. CASE RefundReceiver(t)
    BY <2>2 DEF RefundReceiver, ReceiversAgree, BaseInv, TypeOK
  <2>3. CASE \E s \in Statuses, via \in Sources : SaveForm(t, s, via)
    BY <2>3, SendersStep DEF SaveForm, Postable, BaseInv, TypeOK
  <2> QED
    BY <1>2, <2>1, <2>2, <2>3 DEF Staff
<1>3. ASSUME NEW t \in Transfers, Tasks(t) \/ Blocklink(t) PROVE ReceiversAgree'
  BY <1>3, SendersStep
  DEF Tasks, Dispatch, Skip, Ask, Blocklink, Takes, Finishes, NotifyRead, row
<1>4. ASSUME NEW w \in Workers, Conclusive(w) \/ NoAnswer(w) PROVE ReceiversAgree'
  <2>1. Answered(w)
    BY <1>4 DEF Conclusive, AnswerPending, AnswerInvalid, AnswerNotHandled, NoAnswer
  <2>2. asking[w] \in Transfers /\ receiver' = receiver
    BY <2>1, AnsweredFreesRow DEF Answered
  <2>3. CASE AnswerInvalid(w)
    BY <2>2, <2>3, HandlersSend DEF AnswerInvalid
  <2>4. CASE AnswerPending(w) \/ AnswerNotHandled(w) \/ NoAnswer(w)
    BY <2>2, <2>4, SendersStep DEF AnswerPending, AnswerNotHandled, NoAnswer
  <2> QED
    BY <1>4, <2>3, <2>4 DEF Conclusive
<1>5. ASSUME NEW c \in Cancellers, CancelApply(c) PROVE ReceiversAgree'
  <2>1. canceling[c] \in Transfers
    BY <1>5 DEF CancelApply, BaseInv, TypeOK
  <2> QED
    BY <1>5, <2>1, HandlersSend DEF CancelApply
<1>6. ASSUME NEW c \in Callbacks, NotifyApply(c) PROVE ReceiversAgree'
  <2>1. notice[c].transfer \in Transfers
    BY <1>6 DEF NotifyApply, BaseInv, TypeOK, Notices
  <2> QED
    BY <1>6, <2>1, HandlersSend DEF NotifyApply
<1>7. CASE UNCHANGED vars
  BY <1>7, SendersStep DEF vars, row
<1> QED
  BY <1>1, <1>2, <1>3, <1>4, <1>5, <1>6, <1>7 DEF Next

LEMMA AlwaysIInv == Spec => []IInv
<1>1. IInv /\ [Next]_vars => IInv'
  BY NextKeeps, ReceiversKept DEF IInv
<1>2. QED BY InitEstablishes, <1>1, PTL DEF Spec

(* The variables keep their types. *)
THEOREM TypeCorrect == Spec => []TypeOK
<1>1. IInv => TypeOK BY DEF IInv, BaseInv
<1>2. QED BY AlwaysIInv, <1>1, PTL

(* What is held, charged, given back or reverted in the ledger matches the    *)
(* status of the row and of its receiver's, for any number of concurrent      *)
(* handlers.                                                                  *)
THEOREM LedgerAlwaysMatches == Spec => []LedgerMatchesStatus
<1>1. IInv => LedgerMatchesStatus
  BY DEF IInv, BaseInv, RowsAgree, ReceiversAgree, LedgerMatchesStatus
<1>2. QED BY AlwaysIInv, <1>1, PTL

(* blocklink is only asked to pay what is held, by one worker at a time. *)
THEOREM AskedAlwaysHeld == Spec => []AskedWhileHeld
<1>1. IInv => AskedWhileHeld BY DEF IInv, BaseInv
<1>2. QED BY AlwaysIInv, <1>1, PTL

Final(t) ==
  status[t] \in Complete =>
    status'[t] = status[t] /\ (funds'[t] = funds[t] \/ receiver'[t] # receiver[t])

(* No step but a form that overrules changes a complete row. *)
LEMMA NextFinal ==
  ASSUME BaseInv, Next
  PROVE  \A t \in Transfers \ overruled' : Final(t)
<1>1. ASSUME NEW u \in Transfers, Customer(u) PROVE \A t \in Transfers : Final(t)
  <2>1. CASE NewWithdraw(u)
    BY <2>1 DEF NewWithdraw, BaseInv, TypeOK, Final, Complete
  <2>2. CASE FastForward(u)
    BY <2>2 DEF FastForward, BaseInv, TypeOK, Final, Complete
  <2>3. CASE FreezeEnds(u)
    BY <2>3 DEF FreezeEnds, Final
  <2>4. CASE \E c \in Cancellers : CancelRead(c, u)
    BY <2>4 DEF CancelRead, row, Final
  <2>5. QED BY <1>1, <2>1, <2>2, <2>3, <2>4 DEF Customer
<1>2. ASSUME NEW u \in Transfers, Staff(u)
      PROVE  \A t \in Transfers \ overruled' : Final(t)
  <2>1. CASE AcceptWithdraw(u)
    BY <2>1 DEF AcceptWithdraw, BaseInv, TypeOK, Final, Complete
  <2>2. CASE \E c \in Cancellers : RejectRead(c, u)
    BY <2>2 DEF RejectRead, row, Final
  <2>3. CASE \E s \in Statuses, via \in Sources : SaveForm(u, s, via)
    <3>1. PICK s \in Statuses, via \in Sources : SaveForm(u, s, via)
      BY <2>3
    <3>2. \A t \in Transfers \ {u} : Final(t)
      BY <3>1 DEF SaveForm, BaseInv, TypeOK, Final
    <3>3. ASSUME u \notin overruled', status[u] \in Complete
          PROVE  status'[u] = status[u] /\ funds'[u] = funds[u]
      <4>1. ~ Overrules(u, s)
        BY <3>1, <3>3 DEF SaveForm, BaseInv, TypeOK
      <4>2. s = status[u]
        BY <3>3, <4>1 DEF Overrules
      <4>3. QED BY <3>1, <3>3, <4>2 DEF SaveForm, BaseInv, TypeOK
    <3>4. QED BY <3>2, <3>3 DEF Final
  <2>4. CASE RefundReceiver(u)
    BY <2>4 DEF RefundReceiver, BaseInv, TypeOK, Final
  <2>5. QED BY <1>2, <2>1, <2>2, <2>3, <2>4 DEF Staff
<1>3. ASSUME NEW u \in Transfers, Tasks(u) PROVE \A t \in Transfers : Final(t)
  BY <1>3 DEF Tasks, Dispatch, Skip, Ask, row, Final
<1>4. ASSUME NEW u \in Transfers, Blocklink(u) PROVE \A t \in Transfers : Final(t)
  BY <1>4 DEF Blocklink, Takes, Finishes, NotifyRead, row, Final
<1>5. ASSUME NEW w \in Workers, Conclusive(w) \/ NoAnswer(w)
      PROVE  \A t \in Transfers \ overruled' : Final(t)
  <2>1. Answered(w)
    BY <1>5 DEF Conclusive, AnswerPending, AnswerInvalid, AnswerNotHandled, NoAnswer
  <2>2. asking[w] \in Transfers /\ status[asking[w]] # "none"
    BY <2>1, AnsweredFreesRow
  <2>3. overruled' = overruled
    BY <2>1 DEF Answered, staff
  <2>4. asking[w] \notin overruled => status[asking[w]] \notin Complete
    BY <2>2 DEF BaseInv, AskedWhileHeld, Complete
  <2>5. CASE AnswerPending(w)
    BY <2>2, <2>3, <2>4, <2>5 DEF AnswerPending, BaseInv, TypeOK, Final
  <2>6. CASE AnswerInvalid(w)
    <3>1. Reject(asking[w]) /\ source' = source
      BY <2>6 DEF AnswerInvalid
    <3>2. WritesOnly(asking[w])
      BY <2>2, <3>1, RejectKeeps
    <3>3. QED BY <2>2, <2>3, <2>4, <3>2 DEF WritesOnly, Final
  <2>7. CASE AnswerNotHandled(w) \/ NoAnswer(w)
    BY <2>7 DEF AnswerNotHandled, NoAnswer, Final
  <2>8. QED BY <1>5, <2>5, <2>6, <2>7 DEF Conclusive
<1>6. ASSUME NEW c \in Cancellers, CancelApply(c) PROVE \A t \in Transfers : Final(t)
  <2>1. canceling[c] \in Transfers /\ status[canceling[c]] # "none"
    BY <1>6 DEF CancelApply, BaseInv, RowsExist, Existing
  <2>2. Reject(canceling[c]) /\ source' = source
    BY <1>6 DEF CancelApply
  <2>3. QED BY <2>1, <2>2, RejectKeeps DEF WritesOnly, Final
<1>7. ASSUME NEW c \in Callbacks, NotifyApply(c) PROVE \A t \in Transfers : Final(t)
  <2> DEFINE u == notice[c].transfer
  <2>1. u \in Transfers /\ status[u] # "none"
    BY <1>7 DEF NotifyApply, BaseInv, RowsExist, Existing
  <2>2. (Accept(u) \/ Reject(u) \/ MarkPending(u)) /\ source' = source
    BY <1>7 DEF NotifyApply
  <2> HIDE DEF u
  <2>3. QED
    BY <2>1, <2>2, AcceptKeeps, RejectKeeps, MarkPendingKeeps DEF WritesOnly, Final
<1>8. QED BY <1>1, <1>2, <1>3, <1>4, <1>5, <1>6, <1>7 DEF Next

(* DONE and CANCELED are final for every handler, however stale what it read; *)
(* only the staff's form changes an outcome, and only a refund of the         *)
(* receiver's row what was charged.                                           *)
THEOREM OutcomeAlwaysFinal == Spec => OutcomeIsFinal
<1>1. IInv /\ [Next]_vars =>
        [\A t \in Transfers \ overruled' :
           status[t] \in Complete =>
             status'[t] = status[t] /\ (funds'[t] = funds[t] \/ receiver'[t] # receiver[t])]_vars
  BY NextFinal DEF Final, IInv
<1>2. QED BY AlwaysIInv, <1>1, PTL DEF Spec, OutcomeIsFinal

-----------------------------------------------------------------------------
(* CryptoWithdraw implements Settlement.                                      *)

Lawful(t) ==
  \/ funds'[t] = funds[t]
  \/ Promise!Hold(t) \/ Promise!Charge(t) \/ Promise!Return(t) \/ Promise!Revert(t)

(* accept, reject and the UPDATE only use up a hold; accept charges without   *)
(* one only what the staff's form reopened.                                   *)
LEMMA HandlersLawful ==
  ASSUME BaseInv, NEW t \in Transfers, status[t] # "none", overruled' = overruled,
         Accept(t) \/ Reject(t) \/ MarkPending(t)
  PROVE  \A u \in Transfers : Lawful(u)
<1>1. CASE Accept(t)
  <2>1. CASE UNCHANGED <<status, funds>>
    BY <2>1 DEF Lawful
  <2>2. CASE /\ status[t] \notin Complete
             /\ Postable(t)
             /\ funds' = [funds EXCEPT ![t] = "charged"]
    <3>1. funds[t] = "returned" => t \in overruled
      BY <2>2 DEF BaseInv, RowsAgree, Agree, Complete
    <3>2. Promise!Charge(t)
      BY <2>2, <3>1 DEF BaseInv, TypeOK, Postable, Promise!Charge
    <3>3. \A u \in Transfers \ {t} : funds'[u] = funds[u]
      BY <2>2 DEF BaseInv, TypeOK
    <3>4. QED BY <3>2, <3>3 DEF Lawful
  <2>3. QED BY <1>1, <2>1, <2>2 DEF Accept
<1>2. CASE Reject(t)
  BY <1>2 DEF Reject, BaseInv, TypeOK, Lawful, Promise!Return
<1>3. CASE MarkPending(t)
  BY <1>3 DEF MarkPending, Lawful
<1>4. QED BY <1>1, <1>2, <1>3

LEMMA NextLawful ==
  ASSUME BaseInv, ReceiversAgree, Next
  PROVE  overruled \subseteq overruled' /\ \A t \in Transfers : Lawful(t)
<1>1. ASSUME NEW u \in Transfers, Customer(u)
      PROVE  overruled' = overruled /\ \A t \in Transfers : Lawful(t)
  <2>1. CASE NewWithdraw(u) \/ FastForward(u)
    <3>1. overruled' = overruled /\ status[u] = "none"
      BY <2>1 DEF NewWithdraw, FastForward, staff
    <3>2. u \notin overruled
      BY <3>1 DEF BaseInv, RowsExist, Existing
    <3>3. funds[u] = "none"
      BY <3>1, <3>2 DEF BaseInv, RowsAgree, Agree, Open
    <3>4. QED
      BY <2>1, <3>1, <3>3
      DEF NewWithdraw, FastForward, BaseInv, TypeOK, Lawful, Promise!Hold, Promise!Charge
  <2>2. CASE FreezeEnds(u) \/ \E c \in Cancellers : CancelRead(c, u)
    BY <2>2 DEF FreezeEnds, CancelRead, staff, Lawful
  <2>3. QED BY <1>1, <2>1, <2>2 DEF Customer
<1>2. ASSUME NEW u \in Transfers, Staff(u)
      PROVE  overruled \subseteq overruled' /\ \A t \in Transfers : Lawful(t)
  <2>1. CASE AcceptWithdraw(u) \/ \E c \in Cancellers : RejectRead(c, u)
    BY <2>1 DEF AcceptWithdraw, RejectRead, staff, Lawful
  <2>2. CASE \E s \in Statuses, via \in Sources : SaveForm(u, s, via)
    <3>1. PICK s \in Statuses, via \in Sources : SaveForm(u, s, via)
      BY <2>2
    <3>2. overruled \subseteq overruled'
      BY <3>1 DEF SaveForm
    <3>3. \A t \in Transfers \ {u} : funds'[t] = funds[t]
      BY <3>1 DEF SaveForm, BaseInv, TypeOK
    <3>4. Lawful(u)
      <4>1. CASE s = "DONE" /\ status[u] \notin Complete
        <5>1. Postable(u) /\ funds'[u] = "charged"
          BY <3>1, <4>1 DEF SaveForm, BaseInv, TypeOK
        <5>2. funds[u] = "returned" => u \in overruled
          BY <4>1 DEF BaseInv, RowsAgree, Agree, Complete
        <5>3. QED BY <3>2, <5>1, <5>2 DEF Postable, Lawful, Promise!Charge
      <4>2. CASE ~ (s = "DONE" /\ status[u] \notin Complete)
        BY <3>1, <4>2 DEF SaveForm, Lawful
      <4>3. QED BY <4>1, <4>2
    <3>5. QED BY <3>2, <3>3, <3>4 DEF Lawful
  <2>3. CASE RefundReceiver(u)
    <3>1. /\ funds[u] = "charged" /\ funds' = [funds EXCEPT ![u] = "reverted"]
          /\ overruled' = overruled
      BY <2>3 DEF RefundReceiver, ReceiversAgree, staff
    <3> QED
      BY <3>1 DEF BaseInv, TypeOK, Lawful, Promise!Revert
  <2>4. QED BY <1>2, <2>1, <2>2, <2>3 DEF Staff
<1>3. ASSUME NEW u \in Transfers, Tasks(u) \/ Blocklink(u)
      PROVE  overruled' = overruled /\ \A t \in Transfers : Lawful(t)
  BY <1>3
  DEF Tasks, Dispatch, Skip, Ask, Blocklink, Takes, Finishes, NotifyRead, staff, Lawful
<1>4. ASSUME NEW w \in Workers, Conclusive(w) \/ NoAnswer(w)
      PROVE  overruled' = overruled /\ \A t \in Transfers : Lawful(t)
  <2>1. Answered(w)
    BY <1>4 DEF Conclusive, AnswerPending, AnswerInvalid, AnswerNotHandled, NoAnswer
  <2>2. asking[w] \in Transfers /\ status[asking[w]] # "none" /\ overruled' = overruled
    BY <2>1, AnsweredFreesRow DEF Answered, staff
  <2>3. CASE AnswerInvalid(w)
    BY <2>2, <2>3, HandlersLawful DEF AnswerInvalid
  <2>4. CASE AnswerPending(w) \/ AnswerNotHandled(w) \/ NoAnswer(w)
    BY <2>2, <2>4 DEF AnswerPending, AnswerNotHandled, NoAnswer, Lawful
  <2>5. QED BY <1>4, <2>3, <2>4 DEF Conclusive
<1>5. ASSUME NEW c \in Cancellers, CancelApply(c)
      PROVE  overruled' = overruled /\ \A t \in Transfers : Lawful(t)
  <2>1. canceling[c] \in Transfers /\ status[canceling[c]] # "none"
    BY <1>5 DEF CancelApply, BaseInv, RowsExist, Existing
  <2>2. Reject(canceling[c]) /\ overruled' = overruled
    BY <1>5 DEF CancelApply, staff
  <2>3. QED BY <2>1, <2>2, HandlersLawful
<1>6. ASSUME NEW c \in Callbacks, NotifyApply(c)
      PROVE  overruled' = overruled /\ \A t \in Transfers : Lawful(t)
  <2> DEFINE u == notice[c].transfer
  <2>1. u \in Transfers /\ status[u] # "none"
    BY <1>6 DEF NotifyApply, BaseInv, RowsExist, Existing
  <2>2. (Accept(u) \/ Reject(u) \/ MarkPending(u)) /\ overruled' = overruled
    BY <1>6 DEF NotifyApply, staff
  <2> HIDE DEF u
  <2>3. QED BY <2>1, <2>2, HandlersLawful
<1>7. QED BY <1>1, <1>2, <1>3, <1>4, <1>5, <1>6 DEF Next

(* Every withdrawal is settled as Settlement says: held once, charged at most *)
(* once, never charged after its hold was given back.                         *)
THEOREM WithdrawalsSettled == Spec => SettledOnce
<1>1. Init => Promise!Init
  BY DEF Init, Promise!Init
<1>2. IInv /\ [Next]_vars => [Promise!Next]_<<funds, overruled>>
  <2>1. CASE Next
    BY <2>1, NextLawful DEF IInv, Lawful, Promise!Next
  <2>2. CASE UNCHANGED vars
    BY <2>2 DEF vars, staff
  <2>3. QED BY <2>1, <2>2
<1>3. QED BY AlwaysIInv, <1>1, <1>2, PTL DEF Spec, SettledOnce, Promise!Spec

-----------------------------------------------------------------------------
(* Payments stay covered, but for cancellations.                              *)

(* blocklink will not pay t, now or later. *)
Spared(t) == chain[t] = "dropped" \/ (chain[t] = "none" /\ t \notin inflight)

(* Nothing that blocklink pays, now or later, is free to be spent again. *)
Secured(t) == funds[t] \in {"held", "charged"} \/ Spared(t)

(* A callback that reports CANCELED is about a payment that was dropped,      *)
(* which is final.                                                            *)
NoticesTrue ==
  \A c \in Callbacks :
    notice[c] # None /\ notice[c].status = "CANCELED" => chain[notice[c].transfer] = "dropped"

(* blocklink has no part in what was not asked for yet, or went to another    *)
(* customer.                                                                  *)
Apart ==
  \A t \in Transfers \ overruled :
    status[t] = "none" \/ receiver[t] # "none" => chain[t] = "none" /\ t \notin inflight

CoverInv == NoticesTrue /\ Apart /\ \A t \in Transfers \ overruled : Secured(t)

(* A cancellation of t is applied. *)
Canceled(t) == \E c \in Cancellers : canceling[c] = t /\ CancelApply(c)

CoverStep ==
  /\ NoticesTrue' /\ overruled \subseteq overruled'
  /\ \A t \in Transfers \ overruled' : Secured(t) => Secured(t)' \/ Canceled(t)

LEMMA CoverKept ==
  ASSUME BaseInv, NoticesTrue, overruled \subseteq overruled',
         \A t \in Transfers \ overruled' :
           \/ funds'[t] \in {"held", "charged"}
           \/ Spared(t)'
           \/ funds'[t] = funds[t] /\ (Spared(t) => Spared(t)')
           \/ Canceled(t),
         \A t \in Transfers : chain[t] = "dropped" => chain'[t] = "dropped",
         \A c \in Callbacks :
           \/ notice'[c] = notice[c] \/ notice'[c] = None
           \/ notice'[c].status = "CANCELED" => chain'[notice'[c].transfer] = "dropped"
  PROVE  CoverStep
<1>1. \A t \in Transfers \ overruled' : Secured(t) => Secured(t)' \/ Canceled(t)
  BY DEF Secured
<1>2. \A c \in Callbacks : notice[c] # None => notice[c].transfer \in Transfers
  BY DEF BaseInv, TypeOK, Notices
<1>3. \A c \in Callbacks : notice'[c] # None /\ notice'[c].status = "CANCELED" =>
                             chain'[notice'[c].transfer] = "dropped"
  BY <1>2 DEF NoticesTrue
<1> QED
  BY <1>1, <1>3 DEF CoverStep, NoticesTrue

(* Every step keeps this, but for the withdrawal a cancellation is applied to.*)
LEMMA CoverNext ==
  ASSUME BaseInv, ReceiversAgree, Apart, NoticesTrue, [Next]_vars
  PROVE  CoverStep
<1>1. ASSUME UNCHANGED blocklink, overruled \subseteq overruled',
             \A t \in Transfers : funds'[t] = funds[t] \/ funds'[t] \in {"held", "charged"},
             \A c \in Callbacks : notice'[c] = notice[c] \/ notice'[c] = None
      PROVE  CoverStep
  BY <1>1, CoverKept DEF blocklink, Spared
<1>2. ASSUME NEW t \in Transfers, Customer(t) PROVE CoverStep
  <2>1. CASE NewWithdraw(t) \/ FastForward(t)
    BY <1>1, <2>1 DEF NewWithdraw, FastForward, requests, staff, BaseInv, TypeOK
  <2>2. CASE FreezeEnds(t) \/ \E c \in Cancellers : CancelRead(c, t)
    BY <1>1, <2>2 DEF FreezeEnds, CancelRead, requests, staff
  <2> QED
    BY <1>2, <2>1, <2>2 DEF Customer
<1>3. ASSUME NEW t \in Transfers, Staff(t) PROVE CoverStep
  <2>1. CASE AcceptWithdraw(t) \/ \E c \in Cancellers : RejectRead(c, t)
    BY <1>1, <2>1 DEF AcceptWithdraw, RejectRead, requests, staff
  <2>2. ASSUME NEW s \in Statuses, NEW via \in Sources, SaveForm(t, s, via) PROVE CoverStep
    BY <1>1, <2>2 DEF SaveForm, requests, BaseInv, TypeOK
  <2>3. CASE RefundReceiver(t)
    <3>1. /\ receiver[t] = "DONE" /\ funds' = [funds EXCEPT ![t] = "reverted"]
          /\ UNCHANGED <<inflight, chain, notice, overruled>>
      BY <2>3 DEF RefundReceiver, blocklink, requests, staff
    <3>2. \A u \in Transfers \ {t} : funds'[u] = funds[u]
      BY <3>1 DEF BaseInv, TypeOK
    <3>3. \A u \in Transfers : Spared(u) => Spared(u)'
      BY <3>1 DEF Spared
    <3>4. t \notin overruled => Spared(t)'
      BY <3>1 DEF Apart, Spared
    <3> QED
      BY <3>1, <3>2, <3>3, <3>4, CoverKept
  <2> QED
    BY <1>3, <2>1, <2>2, <2>3 DEF Staff
<1>4. ASSUME NEW t \in Transfers, Tasks(t) PROVE CoverStep
  <2>1. CASE Dispatch(t) \/ Skip(t)
    BY <1>1, <2>1 DEF Dispatch, Skip, requests, staff
  <2>2. ASSUME NEW w \in Workers, Ask(w, t) PROVE CoverStep
    <3>1. /\ inflight' = inflight \cup {t} /\ UNCHANGED <<funds, chain, notice, overruled>>
          /\ status[t] = "PROCESS"
      BY <2>2 DEF Ask, requests, staff
    <3>2. t \notin overruled => funds'[t] = "held"
      BY <3>1 DEF BaseInv, RowsAgree, Agree, Open
    <3>3. \A u \in Transfers \ {t} : Spared(u) => Spared(u)'
      BY <3>1 DEF Spared
    <3> QED
      BY <3>1, <3>2, <3>3, CoverKept
  <2> QED
    BY <1>4, <2>1, <2>2 DEF Tasks
<1>5. ASSUME NEW t \in Transfers, Blocklink(t) PROVE CoverStep
  <2>1. CASE Takes(t)
    <3>1. /\ inflight' = inflight \ {t} /\ t \in inflight
          /\ chain' = [chain EXCEPT ![t] = IF @ = "none" THEN "taken" ELSE @]
          /\ UNCHANGED <<funds, notice, overruled>>
      BY <2>1 DEF Takes, requests, staff
    <3>2. \A u \in Transfers : /\ Spared(u) => Spared(u)'
                               /\ chain[u] = "dropped" => chain'[u] = "dropped"
      BY <3>1 DEF Spared, BaseInv, TypeOK
    <3> QED
      BY <3>1, <3>2, CoverKept
  <2>2. CASE Finishes(t)
    <3>1. /\ chain[t] = "taken" /\ \A u \in Transfers \ {t} : chain'[u] = chain[u]
          /\ UNCHANGED <<inflight, funds, notice, overruled>>
      BY <2>2 DEF Finishes, requests, staff, BaseInv, TypeOK
    <3>2. \A u \in Transfers : /\ Spared(u) => Spared(u)'
                               /\ chain[u] = "dropped" => chain'[u] = "dropped"
      BY <3>1 DEF Spared
    <3> QED
      BY <3>1, <3>2, CoverKept
  <2>3. ASSUME NEW c \in Callbacks, NEW to \in Statuses, NotifyRead(c, t, to) PROVE CoverStep
    <3>1. /\ notice' = [notice EXCEPT ![c] = [transfer |-> t, status |-> to]]
          /\ to \in Reports(t) /\ UNCHANGED <<funds, inflight, chain, overruled>>
      BY <2>3 DEF NotifyRead, blocklink, staff
    <3>2. to = "CANCELED" => chain'[t] = "dropped"
      BY <3>1 DEF Reports, BaseInv, TypeOK
    <3>3. \A d \in Callbacks :
            \/ notice'[d] = notice[d]
            \/ notice'[d].status = "CANCELED" => chain'[notice'[d].transfer] = "dropped"
      BY <3>1, <3>2 DEF BaseInv, TypeOK
    <3>4. \A u \in Transfers : Spared(u) => Spared(u)'
      BY <3>1 DEF Spared
    <3> QED
      BY <3>1, <3>3, <3>4, CoverKept
  <2> QED
    BY <1>5, <2>1, <2>2, <2>3 DEF Blocklink
<1>6. ASSUME NEW w \in Workers, Conclusive(w) \/ NoAnswer(w) PROVE CoverStep
  <2>1. Answered(w)
    BY <1>6 DEF Conclusive, AnswerPending, AnswerInvalid, AnswerNotHandled, NoAnswer
  <2>2. PICK t \in Transfers : t = asking[w] /\ UNCHANGED <<chain, notice, overruled>>
    BY <2>1, AnsweredFreesRow DEF Answered, requests, staff
  <2>3. CASE AnswerPending(w) \/ NoAnswer(w)
    BY <1>1, <2>2, <2>3 DEF AnswerPending, NoAnswer, blocklink
  <2>4. CASE AnswerInvalid(w) \/ AnswerNotHandled(w)
    <3>1. /\ chain[t] = "none" /\ inflight' = inflight \ {t}
          /\ \A u \in Transfers \ {t} : funds'[u] = funds[u]
      BY <2>2, <2>4 DEF AnswerInvalid, AnswerNotHandled, Reject, BaseInv, TypeOK
    <3>2. Spared(t)' /\ \A u \in Transfers : Spared(u) => Spared(u)'
      BY <2>2, <3>1 DEF Spared
    <3> QED
      BY <2>2, <3>1, <3>2, CoverKept
  <2> QED
    BY <1>6, <2>3, <2>4 DEF Conclusive
<1>7. ASSUME NEW c \in Callbacks, NotifyApply(c) PROVE CoverStep
  <2> DEFINE n == notice[c]
  <2>1. PICK t \in Transfers :
           /\ t = n.transfer /\ n # None
           /\ notice' = [notice EXCEPT ![c] = None]
           /\ UNCHANGED <<inflight, chain, overruled>>
           /\ \/ n.status = "DONE" /\ Accept(t)
              \/ n.status = "CANCELED" /\ Reject(t)
              \/ n.status = "PENDING" /\ MarkPending(t)
    BY <1>7 DEF NotifyApply, blocklink, staff, BaseInv, RowsExist, Existing
  <2>2. \A d \in Callbacks : notice'[d] = notice[d] \/ notice'[d] = None
    BY <2>1 DEF BaseInv, TypeOK
  <2>3. CASE n.status # "CANCELED"
    <3>1. \A u \in Transfers : funds'[u] = funds[u] \/ funds'[u] \in {"held", "charged"}
      BY <2>1, <2>3 DEF Accept, MarkPending, BaseInv, TypeOK
    <3> QED
      BY <1>1, <2>1, <2>2, <3>1 DEF blocklink
  <2>4. CASE n.status = "CANCELED"
    <3>1. chain'[t] = "dropped"
      BY <1>7, <2>1, <2>4 DEF NoticesTrue
    <3>2. \A u \in Transfers \ {t} : funds'[u] = funds[u]
      BY <2>1, <2>4 DEF Reject, BaseInv, TypeOK
    <3>3. Spared(t)' /\ \A u \in Transfers : Spared(u) => Spared(u)'
      BY <2>1, <3>1 DEF Spared
    <3> HIDE DEF n
    <3> QED
      BY <2>1, <2>2, <3>2, <3>3, CoverKept
  <2> QED
    BY <2>3, <2>4
<1>8. ASSUME NEW c \in Cancellers, CancelApply(c) PROVE CoverStep
  <2>1. PICK t \in Transfers : t = canceling[c] /\ Reject(t)
    BY <1>8 DEF CancelApply, BaseInv, TypeOK
  <2>2. Canceled(t) /\ UNCHANGED <<blocklink, notice, overruled>>
    BY <1>8, <2>1 DEF Canceled, CancelApply, staff
  <2>3. \A u \in Transfers \ {t} : funds'[u] = funds[u]
    BY <2>1 DEF Reject, BaseInv, TypeOK
  <2>4. \A u \in Transfers : (Spared(u) => Spared(u)') /\ chain'[u] = chain[u]
    BY <2>2 DEF Spared, blocklink
  <2> QED
    BY <2>2, <2>3, <2>4, CoverKept
<1>9. CASE UNCHANGED vars
  BY <1>1, <1>9 DEF vars, requests, staff
<1> QED
  BY <1>2, <1>3, <1>4, <1>5, <1>6, <1>7, <1>8, <1>9 DEF Next

(* A step that creates no row, and leaves to blocklink what is not its.       *)
LEMMA ApartStep ==
  ASSUME Apart, overruled \subseteq overruled', receiver' = receiver,
         \A t \in Transfers : status'[t] = "none" => status[t] = "none",
         \A t \in Transfers \ overruled' :
           \/ chain'[t] = chain[t] /\ (t \in inflight' => t \in inflight)
           \/ t \in inflight \/ chain[t] # "none"
           \/ status[t] # "none" /\ receiver[t] = "none"
  PROVE  Apart'
BY DEF Apart

(* The handlers create no row.                                                *)
LEMMA HandlersApart ==
  ASSUME BaseInv, Apart, UNCHANGED <<overruled, receiver, chain>>, inflight' \subseteq inflight,
         NEW t \in Transfers, Accept(t) \/ Reject(t) \/ MarkPending(t)
  PROVE  Apart'
<1>1. \A u \in Transfers : status'[u] = "none" => status[u] = "none"
  BY DEF Accept, Reject, MarkPending, BaseInv, TypeOK
<1>2. QED BY <1>1, ApartStep

LEMMA ApartKept ==
  ASSUME BaseInv, ReceiversAgree, Apart, [Next]_vars
  PROVE  Apart'
<1>1. ASSUME NEW t \in Transfers, Customer(t) PROVE Apart'
  <2>1. CASE NewWithdraw(t) \/ FastForward(t)
    <3>1. t \notin overruled /\ status[t] = "none" /\ UNCHANGED <<blocklink, staff>>
      BY <2>1 DEF NewWithdraw, FastForward, BaseInv, RowsExist, Existing
    <3>2. chain[t] = "none" /\ t \notin inflight
      BY <3>1 DEF Apart
    <3>3. \A u \in Transfers \ {t} : status'[u] = status[u] /\ receiver'[u] = receiver[u]
      BY <2>1 DEF NewWithdraw, FastForward, BaseInv, TypeOK
    <3> QED
      BY <3>1, <3>2, <3>3 DEF Apart, blocklink, staff
  <2>2. CASE FreezeEnds(t) \/ \E c \in Cancellers : CancelRead(c, t)
    BY <2>2, ApartStep DEF FreezeEnds, CancelRead, row, blocklink, staff
  <2> QED
    BY <1>1, <2>1, <2>2 DEF Customer
<1>2. ASSUME NEW t \in Transfers, Staff(t) PROVE Apart'
  <2>1. CASE AcceptWithdraw(t) \/ \E c \in Cancellers : RejectRead(c, t)
    BY <2>1, ApartStep DEF AcceptWithdraw, RejectRead, row, blocklink, staff, BaseInv, TypeOK
  <2>2. CASE RefundReceiver(t)
    BY <2>2 DEF RefundReceiver, Apart, blocklink, staff, BaseInv, TypeOK
  <2>3. CASE \E s \in Statuses, via \in Sources : SaveForm(t, s, via)
    BY <2>3, ApartStep DEF SaveForm, blocklink, BaseInv, TypeOK, Statuses, Open, Complete
  <2> QED
    BY <1>2, <2>1, <2>2, <2>3 DEF Staff
<1>3. ASSUME NEW t \in Transfers, Tasks(t) PROVE Apart'
  <2>1. CASE Dispatch(t) \/ Skip(t)
    BY <2>1, ApartStep DEF Dispatch, Skip, row, blocklink, staff
  <2>2. ASSUME NEW w \in Workers, Ask(w, t) PROVE Apart'
    <3>1. /\ inflight' = inflight \cup {t} /\ status[t] = "PROCESS"
          /\ UNCHANGED <<row, chain, staff>>
      BY <2>2 DEF Ask
    <3>2. t \notin overruled => receiver[t] = "none"
      BY <3>1 DEF BaseInv, TypeOK, RowsAgree, Agree, Open, ReceiversAgree
    <3> QED
      BY <3>1, <3>2, ApartStep DEF row, staff
  <2> QED
    BY <1>3, <2>1, <2>2 DEF Tasks
<1>4. ASSUME NEW t \in Transfers, Blocklink(t) PROVE Apart'
  <2>1. CASE Takes(t) \/ Finishes(t)
    BY <2>1, ApartStep DEF Takes, Finishes, row, staff, BaseInv, TypeOK
  <2>2. CASE \E c \in Callbacks, to \in Statuses : NotifyRead(c, t, to)
    BY <2>2, ApartStep DEF NotifyRead, row, blocklink, staff
  <2> QED
    BY <1>4, <2>1, <2>2 DEF Blocklink
<1>5. ASSUME NEW w \in Workers, Conclusive(w) \/ NoAnswer(w) PROVE Apart'
  <2>1. Answered(w)
    BY <1>5 DEF Conclusive, AnswerPending, AnswerInvalid, AnswerNotHandled, NoAnswer
  <2>2. asking[w] \in Transfers /\ UNCHANGED <<overruled, receiver, chain>>
    BY <2>1, AnsweredFreesRow DEF Answered, staff
  <2>3. CASE AnswerInvalid(w)
    BY <2>2, <2>3, HandlersApart DEF AnswerInvalid
  <2>4. CASE AnswerPending(w)
    BY <2>2, <2>4, ApartStep DEF AnswerPending, BaseInv, TypeOK
  <2>5. CASE AnswerNotHandled(w) \/ NoAnswer(w)
    BY <2>2, <2>5, ApartStep DEF AnswerNotHandled, NoAnswer
  <2> QED
    BY <1>5, <2>3, <2>4, <2>5 DEF Conclusive
<1>6. ASSUME NEW c \in Cancellers, CancelApply(c) PROVE Apart'
  <2>1. canceling[c] \in Transfers
    BY <1>6 DEF CancelApply, BaseInv, TypeOK
  <2> QED
    BY <1>6, <2>1, HandlersApart DEF CancelApply, blocklink, staff
<1>7. ASSUME NEW c \in Callbacks, NotifyApply(c) PROVE Apart'
  <2>1. notice[c].transfer \in Transfers
    BY <1>7 DEF NotifyApply, BaseInv, TypeOK, Notices
  <2> QED
    BY <1>7, <2>1, HandlersApart DEF NotifyApply, blocklink, staff
<1>8. CASE UNCHANGED vars
  BY <1>8 DEF vars, row, blocklink, staff, Apart
<1> QED
  BY <1>1, <1>2, <1>3, <1>4, <1>5, <1>6, <1>7, <1>8 DEF Next

(* Whoever's handlers run and however late, the amount of a withdrawal that   *)
(* blocklink may pay becomes free in one way only: a cancellation that read   *)
(* the row earlier (perform_destroy, or the staff's reject_withdraw) is       *)
(* applied.  No answer of blocklink, however it is lost or repeated, no       *)
(* callback and no task gives it back, unless the staff's form changed the    *)
(* outcome.                                                                   *)
THEOREM OnlyCancellationUncovers ==
  Spec => [][\A t \in Transfers \ overruled' :
               Secured(t) => Secured(t)' \/ Canceled(t)]_vars
<1>1. Init => IInv /\ Apart /\ NoticesTrue
  <2> SUFFICES ASSUME Init PROVE Apart /\ NoticesTrue
    BY InitEstablishes
  <2> QED
    BY DEF Init, Apart, NoticesTrue
<1>2. (IInv /\ Apart /\ NoticesTrue) /\ [Next]_vars => (IInv /\ Apart /\ NoticesTrue)'
  BY NextKeeps, ReceiversKept, ApartKept, CoverNext DEF IInv, CoverStep
<1>3. (IInv /\ Apart /\ NoticesTrue) /\ [Next]_vars =>
        [\A t \in Transfers \ overruled' : Secured(t) => Secured(t)' \/ Canceled(t)]_vars
  BY CoverNext DEF IInv, CoverStep
<1> QED
  BY <1>1, <1>2, <1>3, PTL DEF Spec

(* When nobody cancels, what blocklink has taken to pay is never given back   *)
(* to the customer, however many answers are lost, requests repeated and      *)
(* callbacks late.  A cancellation does give it back: see NotCanceledLate.    *)
THEOREM PaymentsAlwaysCovered ==
  ASSUME Cancellers = {}
  PROVE  Spec => []PaymentsCovered
<1>1. Init => IInv /\ CoverInv
  <2> SUFFICES ASSUME Init PROVE CoverInv
    BY InitEstablishes
  <2> QED
    BY DEF Init, CoverInv, Apart, NoticesTrue, Secured, Spared
<1>2. (IInv /\ CoverInv) /\ [Next]_vars => (IInv /\ CoverInv)'
  <2> SUFFICES ASSUME IInv, CoverInv, [Next]_vars PROVE CoverInv'
    BY NextKeeps, ReceiversKept DEF IInv
  <2>1. CoverStep /\ Apart'
    BY CoverNext, ApartKept DEF IInv, CoverInv
  <2>2. \A t \in Transfers : ~ Canceled(t)
    BY DEF Canceled
  <2> QED
    BY <2>1, <2>2 DEF CoverStep, CoverInv
<1>3. IInv /\ CoverInv => PaymentsCovered
  BY DEF CoverInv, PaymentsCovered, Secured, Spared
<1> QED
  BY <1>1, <1>2, <1>3, PTL DEF Spec
=============================================================================
