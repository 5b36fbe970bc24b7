------------------------- MODULE CryptoDepositProofs -------------------------
(***************************************************************************)
(* For any number of deposits, recoveries, callbacks, members of the staff *)
(* and runs of clear_debt: a deposit's row agrees with the journal, it is  *)
(* credited and reverted at most once, a recovery is credited at most once,*)
(* and nobody owes more than was spent.                                    *)
(*                                                                         *)
(* The last part is not inductive: a revert decides for a debt, and posts  *)
(* it when coins may have come in again.  The argument is that every       *)
(* credited deposit is a coin that is in the wallet or was spent and is    *)
(* not owed (Covered), so that a revert that found the wallet empty can    *)
(* count on a spent coin of its own, and keeps it until it posts (Owed).   *)
(***************************************************************************)
EXTENDS CryptoDeposit, FiniteSetTheorems, TLAPS

Charged == {d \in Deposits : funds[d] = "charged"}

(* Deposits that a revert is about to turn into a debt. *)
Debtors == {d \in Charged : \E a \in Staff : action[a] = [act |-> "postDebt", on |-> d]}

RecoveredSoFar ==
  \A r \in Recoveries \ overtaken :
    made[r] = 0 \/ (made[r] = 1 /\ recovery[r] \in RecoveryStatuses \ OpenRecovery)

Covered == Cardinality(Charged) + debt <= wallet + spent

Owed == Cardinality(Debtors) + debt <= spent

IInv == TypeOK /\ DoneIffCredited /\ RecoveredSoFar /\ Covered /\ Owed

-----------------------------------------------------------------------------
(* Types.                                                                     *)

(* The handlers write the row they are given, and the customer's wallet. *)
LEMMA HandlersTyped ==
  ASSUME TypeOK, NEW d \in Deposits,
         Accept(d) \/ Reject(d) \/ \E s \in Statuses : SetOpen(d, s)
  PROVE  /\ status' \in [Deposits -> Statuses \cup {"none"}]
         /\ funds' \in [Deposits -> {"none", "charged", "reverted"}]
         /\ wallet' \in Nat
<1>1. CASE Accept(d)
  BY <1>1 DEF TypeOK, Accept, Complete, Statuses
<1>2. CASE Reject(d)
  BY <1>2 DEF TypeOK, Reject, Complete, Statuses
<1>3. CASE \E s \in Statuses : SetOpen(d, s)
  BY <1>3 DEF TypeOK, SetOpen, Complete, Statuses
<1>4. QED BY <1>1, <1>2, <1>3

(* blocklink and its callbacks.                                               *)
LEMMA BlocklinkTyped ==
  ASSUME TypeOK, Blocklink
  PROVE  TypeOK'
<1>1. ASSUME NEW d \in Deposits, ChainMoves(d)
      PROVE  TypeOK'
  BY <1>1 DEF TypeOK, ChainMoves, rows, coins, recoveries, pending, form
<1>2. ASSUME NEW c \in Callbacks, NEW d \in Deposits, NEW report \in Reportable,
             CallbackRead(c, d, report)
      PROVE  TypeOK'
  BY <1>2 DEF TypeOK, CallbackRead, CallbackStates, rows, coins, recoveries, form
<1>3. ASSUME NEW c \in Callbacks, CallbackCreate(c)
      PROVE  TypeOK'
  <2>1. callback[c] \in CallbackStates
    BY <1>3 DEF TypeOK, CallbackCreate
  <2>2. callback' \in [Callbacks -> CallbackStates \cup {None}]
    BY <1>3, <2>1 DEF TypeOK, CallbackCreate, CallbackStates
  <2>3. status' \in [Deposits -> Statuses \cup {"none"}]
    BY <1>3, <2>1 DEF TypeOK, CallbackCreate, CallbackStates, Statuses
  <2>4. QED
    BY <1>3, <2>2, <2>3 DEF TypeOK, CallbackCreate, coins, recoveries, form
<1>4. ASSUME NEW c \in Callbacks, CallbackApply(c)
      PROVE  TypeOK'
  <2> DEFINE d == callback[c].deposit
  <2>1. d \in Deposits
    BY <1>4 DEF TypeOK, CallbackApply, CallbackStates
  <2>2. Accept(d) \/ Reject(d) \/ \E s \in Statuses : SetOpen(d, s)
    BY <1>4 DEF CallbackApply, Statuses
  <2> HIDE DEF d
  <2>3. /\ status' \in [Deposits -> Statuses \cup {"none"}]
        /\ funds' \in [Deposits -> {"none", "charged", "reverted"}]
        /\ wallet' \in Nat
    BY <2>1, <2>2, HandlersTyped
  <2>4. QED BY <1>4, <2>3 DEF TypeOK, CallbackApply, recoveries, form
<1>5. ASSUME NEW c \in Callbacks, CallbackDies(c)
      PROVE  TypeOK'
  BY <1>5 DEF TypeOK, CallbackDies, rows, coins, recoveries, form
<1>6. QED BY <1>1, <1>2, <1>3, <1>4, <1>5 DEF Blocklink

(* The staff.                                                                 *)
LEMMA StaffTyped ==
  ASSUME TypeOK, StaffActs
  PROVE  TypeOK'
<1>1. ASSUME NEW d \in Deposits, AcceptDeposit(d)
      PROVE  TypeOK'
  BY <1>1, HandlersTyped DEF AcceptDeposit, TypeOK, recoveries, pending, form
<1>2. ASSUME NEW d \in Deposits, NEW s \in Statuses, SaveForm(d, s)
      PROVE  TypeOK'
  <2>1. /\ status' \in [Deposits -> Statuses \cup {"none"}]
        /\ funds' \in [Deposits -> {"none", "charged", "reverted"}]
        /\ wallet' \in Nat
    BY <1>2 DEF SaveForm, TypeOK
  <2>2. saves' \in 0 .. MaxSaves /\ overruled' \in SUBSET Deposits
    BY <1>2, DepositAssumption DEF SaveForm, TypeOK
  <2>3. QED BY <1>2, <2>1, <2>2 DEF SaveForm, TypeOK, recoveries, pending
<1>3. ASSUME NEW a \in Staff, NEW d \in Deposits, StaffReads(a, d)
      PROVE  TypeOK'
  BY <1>3 DEF StaffReads, Reads, TypeOK, ActionStates, RowActs, rows, coins, recoveries, form
<1>4. ASSUME NEW a \in Staff, RejectDeposit(a)
      PROVE  TypeOK'
  <2>1. action[a].on \in Deposits
    BY <1>4 DEF RejectDeposit, TypeOK, ActionStates, RowActs
  <2>2. QED
    BY <1>4, <2>1, HandlersTyped DEF RejectDeposit, Done, TypeOK, recoveries, form
<1>5. ASSUME NEW a \in Staff, RevertLocks(a)
      PROVE  TypeOK'
  <2>1. action[a].on \in Deposits
    BY <1>5 DEF RevertLocks, TypeOK, ActionStates, RowActs
  <2>2. action' \in [Staff -> ActionStates \cup {None}]
    BY <1>5, <2>1 DEF RevertLocks, TypeOK, ActionStates, RowActs
  <2>3. QED BY <1>5, <2>2 DEF RevertLocks, TypeOK, rows, coins, recoveries, form
<1>6. ASSUME NEW a \in Staff, RevertPosts(a)
      PROVE  TypeOK'
  <2>1. action[a].on \in Deposits
    BY <1>6 DEF RevertPosts, TypeOK, ActionStates, RowActs
  <2>2. /\ status' \in [Deposits -> Statuses \cup {"none"}]
        /\ funds' \in [Deposits -> {"none", "charged", "reverted"}]
        /\ wallet' \in Nat /\ debt' \in Nat
    BY <1>6, <2>1 DEF RevertPosts, TypeOK, Statuses, rows
  <2>3. QED BY <1>6, <2>2 DEF RevertPosts, Done, TypeOK, recoveries, form
<1>7. ASSUME NEW a \in Staff, Reaccept(a)
      PROVE  TypeOK'
  <2>1. action[a].on \in Deposits
    BY <1>7 DEF Reaccept, TypeOK, ActionStates, RowActs
  <2>2. /\ status' \in [Deposits -> Statuses \cup {"none"}]
        /\ funds' \in [Deposits -> {"none", "charged", "reverted"}]
        /\ wallet' \in Nat
    BY <1>7, <2>1 DEF Reaccept, TypeOK, Statuses, Complete, rows
  <2>3. QED BY <1>7, <2>2 DEF Reaccept, Done, TypeOK, recoveries, form
<1>8. QED BY <1>1, <1>2, <1>3, <1>4, <1>5, <1>6, <1>7 DEF StaffActs

(* Recoveries, spending and clear_debt.                                       *)
LEMMA RestTyped ==
  ASSUME TypeOK, Recovers \/ Spend \/ Clears
  PROVE  TypeOK'
<1>1. ASSUME NEW r \in Recoveries, RecoveryAsked(r) \/ RejectRecovery(r) \/ CreateTransfer(r)
      PROVE  TypeOK'
  BY <1>1
  DEF RecoveryAsked, RejectRecovery, CreateTransfer, RecoveryStatuses, OpenRecovery, Complete,
      TypeOK, rows, coins, pending, form
<1>2. ASSUME NEW a \in Staff, NEW r \in Recoveries, VerifyReads(a, r)
      PROVE  TypeOK'
  BY <1>2 DEF VerifyReads, Reads, TypeOK, ActionStates, rows, coins, recoveries, form
<1>3. ASSUME NEW a \in Staff, VerifySaves(a)
      PROVE  TypeOK'
  <2>1. action[a].on \in Recoveries
    BY <1>3 DEF VerifySaves, TypeOK, ActionStates, RowActs
  <2>2. QED BY <1>3, <2>1 DEF VerifySaves, Done, RecoveryStatuses, TypeOK, rows, coins, form
<1>4. CASE Spend
  BY <1>4, DepositAssumption DEF Spend, TypeOK, rows, recoveries, pending, form
<1>5. ASSUME NEW k \in Clearers, ClearReads(k) \/ ClearPosts(k)
      PROVE  TypeOK'
  BY <1>5
  DEF ClearReads, ClearPosts, Least, TypeOK, rows, coins, recoveries, form
<1>6. ASSUME NEW r \in Recoveries, NEW s \in RecoveryStatuses, SaveRecoveryForm(r, s)
      PROVE  TypeOK'
  BY <1>6, DepositAssumption DEF SaveRecoveryForm, TypeOK, rows, coins, pending
<1>7. QED BY <1>1, <1>2, <1>3, <1>4, <1>5, <1>6 DEF Recovers, Clears

(* Every step.                                                                *)
LEMMA NextTyped ==
  ASSUME TypeOK, Next
  PROVE  TypeOK'
BY BlocklinkTyped, StaffTyped, RestTyped DEF Next

-----------------------------------------------------------------------------
(* The row, the journal and Settlement.                                       *)

Agree(d) == status[d] = "DONE" <=> funds[d] = "charged"

Lawful(d) == funds'[d] = funds[d] \/ Promise!Charge(d) \/ Promise!Revert(d)

(* What a step may do to the row of d and to its entries. *)
RowStep(d) ==
  /\ \A e \in Deposits : Lawful(e)
  /\ \A e \in Deposits \ {d} : status'[e] = status[e] /\ funds'[e] = funds[e]
  /\ d \notin overruled' => (Agree(d) => Agree(d)')

(* accept() only credits what was not credited; with reject() and the UPDATE  *)
(* it keeps the row in agreement with the journal.                            *)
LEMMA HandlersRow ==
  ASSUME TypeOK, NEW d \in Deposits,
         Accept(d) \/ Reject(d) \/ \E s \in {"INIT", "PENDING"} : SetOpen(d, s)
  PROVE  RowStep(d)
<1>1. CASE Accept(d)
  <2>1. CASE UNCHANGED <<status, funds>>
    BY <2>1 DEF RowStep, Agree, Lawful
  <2>2. CASE /\ funds[d] = "none"
             /\ status' = [status EXCEPT ![d] = "DONE"]
             /\ funds' = [funds EXCEPT ![d] = "charged"]
    BY <2>2 DEF RowStep, Agree, Lawful, Promise!Charge, TypeOK
  <2>3. QED BY <1>1, <2>1, <2>2 DEF Accept
<1>2. CASE Reject(d)
  BY <1>2 DEF Reject, RowStep, Agree, Lawful, TypeOK, Complete
<1>3. CASE \E s \in {"INIT", "PENDING"} : SetOpen(d, s)
  BY <1>3 DEF SetOpen, RowStep, Agree, Lawful, TypeOK, Complete
<1>4. QED BY <1>1, <1>2, <1>3

(* The staff's actions and form do the same, unless the form overrules.       *)
LEMMA StaffRows ==
  ASSUME TypeOK, StaffActs
  PROVE  overruled \subseteq overruled' /\ (UNCHANGED rows \/ \E d \in Deposits : RowStep(d))
<1>1. ASSUME NEW d \in Deposits, AcceptDeposit(d)
      PROVE  overruled' = overruled /\ RowStep(d)
  BY <1>1, HandlersRow DEF AcceptDeposit, form
<1>2. ASSUME NEW d \in Deposits, NEW s \in Statuses, SaveForm(d, s)
      PROVE  overruled \subseteq overruled' /\ RowStep(d)
  <2>1. CASE s = "DONE" /\ status[d] \notin Complete
    BY <1>2, <2>1 DEF SaveForm, RowStep, Lawful, Agree, Promise!Charge, TypeOK
  <2>2. CASE ~ (s = "DONE" /\ status[d] \notin Complete)
    BY <1>2, <2>2 DEF SaveForm, RowStep, Lawful, Agree, TypeOK
  <2>3. QED BY <1>2, <2>1, <2>2 DEF SaveForm
<1>3. ASSUME NEW a \in Staff,
             RevertLocks(a) \/ \E d \in Deposits : StaffReads(a, d)
      PROVE  overruled' = overruled /\ UNCHANGED rows
  BY <1>3 DEF RevertLocks, StaffReads, Reads, form
<1>4. ASSUME NEW a \in Staff, RejectDeposit(a) \/ RevertPosts(a) \/ Reaccept(a)
      PROVE  overruled' = overruled /\ \E d \in Deposits : RowStep(d)
  <2>1. action[a].on \in Deposits /\ overruled' = overruled
    BY <1>4 DEF RejectDeposit, RevertPosts, Reaccept, form, TypeOK, ActionStates, RowActs
  <2>2. CASE RejectDeposit(a)
    BY <2>1, <2>2, HandlersRow DEF RejectDeposit
  <2>3. CASE RevertPosts(a)
    <3>1. PICK d \in Deposits : d = action[a].on
      BY <2>1
    <3>2. \/ UNCHANGED <<status, funds>>
          \/ /\ status' = [status EXCEPT ![d] = "REFUND"]
             /\ \/ funds[d] = "none" /\ UNCHANGED funds
                \/ funds[d] = "charged" /\ funds' = [funds EXCEPT ![d] = "reverted"]
      BY <2>3, <3>1 DEF RevertPosts, rows, TypeOK
    <3>3. RowStep(d)
      BY <3>2 DEF RowStep, Lawful, Agree, Promise!Revert, TypeOK
    <3>4. QED BY <2>1, <3>3
  <2>4. CASE Reaccept(a)
    <3>1. PICK d \in Deposits : d = action[a].on
      BY <2>1
    <3>2. \/ UNCHANGED <<status, funds>>
          \/ /\ funds[d] = "none"
             /\ status' = [status EXCEPT ![d] = "DONE"]
             /\ funds' = [funds EXCEPT ![d] = "charged"]
      BY <2>4, <3>1 DEF Reaccept, rows
    <3>3. RowStep(d)
      BY <3>2 DEF RowStep, Lawful, Agree, Promise!Charge, TypeOK
    <3>4. QED BY <2>1, <3>3
  <2>5. QED BY <1>4, <2>1, <2>2, <2>3, <2>4
<1>5. QED BY <1>1, <1>2, <1>3, <1>4 DEF StaffActs

(* So does every step.                                                        *)
LEMMA NextRows ==
  ASSUME TypeOK, Next
  PROVE  overruled \subseteq overruled' /\ (UNCHANGED rows \/ \E d \in Deposits : RowStep(d))
<1>1. CASE StaffActs
  BY <1>1, StaffRows
<1>2. CASE Recovers \/ Spend \/ Clears
  BY <1>2
  DEF Recovers, RecoveryAsked, RejectRecovery, CreateTransfer, SaveRecoveryForm, VerifyReads,
      Reads, VerifySaves, Spend, Clears, ClearReads, ClearPosts, form
<1>3. CASE Blocklink
  <2>1. ASSUME NEW d \in Deposits, ChainMoves(d)
        PROVE  overruled' = overruled /\ UNCHANGED rows
    BY <2>1 DEF ChainMoves, form
  <2>2. ASSUME NEW c \in Callbacks,
               \/ CallbackDies(c)
               \/ \E d \in Deposits, report \in Reportable : CallbackRead(c, d, report)
        PROVE  overruled' = overruled /\ UNCHANGED rows
    BY <2>2 DEF CallbackDies, CallbackRead, form
  <2>3. ASSUME NEW c \in Callbacks, CallbackCreate(c) \/ CallbackApply(c)
        PROVE  overruled' = overruled /\ \E d \in Deposits : RowStep(d)
    <3>1. overruled' = overruled /\ callback[c].deposit \in Deposits
      BY <2>3 DEF CallbackCreate, CallbackApply, form, TypeOK, CallbackStates
    <3>2. PICK d \in Deposits : d = callback[c].deposit
      BY <3>1
    <3>3. CASE CallbackCreate(c)
      <4>1. /\ status' = [status EXCEPT ![d] = IF @ = "none" THEN "PENDING" ELSE @]
            /\ funds' = funds
        BY <3>2, <3>3 DEF CallbackCreate
      <4>2. RowStep(d)
        BY <4>1 DEF RowStep, Lawful, Agree, TypeOK
      <4>3. QED BY <3>1, <4>2
    <3>4. CASE CallbackApply(c)
      <4>1. Accept(d) \/ Reject(d) \/ \E s \in {"INIT", "PENDING"} : SetOpen(d, s)
        BY <3>2, <3>4 DEF CallbackApply
      <4>2. RowStep(d)
        BY <4>1, HandlersRow
      <4>3. QED BY <3>1, <4>2
    <3>5. QED BY <2>3, <3>1, <3>3, <3>4
  <2>4. QED BY <1>3, <2>1, <2>2, <2>3 DEF Blocklink
<1>4. QED BY <1>1, <1>2, <1>3 DEF Next

(* Hence the rows keep agreeing with the journal.                             *)
LEMMA NextAgrees ==
  ASSUME TypeOK, DoneIffCredited, Next
  PROVE  DoneIffCredited'
<1>1. overruled \subseteq overruled'
  BY NextRows
<1>2. CASE UNCHANGED rows
  BY <1>1, <1>2 DEF rows, DoneIffCredited
<1>3. CASE \E d \in Deposits : RowStep(d)
  BY <1>1, <1>3 DEF RowStep, Agree, DoneIffCredited
<1>4. QED BY <1>2, <1>3, NextRows

-----------------------------------------------------------------------------
(* Recoveries.                                                                *)

(* Only an overtaken verification or the form reopens a recovery that was     *)
(* credited.                                                                  *)
LEMMA NextRecovers ==
  ASSUME TypeOK, RecoveredSoFar, Next
  PROVE  RecoveredSoFar'
<1>1. CASE UNCHANGED recoveries
  BY <1>1 DEF recoveries, RecoveredSoFar
<1>2. ASSUME NEW r \in Recoveries, RecoveryAsked(r) \/ RejectRecovery(r) \/ CreateTransfer(r)
      PROVE  RecoveredSoFar'
  BY <1>2
  DEF RecoveryAsked, RejectRecovery, CreateTransfer, RecoveredSoFar, RecoveryStatuses,
      OpenRecovery, Complete, TypeOK
<1>3. ASSUME NEW a \in Staff, VerifySaves(a)
      PROVE  RecoveredSoFar'
  <2>1. action[a].on \in Recoveries
    BY <1>3 DEF VerifySaves, TypeOK, ActionStates, RowActs
  <2>2. QED BY <1>3, <2>1 DEF VerifySaves, RecoveredSoFar, RecoveryStatuses, OpenRecovery, TypeOK
<1>4. CASE Blocklink \/ StaffActs \/ Spend \/ Clears
  <2>1. UNCHANGED recoveries
    BY <1>4
    DEF Blocklink, ChainMoves, CallbackRead, CallbackCreate, CallbackApply, CallbackDies,
        StaffActs, AcceptDeposit, SaveForm, StaffReads, Reads, RejectDeposit, RevertLocks,
        RevertPosts, Reaccept, Spend, Clears, ClearReads, ClearPosts
  <2>2. QED BY <1>1, <2>1
<1>5. ASSUME NEW a \in Staff, NEW r \in Recoveries, VerifyReads(a, r)
      PROVE  RecoveredSoFar'
  BY <1>1, <1>5 DEF VerifyReads, Reads
<1>6. ASSUME NEW r \in Recoveries, NEW s \in RecoveryStatuses, SaveRecoveryForm(r, s)
      PROVE  RecoveredSoFar'
  BY <1>6 DEF SaveRecoveryForm, RecoveredSoFar, TypeOK
<1>7. QED BY <1>2, <1>3, <1>4, <1>5, <1>6 DEF Next, Recovers

-----------------------------------------------------------------------------
(* The customer's coins.                                                      *)

Posting(d) == [act |-> "postDebt", on |-> d]

(* No revert decides for a debt in this step. *)
NoNewDebtor ==
  \A a \in Staff, d \in Deposits : action'[a] = Posting(d) => action[a] = Posting(d)

(* There are finitely many of both, and no more debtors than credited rows.   *)
LEMMA FiniteCounts ==
  /\ IsFiniteSet(Charged) /\ IsFiniteSet(Debtors)
  /\ Cardinality(Charged) \in Nat /\ Cardinality(Debtors) \in Nat
  /\ Cardinality(Debtors) <= Cardinality(Charged)
<1>1. Charged \subseteq Deposits /\ Debtors \subseteq Charged
  BY DEF Charged, Debtors
<1>2. IsFiniteSet(Charged) /\ IsFiniteSet(Debtors)
  BY <1>1, DepositAssumption, FS_Subset
<1>3. QED BY <1>1, <1>2, FS_CardinalityType, FS_Subset

(* The same in the next state. *)
LEMMA FiniteCountsNext ==
  /\ IsFiniteSet(Charged') /\ IsFiniteSet(Debtors')
  /\ Cardinality(Charged') \in Nat /\ Cardinality(Debtors') \in Nat
  /\ Cardinality(Debtors') <= Cardinality(Charged')
<1>1. Charged' \subseteq Deposits /\ Debtors' \subseteq Charged'
  BY DEF Charged, Debtors
<1>2. IsFiniteSet(Charged') /\ IsFiniteSet(Debtors')
  BY <1>1, DepositAssumption, FS_Subset
<1>3. QED BY <1>1, <1>2, FS_CardinalityType, FS_Subset

(* The amounts of a step are numbers.                                         *)
LEMMA Amounts ==
  ASSUME IInv, TypeOK'
  PROVE  /\ wallet \in Nat /\ debt \in Nat /\ spent \in Nat
         /\ wallet' \in Nat /\ debt' \in Nat /\ spent' \in Nat
         /\ Covered /\ Owed
BY DepositAssumption DEF IInv, TypeOK

(* A step that neither credits nor reverts, and takes coins only by spending  *)
(* them or paying with them what is owed.                                     *)
LEMMA QuietKeeps ==
  ASSUME IInv, TypeOK', NoNewDebtor, funds' = funds,
         wallet + spent + debt' <= wallet' + spent' + debt,
         spent + debt' <= spent' + debt
  PROVE  Covered' /\ Owed'
<1>1. Charged' = Charged
  BY DEF Charged
<1>2. Debtors' \subseteq Debtors
  BY <1>1 DEF Debtors, NoNewDebtor, Posting, Charged
<1>3. Cardinality(Debtors') <= Cardinality(Debtors)
  BY <1>2, FiniteCounts, FS_Subset
<1>4. Covered'
  BY <1>1, Amounts, FiniteCounts DEF Covered
<1>5. Owed'
  BY <1>3, Amounts, FiniteCounts, FiniteCountsNext DEF Owed
<1>6. QED BY <1>4, <1>5

(* A deposit is credited; no revert has its row. *)
LEMMA CreditKeeps ==
  ASSUME IInv, TypeOK', NoNewDebtor, NEW d \in Deposits, RowFree(d),
         funds[d] = "none", funds' = [funds EXCEPT ![d] = "charged"],
         wallet' = wallet + 1, UNCHANGED <<debt, spent>>
  PROVE  Covered' /\ Owed'
<1>1. Charged' = Charged \cup {d} /\ d \notin Charged
  BY DEF Charged, IInv, TypeOK
<1>2. Cardinality(Charged') = Cardinality(Charged) + 1
  BY <1>1, FiniteCounts, FS_AddElement
<1>3. Debtors' \subseteq Debtors
  <2>1. ASSUME NEW e \in Charged', NEW a \in Staff, action'[a] = Posting(e)
        PROVE  e \in Debtors
    <3>1. action[a] = Posting(e) /\ e \in Deposits
      BY <2>1 DEF NoNewDebtor, Charged
    <3>2. action[a] # None
      BY <3>1, NoneAssumption DEF Posting, ActionStates, RowActs
    <3>3. e # d
      BY <3>1, <3>2 DEF RowFree, Posting
    <3>4. QED BY <1>1, <3>1, <3>3 DEF Debtors, Posting
  <2>2. QED BY <2>1 DEF Debtors, Posting
<1>4. Cardinality(Debtors') <= Cardinality(Debtors)
  BY <1>3, FiniteCounts, FS_Subset
<1>5. Covered'
  BY <1>2, Amounts, FiniteCounts DEF Covered
<1>6. Owed'
  BY <1>4, Amounts, FiniteCounts, FiniteCountsNext DEF Owed
<1>7. QED BY <1>5, <1>6

(* The handlers that may credit a deposit. *)
LEMMA AcceptKeeps ==
  ASSUME IInv, TypeOK', NoNewDebtor, NEW d \in Deposits, RowFree(d),
         Accept(d) \/ Reject(d) \/ \E s \in Statuses : SetOpen(d, s),
         UNCHANGED <<debt, spent>>
  PROVE  Covered' /\ Owed'
<1>1. CASE UNCHANGED <<funds, wallet>>
  BY <1>1, QuietKeeps DEF IInv, TypeOK
<1>2. CASE ~ UNCHANGED <<funds, wallet>>
  <2>1. /\ funds[d] = "none" /\ funds' = [funds EXCEPT ![d] = "charged"]
        /\ wallet' = wallet + 1
    BY <1>2 DEF Accept, Reject, SetOpen
  <2>2. QED BY <2>1, CreditKeeps
<1>3. QED BY <1>1, <1>2

(* A revert that locks the row of a credited deposit finds the wallet empty:  *)
(* its coin, like those of the other reverts at work, was spent.              *)
LEMMA LocksKeep ==
  ASSUME IInv, TypeOK', NEW a \in Staff, RevertLocks(a)
  PROVE  Covered' /\ Owed'
<1>1. UNCHANGED <<funds, wallet, debt, spent>>
  BY DEF RevertLocks, rows, coins
<1>2. PICK d \in Deposits : d = action[a].on
  BY DEF RevertLocks, IInv, TypeOK, ActionStates, RowActs
<1>3. CASE action'[a] # Posting(d)
  <2>1. NoNewDebtor
    BY <1>2, <1>3, NoneAssumption
    DEF NoNewDebtor, Posting, RevertLocks, IInv, TypeOK, ActionStates, RowActs
  <2>2. QED BY <1>1, <2>1, Amounts, QuietKeeps
<1>4. CASE action'[a] = Posting(d)
  <2>1. wallet = 0
    BY <1>2, <1>4, NoneAssumption, Amounts
    DEF RevertLocks, Posting, IInv, TypeOK, ActionStates, RowActs
  <2>2. Charged' = Charged
    BY <1>1 DEF Charged
  <2>3. Cardinality(Charged) + debt <= spent
    BY <2>1, Amounts, FiniteCounts DEF Covered
  <2>4. QED
    BY <1>1, <2>2, <2>3, Amounts, FiniteCounts, FiniteCountsNext DEF Covered, Owed
<1>5. QED BY <1>3, <1>4

(* When the revert posts, the coin leaves the wallet, or what was set apart   *)
(* for it becomes the debt.                                                   *)
LEMMA PostsKeep ==
  ASSUME IInv, TypeOK', NEW a \in Staff, RevertPosts(a)
  PROVE  Covered' /\ Owed'
<1>1. PICK d \in Deposits : d = action[a].on
  BY DEF RevertPosts, IInv, TypeOK, ActionStates, RowActs
<1>2. action[a] = [act |-> action[a].act, on |-> d] /\ spent' = spent
  BY <1>1 DEF RevertPosts, IInv, TypeOK, ActionStates, RowActs
<1>3. NoNewDebtor
  BY NoneAssumption
  DEF NoNewDebtor, Posting, RevertPosts, Done, IInv, TypeOK, ActionStates, RowActs
<1>4. CASE UNCHANGED <<funds, wallet, debt>>
  BY <1>2, <1>3, <1>4, Amounts, QuietKeeps
<1>5. CASE ~ UNCHANGED <<funds, wallet, debt>>
  <2>1. /\ funds[d] = "charged"
        /\ funds' = [funds EXCEPT ![d] = "reverted"]
        /\ \/ wallet' = wallet - 1 /\ debt' = debt
           \/ action[a].act = "postDebt" /\ debt' = debt + 1 /\ wallet' = wallet
    BY <1>1, <1>5 DEF RevertPosts, rows, IInv, TypeOK
  <2>2. Charged' = Charged \ {d} /\ d \in Charged
    BY <2>1 DEF Charged, IInv, TypeOK
  <2>3. Cardinality(Charged') = Cardinality(Charged) - 1
    BY <2>2, FiniteCounts, FS_RemoveElement
  <2>4. Covered'
    BY <1>2, <2>1, <2>3, Amounts, FiniteCounts DEF Covered
  <2>5. Debtors' \subseteq Debtors \ {d}
    BY <1>3, <2>2 DEF Debtors, NoNewDebtor, Posting, Charged
  <2>6. CASE debt' = debt
    <3>1. Cardinality(Debtors') <= Cardinality(Debtors)
      BY <2>5, FiniteCounts, FS_Subset
    <3>2. Owed'
      BY <1>2, <2>6, <3>1, Amounts, FiniteCounts, FiniteCountsNext DEF Owed
    <3>3. QED BY <2>4, <3>2
  <2>7. CASE action[a].act = "postDebt" /\ debt' = debt + 1
    <3>1. d \in Debtors
      BY <1>2, <2>2, <2>7 DEF Debtors
    <3>2. Cardinality(Debtors \ {d}) = Cardinality(Debtors) - 1 /\ IsFiniteSet(Debtors \ {d})
      BY <3>1, FiniteCounts, FS_RemoveElement
    <3>3. Cardinality(Debtors') <= Cardinality(Debtors \ {d})
      BY <2>5, <3>2, FS_Subset
    <3>4. Owed'
      BY <1>2, <2>7, <3>2, <3>3, Amounts, FiniteCounts, FiniteCountsNext DEF Owed
    <3>5. QED BY <2>4, <3>4
  <2>8. QED BY <2>1, <2>6, <2>7
<1>6. QED BY <1>4, <1>5

(* The staff. *)
LEMMA StaffKeeps ==
  ASSUME IInv, TypeOK', StaffActs
  PROVE  Covered' /\ Owed'
<1>1. ASSUME NEW d \in Deposits, AcceptDeposit(d)
      PROVE  Covered' /\ Owed'
  <2>1. NoNewDebtor
    BY <1>1 DEF AcceptDeposit, pending, NoNewDebtor
  <2>2. QED BY <1>1, <2>1, AcceptKeeps DEF AcceptDeposit
<1>2. ASSUME NEW d \in Deposits, NEW s \in Statuses, SaveForm(d, s)
      PROVE  Covered' /\ Owed'
  <2>1. NoNewDebtor
    BY <1>2 DEF SaveForm, pending, NoNewDebtor
  <2>2. CASE s = "DONE" /\ status[d] \notin Complete
    BY <1>2, <2>1, <2>2, CreditKeeps DEF SaveForm
  <2>3. CASE ~ (s = "DONE" /\ status[d] \notin Complete)
    BY <1>2, <2>1, <2>3, Amounts, QuietKeeps DEF SaveForm
  <2>4. QED BY <2>2, <2>3
<1>3. ASSUME NEW a \in Staff, NEW d \in Deposits, StaffReads(a, d)
      PROVE  Covered' /\ Owed'
  <2>1. NoNewDebtor
    BY <1>3 DEF StaffReads, Reads, NoNewDebtor, Posting, IInv, TypeOK
  <2>2. UNCHANGED <<funds, wallet, debt, spent>>
    BY <1>3 DEF StaffReads, Reads, rows, coins
  <2>3. QED BY <2>1, <2>2, Amounts, QuietKeeps
<1>4. ASSUME NEW a \in Staff, RejectDeposit(a) \/ Reaccept(a)
      PROVE  Covered' /\ Owed'
  <2>1. PICK d \in Deposits : d = action[a].on
    BY <1>4 DEF RejectDeposit, Reaccept, IInv, TypeOK, ActionStates, RowActs
  <2>2. NoNewDebtor
    BY <1>4, NoneAssumption
    DEF RejectDeposit, Reaccept, Done, NoNewDebtor, Posting, IInv, TypeOK, ActionStates, RowActs
  <2>3. RowFree(d) /\ UNCHANGED <<debt, spent>>
    BY <1>4, <2>1 DEF RejectDeposit, Reaccept
  <2>4. CASE UNCHANGED <<funds, wallet>>
    BY <2>2, <2>3, <2>4, Amounts, QuietKeeps
  <2>5. CASE ~ UNCHANGED <<funds, wallet>>
    <3>1. /\ funds[d] = "none" /\ funds' = [funds EXCEPT ![d] = "charged"]
          /\ wallet' = wallet + 1
      BY <1>4, <2>1, <2>5 DEF RejectDeposit, Reject, Reaccept, rows
    <3>2. QED BY <2>2, <2>3, <3>1, CreditKeeps
  <2>6. QED BY <2>4, <2>5
<1>5. QED BY <1>1, <1>2, <1>3, <1>4, LocksKeep, PostsKeep DEF StaffActs

(* A step keeps the customer's coins accounted for. *)
LEMMA NextKeeps ==
  ASSUME IInv, TypeOK', Next
  PROVE  Covered' /\ Owed'
<1>1. CASE StaffActs
  BY <1>1, StaffKeeps
<1>2. CASE Spend \/ Clears
  <2>1. NoNewDebtor /\ funds' = funds
    BY <1>2 DEF Spend, Clears, ClearReads, ClearPosts, rows, pending, NoNewDebtor
  <2>2. CASE Spend
    BY <2>1, <2>2, Amounts, QuietKeeps DEF Spend
  <2>3. CASE Clears
    <3>1. PICK k \in Clearers : ClearReads(k) \/ ClearPosts(k)
      BY <2>3 DEF Clears
    <3>2. clearing[k] \in Nat /\ spent' = spent
      BY <3>1 DEF ClearReads, ClearPosts, coins, IInv, TypeOK
    <3>3. \/ wallet' = wallet /\ debt' = debt
          \/ wallet' = wallet - clearing[k] /\ debt' = debt - clearing[k]
      BY <3>1 DEF ClearReads, ClearPosts, coins
    <3>4. QED BY <2>1, <3>2, <3>3, Amounts, QuietKeeps
  <2>4. QED BY <1>2, <2>2, <2>3
<1>3. CASE Recovers
  <2>1. NoNewDebtor
    BY <1>3, NoneAssumption
    DEF Recovers, RecoveryAsked, RejectRecovery, CreateTransfer, SaveRecoveryForm, VerifyReads,
        Reads, VerifySaves, Done, pending, NoNewDebtor, Posting, IInv, TypeOK, ActionStates, RowActs
  <2>2. UNCHANGED <<funds, debt, spent>> /\ (wallet' = wallet \/ wallet' = wallet + 1)
    BY <1>3
    DEF Recovers, RecoveryAsked, RejectRecovery, CreateTransfer, SaveRecoveryForm, VerifyReads,
        Reads, VerifySaves, rows, coins
  <2>3. QED BY <2>1, <2>2, Amounts, QuietKeeps
<1>4. CASE Blocklink
  <2>1. ASSUME NEW c \in Callbacks, CallbackApply(c)
        PROVE  Covered' /\ Owed'
    <3>1. PICK d \in Deposits : d = callback[c].deposit
      BY <2>1 DEF CallbackApply, IInv, TypeOK, CallbackStates
    <3>2. NoNewDebtor /\ RowFree(d) /\ UNCHANGED <<debt, spent>>
      BY <2>1, <3>1 DEF CallbackApply, NoNewDebtor
    <3>3. Accept(d) \/ Reject(d) \/ \E s \in Statuses : SetOpen(d, s)
      BY <2>1, <3>1 DEF CallbackApply, Statuses
    <3>4. QED BY <3>2, <3>3, AcceptKeeps
  <2>2. CASE ~ \E c \in Callbacks : CallbackApply(c)
    <3>1. NoNewDebtor /\ UNCHANGED <<funds, wallet, debt, spent>>
      BY <1>4, <2>2
      DEF Blocklink, ChainMoves, CallbackRead, CallbackCreate, CallbackDies, rows, coins,
          pending, NoNewDebtor
    <3>2. QED BY <3>1, Amounts, QuietKeeps
  <2>3. QED BY <2>1, <2>2
<1>5. QED BY <1>1, <1>2, <1>3, <1>4 DEF Next

-----------------------------------------------------------------------------
(* The inductive invariant.                                                   *)

(* IInv is an invariant.                                                      *)
LEMMA AlwaysIInv == Spec => []IInv
<1>1. Init => IInv
  <2>1. ASSUME Init PROVE TypeOK /\ DoneIffCredited /\ RecoveredSoFar
    BY <2>1, DepositAssumption DEF Init, TypeOK, DoneIffCredited, RecoveredSoFar
  <2>2. ASSUME Init PROVE Charged = {} /\ Debtors = {}
    BY <2>2 DEF Init, Charged, Debtors
  <2>3. ASSUME Init PROVE Covered /\ Owed
    BY <2>2, <2>3, FS_EmptySet DEF Init, Covered, Owed
  <2>4. QED BY <2>1, <2>3 DEF IInv
<1>2. IInv /\ [Next]_vars => IInv'
  <2>1. ASSUME IInv, Next PROVE IInv'
    <3>1. TypeOK'
      BY <2>1, NextTyped DEF IInv
    <3>2. DoneIffCredited' /\ RecoveredSoFar'
      BY <2>1, NextAgrees, NextRecovers DEF IInv
    <3>3. Covered' /\ Owed'
      BY <2>1, <3>1, NextKeeps
    <3>4. QED BY <3>1, <3>2, <3>3 DEF IInv
  <2>2. ASSUME IInv, UNCHANGED vars PROVE IInv'
    BY <2>2
    DEF vars, rows, coins, recoveries, pending, form, IInv, TypeOK, DoneIffCredited,
        RecoveredSoFar, Covered, Owed, Charged, Debtors
  <2>3. QED BY <2>1, <2>2
<1>3. QED BY <1>1, <1>2, PTL DEF Spec

(* Every reachable state is well typed; the wallets keep their constraints.   *)
THEOREM TypeCorrect == Spec => []TypeOK
<1>1. IInv => TypeOK
  BY DEF IInv
<1>2. QED BY <1>1, AlwaysIInv, PTL

(* A deposit is DONE exactly when it is credited, for any number of callbacks *)
(* and staff who work on copies of its row.                                   *)
THEOREM DoneAlwaysCredited == Spec => []DoneIffCredited
<1>1. IInv => DoneIffCredited
  BY DEF IInv
<1>2. QED BY <1>1, AlwaysIInv, PTL

(* A recovery is credited once, unless it is opened again: by a verification  *)
(* decided before it was closed, or by its form.                              *)
THEOREM RecoveredAtMostOnce == Spec => []RecoveredOnce
<1>1. IInv => RecoveredOnce
  BY DEF IInv, TypeOK, RecoveredSoFar, RecoveredOnce
<1>2. QED BY <1>1, AlwaysIInv, PTL

(* Refunds never make a customer owe more than was spent. *)
THEOREM DebtsAlwaysSpent == Spec => []DebtsWereSpent
<1>1. IInv => DebtsWereSpent
  BY FiniteCounts, DepositAssumption DEF IInv, TypeOK, Owed, DebtsWereSpent
<1>2. QED BY <1>1, AlwaysIInv, PTL

(* Every deposit is credited at most once and reverted at most once.          *)
THEOREM DepositsSettled == Spec => CreditedOnce
<1>1. Init => Promise!Init
  BY DEF Init, Promise!Init
<1>2. IInv /\ [Next]_vars => [Promise!Next]_<<funds, {}>>
  <2>1. ASSUME IInv, Next PROVE [Promise!Next]_<<funds, {}>>
    <3>1. UNCHANGED rows \/ \A d \in Deposits : Lawful(d)
      BY <2>1, NextRows DEF IInv, RowStep
    <3>2. QED BY <3>1 DEF rows, Lawful, Promise!Next
  <2>2. CASE UNCHANGED vars
    BY <2>2 DEF vars, rows
  <2>3. QED BY <2>1, <2>2
<1>3. QED BY AlwaysIInv, <1>1, <1>2, PTL DEF Spec, CreditedOnce, Promise!Spec
=============================================================================
