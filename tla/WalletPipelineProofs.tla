------------------------ MODULE WalletPipelineProofs ------------------------
(***************************************************************************)
(* Proofs about WalletPipeline.tla for every set of wallets, keys and      *)
(* concurrent transactions: its types, and that the CHECK constraints,     *)
(* evaluated when a row is updated, still hold of what is committed later. *)
(* The last part proves that the sorted order in which rows are written    *)
(* never leaves a set of pipelines waiting for each other.                 *)
(***************************************************************************)
EXTENDS WalletPipeline, SumTheorems, FiniteSetTheorems, TLAPS

(* A lock row as it may stand in a buffer or in the database. *)
AnyLockRow == [wallet : Wallets, amount : Int]

LEMMA AmountFacts == Amounts \subseteq Int /\ Amounts \subseteq Nat
  BY ConstantsAssumption

LEMMA InitTypeOK == Init => TypeOK
  <1> SUFFICES ASSUME Init PROVE TypeOK
    OBVIOUS
  <1>1. lockRow \in [Keys -> AnyLockRow \cup {NoLock}]
    BY OpeningAssumption DEF Init, LockRows, AnyLockRow
  <1>2. EmptyBuffer \in Buffers
    BY DEF EmptyBuffer, Buffers
  <1>3. balance \in [Wallets -> Int] /\ locked \in [Wallets -> Int]
    BY OpeningAssumption DEF Init
  <1> QED
    BY <1>1, <1>2, <1>3 DEF Init, TypeOK, AnyLockRow

LEMMA PlusType ==
  ASSUME NEW S, NEW f \in [S -> Int], NEW x \in S, NEW d \in Int
  PROVE  Plus(f, x, d) \in [S -> Int]
  BY DEF Plus

LEMMA PutType ==
  ASSUME NEW S, NEW T, NEW f \in [S -> T], NEW x \in S, NEW v \in T
  PROVE  Put(f, x, v) \in [S -> T]
  BY DEF Put

(* Replacing fields of well-formed buffers by well-formed fields. *)
LEMMA BufferFields ==
  ASSUME NEW b \in Buffers
  PROVE  /\ b.bal \in [Wallets -> Int] /\ b.lck \in [Wallets -> Int]
         /\ b.rel \in [Keys -> Int] /\ b.new \in [Keys -> AnyLockRow \cup {NoLock}]
         /\ b.trx \in [TrxKeys -> Nat]
         /\ \A n \in [Keys -> AnyLockRow \cup {NoLock}], l \in [Wallets -> Int] :
              [b EXCEPT !.new = n, !.lck = l] \in {c \in Buffers : c.rel = b.rel}
         /\ \A r \in [Keys -> Int], l \in [Wallets -> Int] :
              [b EXCEPT !.rel = r, !.lck = l] \in {c \in Buffers : c.rel = r}
         /\ \A t \in [TrxKeys -> Nat], l \in [Wallets -> Int] :
              [b EXCEPT !.trx = t, !.bal = l] \in {c \in Buffers : c.rel = b.rel}
         /\ [b EXCEPT !.ops = @ + 1] \in Buffers
  <1>1. /\ b.bal \in [Wallets -> Int] /\ b.lck \in [Wallets -> Int]
        /\ b.rel \in [Keys -> Int] /\ b.new \in [Keys -> AnyLockRow \cup {NoLock}]
        /\ b.trx \in [TrxKeys -> Nat]
    BY DEF Buffers, AnyLockRow
  <1>2. \A n \in [Keys -> AnyLockRow \cup {NoLock}], l \in [Wallets -> Int] :
          [b EXCEPT !.new = n, !.lck = l] \in {c \in Buffers : c.rel = b.rel}
    BY DEF Buffers, AnyLockRow
  <1>3. \A r \in [Keys -> Int], l \in [Wallets -> Int] :
          [b EXCEPT !.rel = r, !.lck = l] \in {c \in Buffers : c.rel = r}
    BY DEF Buffers
  <1>4. \A t \in [TrxKeys -> Nat], l \in [Wallets -> Int] :
          [b EXCEPT !.trx = t, !.bal = l] \in {c \in Buffers : c.rel = b.rel}
    BY DEF Buffers
  <1>5. [b EXCEPT !.ops = @ + 1] \in Buffers
    BY DEF Buffers
  <1> QED
    BY <1>1, <1>2, <1>3, <1>4, <1>5

(* Each operation of a body leaves well-formed buffers, in which a lock is    *)
(* released only if it exists.                                                *)
AfterBody(p, c) ==
  /\ BodyStep(p, c)
  /\ \A k \in Keys : c.rel[k] # buf[p].rel[k] => lockRow[k] # NoLock

LEMMA BodyBuffers ==
  ASSUME TypeOK, NEW p \in Txns, Body(p)
  PROVE  \E c \in Buffers : AfterBody(p, c)
  <1> DEFINE b == buf[p]
  <1>0. b \in Buffers /\ lockRow \in [Keys -> AnyLockRow \cup {NoLock}]
    BY DEF TypeOK, AnyLockRow
  <1>f. /\ b.bal \in [Wallets -> Int] /\ b.lck \in [Wallets -> Int]
        /\ b.rel \in [Keys -> Int] /\ b.new \in [Keys -> AnyLockRow \cup {NoLock}]
        /\ b.trx \in [TrxKeys -> Nat]
    BY <1>0, BufferFields
  <1> HIDE DEF b
  <1>2. ASSUME NEW k \in Keys, NEW w \in Wallets, NEW a \in Amounts, NewLock(p, k, w, a)
        PROVE  \E c \in Buffers : AfterBody(p, c)
    <2> DEFINE n == Put(b.new, k, [wallet |-> w, amount |-> a])
               l == Plus(b.lck, w, a)
    <2>1. n \in [Keys -> AnyLockRow \cup {NoLock}]
      BY <1>f, AmountFacts, PutType DEF AnyLockRow
    <2>2. l \in [Wallets -> Int]
      BY <1>f, AmountFacts, PlusType
    <2>3. [b EXCEPT !.new = n, !.lck = l] \in {c \in Buffers : c.rel = b.rel}
      BY <1>0, <2>1, <2>2, BufferFields
    <2>4. BodyStep(p, b) \/ BodyStep(p, [b EXCEPT !.new = n, !.lck = l])
      BY <1>2 DEF NewLock, b
    <2> QED
      BY <1>0, <2>3, <2>4 DEF AfterBody, b
  <1>3. ASSUME NEW k \in Keys, NEW a \in Int, b.new[k] # NoLock
        PROVE  ReducePending(b, k, a) \in {c \in Buffers : c.rel = b.rel}
    <2> DEFINE r == b.new[k]
               s == IF r.amount = a THEN NoLock ELSE [r EXCEPT !.amount = @ - a]
               n == Put(b.new, k, s)
               l == Plus(b.lck, r.wallet, -a)
    <2>1. r \in AnyLockRow
      BY <1>f, <1>3
    <2>2. s \in AnyLockRow \cup {NoLock} /\ r.wallet \in Wallets /\ -a \in Int
      BY <2>1 DEF AnyLockRow
    <2>3. n \in [Keys -> AnyLockRow \cup {NoLock}]
      BY <1>f, <2>2, PutType
    <2>4. l \in [Wallets -> Int]
      BY <1>f, <2>2, PlusType
    <2>5. [b EXCEPT !.new = n, !.lck = l] \in {c \in Buffers : c.rel = b.rel}
      BY <1>0, <2>3, <2>4, BufferFields
    <2> QED
      BY <2>5 DEF ReducePending
  <1>4. ASSUME NEW k \in Keys, NEW a \in Int, lockRow[k] # NoLock
        PROVE  ReduceCommitted(b, k, a) \in {c \in Buffers : c.rel = Plus(b.rel, k, -a)}
    <2> DEFINE r == Plus(b.rel, k, -a)
               l == Plus(b.lck, lockRow[k].wallet, -a)
    <2>1. lockRow[k].wallet \in Wallets /\ -a \in Int
      BY <1>0, <1>4 DEF AnyLockRow
    <2>2. r \in [Keys -> Int] /\ l \in [Wallets -> Int]
      BY <1>f, <2>1, PlusType
    <2> QED
      BY <1>0, <2>2, BufferFields DEF ReduceCommitted
  <1>9. ASSUME NEW k \in Keys, NEW a \in Int, lockRow[k] # NoLock,
               BodyStep(p, ReduceCommitted(b, k, a))
        PROVE  \E c \in Buffers : AfterBody(p, c)
    <2>1. /\ ReduceCommitted(b, k, a) \in Buffers
          /\ ReduceCommitted(b, k, a).rel = Plus(b.rel, k, -a)
      BY <1>4, <1>9
    <2>2. \A j \in Keys : j # k => Plus(b.rel, k, -a)[j] = b.rel[j]
      BY <1>f DEF Plus
    <2> QED
      BY <1>9, <2>1, <2>2 DEF AfterBody, b
  <1>5. ASSUME NEW k \in Keys, ReleaseAll(p, k)
        PROVE  \E c \in Buffers : AfterBody(p, c)
    <2>1. CASE b.new[k] # NoLock /\ BodyStep(p, ReducePending(b, k, b.new[k].amount))
      <3>1. b.new[k].amount \in Int
        BY <1>f, <2>1 DEF AnyLockRow
      <3> QED
        BY <1>3, <2>1, <3>1 DEF AfterBody, b
    <2>2. CASE lockRow[k] # NoLock /\ BodyStep(p, ReduceCommitted(b, k, lockRow[k].amount + b.rel[k]))
      <3>1. lockRow[k].amount + b.rel[k] \in Int
        BY <1>0, <1>f, <2>2 DEF AnyLockRow
      <3> QED
        BY <1>4, <1>9, <2>2, <3>1
    <2> QED
      BY <1>5, <2>1, <2>2 DEF ReleaseAll, b
  <1>6. ASSUME NEW k \in Keys, NEW a \in Amounts, ReleasePart(p, k, a)
        PROVE  \E c \in Buffers : AfterBody(p, c)
    <2>1. CASE b.new[k] # NoLock /\ BodyStep(p, ReducePending(b, k, a))
      BY <1>3, <2>1, AmountFacts DEF AfterBody, b
    <2>2. CASE lockRow[k] # NoLock /\ BodyStep(p, ReduceCommitted(b, k, a))
      BY <1>9, <2>2, AmountFacts
    <2> QED
      BY <1>6, <2>1, <2>2 DEF ReleasePart, b
  <1>7. ASSUME NEW t \in TrxKeys, NEW a \in Amounts, NewTrx(p, t, a)
        PROVE  \E c \in Buffers : AfterBody(p, c)
    <2> DEFINE u == Plus(b.trx, t, a)
               l == Plus(Plus(b.bal, t.sender, -a), t.receiver, a)
    <2>a. a \in Nat /\ -a \in Int
      BY AmountFacts
    <2>1. t.sender \in Wallets /\ t.receiver \in Wallets
      BY DEF TrxKeys
    <2>b. Plus(b.bal, t.sender, -a) \in [Wallets -> Int]
      BY <1>f, <2>a, <2>1, PlusType
    <2>2. l \in [Wallets -> Int]
      BY <2>a, <2>b, <2>1, PlusType
    <2>3. u \in [TrxKeys -> Nat]
      <3>1. b.trx[t] + a \in Nat
        BY <1>f, <2>a
      <3> QED
        BY <1>f, <3>1 DEF Plus
    <2>4. [b EXCEPT !.trx = u, !.bal = l] \in {c \in Buffers : c.rel = b.rel}
      BY <1>0, <2>2, <2>3, BufferFields
    <2> QED
      BY <1>7, <2>4 DEF NewTrx, AfterBody, b
  <1> QED
    BY <1>2, <1>5, <1>6, <1>7 DEF Body

(* The invariant that is preserved by every step: the types, the constraints  *)
(* on the committed rows, and that held rows passed their check for the       *)
(* values that are committed now.                                             *)
IInv == TypeOK /\ Solvent /\ HeldRowsChecked

(* What Commit writes, in terms of the buffers. *)
LEMMA CommitEffect ==
  ASSUME NEW p \in Txns, Commit(p)
  PROVE  /\ balance' = [w \in Wallets |-> balance[w] + buf[p].bal[w]]
         /\ locked' = [w \in Wallets |-> locked[w] + buf[p].lck[w]]
         /\ \A k \in Keys :
              /\ buf[p].new[k] # NoLock => lockRow'[k] = buf[p].new[k]
              /\ buf[p].new[k] = NoLock /\ buf[p].rel[k] # 0 =>
                   lockRow'[k] = [lockRow[k] EXCEPT !.amount = @ + buf[p].rel[k]]
              /\ buf[p].new[k] = NoLock /\ buf[p].rel[k] = 0 => lockRow'[k] = lockRow[k]
         /\ lockRow' = [k \in Keys |-> lockRow'[k]]
         /\ trx' = trx \cup PostedEntries(p)
         /\ pc[p] = "execute"
         /\ \E o \in {"committed", "committed, raised"} : pc' = [pc EXCEPT ![p] = o]
         /\ UNCHANGED <<doomed, buf>>
         /\ InsertsValid(p)
         /\ LockRowsToWrite(p) = {} /\ WalletsToWrite(p) = {}
  BY DEF Commit, AllRowsWritten

(* Rolling back or committing gives up the rows of p and no other. *)
GivesUpRows(p) ==
  /\ lockHolder' = [k \in Keys |-> IF lockHolder[k] = p THEN NoTxn ELSE lockHolder[k]]
  /\ walletHolder' = [w \in Wallets |-> IF walletHolder[w] = p THEN NoTxn ELSE walletHolder[w]]

LEMMA EndGivesUpRows ==
  ASSUME NEW p \in Txns, Rollback(p) \/ Commit(p)
  PROVE  GivesUpRows(p)
  BY DEF Rollback, Commit, GivesUpRows

LEMMA RowsGivenUp ==
  ASSUME IInv, NEW p \in Txns, Rollback(p) \/ Commit(p)
  PROVE  /\ \A q \in Txns, w \in Wallets :
              walletHolder'[w] = q => q # p /\ walletHolder[w] = q
         /\ \A q \in Txns, k \in Keys :
              lockHolder'[k] = q => q # p /\ lockHolder[k] = q
  <1>1. NoTxn \notin Txns
    BY ConstantsAssumption
  <1>2. GivesUpRows(p)
    BY EndGivesUpRows
  <1> QED
    BY <1>1, <1>2 DEF GivesUpRows

LEMMA PostedEntriesType ==
  ASSUME TypeOK, NEW p \in Txns
  PROVE  PostedEntries(p) \subseteq [sender : Wallets, receiver : Wallets,
                                     group : Groups, amount : Nat \ {0}]
  <1>1. buf[p].trx \in [TrxKeys -> Nat]
    BY BufferFields DEF TypeOK
  <1>2. ASSUME NEW t \in TrxKeys, buf[p].trx[t] # 0
        PROVE  [sender |-> t.sender, receiver |-> t.receiver, group |-> t.group,
                amount |-> buf[p].trx[t]]
                 \in [sender : Wallets, receiver : Wallets, group : Groups, amount : Nat \ {0}]
    <2>1. t.sender \in Wallets /\ t.receiver \in Wallets /\ t.group \in Groups
      BY DEF TrxKeys
    <2>2. buf[p].trx[t] \in Nat \ {0}
      BY <1>1, <1>2
    <2> QED
      BY <2>1, <2>2
  <1> QED
    BY <1>2 DEF PostedEntries

LEMMA StepTypeOK ==
  ASSUME IInv, [Next]_vars
  PROVE  TypeOK'
  <1>0. TypeOK /\ HeldRowsChecked
    BY DEF IInv
  <1>1. CASE UNCHANGED vars
    BY <1>0, <1>1 DEF vars, TypeOK
  <1>2. ASSUME NEW p \in Txns, Enter(p) PROVE TypeOK'
    <2>1. EmptyBuffer \in Buffers
      BY DEF EmptyBuffer, Buffers
    <2> QED
      BY <1>0, <1>2, <2>1 DEF Enter, db, holders, TypeOK
  <1>3. ASSUME NEW p \in Txns, Body(p) PROVE TypeOK'
    <2>1. PICK c \in Buffers : BodyStep(p, c)
      BY <1>0, <1>3, BodyBuffers DEF AfterBody
    <2>2. [c EXCEPT !.ops = @ + 1] \in Buffers
      BY BufferFields
    <2> QED
      BY <1>0, <2>1, <2>2 DEF BodyStep, db, holders, TypeOK
  <1>4. ASSUME NEW p \in Txns, Leave(p) PROVE TypeOK'
    BY <1>0, <1>4 DEF Leave, Exit, db, holders, TypeOK
  <1>5. ASSUME NEW p \in Txns, NEW k \in Keys, UpdateLockRow(p, k) PROVE TypeOK'
    BY <1>0, <1>5 DEF UpdateLockRow, db, TypeOK
  <1>6. ASSUME NEW p \in Txns, NEW w \in Wallets, UpdateWallet(p, w) PROVE TypeOK'
    BY <1>0, <1>6 DEF UpdateWallet, db, TypeOK
  <1>7. ASSUME NEW p \in Txns, Rollback(p) PROVE TypeOK'
    BY <1>0, <1>7 DEF Rollback, db, TypeOK
  <1>8. ASSUME NEW p \in Txns, Commit(p) PROVE TypeOK'
    <2>1. /\ buf[p].bal \in [Wallets -> Int] /\ buf[p].lck \in [Wallets -> Int]
          /\ buf[p].rel \in [Keys -> Int]
          /\ buf[p].new \in [Keys -> AnyLockRow \cup {NoLock}]
      BY <1>0, BufferFields DEF TypeOK
    <2>2. balance' \in [Wallets -> Int] /\ locked' \in [Wallets -> Int]
      <3>0. balance \in [Wallets -> Int] /\ locked \in [Wallets -> Int]
        BY <1>0 DEF TypeOK
      <3>1. ASSUME NEW w \in Wallets
            PROVE  balance[w] + buf[p].bal[w] \in Int /\ locked[w] + buf[p].lck[w] \in Int
        BY <2>1, <3>0
      <3>2. /\ balance' = [w \in Wallets |-> balance[w] + buf[p].bal[w]]
            /\ locked' = [w \in Wallets |-> locked[w] + buf[p].lck[w]]
        BY <1>8, CommitEffect
      <3> QED
        BY <3>1, <3>2
    <2>3. ASSUME NEW k \in Keys PROVE lockRow'[k] \in AnyLockRow \cup {NoLock}
      <3>0. lockRow[k] \in AnyLockRow \cup {NoLock}
        BY <1>0 DEF TypeOK, AnyLockRow
      <3>1. CASE buf[p].new[k] # NoLock
        BY <1>8, <2>1, <3>1, CommitEffect
      <3>2. CASE buf[p].new[k] = NoLock /\ buf[p].rel[k] # 0
        <4>1. lockRow[k] \in AnyLockRow
          BY <1>0, <3>0, <3>2 DEF HeldRowsChecked
        <4>2. [lockRow[k] EXCEPT !.amount = @ + buf[p].rel[k]] \in AnyLockRow
          BY <2>1, <4>1 DEF AnyLockRow
        <4> QED
          BY <1>8, <3>2, <4>2, CommitEffect
      <3>3. CASE buf[p].new[k] = NoLock /\ buf[p].rel[k] = 0
        BY <1>8, <3>0, <3>3, CommitEffect
      <3> QED
        BY <3>1, <3>2, <3>3
    <2>4. lockRow' \in [Keys -> AnyLockRow \cup {NoLock}]
      BY <1>8, <2>3, CommitEffect
    <2>5. trx' \subseteq [sender : Wallets, receiver : Wallets, group : Groups,
                          amount : Nat \ {0}]
      BY <1>0, <1>8, PostedEntriesType, CommitEffect DEF TypeOK
    <2>6. /\ pc' \in [Txns -> {"start", "body", "execute", "rolled back", "committed",
                               "committed, raised"}]
          /\ doomed' \in [Txns -> BOOLEAN] /\ buf' \in [Txns -> Buffers]
      BY <1>0, <1>8, CommitEffect DEF TypeOK
    <2>7. /\ lockHolder' \in [Keys -> Txns \cup {NoTxn}]
          /\ walletHolder' \in [Wallets -> Txns \cup {NoTxn}]
      BY <1>0, <1>8, EndGivesUpRows DEF TypeOK, GivesUpRows
    <2> QED
      BY <2>2, <2>4, <2>5, <2>6, <2>7 DEF TypeOK, AnyLockRow
  <1> QED
    BY <1>1, <1>2, <1>3, <1>4, <1>5, <1>6, <1>7, <1>8
       DEF Next, Execute, UpdateRefused, InsertsRefused, Crash

-----------------------------------------------------------------------------
(* A row whose committed value p changes is a row p has checked and holds.    *)
LEMMA CommitHoldsRows ==
  ASSUME NEW p \in Txns, Commit(p)
  PROVE  /\ \A w \in Wallets : walletHolder[w] # p =>
              buf[p].bal[w] = 0 /\ buf[p].lck[w] = 0
         /\ \A k \in Keys : lockHolder[k] # p => buf[p].rel[k] = 0
  <1>1. LockRowsToWrite(p) = {} /\ WalletsToWrite(p) = {}
    BY CommitEffect
  <1> QED
    BY <1>1 DEF LockRowsToWrite, WalletsToWrite

LEMMA StepSolvent ==
  ASSUME IInv, [Next]_vars
  PROVE  Solvent'
  <1>0. TypeOK /\ Solvent /\ HeldRowsChecked
    BY DEF IInv
  <1>1. CASE UNCHANGED db
    BY <1>0, <1>1 DEF db, Solvent, WalletValid
  <1>2. ASSUME NEW p \in Txns, Commit(p) PROVE Solvent'
    <2>1. /\ balance \in [Wallets -> Int] /\ locked \in [Wallets -> Int]
          /\ buf[p].bal \in [Wallets -> Int] /\ buf[p].lck \in [Wallets -> Int]
      BY <1>0, BufferFields DEF TypeOK
    <2>2. /\ balance' = [w \in Wallets |-> balance[w] + buf[p].bal[w]]
          /\ locked' = [w \in Wallets |-> locked[w] + buf[p].lck[w]]
      BY <1>2, CommitEffect
    <2>3. ASSUME NEW w \in Wallets PROVE WalletValid(w, balance'[w], locked'[w])
      <3>1. CASE walletHolder[w] = p
        BY <1>0, <2>2, <3>1 DEF HeldRowsChecked, WalletUpdateValid
      <3>2. CASE walletHolder[w] # p
        <4>1. buf[p].bal[w] = 0 /\ buf[p].lck[w] = 0
          BY <1>2, <3>2, CommitHoldsRows
        <4>2. balance'[w] = balance[w] /\ locked'[w] = locked[w]
          BY <2>1, <2>2, <4>1
        <4> QED
          BY <1>0, <4>2 DEF Solvent
      <3> QED
        BY <3>1, <3>2
    <2>4. ASSUME NEW k \in Keys, lockRow'[k] # NoLock PROVE lockRow'[k].amount >= 0
      <3>1. CASE buf[p].new[k] # NoLock
        BY <1>2, <3>1, CommitEffect DEF InsertsValid
      <3>2. CASE buf[p].new[k] = NoLock /\ buf[p].rel[k] # 0
        <4>1. lockRow[k] \in AnyLockRow
          BY <1>0, <3>2 DEF HeldRowsChecked, TypeOK, AnyLockRow
        <4>2. LockRowValid(p, k)
          BY <1>0, <1>2, <3>2, CommitHoldsRows DEF HeldRowsChecked
        <4>3. lockRow'[k] = [lockRow[k] EXCEPT !.amount = @ + buf[p].rel[k]]
          BY <1>2, <3>2, CommitEffect
        <4> QED
          BY <4>1, <4>2, <4>3 DEF LockRowValid, AnyLockRow
      <3>3. CASE buf[p].new[k] = NoLock /\ buf[p].rel[k] = 0
        BY <1>0, <1>2, <2>4, <3>3, CommitEffect DEF Solvent
      <3> QED
        BY <3>1, <3>2, <3>3
    <2>5. /\ \A w \in Wallets : WalletValid(w, balance'[w], locked'[w])
          /\ \A k \in Keys : lockRow'[k] # NoLock => lockRow'[k].amount >= 0
      BY <2>3, <2>4
    <2> QED
      BY <2>5 DEF Solvent, WalletValid
  <1>3. ASSUME NEW p \in Txns, Enter(p) \/ Body(p) \/ Leave(p) PROVE UNCHANGED db
    <2>1. Body(p) => \E c \in Buffers : BodyStep(p, c)
      BY <1>0, BodyBuffers DEF AfterBody
    <2> QED
      BY <1>3, <2>1 DEF Enter, BodyStep, Leave, Exit
  <1>4. ASSUME NEW p \in Txns, Rollback(p) PROVE UNCHANGED db
    BY <1>4 DEF Rollback
  <1>5. ASSUME NEW p \in Txns, Execute(p), ~ Commit(p) PROVE UNCHANGED db
    BY <1>4, <1>5 DEF Execute, UpdateLockRow, UpdateWallet, UpdateRefused, InsertsRefused
  <1> QED
    BY <1>1, <1>2, <1>3, <1>4, <1>5 DEF Next, Crash, vars, db

-----------------------------------------------------------------------------
(* A body only buffers releases of locks that exist, and no other buffers.    *)
LEMMA BodyReleases ==
  ASSUME IInv, NEW p \in Txns, Body(p)
  PROVE  /\ pc[p] = "body"
         /\ UNCHANGED <<db, pc, holders>>
         /\ \A q \in Txns : q # p => buf'[q] = buf[q]
         /\ \A k \in Keys : buf'[p].rel[k] # 0 => lockRow[k] # NoLock
  <1>0. TypeOK /\ HeldRowsChecked /\ buf \in [Txns -> Buffers]
    BY DEF IInv, TypeOK
  <1>1. PICK c \in Buffers : AfterBody(p, c)
    BY <1>0, BodyBuffers
  <1>2. buf' = [buf EXCEPT ![p] = [c EXCEPT !.ops = @ + 1]]
    BY <1>1 DEF AfterBody, BodyStep
  <1>3. [c EXCEPT !.ops = @ + 1].rel = c.rel
    BY DEF Buffers
  <1>4. buf'[p].rel = c.rel
    BY <1>0, <1>2, <1>3
  <1>5. \A k \in Keys : buf'[p].rel[k] # 0 => lockRow[k] # NoLock
    BY <1>0, <1>1, <1>4 DEF AfterBody, HeldRowsChecked
  <1> QED
    BY <1>0, <1>1, <1>2, <1>5 DEF AfterBody, BodyStep

(* The rows of others, their buffers and their program counters stay: so do   *)
(* their checks.                                                              *)
LEMMA StepHeld ==
  ASSUME IInv, [Next]_vars
  PROVE  HeldRowsChecked'
  <1>0. TypeOK /\ HeldRowsChecked /\ buf \in [Txns -> Buffers]
    BY DEF IInv, TypeOK
  <1>t. /\ lockHolder \in [Keys -> Txns \cup {NoTxn}]
        /\ walletHolder \in [Wallets -> Txns \cup {NoTxn}]
        /\ pc \in [Txns -> {"start", "body", "execute", "rolled back", "committed",
                            "committed, raised"}]
    BY DEF IInv, TypeOK
  <1> USE DEF HeldRowsChecked, WalletUpdateValid, LockRowValid
  <1>1. CASE UNCHANGED vars
    BY <1>0, <1>1 DEF vars, WalletValid
  <1>2. ASSUME NEW p \in Txns, Enter(p) PROVE HeldRowsChecked'
    <2>1. /\ UNCHANGED <<db, holders>> /\ pc[p] = "start"
          /\ \A q \in Txns : q # p => buf'[q] = buf[q] /\ pc'[q] = pc[q]
          /\ \A k \in Keys : buf'[p].rel[k] = 0
      BY <1>0, <1>t, <1>2 DEF Enter, EmptyBuffer
    <2> QED
      BY <1>0, <2>1 DEF db, holders, WalletValid
  <1>3. ASSUME NEW p \in Txns, Body(p) PROVE HeldRowsChecked'
    BY <1>0, <1>3, BodyReleases DEF db, holders, WalletValid
  <1>4. ASSUME NEW p \in Txns, Leave(p) PROVE HeldRowsChecked'
    <2>1. /\ UNCHANGED <<db, buf, holders>> /\ pc[p] = "body"
          /\ \A q \in Txns : q # p => pc'[q] = pc[q]
      BY <1>t, <1>4 DEF Leave, Exit
    <2> QED
      BY <1>0, <2>1 DEF db, holders, WalletValid
  <1>5. ASSUME NEW p \in Txns, NEW k \in Keys, UpdateLockRow(p, k) PROVE HeldRowsChecked'
    <2>1. buf[p].rel[k] # 0 /\ pc[p] = "execute" /\ LockRowValid(p, k)
      BY <1>5 DEF UpdateLockRow, NextLockRow, IsNext, LockRowsToWrite
    <2>2. /\ UNCHANGED <<db, pc, buf, walletHolder>>
          /\ lockHolder' = [lockHolder EXCEPT ![k] = p]
      BY <1>5 DEF UpdateLockRow
    <2> QED
      BY <1>0, <1>t, <2>1, <2>2 DEF db, WalletValid
  <1>6. ASSUME NEW p \in Txns, NEW w \in Wallets, UpdateWallet(p, w) PROVE HeldRowsChecked'
    BY <1>0, <1>t, <1>6 DEF UpdateWallet, NextWallet, db, WalletValid
  <1>7. ASSUME NEW p \in Txns, Rollback(p) PROVE HeldRowsChecked'
    <2>1. /\ UNCHANGED <<db, buf>>
          /\ \A q \in Txns : q # p => pc'[q] = pc[q]
          /\ \A q \in Txns, w \in Wallets : walletHolder'[w] = q => q # p /\ walletHolder[w] = q
          /\ \A q \in Txns, k \in Keys : lockHolder'[k] = q => q # p /\ lockHolder[k] = q
      BY <1>t, <1>7, RowsGivenUp DEF Rollback
    <2> QED
      BY <1>0, <2>1 DEF db, WalletValid
  <1>8. ASSUME NEW p \in Txns, Commit(p) PROVE HeldRowsChecked'
    <2>1. /\ buf' = buf /\ \A q \in Txns : q # p => pc'[q] = pc[q]
      BY <1>t, <1>8, CommitEffect
    <2>2. /\ \A q \in Txns, w \in Wallets : walletHolder'[w] = q => q # p /\ walletHolder[w] = q
          /\ \A q \in Txns, k \in Keys : lockHolder'[k] = q => q # p /\ lockHolder[k] = q
      BY <1>8, RowsGivenUp
    <2>3. ASSUME NEW q \in Txns, NEW w \in Wallets, walletHolder'[w] = q
          PROVE  balance'[w] = balance[w] /\ locked'[w] = locked[w]
      <3>1. buf[p].bal[w] = 0 /\ buf[p].lck[w] = 0
        BY <1>8, <2>2, <2>3, CommitHoldsRows
      <3>2. balance[w] \in Int /\ locked[w] \in Int
        BY <1>0 DEF TypeOK
      <3>3. /\ balance' = [v \in Wallets |-> balance[v] + buf[p].bal[v]]
            /\ locked' = [v \in Wallets |-> locked[v] + buf[p].lck[v]]
        BY <1>8, CommitEffect
      <3> QED
        BY <3>1, <3>2, <3>3
    <2>4. ASSUME NEW q \in Txns, NEW k \in Keys, lockHolder'[k] = q
          PROVE  buf'[q].rel[k] # 0 /\ LockRowValid(q, k)'
      <3>1. buf[p].rel[k] = 0 /\ LockRowValid(q, k) /\ buf[q].rel[k] # 0
        BY <1>0, <1>8, <2>2, <2>4, CommitHoldsRows
      <3>2. lockRow[k] # NoLock
        BY <1>0, <3>1
      <3>3. buf[p].new[k] = NoLock
        BY <1>8, <3>2, CommitEffect DEF InsertsValid
      <3>4. lockRow'[k] = lockRow[k]
        BY <1>8, <3>1, <3>3, CommitEffect
      <3> QED
        BY <2>1, <3>1, <3>4
    <2>5. ASSUME NEW q \in Txns, NEW k \in Keys, buf'[q].rel[k] # 0
          PROVE  lockRow'[k] # NoLock
      <3>1. lockRow[k] # NoLock
        BY <1>0, <2>1, <2>5
      <3>2. lockRow[k] \in AnyLockRow
        BY <1>0, <3>1 DEF TypeOK, AnyLockRow
      <3>3. buf[p].new[k] = NoLock
        BY <1>8, <3>1, CommitEffect DEF InsertsValid
      <3>4. CASE buf[p].rel[k] = 0
        BY <1>8, <3>1, <3>3, <3>4, CommitEffect
      <3>5. CASE buf[p].rel[k] # 0
        <4>1. lockRow'[k] = [lockRow[k] EXCEPT !.amount = @ + buf[p].rel[k]]
          BY <1>8, <3>3, <3>5, CommitEffect
        <4>2. buf[p].rel[k] \in Int
          <5>1. buf[p].rel \in [Keys -> Int]
            BY <1>0, BufferFields
          <5> QED
            BY <5>1
        <4>3. lockRow'[k] \in AnyLockRow
          BY <3>2, <4>1, <4>2 DEF AnyLockRow
        <4> QED
          BY <4>3, ConstantsAssumption DEF AnyLockRow
      <3> QED
        BY <3>4, <3>5
    <2>6. ASSUME NEW q \in Txns, NEW w \in Wallets, walletHolder'[w] = q
          PROVE  pc'[q] = "execute" /\ WalletUpdateValid(q, w)'
      <3>1. q # p /\ walletHolder[w] = q /\ pc[q] = "execute" /\ WalletUpdateValid(q, w)
        BY <1>0, <2>2, <2>6
      <3> QED
        BY <2>1, <2>3, <2>6, <3>1 DEF WalletValid
    <2>7. ASSUME NEW q \in Txns, NEW k \in Keys, lockHolder'[k] = q
          PROVE  pc'[q] = "execute"
      BY <1>0, <2>1, <2>2, <2>7
    <2> QED
      BY <2>4, <2>5, <2>6, <2>7
  <1> QED
    BY <1>1, <1>2, <1>3, <1>4, <1>5, <1>6, <1>7, <1>8
       DEF Next, Execute, UpdateRefused, InsertsRefused, Crash

-----------------------------------------------------------------------------
LEMMA InvariantHolds == Spec => []IInv
  <1>1. Init => IInv
    <2> SUFFICES ASSUME Init PROVE IInv
      OBVIOUS
    <2>1. TypeOK
      BY InitTypeOK
    <2>2. Solvent
      BY OpeningAssumption DEF Init, Solvent, LockRows
    <2>3. HeldRowsChecked
      BY ConstantsAssumption DEF Init, HeldRowsChecked, EmptyBuffer
    <2> QED
      BY <2>1, <2>2, <2>3 DEF IInv
  <1>2. IInv /\ [Next]_vars => IInv'
    BY StepTypeOK, StepSolvent, StepHeld DEF IInv
  <1> QED
    BY <1>1, <1>2, PTL DEF Spec

(* Whatever the wallets, the keys and the number of concurrent pipelines:     *)
(* the database and the buffers keep their types (ledger/models/wallet.py,    *)
(* balance_lock.py, trx.py and the buffers of wallet_pipeline.py).            *)
THEOREM TypeCorrect == Spec => []TypeOK
  BY InvariantHolds, PTL DEF IInv

(* Whatever the interleaving of pipelines, their stale reads, failures and    *)
(* crashes: the committed wallets honour their holds and no lock is released  *)
(* beyond its amount.                                                         *)
THEOREM AlwaysSolvent == Spec => []Solvent
  BY InvariantHolds, PTL DEF IInv

-----------------------------------------------------------------------------
(* A pipeline takes its rows in increasing order, lock rows first. *)
HeldInOrder ==
  /\ \A p \in Txns, w \in Wallets :
       walletHolder[w] = p => /\ pc[p] = "execute"
                              /\ LockRowsToWrite(p) = {}
                              /\ \A v \in WalletsToWrite(p) : w < v
  /\ \A p \in Txns, k \in Keys :
       lockHolder[k] = p => /\ pc[p] = "execute"
                            /\ \A j \in LockRowsToWrite(p) : k < j

(* While p moves, what another pipeline has still to write stays the same.    *)
LEMMA OthersToWrite ==
  ASSUME NEW p \in Txns, NEW q \in Txns, q # p, buf'[q] = buf[q],
         \A k \in Keys : (lockHolder'[k] = q) <=> (lockHolder[k] = q),
         \A w \in Wallets : (walletHolder'[w] = q) <=> (walletHolder[w] = q)
  PROVE  LockRowsToWrite(q)' = LockRowsToWrite(q) /\ WalletsToWrite(q)' = WalletsToWrite(q)
  BY DEF LockRowsToWrite, WalletsToWrite

LEMMA StepHeldInOrder ==
  ASSUME IInv, HeldInOrder, [Next]_vars
  PROVE  HeldInOrder'
  <1>t. /\ lockHolder \in [Keys -> Txns \cup {NoTxn}]
        /\ walletHolder \in [Wallets -> Txns \cup {NoTxn}]
        /\ pc \in [Txns -> {"start", "body", "execute", "rolled back", "committed",
                            "committed, raised"}]
        /\ buf \in [Txns -> Buffers]
        /\ Keys \subseteq Nat /\ Wallets \subseteq Nat /\ NoTxn \notin Txns
    BY ConstantsAssumption DEF IInv, TypeOK
  <1>1. CASE UNCHANGED vars
    BY <1>1 DEF vars, HeldInOrder, LockRowsToWrite, WalletsToWrite
  (* A step of p that leaves all rows as they are held, p holding none. *)
  <1>2. ASSUME NEW p \in Txns, pc[p] # "execute", UNCHANGED holders,
               \A q \in Txns : q # p => buf'[q] = buf[q] /\ pc'[q] = pc[q]
        PROVE  HeldInOrder'
    <2>1. /\ \A w \in Wallets : walletHolder[w] # p
          /\ \A k \in Keys : lockHolder[k] # p
      BY <1>2 DEF HeldInOrder
    <2>2. \A q \in Txns : q # p => /\ LockRowsToWrite(q)' = LockRowsToWrite(q)
                                   /\ WalletsToWrite(q)' = WalletsToWrite(q)
      BY <1>2, OthersToWrite DEF holders
    <2>3. lockHolder' = lockHolder /\ walletHolder' = walletHolder
      BY <1>2 DEF holders
    <2> QED
      BY <1>2, <2>1, <2>2, <2>3 DEF HeldInOrder
  <1>3. ASSUME NEW p \in Txns, Enter(p) \/ Body(p) \/ Leave(p) PROVE HeldInOrder'
    <2>1. CASE Enter(p)
      BY <1>t, <1>2, <2>1 DEF Enter
    <2>2. CASE Body(p)
      BY <1>2, <2>2, BodyReleases
    <2>3. CASE Leave(p)
      BY <1>t, <1>2, <2>3 DEF Leave, Exit
    <2> QED
      BY <1>3, <2>1, <2>2, <2>3
  <1>4. ASSUME NEW p \in Txns, NEW k \in Keys, UpdateLockRow(p, k) PROVE HeldInOrder'
    <2>1. /\ pc[p] = "execute" /\ IsNext(k, LockRowsToWrite(p)) /\ lockHolder[k] = NoTxn
          /\ lockHolder' = [lockHolder EXCEPT ![k] = p]
          /\ UNCHANGED <<pc, buf, walletHolder>>
      BY <1>4 DEF UpdateLockRow, NextLockRow
    <2>2. \A q \in Txns : q # p => /\ LockRowsToWrite(q)' = LockRowsToWrite(q)
                                   /\ WalletsToWrite(q)' = WalletsToWrite(q)
      BY <1>t, <2>1, OthersToWrite
    <2>3. LockRowsToWrite(p)' = LockRowsToWrite(p) \ {k}
      BY <1>t, <2>1 DEF LockRowsToWrite
    <2>4. \A w \in Wallets : walletHolder[w] # p
      BY <2>1 DEF HeldInOrder, IsNext
    <2>a. \A j \in LockRowsToWrite(p) \ {k} : j \in Nat /\ k \in Nat /\ k <= j /\ k # j
      BY <1>t, <2>1 DEF IsNext, LockRowsToWrite
    <2>b. \A j \in LockRowsToWrite(p) \ {k} : k < j
      BY <2>a
    <2>5. \A j \in LockRowsToWrite(p)' : k < j
      BY <2>3, <2>b
    <2>6. ASSUME NEW q \in Txns, NEW w \in Wallets, walletHolder'[w] = q
          PROVE  /\ pc'[q] = "execute"
                 /\ LockRowsToWrite(q)' = {}
                 /\ \A v \in WalletsToWrite(q)' : w < v
      <3>1. q # p /\ walletHolder[w] = q
        BY <2>1, <2>4, <2>6
      <3> QED
        BY <2>1, <2>2, <3>1 DEF HeldInOrder
    <2>7. ASSUME NEW q \in Txns, NEW i \in Keys, lockHolder'[i] = q
          PROVE  pc'[q] = "execute" /\ \A j \in LockRowsToWrite(q)' : i < j
      <3>1. CASE q # p
        <4>1. lockHolder[i] = q
          BY <1>t, <2>1, <2>7, <3>1
        <4> QED
          BY <2>1, <2>2, <3>1, <4>1 DEF HeldInOrder
      <3>2. CASE q = p /\ i = k
        BY <2>1, <2>5, <3>2
      <3>3. CASE q = p /\ i # k
        <4>1. lockHolder[i] = p
          BY <1>t, <2>1, <2>7, <3>3
        <4> QED
          BY <2>1, <2>3, <3>3, <4>1 DEF HeldInOrder
      <3> QED
        BY <3>1, <3>2, <3>3
    <2> QED
      BY <2>6, <2>7 DEF HeldInOrder
  <1>5. ASSUME NEW p \in Txns, NEW w \in Wallets, UpdateWallet(p, w) PROVE HeldInOrder'
    <2>1. /\ pc[p] = "execute" /\ IsNext(w, WalletsToWrite(p)) /\ walletHolder[w] = NoTxn
          /\ LockRowsToWrite(p) = {}
          /\ walletHolder' = [walletHolder EXCEPT ![w] = p]
          /\ UNCHANGED <<pc, buf, lockHolder>>
      BY <1>5 DEF UpdateWallet, NextWallet
    <2>2. \A q \in Txns : q # p => /\ LockRowsToWrite(q)' = LockRowsToWrite(q)
                                   /\ WalletsToWrite(q)' = WalletsToWrite(q)
      BY <1>t, <2>1, OthersToWrite
    <2>3. WalletsToWrite(p)' = WalletsToWrite(p) \ {w}
      BY <1>t, <2>1 DEF WalletsToWrite
    <2>4. LockRowsToWrite(p)' = LockRowsToWrite(p)
      BY <2>1 DEF LockRowsToWrite
    <2>a. \A v \in WalletsToWrite(p) \ {w} : v \in Nat /\ w \in Nat /\ w <= v /\ w # v
      BY <1>t, <2>1 DEF IsNext, WalletsToWrite
    <2>b. \A v \in WalletsToWrite(p) \ {w} : w < v
      BY <2>a
    <2>5. \A v \in WalletsToWrite(p)' : w < v
      BY <2>3, <2>b
    <2>6. ASSUME NEW q \in Txns, NEW u \in Wallets, walletHolder'[u] = q
          PROVE  /\ pc'[q] = "execute"
                 /\ LockRowsToWrite(q)' = {}
                 /\ \A v \in WalletsToWrite(q)' : u < v
      <3>1. CASE q # p
        <4>1. walletHolder[u] = q
          BY <1>t, <2>1, <2>6, <3>1
        <4> QED
          BY <2>1, <2>2, <3>1, <4>1 DEF HeldInOrder
      <3>2. CASE q = p /\ u = w
        BY <2>1, <2>4, <2>5, <3>2
      <3>3. CASE q = p /\ u # w
        <4>1. walletHolder[u] = p
          BY <1>t, <2>1, <2>6, <3>3
        <4> QED
          BY <2>1, <2>3, <2>4, <3>3, <4>1 DEF HeldInOrder
      <3> QED
        BY <3>1, <3>2, <3>3
    <2>7. ASSUME NEW q \in Txns, NEW i \in Keys, lockHolder'[i] = q
          PROVE  pc'[q] = "execute" /\ \A j \in LockRowsToWrite(q)' : i < j
      <3>1. lockHolder[i] = q
        BY <2>1, <2>7
      <3>2. LockRowsToWrite(q)' = LockRowsToWrite(q)
        BY <2>2, <2>4
      <3> QED
        BY <2>1, <3>1, <3>2 DEF HeldInOrder
    <2> QED
      BY <2>6, <2>7 DEF HeldInOrder
  <1>6. ASSUME NEW p \in Txns, Rollback(p) \/ Commit(p) PROVE HeldInOrder'
    <2>1. buf' = buf /\ \A q \in Txns : q # p => pc'[q] = pc[q]
      <3>1. CASE Rollback(p)
        BY <1>t, <3>1 DEF Rollback
      <3>2. CASE Commit(p)
        BY <1>t, <3>2, CommitEffect
      <3> QED
        BY <1>6, <3>1, <3>2
    <2>2. GivesUpRows(p)
      BY <1>6, EndGivesUpRows
    <2>3. \A q \in Txns : q # p => /\ LockRowsToWrite(q)' = LockRowsToWrite(q)
                                   /\ WalletsToWrite(q)' = WalletsToWrite(q)
      BY <1>t, <2>1, <2>2, OthersToWrite DEF GivesUpRows
    <2>4. /\ \A q \in Txns, w \in Wallets :
               walletHolder'[w] = q => q # p /\ walletHolder[w] = q
          /\ \A q \in Txns, k \in Keys :
               lockHolder'[k] = q => q # p /\ lockHolder[k] = q
      BY <1>6, RowsGivenUp
    <2> QED
      BY <2>1, <2>3, <2>4 DEF HeldInOrder
  <1> QED
    BY <1>1, <1>3, <1>4, <1>5, <1>6
       DEF Next, Execute, UpdateRefused, InsertsRefused, Crash

(* In a cycle every wallet waited for is followed by a greater one, and so is *)
(* every lock row when no wallet is waited for.                               *)
LEMMA OrderPreventsCycles ==
  ASSUME IInv, HeldInOrder PROVE NoWaitCycle
  <1> SUFFICES ASSUME NEW S \in (SUBSET Txns) \ {{}},
                      \A p \in S : \E q \in S : WaitsFor(p, q)
               PROVE  FALSE
    BY DEF NoWaitCycle
  <1>t. Keys \subseteq Int /\ Wallets \subseteq Int /\ IsFiniteSet(Keys) /\ IsFiniteSet(Wallets)
    BY ConstantsAssumption
  <1> DEFINE WaitedWallets == {w \in Wallets : \E p \in S : NextWallet(p, w)}
             WaitedLockRows == {k \in Keys : \E p \in S : NextLockRow(p, k)}
  <1>1. ASSUME NEW w \in WaitedWallets PROVE \E v \in WaitedWallets : v > w
    <2>1. PICK p \in S : NextWallet(p, w)
      OBVIOUS
    <2>2. PICK q \in S : WaitsFor(p, q)
      OBVIOUS
    <2>3. walletHolder[w] = q
      BY <1>t, <2>1, <2>2 DEF WaitsFor, NextWallet, NextLockRow, IsNext, WalletsToWrite
    <2>4. LockRowsToWrite(q) = {} /\ \A v \in WalletsToWrite(q) : w < v
      BY <2>3 DEF HeldInOrder
    <2>5. PICK v \in Wallets : NextWallet(q, v)
      BY <2>4 DEF WaitsFor, NextLockRow, IsNext
    <2>6. v > w
      BY <1>t, <2>4, <2>5 DEF NextWallet, IsNext
    <2> QED
      BY <2>5, <2>6
  <1>2. WaitedWallets = {}
    <2>1. WaitedWallets \subseteq Int /\ IsFiniteSet(WaitedWallets)
      BY <1>t, FS_Subset
    <2> HIDE DEF WaitedWallets
    <2>2. ASSUME WaitedWallets # {} PROVE FALSE
      <3>1. PICK x \in WaitedWallets : \A y \in WaitedWallets : y <= x
        BY <2>1, <2>2, GreatestElement
      <3>2. PICK v \in WaitedWallets : v > x
        BY <1>1
      <3> QED
        BY <2>1, <3>1, <3>2
    <2> QED
      BY <2>2
  <1>3. ASSUME NEW k \in WaitedLockRows PROVE \E j \in WaitedLockRows : j > k
    <2>1. PICK p \in S : NextLockRow(p, k)
      OBVIOUS
    <2>2. PICK q \in S : WaitsFor(p, q)
      OBVIOUS
    <2>3. lockHolder[k] = q
      BY <1>t, <2>1, <2>2 DEF WaitsFor, NextWallet, NextLockRow, IsNext, LockRowsToWrite
    <2>4. \A j \in LockRowsToWrite(q) : k < j
      BY <2>3 DEF HeldInOrder
    <2>5. PICK j \in Keys : NextLockRow(q, j)
      BY <1>2 DEF WaitsFor
    <2>6. j > k
      BY <1>t, <2>4, <2>5 DEF NextLockRow, IsNext
    <2> QED
      BY <2>5, <2>6
  <1>4. WaitedLockRows = {}
    <2>1. WaitedLockRows \subseteq Int /\ IsFiniteSet(WaitedLockRows)
      BY <1>t, FS_Subset
    <2> HIDE DEF WaitedLockRows
    <2>2. ASSUME WaitedLockRows # {} PROVE FALSE
      <3>1. PICK x \in WaitedLockRows : \A y \in WaitedLockRows : y <= x
        BY <2>1, <2>2, GreatestElement
      <3>2. PICK j \in WaitedLockRows : j > x
        BY <1>3
      <3> QED
        BY <2>1, <3>1, <3>2
    <2> QED
      BY <2>2
  <1> QED
    BY <1>2, <1>4 DEF WaitsFor

(* However many pipelines run, no set of them ever waits in a cycle: the      *)
(* sorted() of _build_wallet_updates, _build_lock_updates and _execute is     *)
(* enough, as long as a transaction holds a single pipeline.                  *)
THEOREM NeverDeadlocked == Spec => []NoWaitCycle
  <1>1. Init => HeldInOrder
    BY ConstantsAssumption DEF Init, HeldInOrder
  <1>2. IInv /\ HeldInOrder /\ [Next]_vars => HeldInOrder'
    BY StepHeldInOrder
  <1>3. IInv /\ HeldInOrder => NoWaitCycle
    BY OrderPreventsCycles
  <1> QED
    BY <1>1, <1>2, <1>3, InvariantHolds, PTL DEF Spec

-----------------------------------------------------------------------------
(* What a pipeline has buffered explains itself: a wallet's change of locked  *)
(* is the sum of the lock rows it creates and releases, a wallet's change of  *)
(* balance is the sum of the entries it will insert.                          *)
HeldBy(rows, b, k, w) ==
  (IF b.new[k] # NoLock /\ b.new[k].wallet = w THEN b.new[k].amount ELSE 0)
  + (IF rows[k] # NoLock /\ rows[k].wallet = w THEN b.rel[k] ELSE 0)

Moved(b, t, w) ==
  (IF t.receiver = w THEN b.trx[t] ELSE 0) - (IF t.sender = w THEN b.trx[t] ELSE 0)

Accounted(rows, b) ==
  /\ \A w \in Wallets :
       b.lck[w] = SumFunctionOnSet([k \in Keys |-> HeldBy(rows, b, k, w)], Keys)
  /\ \A w \in Wallets :
       b.bal[w] = SumFunctionOnSet([t \in TrxKeys |-> Moved(b, t, w)], TrxKeys)
  /\ \A k \in Keys : b.rel[k] <= 0

AllAccounted == \A p \in Txns : Accounted(lockRow, buf[p])

Rows == [Keys -> AnyLockRow \cup {NoLock}]

LEMMA BufferTypes ==
  ASSUME NEW b \in Buffers
  PROVE  /\ b.bal \in [Wallets -> Int] /\ b.lck \in [Wallets -> Int]
         /\ b.rel \in [Keys -> Int] /\ b.new \in Rows
         /\ b.trx \in [TrxKeys -> Nat]
  BY DEF Buffers, Rows, AnyLockRow

LEMMA HeldByInt ==
  ASSUME NEW rows \in Rows, NEW b \in Buffers, NEW k \in Keys, NEW w \in Wallets
  PROVE  HeldBy(rows, b, k, w) \in Int
  <1>1. b.new[k] \in AnyLockRow \cup {NoLock} /\ b.rel[k] \in Int
    BY BufferTypes DEF Rows
  <1> QED
    BY <1>1 DEF HeldBy, AnyLockRow

LEMMA MovedInt ==
  ASSUME NEW b \in Buffers, NEW t \in TrxKeys, NEW w \in Wallets
  PROVE  Moved(b, t, w) \in Int
  <1>1. b.trx[t] \in Int
    BY BufferTypes
  <1> QED
    BY <1>1 DEF Moved

(* Journal keys are finitely many. *)
LEMMA TrxKeysFinite == IsFiniteSet(TrxKeys)
  <1> DEFINE S == (Wallets \X Wallets) \X Groups
             key == [t \in TrxKeys |-> <<<<t.sender, t.receiver>>, t.group>>]
  <1>1. IsFiniteSet(S)
    BY ConstantsAssumption, LedgerAssumption, FS_Product
  <1>2. key \in [TrxKeys -> S]
    BY DEF TrxKeys
  <1>3. ASSUME NEW t \in TrxKeys, NEW u \in TrxKeys, key[t] = key[u] PROVE t = u
    <2>1. t.sender = u.sender /\ t.receiver = u.receiver /\ t.group = u.group
      BY <1>3
    <2> QED
      BY <2>1 DEF TrxKeys
  <1>4. key \in Injection(TrxKeys, S)
    BY <1>2, <1>3 DEF Injection, IsInjective
  <1> QED
    BY <1>1, <1>4, FS_Injection

(* One operation of a body changes what is buffered about one key, or about   *)
(* one journal entry, and the wallets it concerns by as much.                 *)
OneLock(rows, b, c) ==
  /\ c.bal = b.bal /\ c.trx = b.trx
  /\ \E y \in Keys :
       /\ \A k \in Keys \ {y} : c.new[k] = b.new[k] /\ c.rel[k] = b.rel[k]
       /\ c.rel[y] <= 0
       /\ \A w \in Wallets :
            c.lck[w] = b.lck[w] - HeldBy(rows, b, y, w) + HeldBy(rows, c, y, w)

OneEntry(b, c) ==
  /\ c.lck = b.lck /\ c.new = b.new /\ c.rel = b.rel
  /\ \E y \in TrxKeys :
       /\ \A t \in TrxKeys \ {y} : c.trx[t] = b.trx[t]
       /\ \A w \in Wallets : c.bal[w] = b.bal[w] - Moved(b, y, w) + Moved(c, y, w)

LEMMA ChangeAccounted ==
  ASSUME NEW rows \in Rows, NEW b \in Buffers, NEW c \in Buffers, Accounted(rows, b),
         OneLock(rows, b, c) \/ OneEntry(b, c)
  PROVE  Accounted(rows, c)
  <1>1. IsFiniteSet(Keys) /\ IsFiniteSet(TrxKeys)
    BY ConstantsAssumption, TrxKeysFinite
  <1>2. CASE OneLock(rows, b, c)
    <2>1. PICK y \in Keys :
            /\ \A k \in Keys \ {y} : c.new[k] = b.new[k] /\ c.rel[k] = b.rel[k]
            /\ c.rel[y] <= 0
            /\ \A w \in Wallets :
                 c.lck[w] = b.lck[w] - HeldBy(rows, b, y, w) + HeldBy(rows, c, y, w)
      BY <1>2 DEF OneLock
    <2>2. ASSUME NEW w \in Wallets
          PROVE  c.lck[w] = SumFunctionOnSet([k \in Keys |-> HeldBy(rows, c, k, w)], Keys)
      <3> DEFINE f == [k \in Keys |-> HeldBy(rows, b, k, w)]
                 g == [k \in Keys |-> HeldBy(rows, c, k, w)]
      <3>1. \A k \in Keys : f[k] \in Int /\ g[k] \in Int
        BY HeldByInt
      <3>2. \A k \in Keys \ {y} : f[k] = g[k]
        BY <2>1 DEF HeldBy
      <3>3. f[y] = HeldBy(rows, b, y, w) /\ g[y] = HeldBy(rows, c, y, w)
        OBVIOUS
      <3>4. b.lck[w] = SumFunctionOnSet(f, Keys)
        BY DEF Accounted
      <3> HIDE DEF f, g
      <3>5. SumFunctionOnSet(g, Keys) = SumFunctionOnSet(f, Keys) - f[y] + g[y]
        BY <1>1, <3>1, <3>2, SumUpdate
      <3>6. c.lck[w] = SumFunctionOnSet(g, Keys)
        BY <2>1, <3>3, <3>4, <3>5
      <3> QED
        BY <3>6 DEF g
    <2>3. \A t \in TrxKeys, w \in Wallets : Moved(c, t, w) = Moved(b, t, w)
      BY <1>2 DEF OneLock, Moved
    <2>4. ASSUME NEW w \in Wallets
          PROVE  c.bal[w] = SumFunctionOnSet([t \in TrxKeys |-> Moved(c, t, w)], TrxKeys)
      <3>1. [t \in TrxKeys |-> Moved(c, t, w)] = [t \in TrxKeys |-> Moved(b, t, w)]
        BY <2>3
      <3>2. b.bal[w] = SumFunctionOnSet([t \in TrxKeys |-> Moved(b, t, w)], TrxKeys)
        BY DEF Accounted
      <3> QED
        BY <1>2, <3>1, <3>2 DEF OneLock
    <2>5. \A k \in Keys : c.rel[k] <= 0
      BY <2>1 DEF Accounted
    <2> QED
      BY <2>2, <2>4, <2>5 DEF Accounted
  <1>3. CASE OneEntry(b, c)
    <2>1. PICK y \in TrxKeys :
            /\ \A t \in TrxKeys \ {y} : c.trx[t] = b.trx[t]
            /\ \A w \in Wallets : c.bal[w] = b.bal[w] - Moved(b, y, w) + Moved(c, y, w)
      BY <1>3 DEF OneEntry
    <2>2. ASSUME NEW w \in Wallets
          PROVE  c.bal[w] = SumFunctionOnSet([t \in TrxKeys |-> Moved(c, t, w)], TrxKeys)
      <3> DEFINE f == [t \in TrxKeys |-> Moved(b, t, w)]
                 g == [t \in TrxKeys |-> Moved(c, t, w)]
      <3>1. \A t \in TrxKeys : f[t] \in Int /\ g[t] \in Int
        BY MovedInt
      <3>2. \A t \in TrxKeys \ {y} : f[t] = g[t]
        BY <2>1 DEF Moved
      <3>3. f[y] = Moved(b, y, w) /\ g[y] = Moved(c, y, w)
        OBVIOUS
      <3>4. b.bal[w] = SumFunctionOnSet(f, TrxKeys)
        BY DEF Accounted
      <3> HIDE DEF f, g
      <3>5. SumFunctionOnSet(g, TrxKeys) = SumFunctionOnSet(f, TrxKeys) - f[y] + g[y]
        BY <1>1, <3>1, <3>2, SumUpdate
      <3>6. c.bal[w] = SumFunctionOnSet(g, TrxKeys)
        BY <2>1, <3>3, <3>4, <3>5
      <3> QED
        BY <3>6 DEF g
    <2>3. \A k \in Keys, w \in Wallets : HeldBy(rows, c, k, w) = HeldBy(rows, b, k, w)
      BY <1>3 DEF OneEntry, HeldBy
    <2>4. ASSUME NEW w \in Wallets
          PROVE  c.lck[w] = SumFunctionOnSet([k \in Keys |-> HeldBy(rows, c, k, w)], Keys)
      <3>1. [k \in Keys |-> HeldBy(rows, c, k, w)] = [k \in Keys |-> HeldBy(rows, b, k, w)]
        BY <2>3
      <3>2. b.lck[w] = SumFunctionOnSet([k \in Keys |-> HeldBy(rows, b, k, w)], Keys)
        BY DEF Accounted
      <3> QED
        BY <1>3, <3>1, <3>2 DEF OneEntry
    <2>5. \A k \in Keys : c.rel[k] <= 0
      BY <1>3 DEF OneEntry, Accounted
    <2> QED
      BY <2>2, <2>4, <2>5 DEF Accounted
  <1> QED
    BY <1>2, <1>3


(* What the EXCEPTs of the operations leave alone. *)
LEMMA BufferUpdates ==
  ASSUME NEW b \in Buffers
  PROVE  /\ \A n, l : LET c == [b EXCEPT !.new = n, !.lck = l] IN
              c.new = n /\ c.lck = l /\ c.rel = b.rel /\ c.bal = b.bal /\ c.trx = b.trx
         /\ \A r, l : LET c == [b EXCEPT !.rel = r, !.lck = l] IN
              c.rel = r /\ c.lck = l /\ c.new = b.new /\ c.bal = b.bal /\ c.trx = b.trx
         /\ \A t, l : LET c == [b EXCEPT !.trx = t, !.bal = l] IN
              c.trx = t /\ c.bal = l /\ c.lck = b.lck /\ c.new = b.new /\ c.rel = b.rel
         /\ \A n : LET c == [b EXCEPT !.ops = n] IN
              /\ c.bal = b.bal /\ c.lck = b.lck /\ c.rel = b.rel /\ c.new = b.new
              /\ c.trx = b.trx
  BY DEF Buffers

LEMMA PlusAt ==
  ASSUME NEW S, NEW f \in [S -> Int], NEW x \in S, NEW d \in Int, NEW y \in S
  PROVE  Plus(f, x, d)[y] = IF y = x THEN f[y] + d ELSE f[y]
  BY DEF Plus

(* A lock of an amount a of wallet w is added to the pending ones. *)
LEMMA NewLockChange ==
  ASSUME NEW rows \in Rows, NEW b \in Buffers, NEW k \in Keys, NEW w \in Wallets,
         NEW a \in Int, b.new[k] = NoLock, b.rel[k] <= 0
  PROVE  LET c == [b EXCEPT !.new = Put(@, k, [wallet |-> w, amount |-> a]),
                            !.lck = Plus(@, w, a)]
         IN  c \in Buffers /\ OneLock(rows, b, c)
  <1> DEFINE r == [wallet |-> w, amount |-> a]
             n == Put(b.new, k, r)
             l == Plus(b.lck, w, a)
             c == [b EXCEPT !.new = n, !.lck = l]
  <1>t. b.lck \in [Wallets -> Int] /\ b.rel \in [Keys -> Int] /\ b.new \in Rows
    BY BufferTypes
  <1>0. NoLock \notin AnyLockRow /\ r \in AnyLockRow
    BY ConstantsAssumption DEF AnyLockRow
  <1>1. n \in Rows /\ l \in [Wallets -> Int]
    BY <1>t, <1>0, PutType, PlusType DEF Rows
  <1>2. c \in Buffers
    BY <1>1, BufferFields DEF Rows
  <1>3. c.new = n /\ c.lck = l /\ c.rel = b.rel /\ c.bal = b.bal /\ c.trx = b.trx
    BY BufferUpdates
  <1>4. n[k] = r /\ \A j \in Keys \ {k} : n[j] = b.new[j]
    BY <1>t DEF Put, Rows
  <1> HIDE DEF c, n, l
  <1>5. ASSUME NEW v \in Wallets
        PROVE  c.lck[v] = b.lck[v] - HeldBy(rows, b, k, v) + HeldBy(rows, c, k, v)
    <2> DEFINE x == IF rows[k] # NoLock /\ rows[k].wallet = v THEN b.rel[k] ELSE 0
    <2>1. x \in Int /\ b.lck[v] \in Int
      BY <1>t
    <2>2. HeldBy(rows, b, k, v) = x
      <3>1. 0 + x = x
        BY <2>1
      <3> QED
        BY <3>1 DEF HeldBy
    <2>3. HeldBy(rows, c, k, v) = (IF w = v THEN a ELSE 0) + x
      BY <1>0, <1>3, <1>4 DEF HeldBy
    <2>4. c.lck[v] = IF v = w THEN b.lck[v] + a ELSE b.lck[v]
      BY <1>t, <1>3, PlusAt DEF l
    <2> HIDE DEF x
    <2> QED
      BY <2>1, <2>2, <2>3, <2>4
  <1>6. OneLock(rows, b, c)
    BY <1>3, <1>4, <1>5 DEF OneLock
  <1> QED
    BY <1>2, <1>6 DEF c, n, l

(* A pending lock is reduced by a. *)
LEMMA ReducePendingChange ==
  ASSUME NEW rows \in Rows, NEW b \in Buffers, NEW k \in Keys, NEW a \in Int,
         b.new[k] # NoLock, b.rel[k] <= 0
  PROVE  ReducePending(b, k, a) \in Buffers /\ OneLock(rows, b, ReducePending(b, k, a))
  <1> DEFINE r == b.new[k]
             s == IF r.amount = a THEN NoLock ELSE [r EXCEPT !.amount = @ - a]
             n == Put(b.new, k, s)
             l == Plus(b.lck, r.wallet, -a)
             c == [b EXCEPT !.new = n, !.lck = l]
  <1>t. b.lck \in [Wallets -> Int] /\ b.rel \in [Keys -> Int] /\ b.new \in Rows
    BY BufferTypes
  <1>0. NoLock \notin AnyLockRow /\ r \in AnyLockRow
    BY <1>t, ConstantsAssumption DEF AnyLockRow, Rows
  <1>a. r.wallet \in Wallets /\ r.amount \in Int /\ -a \in Int /\ s \in AnyLockRow \cup {NoLock}
    BY <1>0 DEF AnyLockRow
  <1>1. n \in Rows /\ l \in [Wallets -> Int]
    <2> HIDE DEF s
    <2>1. n \in Rows
      BY <1>t, <1>a, PutType DEF Rows
    <2>2. l \in [Wallets -> Int]
      BY <1>t, <1>a, PlusType
    <2> QED
      BY <2>1, <2>2
  <1>2. c \in Buffers
    BY <1>1, BufferFields DEF Rows
  <1>3. c.new = n /\ c.lck = l /\ c.rel = b.rel /\ c.bal = b.bal /\ c.trx = b.trx
    BY BufferUpdates
  <1>4. n[k] = s /\ \A j \in Keys \ {k} : n[j] = b.new[j]
    BY <1>t DEF Put, Rows
  <1>b. s # NoLock => s.wallet = r.wallet /\ s.amount = r.amount - a
    BY <1>0 DEF AnyLockRow
  <1>c. s = NoLock => r.amount = a
    <2>1. [r EXCEPT !.amount = @ - a] \in AnyLockRow
      BY <1>0 DEF AnyLockRow
    <2> QED
      BY <1>0, <2>1
  <1> HIDE DEF c, n, l, s
  <1>5. ASSUME NEW v \in Wallets
        PROVE  c.lck[v] = b.lck[v] - HeldBy(rows, b, k, v) + HeldBy(rows, c, k, v)
    <2> DEFINE x == IF rows[k] # NoLock /\ rows[k].wallet = v THEN b.rel[k] ELSE 0
               y == IF r.wallet = v THEN r.amount ELSE 0
               z == IF s # NoLock /\ s.wallet = v THEN s.amount ELSE 0
    <2>1. x \in Int /\ b.lck[v] \in Int
      BY <1>t
    <2>2. HeldBy(rows, b, k, v) = y + x
      BY DEF HeldBy
    <2>3. HeldBy(rows, c, k, v) = z + x
      BY <1>3, <1>4 DEF HeldBy
    <2>4. c.lck[v] = IF v = r.wallet THEN b.lck[v] + (-a) ELSE b.lck[v]
      BY <1>t, <1>a, <1>3, PlusAt DEF l
    <2>5. z = IF r.wallet = v THEN r.amount - a ELSE 0
      BY <1>a, <1>b, <1>c
    <2> HIDE DEF x, z, r
    <2> QED
      BY <1>a, <2>1, <2>2, <2>3, <2>4, <2>5
  <1>6. OneLock(rows, b, c)
    BY <1>3, <1>4, <1>5 DEF OneLock
  <1>7. ReducePending(b, k, a) = c
    BY DEF ReducePending, c, n, l, s
  <1> QED
    BY <1>2, <1>6, <1>7

(* The release of a committed lock is buffered. *)
LEMMA ReduceCommittedChange ==
  ASSUME NEW b \in Buffers, NEW k \in Keys, NEW a \in Int, lockRow \in Rows,
         lockRow[k] # NoLock, b.rel[k] - a <= 0
  PROVE  /\ ReduceCommitted(b, k, a) \in Buffers
         /\ OneLock(lockRow, b, ReduceCommitted(b, k, a))
  <1> DEFINE w == lockRow[k].wallet
             r == Plus(b.rel, k, -a)
             l == Plus(b.lck, w, -a)
             c == [b EXCEPT !.rel = r, !.lck = l]
  <1>t. b.lck \in [Wallets -> Int] /\ b.rel \in [Keys -> Int] /\ b.new \in Rows
    BY BufferTypes
  <1>0. w \in Wallets /\ -a \in Int
    BY DEF AnyLockRow, Rows
  <1>1. r \in [Keys -> Int] /\ l \in [Wallets -> Int]
    BY <1>t, <1>0, PlusType
  <1>2. c \in Buffers
    BY <1>1, BufferFields
  <1>3. c.rel = r /\ c.lck = l /\ c.new = b.new /\ c.bal = b.bal /\ c.trx = b.trx
    BY BufferUpdates
  <1>4. r[k] = b.rel[k] - a /\ \A j \in Keys \ {k} : r[j] = b.rel[j]
    <2>1. r[k] = b.rel[k] + (-a) /\ \A j \in Keys \ {k} : r[j] = b.rel[j]
      BY <1>t, <1>0, PlusAt
    <2>2. b.rel[k] + (-a) = b.rel[k] - a
      BY <1>t
    <2> QED
      BY <2>1, <2>2
  <1> HIDE DEF c, r, l, w
  <1>5. ASSUME NEW v \in Wallets
        PROVE  c.lck[v] = b.lck[v] - HeldBy(lockRow, b, k, v) + HeldBy(lockRow, c, k, v)
    <2> DEFINE x == IF b.new[k] # NoLock /\ b.new[k].wallet = v THEN b.new[k].amount ELSE 0
    <2>1. x \in Int /\ b.lck[v] \in Int /\ b.rel[k] \in Int
      BY <1>t DEF Rows, AnyLockRow
    <2>2. HeldBy(lockRow, b, k, v) = x + (IF w = v THEN b.rel[k] ELSE 0)
      BY DEF HeldBy, w
    <2>3. HeldBy(lockRow, c, k, v) = x + (IF w = v THEN b.rel[k] - a ELSE 0)
      BY <1>3, <1>4 DEF HeldBy, w
    <2>4. c.lck[v] = IF v = w THEN b.lck[v] + (-a) ELSE b.lck[v]
      BY <1>t, <1>0, <1>3, PlusAt DEF l
    <2> HIDE DEF x
    <2> QED
      BY <2>1, <2>2, <2>3, <2>4
  <1>6. OneLock(lockRow, b, c)
    BY <1>3, <1>4, <1>5 DEF OneLock
  <1>7. ReduceCommitted(b, k, a) = c
    BY DEF ReduceCommitted, c, r, l, w
  <1> QED
    BY <1>2, <1>6, <1>7

(* An entry of amount a is added to the journal's pending ones. *)
LEMMA NewTrxChange ==
  ASSUME NEW b \in Buffers, NEW t \in TrxKeys, NEW a \in Nat
  PROVE  LET c == [b EXCEPT !.trx = Plus(@, t, a),
                            !.bal = Plus(Plus(@, t.sender, -a), t.receiver, a)]
         IN  c \in Buffers /\ OneEntry(b, c)
  <1> DEFINE u == Plus(b.trx, t, a)
             m == Plus(b.bal, t.sender, -a)
             l == Plus(m, t.receiver, a)
             c == [b EXCEPT !.trx = u, !.bal = l]
  <1>t. b.bal \in [Wallets -> Int] /\ b.trx \in [TrxKeys -> Nat]
    BY BufferTypes
  <1>0. t.sender \in Wallets /\ t.receiver \in Wallets /\ t.sender # t.receiver
    BY DEF TrxKeys
  <1>1. u \in [TrxKeys -> Nat] /\ m \in [Wallets -> Int] /\ l \in [Wallets -> Int]
    <2>1. b.trx[t] + a \in Nat /\ -a \in Int
      BY <1>t
    <2>2. u \in [TrxKeys -> Nat]
      BY <1>t, <2>1 DEF Plus
    <2>3. m \in [Wallets -> Int]
      BY <1>t, <1>0, <2>1, PlusType
    <2> HIDE DEF m
    <2>4. l \in [Wallets -> Int]
      BY <1>0, <2>3, PlusType
    <2> QED
      BY <2>2, <2>3, <2>4
  <1>2. c \in Buffers
    BY <1>1, BufferFields
  <1>3. c.trx = u /\ c.bal = l /\ c.lck = b.lck /\ c.new = b.new /\ c.rel = b.rel
    BY BufferUpdates
  <1>4. u[t] = b.trx[t] + a /\ \A s \in TrxKeys \ {t} : u[s] = b.trx[s]
    BY <1>t DEF Plus
  <1>5. ASSUME NEW v \in Wallets
        PROVE  l[v] = b.bal[v] + (IF t.receiver = v THEN a ELSE 0)
                              - (IF t.sender = v THEN a ELSE 0)
    <2>1. m[v] = IF v = t.sender THEN b.bal[v] + (-a) ELSE b.bal[v]
      BY <1>t, <1>0, PlusAt
    <2>2. l[v] = IF v = t.receiver THEN m[v] + a ELSE m[v]
      BY <1>1, <1>0, PlusAt
    <2>3. b.bal[v] \in Int
      BY <1>t
    <2> HIDE DEF l, m
    <2> QED
      BY <1>0, <2>1, <2>2, <2>3
  <1> HIDE DEF c, u, m, l
  <1>6. ASSUME NEW v \in Wallets
        PROVE  c.bal[v] = b.bal[v] - Moved(b, t, v) + Moved(c, t, v)
    <2>1. b.trx[t] \in Int /\ b.bal[v] \in Int
      BY <1>t
    <2> QED
      BY <1>0, <1>3, <1>4, <1>5, <2>1 DEF Moved
  <1>7. OneEntry(b, c)
    BY <1>3, <1>4, <1>6 DEF OneEntry
  <1> QED
    BY <1>2, <1>7 DEF c, u, m, l


(* What a commit does to the lock rows: it creates those it has pending,      *)
(* reduces those it released and leaves the wallet of every lock alone.       *)
LEMMA CommitKeepsLocks ==
  ASSUME IInv, NEW p \in Txns, Commit(p)
  PROVE  \A k \in Keys :
           lockRow[k] # NoLock =>
             /\ buf[p].new[k] = NoLock
             /\ lockRow'[k] # NoLock
             /\ lockRow'[k].wallet = lockRow[k].wallet
             /\ lockRow'[k].amount = lockRow[k].amount + buf[p].rel[k]
  <1> SUFFICES ASSUME NEW k \in Keys, lockRow[k] # NoLock
               PROVE  /\ buf[p].new[k] = NoLock
                      /\ lockRow'[k] # NoLock
                      /\ lockRow'[k].wallet = lockRow[k].wallet
                      /\ lockRow'[k].amount = lockRow[k].amount + buf[p].rel[k]
    OBVIOUS
  <1>1. lockRow[k] \in AnyLockRow /\ buf[p] \in Buffers /\ NoLock \notin AnyLockRow
    BY ConstantsAssumption DEF IInv, TypeOK, AnyLockRow
  <1>2. buf[p].rel[k] \in Int
    BY <1>1, BufferTypes
  <1>3. buf[p].new[k] = NoLock
    BY CommitEffect DEF InsertsValid
  <1>4. CASE buf[p].rel[k] = 0
    <2>1. lockRow'[k] = lockRow[k]
      BY <1>3, <1>4, CommitEffect
    <2> QED
      BY <1>1, <1>3, <1>4, <2>1 DEF AnyLockRow
  <1>5. CASE buf[p].rel[k] # 0
    <2>1. lockRow'[k] = [lockRow[k] EXCEPT !.amount = @ + buf[p].rel[k]]
      BY <1>3, <1>5, CommitEffect
    <2>2. lockRow'[k] \in AnyLockRow
      BY <1>1, <1>2, <2>1 DEF AnyLockRow
    <2> QED
      BY <1>1, <1>3, <2>1, <2>2 DEF AnyLockRow
  <1> QED
    BY <1>4, <1>5

LEMMA BodyChange ==
  ASSUME IInv, AllAccounted, NEW p \in Txns, Body(p)
  PROVE  \E c \in Buffers :
           BodyStep(p, c) /\ (c = buf[p] \/ OneLock(lockRow, buf[p], c) \/ OneEntry(buf[p], c))
  <1> DEFINE b == buf[p]
             Good(c) == /\ c \in Buffers
                        /\ c = b \/ OneLock(lockRow, b, c) \/ OneEntry(b, c)
  <1>0. b \in Buffers /\ lockRow \in Rows
    BY DEF IInv, TypeOK, Rows, AnyLockRow
  <1>t. b.rel \in [Keys -> Int] /\ b.new \in Rows /\ \A k \in Keys : b.rel[k] <= 0
    BY <1>0, BufferTypes DEF AllAccounted, Accounted
  <1> HIDE DEF b
  <1>1. ASSUME NEW k \in Keys, NEW w \in Wallets, NEW a \in Amounts, NewLock(p, k, w, a)
        PROVE  \E c : Good(c) /\ BodyStep(p, c)
    <2> DEFINE c == [b EXCEPT !.new = Put(@, k, [wallet |-> w, amount |-> a]),
                              !.lck = Plus(@, w, a)]
    <2>1. b.new[k] = NoLock /\ (BodyStep(p, b) \/ BodyStep(p, c))
      BY <1>1 DEF NewLock, b
    <2>2. c \in Buffers /\ OneLock(lockRow, b, c)
      BY <1>0, <1>t, <2>1, AmountFacts, NewLockChange
    <2> QED
      BY <1>0, <2>1, <2>2
  <1>2. ASSUME NEW k \in Keys, NEW a \in Int, b.new[k] # NoLock
        PROVE  Good(ReducePending(b, k, a))
    BY <1>0, <1>t, <1>2, ReducePendingChange
  <1>3. ASSUME NEW k \in Keys, NEW a \in Int, lockRow[k] # NoLock, b.rel[k] - a <= 0
        PROVE  Good(ReduceCommitted(b, k, a))
    BY <1>0, <1>3, ReduceCommittedChange
  <1>4. ASSUME NEW k \in Keys, ReleaseAll(p, k) PROVE \E c : Good(c) /\ BodyStep(p, c)
    <2>1. CASE b.new[k] # NoLock /\ BodyStep(p, ReducePending(b, k, b.new[k].amount))
      <3>1. b.new[k].amount \in Int
        BY <1>t, <2>1 DEF Rows, AnyLockRow
      <3> QED
        BY <1>2, <2>1, <3>1
    <2>2. CASE lockRow[k] # NoLock /\ BodyStep(p, ReduceCommitted(b, k, lockRow[k].amount + b.rel[k]))
      <3>1. lockRow[k].amount \in Int /\ lockRow[k].amount >= 0 /\ b.rel[k] \in Int
        BY <1>0, <1>t, <2>2 DEF Rows, AnyLockRow, IInv, Solvent
      <3>2. /\ lockRow[k].amount + b.rel[k] \in Int
            /\ b.rel[k] - (lockRow[k].amount + b.rel[k]) <= 0
        BY <3>1
      <3>3. Good(ReduceCommitted(b, k, lockRow[k].amount + b.rel[k]))
        BY <1>3, <2>2, <3>2
      <3> QED
        BY <2>2, <3>3
    <2> QED
      BY <1>4, <2>1, <2>2 DEF ReleaseAll, b
  <1>5. ASSUME NEW k \in Keys, NEW a \in Amounts, ReleasePart(p, k, a)
        PROVE  \E c : Good(c) /\ BodyStep(p, c)
    <2>0. a \in Nat
      BY AmountFacts
    <2>1. CASE b.new[k] # NoLock /\ BodyStep(p, ReducePending(b, k, a))
      BY <1>2, <2>0, <2>1
    <2>2. CASE lockRow[k] # NoLock /\ BodyStep(p, ReduceCommitted(b, k, a))
      <3>1. b.rel[k] - a <= 0
        BY <1>t, <2>0
      <3>2. Good(ReduceCommitted(b, k, a))
        BY <1>3, <2>0, <2>2, <3>1
      <3> QED
        BY <2>2, <3>2
    <2> QED
      BY <1>5, <2>1, <2>2 DEF ReleasePart, b
  <1>6. ASSUME NEW t \in TrxKeys, NEW a \in Amounts, NewTrx(p, t, a)
        PROVE  \E c : Good(c) /\ BodyStep(p, c)
    <2> DEFINE c == [b EXCEPT !.trx = Plus(@, t, a),
                              !.bal = Plus(Plus(@, t.sender, -a), t.receiver, a)]
    <2>1. BodyStep(p, c)
      BY <1>6 DEF NewTrx, b
    <2>2. c \in Buffers /\ OneEntry(b, c)
      BY <1>0, AmountFacts, NewTrxChange
    <2> QED
      BY <2>1, <2>2
  <1>7. \E c : Good(c) /\ BodyStep(p, c)
    BY <1>1, <1>4, <1>5, <1>6 DEF Body
  <1> QED
    BY <1>7 DEF b

(* A pipeline that has just been entered. *)
LEMMA EmptyAccounted ==
  ASSUME NEW rows \in Rows
  PROVE  Accounted(rows, EmptyBuffer)
  <1>1. IsFiniteSet(Keys) /\ IsFiniteSet(TrxKeys)
    BY ConstantsAssumption, TrxKeysFinite
  <1>2. ASSUME NEW w \in Wallets
        PROVE  0 = SumFunctionOnSet([k \in Keys |-> HeldBy(rows, EmptyBuffer, k, w)], Keys)
    <2> DEFINE f == [k \in Keys |-> HeldBy(rows, EmptyBuffer, k, w)]
    <2>1. \A k \in Keys : f[k] = 0
      BY DEF HeldBy, EmptyBuffer
    <2> HIDE DEF f
    <2>2. SumFunctionOnSet(f, Keys) = 0
      BY <1>1, <2>1, SumZero
    <2> QED
      BY <2>2 DEF f
  <1>3. ASSUME NEW w \in Wallets
        PROVE  0 = SumFunctionOnSet([t \in TrxKeys |-> Moved(EmptyBuffer, t, w)], TrxKeys)
    <2> DEFINE f == [t \in TrxKeys |-> Moved(EmptyBuffer, t, w)]
    <2>1. \A t \in TrxKeys : f[t] = 0
      BY DEF Moved, EmptyBuffer
    <2> HIDE DEF f
    <2>2. SumFunctionOnSet(f, TrxKeys) = 0
      BY <1>1, <2>1, SumZero
    <2> QED
      BY <2>2 DEF f
  <1>4. /\ \A w \in Wallets : EmptyBuffer.lck[w] = 0 /\ EmptyBuffer.bal[w] = 0
        /\ \A k \in Keys : EmptyBuffer.rel[k] <= 0
    BY DEF EmptyBuffer
  <1> QED
    BY <1>2, <1>3, <1>4 DEF Accounted

LEMMA StepAccounted ==
  ASSUME IInv, AllAccounted, [Next]_vars
  PROVE  AllAccounted'
  <1>0. /\ buf \in [Txns -> Buffers] /\ lockRow \in Rows
        /\ \A p \in Txns : Accounted(lockRow, buf[p])
    BY DEF IInv, TypeOK, AllAccounted, Rows, AnyLockRow
  <1>1. CASE UNCHANGED <<lockRow, buf>>
    BY <1>0, <1>1 DEF AllAccounted
  <1>2. ASSUME NEW p \in Txns, Enter(p) PROVE AllAccounted'
    <2>1. lockRow' = lockRow /\ buf' = [buf EXCEPT ![p] = EmptyBuffer]
      BY <1>2 DEF Enter, db
    <2>2. Accounted(lockRow, EmptyBuffer)
      BY <1>0, EmptyAccounted
    <2>3. \A q \in Txns : buf'[q] = EmptyBuffer \/ buf'[q] = buf[q]
      BY <1>0, <2>1
    <2> QED
      BY <1>0, <2>1, <2>2, <2>3 DEF AllAccounted
  <1>3. ASSUME NEW p \in Txns, Body(p) PROVE AllAccounted'
    <2>1. PICK c \in Buffers :
            BodyStep(p, c) /\ (c = buf[p] \/ OneLock(lockRow, buf[p], c) \/ OneEntry(buf[p], c))
      BY <1>3, BodyChange
    <2>2. Accounted(lockRow, c)
      BY <1>0, <2>1, ChangeAccounted
    <2> DEFINE d == [c EXCEPT !.ops = @ + 1]
    <2>3. lockRow' = lockRow /\ buf' = [buf EXCEPT ![p] = d]
      BY <2>1 DEF BodyStep, db
    <2>4. d.bal = c.bal /\ d.lck = c.lck /\ d.rel = c.rel /\ d.new = c.new /\ d.trx = c.trx
      BY BufferUpdates
    <2> HIDE DEF d
    <2>5. /\ \A k \in Keys, w \in Wallets : HeldBy(lockRow, d, k, w) = HeldBy(lockRow, c, k, w)
          /\ \A t \in TrxKeys, w \in Wallets : Moved(d, t, w) = Moved(c, t, w)
      BY <2>4 DEF HeldBy, Moved
    <2>6. \A w \in Wallets :
            /\ [k \in Keys |-> HeldBy(lockRow, d, k, w)] = [k \in Keys |-> HeldBy(lockRow, c, k, w)]
            /\ [t \in TrxKeys |-> Moved(d, t, w)] = [t \in TrxKeys |-> Moved(c, t, w)]
      BY <2>5
    <2>7. Accounted(lockRow, d)
      BY <2>2, <2>4, <2>6 DEF Accounted
    <2>8. \A q \in Txns : buf'[q] = d \/ buf'[q] = buf[q]
      BY <1>0, <2>3
    <2> QED
      BY <1>0, <2>3, <2>7, <2>8 DEF AllAccounted
  <1>4. ASSUME NEW p \in Txns, Leave(p) \/ Rollback(p) PROVE UNCHANGED <<lockRow, buf>>
    BY <1>4 DEF Leave, Exit, Rollback, db
  <1>5. ASSUME NEW p \in Txns,
               (\E k \in Keys : UpdateLockRow(p, k)) \/ (\E w \in Wallets : UpdateWallet(p, w))
        PROVE  UNCHANGED <<lockRow, buf>>
    BY <1>5 DEF UpdateLockRow, UpdateWallet, db
  <1>6. ASSUME NEW p \in Txns, Commit(p) PROVE AllAccounted'
    <2>1. buf' = buf
      BY <1>6, CommitEffect
    <2>2. \A k \in Keys : lockRow[k] # NoLock =>
                            lockRow'[k] # NoLock /\ lockRow'[k].wallet = lockRow[k].wallet
      BY <1>6, CommitKeepsLocks
    <2>3. ASSUME NEW q \in Txns, NEW k \in Keys, NEW w \in Wallets
          PROVE  HeldBy(lockRow', buf[q], k, w) = HeldBy(lockRow, buf[q], k, w)
      <3>1. CASE lockRow[k] # NoLock
        BY <2>2, <3>1 DEF HeldBy
      <3>2. CASE lockRow[k] = NoLock
        <4>1. buf[q].rel[k] = 0
          BY <3>2 DEF IInv, HeldRowsChecked
        <4> QED
          BY <3>2, <4>1 DEF HeldBy
      <3> QED
        BY <3>1, <3>2
    <2>4. \A q \in Txns, w \in Wallets :
            [k \in Keys |-> HeldBy(lockRow', buf[q], k, w)]
              = [k \in Keys |-> HeldBy(lockRow, buf[q], k, w)]
      BY <2>3
    <2>5. \A q \in Txns : Accounted(lockRow', buf[q])
      BY <1>0, <2>4 DEF Accounted
    <2> QED
      BY <2>1, <2>5 DEF AllAccounted
  <1> QED
    BY <1>1, <1>2, <1>3, <1>4, <1>5, <1>6
       DEF Next, Execute, UpdateRefused, InsertsRefused, Crash, vars


(* The sums of the ledger, an instance of its module, are those of ours.      *)
LEMMA LedgerSum ==
  ASSUME NEW f, NEW S
  PROVE  LedgerView!SumFunctionOnSet(f, S) = SumFunctionOnSet(f, S)
  BY DEF LedgerView!SumFunctionOnSet, LedgerView!FoldFunctionOnSet,
         LedgerView!MapThenFoldSet, SumFunctionOnSet, FoldFunctionOnSet, MapThenFoldSet

(* A commit adds to what is held under each key what the pipeline buffered    *)
(* for it, and to the wallet's locked column the sum of it.                   *)
LEMMA CommitBacked ==
  ASSUME IInv, AllAccounted, LockedIsBacked, NEW p \in Txns, Commit(p)
  PROVE  LockedIsBacked'
  <1> SUFFICES ASSUME NEW w \in Wallets
               PROVE  locked'[w] = LedgerView!Held(lockRow', w)
    BY DEF LockedIsBacked
  <1> DEFINE b == buf[p]
             f == [k \in Keys |-> LedgerView!HeldUnder(lockRow, k, w)]
             g == [k \in Keys |-> HeldBy(lockRow, b, k, w)]
             h == [k \in Keys |-> LedgerView!HeldUnder(lockRow', k, w)]
  <1>0. IsFiniteSet(Keys) /\ NoLock \notin AnyLockRow
    BY ConstantsAssumption DEF AnyLockRow
  <1>t. b \in Buffers /\ lockRow \in Rows /\ locked \in [Wallets -> Int]
    BY DEF IInv, TypeOK, Rows, AnyLockRow
  <1>a. b.rel \in [Keys -> Int] /\ b.new \in Rows /\ b.lck \in [Wallets -> Int]
    BY <1>t, BufferTypes
  <1>1. locked[w] = SumFunctionOnSet(f, Keys)
    BY LedgerSum DEF LockedIsBacked, LedgerView!Held
  <1>2. b.lck[w] = SumFunctionOnSet(g, Keys)
    BY DEF AllAccounted, Accounted
  <1>3. locked'[w] = locked[w] + b.lck[w]
    <2>1. locked' = [v \in Wallets |-> locked[v] + b.lck[v]]
      BY CommitEffect
    <2> HIDE DEF b
    <2> QED
      BY <2>1
  <1>4. ASSUME NEW k \in Keys
        PROVE  f[k] \in Int /\ g[k] \in Int /\ h[k] = f[k] + g[k]
    <2>1. f[k] = (IF lockRow[k] # NoLock /\ lockRow[k].wallet = w THEN lockRow[k].amount ELSE 0)
      BY DEF LedgerView!HeldUnder
    <2>2. g[k] = (IF b.new[k] # NoLock /\ b.new[k].wallet = w THEN b.new[k].amount ELSE 0)
                 + (IF lockRow[k] # NoLock /\ lockRow[k].wallet = w THEN b.rel[k] ELSE 0)
      BY DEF HeldBy
    <2>3. h[k] = (IF lockRow'[k] # NoLock /\ lockRow'[k].wallet = w THEN lockRow'[k].amount ELSE 0)
      BY DEF LedgerView!HeldUnder
    <2>i. /\ lockRow[k] # NoLock => lockRow[k].amount \in Int
          /\ b.new[k] # NoLock => b.new[k].amount \in Int
          /\ b.rel[k] \in Int
      BY <1>t, <1>a DEF Rows, AnyLockRow
    <2> HIDE DEF f, g, h, b
    <2>4. f[k] \in Int /\ g[k] \in Int
      BY <2>1, <2>2, <2>i
    <2>5. CASE lockRow[k] # NoLock
      <3>1. /\ b.new[k] = NoLock /\ lockRow'[k] # NoLock
            /\ lockRow'[k].wallet = lockRow[k].wallet
            /\ lockRow'[k].amount = lockRow[k].amount + b.rel[k]
        BY <2>5, CommitKeepsLocks DEF b
      <3> QED
        BY <2>1, <2>2, <2>3, <2>4, <2>5, <2>i, <3>1
    <2>6. CASE lockRow[k] = NoLock /\ b.new[k] # NoLock
      <3>1. lockRow'[k] = b.new[k]
        BY <2>6, CommitEffect DEF b
      <3> QED
        BY <2>1, <2>2, <2>3, <2>4, <2>6, <2>i, <3>1
    <2>7. CASE lockRow[k] = NoLock /\ b.new[k] = NoLock
      <3>1. b.rel[k] = 0
        BY <2>7 DEF IInv, HeldRowsChecked, b
      <3>2. lockRow'[k] = lockRow[k]
        BY <2>7, <3>1, CommitEffect DEF b
      <3> QED
        BY <2>1, <2>2, <2>3, <2>4, <2>7, <2>i, <3>2
    <2> QED
      BY <2>4, <2>5, <2>6, <2>7
  <1>5. LedgerView!Held(lockRow', w) = SumFunctionOnSet(h, Keys)
    BY LedgerSum DEF LedgerView!Held
  <1> HIDE DEF f, g, h
  <1>6. SumFunctionOnSet(h, Keys) = SumFunctionOnSet(f, Keys) + SumFunctionOnSet(g, Keys)
    BY <1>0, <1>4, SumPlus
  <1> QED
    BY <1>1, <1>2, <1>3, <1>5, <1>6

(* The inductive invariant of the ledger's accounts.                          *)
AccountsInv == IInv /\ AllAccounted /\ LockedIsBacked

LEMMA StepKeepsDb ==
  ASSUME IInv, [Next]_vars, \A p \in Txns : ~ Commit(p)
  PROVE  UNCHANGED db
  <1>0. TypeOK
    BY DEF IInv
  <1>1. ASSUME NEW p \in Txns, Enter(p) \/ Body(p) \/ Leave(p) PROVE UNCHANGED db
    <2>1. Body(p) => \E c \in Buffers : BodyStep(p, c)
      BY <1>0, BodyBuffers DEF AfterBody
    <2> QED
      BY <1>1, <2>1 DEF Enter, BodyStep, Leave, Exit
  <1>2. ASSUME NEW p \in Txns, Rollback(p) PROVE UNCHANGED db
    BY <1>2 DEF Rollback
  <1>3. ASSUME NEW p \in Txns, Execute(p) PROVE UNCHANGED db
    BY <1>2, <1>3 DEF Execute, UpdateLockRow, UpdateWallet, UpdateRefused, InsertsRefused
  <1> QED
    BY <1>1, <1>2, <1>3 DEF Next, Crash, vars, db

LEMMA AccountsHold == Spec => []AccountsInv
  <1>1. Init => AllAccounted /\ LockedIsBacked
    <2> SUFFICES ASSUME Init PROVE AllAccounted /\ LockedIsBacked
      OBVIOUS
    <2>1. LockedIsBacked
      BY LedgerAssumption DEF Init, LockedIsBacked
    <2>2. lockRow \in Rows /\ \A p \in Txns : buf[p] = EmptyBuffer
      BY OpeningAssumption DEF Init, Rows, AnyLockRow, LockRows
    <2>3. \A p \in Txns : Accounted(lockRow, buf[p])
      BY <2>2, EmptyAccounted
    <2> QED
      BY <2>1, <2>3 DEF AllAccounted
  <1>2. AccountsInv /\ [Next]_vars => LockedIsBacked'
    <2> SUFFICES ASSUME AccountsInv, [Next]_vars PROVE LockedIsBacked'
      OBVIOUS
    <2>1. CASE \E p \in Txns : Commit(p)
      BY <2>1, CommitBacked DEF AccountsInv
    <2>2. CASE \A p \in Txns : ~ Commit(p)
      <3>1. locked' = locked /\ lockRow' = lockRow
        BY <2>2, StepKeepsDb DEF AccountsInv, db
      <3> QED
        BY <3>1 DEF AccountsInv, LockedIsBacked, LedgerView!Held, LedgerView!HeldUnder
    <2> QED
      BY <2>1, <2>2
  <1>3. IInv /\ AllAccounted /\ [Next]_vars => AllAccounted'
    BY StepAccounted
  <1> QED
    BY <1>1, <1>2, <1>3, InvariantHolds, PTL DEF Spec, AccountsInv

(* Wallet.locked is always the sum of the wallet's BalanceLock rows, however  *)
(* many pipelines create, reduce and release them concurrently and whatever   *)
(* stale rows release_lock read: the check of ledger/utils/trx_consistency.py *)
(* never finds a difference.                                                  *)
THEOREM LockedAlwaysBacked == Spec => []LockedIsBacked
  BY AccountsHold, PTL DEF AccountsInv

-----------------------------------------------------------------------------
(* The refinement: a commit is one Post of the ledger, and no other step is   *)
(* visible to it.                                                             *)

Entry(b, t) == [sender |-> t.sender, receiver |-> t.receiver, group |-> t.group,
                amount |-> b.trx[t]]

(* The entries a pipeline inserts move what it buffered.                      *)
LEMMA PostedNet ==
  ASSUME IInv, AllAccounted, NEW p \in Txns, NEW w \in Wallets
  PROVE  LedgerView!Net(PostedEntries(p), w) = buf[p].bal[w]
  <1> DEFINE b == buf[p]
             S == {t \in TrxKeys : b.trx[t] # 0}
             Z == TrxKeys \ S
             f == [t \in TrxKeys |-> Moved(b, t, w)]
             m == [t \in TrxKeys |-> Entry(b, t)]
             E == PostedEntries(p)
             g == [e \in E |-> (IF e.receiver = w THEN e.amount ELSE 0)
                               - (IF e.sender = w THEN e.amount ELSE 0)]
  <1>t. b \in Buffers
    BY DEF IInv, TypeOK
  <1>0. IsFiniteSet(TrxKeys) /\ IsFiniteSet(S) /\ IsFiniteSet(Z)
    BY TrxKeysFinite, FS_Subset
  <1>1. \A t \in TrxKeys : f[t] \in Int
    BY <1>t, MovedInt
  <1>2. b.bal[w] = SumFunctionOnSet(f, TrxKeys)
    BY DEF AllAccounted, Accounted
  <1>3. \A t \in Z : f[t] = 0
    BY DEF Moved
  <1>4. S \cap Z = {} /\ S \cup Z = TrxKeys
    OBVIOUS
  <1>5. E = {m[t] : t \in S}
    BY DEF PostedEntries, Entry
  <1>6. ASSUME NEW t \in S PROVE m[t] \in E /\ f[t] = g[m[t]] /\ g[m[t]] \in Int
    <2>1. m[t] \in E
      BY <1>5
    <2>2. /\ m[t].receiver = t.receiver /\ m[t].sender = t.sender
          /\ m[t].amount = b.trx[t]
      BY DEF Entry
    <2>3. g[m[t]] = Moved(b, t, w)
      BY <2>1, <2>2 DEF Moved
    <2> QED
      BY <1>1, <2>1, <2>3
  <1>7. ASSUME NEW t \in S, NEW u \in S, m[t] = m[u] PROVE t = u
    <2>1. t.sender = u.sender /\ t.receiver = u.receiver /\ t.group = u.group
      BY <1>7 DEF Entry
    <2> QED
      BY <2>1 DEF TrxKeys
  <1>8. LedgerView!Net(E, w) = SumFunctionOnSet(g, E)
    BY LedgerSum DEF LedgerView!Net
  <1> HIDE DEF b, S, Z, f, m, E, g
  <1>9. SumFunctionOnSet(f, S) = SumFunctionOnSet(g, E)
    <2>1. \A t \in S : f[t] = g[m[t]] /\ g[m[t]] \in Int
      BY <1>6
    <2>2. \A t \in S, u \in S : m[t] = m[u] => t = u
      BY <1>7
    <2> QED
      BY <1>0, <1>5, <2>1, <2>2, SumRenamed
  <1>10. SumFunctionOnSet(f, TrxKeys) = SumFunctionOnSet(f, S) + SumFunctionOnSet(f, Z)
    BY <1>0, <1>1, <1>4, SumUnion
  <1>11. SumFunctionOnSet(f, Z) = 0
    BY <1>0, <1>3, SumZero
  <1>12. SumFunctionOnSet(f, S) \in Int
    BY <1>0, <1>1, <1>4, SumInt
  <1>13. LedgerView!Net(E, w) = b.bal[w]
    BY <1>2, <1>8, <1>9, <1>10, <1>11, <1>12
  <1> QED
    BY <1>13 DEF b, E

LEMMA CommitPosts ==
  ASSUME AccountsInv, AccountsInv', NEW p \in Txns, Commit(p)
  PROVE  LedgerView!Post
  <1> DEFINE b == buf[p]
             E == PostedEntries(p)
  <1>t. /\ b \in Buffers /\ lockRow \in Rows /\ IInv /\ AllAccounted
        /\ balance \in [Wallets -> Int]
    BY DEF AccountsInv, IInv, TypeOK, Rows, AnyLockRow
  <1>1. trx' = trx \cup E /\ InsertsValid(p)
    BY CommitEffect
  <1>2. \A e \in E : \A f \in trx : ~ LedgerView!SameEntry(e, f)
    BY <1>1 DEF InsertsValid, LedgerView!SameEntry
  <1>3. trx \cap E = {}
    BY <1>2 DEF LedgerView!SameEntry
  <1>4. trx' \ trx = E
    BY <1>1, <1>3
  <1>5. ASSUME NEW e \in E, NEW f \in trx', LedgerView!SameEntry(e, f) PROVE e = f
    <2>1. f \in E
      BY <1>1, <1>2, <1>5
    <2>2. PICK t \in TrxKeys : e = Entry(b, t)
      BY DEF PostedEntries, Entry
    <2>3. PICK u \in TrxKeys : f = Entry(b, u)
      BY <2>1 DEF PostedEntries, Entry
    <2>4. t.sender = u.sender /\ t.receiver = u.receiver /\ t.group = u.group
      BY <1>5, <2>2, <2>3 DEF LedgerView!SameEntry, Entry
    <2>5. t = u
      BY <2>4 DEF TrxKeys
    <2> QED
      BY <2>2, <2>3, <2>5
  <1>6. ASSUME NEW w \in Wallets
        PROVE  balance'[w] = balance[w] + LedgerView!Net(trx' \ trx, w)
    <2>1. LedgerView!Net(E, w) = b.bal[w]
      BY <1>t, PostedNet
    <2>2. balance' = [v \in Wallets |-> balance[v] + b.bal[v]]
      BY CommitEffect
    <2> HIDE DEF b, E
    <2>3. balance'[w] = balance[w] + b.bal[w]
      BY <2>2
    <2> QED
      BY <1>4, <2>1, <2>3
  <1>7. ASSUME NEW k \in Keys, lockRow[k] # NoLock
        PROVE  /\ lockRow'[k] # NoLock
               /\ lockRow'[k].wallet = lockRow[k].wallet
               /\ lockRow'[k].amount \in 0 .. lockRow[k].amount
    <2>1. /\ lockRow'[k] # NoLock /\ lockRow'[k].wallet = lockRow[k].wallet
          /\ lockRow'[k].amount = lockRow[k].amount + b.rel[k]
      BY <1>t, <1>7, CommitKeepsLocks
    <2>2. b.rel[k] \in Int /\ b.rel[k] <= 0
      BY <1>t, BufferTypes DEF AllAccounted, Accounted
    <2>3. lockRow[k].amount \in Int
      BY <1>t, <1>7 DEF Rows, AnyLockRow
    <2>4. lockRow'[k].amount >= 0
      BY <2>1 DEF AccountsInv, IInv, Solvent
    <2> QED
      BY <2>1, <2>2, <2>3, <2>4
  <1>8. ASSUME NEW w \in Wallets \ Unchecked
        PROVE  balance'[w] >= LedgerView!Held(lockRow', w)
    <2>1. balance'[w] >= locked'[w]
      BY DEF AccountsInv, IInv, Solvent, WalletValid, Checked
    <2>2. locked'[w] = LedgerView!Held(lockRow', w)
      BY DEF AccountsInv, LockedIsBacked
    <2> QED
      BY <2>1, <2>2
  <1>9. trx \subseteq trx'
    BY <1>1
  <1>10. \A e \in trx' \ trx : \A f \in trx' : LedgerView!SameEntry(e, f) => e = f
    BY <1>4, <1>5
  <1> HIDE DEF b, E
  <1> QED
    BY <1>6, <1>7, <1>8, <1>9, <1>10 DEF LedgerView!Post

(* Whatever the interleaving, the commits of concurrent pipelines are the     *)
(* steps of the ledger: each posts entries not seen before that account for   *)
(* every balance it changes, only shrinks the locks that existed, and leaves  *)
(* every checked wallet good for what is held on it.                          *)
THEOREM PipelineImplementsLedger == Spec => ImplementsLedger
  <1>1. Init => LedgerView!Init
    <2> SUFFICES ASSUME Init PROVE LedgerView!Init
      OBVIOUS
    <2>1. ASSUME NEW w \in Wallets \ Unchecked
          PROVE  balance[w] >= LedgerView!Held(lockRow, w)
      BY OpeningAssumption, LedgerAssumption DEF Init, WalletValid, Checked
    <2>2. trx = {}
      BY DEF Init
    <2> QED
      BY <2>1, <2>2 DEF LedgerView!Init
  <1>2. AccountsInv /\ AccountsInv' /\ [Next]_vars => [LedgerView!Post]_(LedgerView!vars)
    <2> SUFFICES ASSUME AccountsInv, AccountsInv', [Next]_vars
                 PROVE  LedgerView!Post \/ UNCHANGED LedgerView!vars
      OBVIOUS
    <2>1. CASE \E p \in Txns : Commit(p)
      BY <2>1, CommitPosts
    <2>2. CASE \A p \in Txns : ~ Commit(p)
      BY <2>2, StepKeepsDb DEF AccountsInv, db, LedgerView!vars
    <2> QED
      BY <2>1, <2>2
  <1> QED
    BY <1>1, <1>2, AccountsHold, PTL DEF Spec, ImplementsLedger, LedgerView!Spec
=============================================================================
