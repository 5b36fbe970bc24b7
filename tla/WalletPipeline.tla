--------------------------- MODULE WalletPipeline ---------------------------
(***************************************************************************)
(* ledger/utils/wallet_pipeline.py: a database transaction that buffers    *)
(* the changes its body asks for (new_lock, release_lock, new_trx) and     *)
(* writes them row by row when it is left, in sorted order, with relative  *)
(* updates (F('balance') + x).  Several transactions run concurrently      *)
(* under PostgreSQL's READ COMMITTED isolation: a row update waits for the *)
(* row, the CHECK constraints of ledger/models/wallet.py and               *)
(* balance_lock.py are evaluated on the committed row, and what was        *)
(* written becomes visible when the transaction commits.                   *)
(*                                                                         *)
(* The wallets are those of one asset (new_trx asserts that sender and     *)
(* receiver agree on it); credit is 0, its value for every account but     *)
(* a few; margin, loan and debt wallets are another module's.  A group     *)
(* stands for the pair (group_id, scope) of a Trx.                         *)
(***************************************************************************)
EXTENDS Integers, FiniteSets, FiniteSetsExt

CONSTANTS
  Wallets,        \* wallet ids: the order of ids is the order of updates
  Unchecked,      \* the wallets with check_balance = False
  Keys,           \* lock keys (UUIDs, ordered)
  Groups,         \* (group_id, scope) pairs
  Txns,           \* one pipeline each
  Amounts,        \* the amounts a body passes
  MaxOps,         \* bound: [Txns -> Nat], operations in one body
  Opening,        \* [Wallets -> Int], balances before these transactions
  OpeningLocks,   \* [Keys -> NoLock or a lock row], locks before them
  OpeningLocked,  \* [Wallets -> Nat], the "locked" column before them
  NoLock, NoTxn

LockRows == [wallet : Wallets, amount : Nat]
TrxKeys == {t \in [sender : Wallets, receiver : Wallets, group : Groups] :
              t.sender # t.receiver}

Checked == Wallets \ Unchecked

(* CheckConstraints valid_balance_constraint and valid_locked_constraint. *)
WalletValid(w, bal, lck) ==
  /\ lck >= 0
  /\ w \in Checked => bal >= lck

ASSUME ConstantsAssumption ==
  /\ Wallets \subseteq Nat /\ Unchecked \subseteq Wallets /\ Keys \subseteq Nat
  /\ IsFiniteSet(Wallets) /\ IsFiniteSet(Keys) /\ IsFiniteSet(Txns)
  /\ Amounts \subseteq Nat \ {0} /\ MaxOps \in [Txns -> Nat]
  /\ NoLock \notin [wallet : Wallets, amount : Int] /\ NoTxn \notin Txns

ASSUME OpeningAssumption ==
  /\ Opening \in [Wallets -> Int] /\ OpeningLocked \in [Wallets -> Nat]
  /\ OpeningLocks \in [Keys -> LockRows \cup {NoLock}]
  /\ \A w \in Wallets : WalletValid(w, Opening[w], OpeningLocked[w])

VARIABLES
  balance,      \* committed Wallet.balance
  locked,       \* committed Wallet.locked
  lockRow,      \* committed BalanceLock rows
  trx,          \* committed Trx rows
  pc,           \* where each transaction is
  doomed,       \* its body was left by an exception: it will be rolled back
  buf,          \* its buffers
  lockHolder,   \* which transaction holds the row lock of a BalanceLock
  walletHolder  \* which transaction holds the row lock of a Wallet

db == <<balance, locked, lockRow, trx>>
holders == <<lockHolder, walletHolder>>
vars == <<balance, locked, lockRow, trx, pc, doomed, buf, lockHolder, walletHolder>>

(* The buffers of a pipeline: _wallet_balances, _wallet_locks, _locks_amount, *)
(* _locks and _trxs (an amount of 0 is an absent entry).                      *)
Buffers == [bal : [Wallets -> Int], lck : [Wallets -> Int], rel : [Keys -> Int],
            new : [Keys -> [wallet : Wallets, amount : Int] \cup {NoLock}],
            trx : [TrxKeys -> Nat], ops : Nat]

EmptyBuffer == [bal |-> [w \in Wallets |-> 0], lck |-> [w \in Wallets |-> 0],
                rel |-> [k \in Keys |-> 0], new |-> [k \in Keys |-> NoLock],
                trx |-> [t \in TrxKeys |-> 0], ops |-> 0]

Init ==
  /\ balance = Opening
  /\ locked = OpeningLocked
  /\ lockRow = OpeningLocks
  /\ trx = {}
  /\ pc = [p \in Txns |-> "start"]
  /\ doomed = [p \in Txns |-> FALSE]
  /\ buf = [p \in Txns |-> EmptyBuffer]
  /\ lockHolder = [k \in Keys |-> NoTxn]
  /\ walletHolder = [w \in Wallets |-> NoTxn]

-----------------------------------------------------------------------------
(* The body: __enter__ and the operations a caller makes inside "with".       *)

Enter(p) ==
  /\ pc[p] = "start"
  /\ pc' = [pc EXCEPT ![p] = "body"]
  /\ buf' = [buf EXCEPT ![p] = EmptyBuffer]
  /\ UNCHANGED <<db, doomed, holders>>

(* One operation of the body of p turns its buffers into b. *)
BodyStep(p, b) ==
  /\ pc[p] = "body"
  /\ buf[p].ops < MaxOps[p]
  /\ buf' = [buf EXCEPT ![p] = [b EXCEPT !.ops = @ + 1]]
  /\ UNCHANGED <<db, pc, doomed, holders>>

Plus(f, x, d) == [f EXCEPT ![x] = @ + d]
Put(f, x, v) == [f EXCEPT ![x] = v]

(* new_lock(key, wallet, amount): wallets without check_balance are left      *)
(* alone.                                                                     *)
NewLock(p, k, w, a) ==
  /\ buf[p].new[k] = NoLock
  /\ BodyStep(p, IF w \in Unchecked THEN buf[p]
                 ELSE [buf[p] EXCEPT !.new = Put(@, k, [wallet |-> w, amount |-> a]),
                                     !.lck = Plus(@, w, a)])

(* Mutant: the pending row is reduced, its wallet's buffered hold is not. *)
ReducePendingForgetsWallet(b, k, a) ==
  LET l == b.new[k] IN
  [b EXCEPT !.new = Put(@, k, IF l.amount = a THEN NoLock
                              ELSE [l EXCEPT !.amount = @ - a])]

(* release_lock of a lock this pipeline created: the pending row is reduced,  *)
(* and dropped when nothing is left of it.                                    *)
ReducePending(b, k, a) ==
  LET l == b.new[k] IN
  [b EXCEPT !.new = Put(@, k, IF l.amount = a THEN NoLock
                              ELSE [l EXCEPT !.amount = @ - a]),
            !.lck = Plus(@, l.wallet, -a)]

(* release_lock of a committed lock: the change is buffered twice, for the    *)
(* lock row and for its wallet.                                               *)
ReduceCommitted(b, k, a) ==
  [b EXCEPT !.rel = Plus(@, k, -a), !.lck = Plus(@, lockRow[k].wallet, -a)]

(* release_lock(key): all that is left, as far as this pipeline can see it.   *)
(* The committed row is read without a row lock.                              *)
ReleaseAll(p, k) ==
  LET b == buf[p] IN
  \/ /\ b.new[k] # NoLock
     /\ BodyStep(p, ReducePending(b, k, b.new[k].amount))
  \/ /\ b.new[k] = NoLock /\ lockRow[k] # NoLock
     /\ BodyStep(p, ReduceCommitted(b, k, lockRow[k].amount + b.rel[k]))

(* release_lock(key, amount). *)
ReleasePart(p, k, a) ==
  LET b == buf[p] IN
  \/ /\ b.new[k] # NoLock
     /\ BodyStep(p, ReducePending(b, k, a))
  \/ /\ b.new[k] = NoLock /\ lockRow[k] # NoLock
     /\ BodyStep(p, ReduceCommitted(b, k, a))

(* Mutant: a second entry of the same identity replaces the first. *)
NewTrxReplaces(p, t, a) ==
  /\ ~ {t.sender, t.receiver} \subseteq Unchecked
  /\ BodyStep(p, [buf[p] EXCEPT !.trx = Put(@, t, a),
                                !.bal = Plus(Plus(@, t.sender, -a), t.receiver, a)])

(* new_trx: entries of the same sender, receiver and group are added up;      *)
(* transfers between system wallets are ignored.                              *)
NewTrx(p, t, a) ==
  /\ ~ {t.sender, t.receiver} \subseteq Unchecked
  /\ BodyStep(p, [buf[p] EXCEPT !.trx = Plus(@, t, a),
                                !.bal = Plus(Plus(@, t.sender, -a), t.receiver, a)])

(* The end of the body, reached normally or by an exception: __exit__ goes on *)
(* to write the buffers in both cases.                                        *)
Exit(p, raised) ==
  /\ pc[p] = "body"
  /\ pc' = [pc EXCEPT ![p] = "execute"]
  /\ doomed' = [doomed EXCEPT ![p] = raised]
  /\ UNCHANGED <<db, buf, holders>>

-----------------------------------------------------------------------------
(* __exit__: _execute() writes lock rows, then wallets, then inserts.         *)

LockRowsToWrite(p) == {k \in Keys : buf[p].rel[k] # 0 /\ lockHolder[k] # p}
WalletsToWrite(p) ==
  {w \in Wallets : /\ buf[p].bal[w] # 0 \/ buf[p].lck[w] # 0
                   /\ walletHolder[w] # p}

(* Mutant: the rows are written in the order the body touched them. *)
IsNextUnsorted(r, rows) == r \in rows

(* The rows are written in the order of their keys (sorted_flatten_dict). *)
IsNext(r, rows) == r \in rows /\ \A s \in rows : r <= s

NextLockRow(p, k) == pc[p] = "execute" /\ IsNext(k, LockRowsToWrite(p))
NextWallet(p, w) ==
  /\ pc[p] = "execute"
  /\ LockRowsToWrite(p) = {}
  /\ IsNext(w, WalletsToWrite(p))

(* Mutant: the balance is checked, what is held on it is not. *)
WalletUpdateIgnoresHolds(p, w) ==
  /\ locked[w] + buf[p].lck[w] >= 0
  /\ w \in Checked => balance[w] + buf[p].bal[w] >= 0

LockRowValid(p, k) == lockRow[k].amount + buf[p].rel[k] >= 0
WalletUpdateValid(p, w) ==
  WalletValid(w, balance[w] + buf[p].bal[w], locked[w] + buf[p].lck[w])

(* The transaction ends without a trace and gives up its row locks. *)
Rollback(p) ==
  /\ pc' = [pc EXCEPT ![p] = "rolled back"]
  /\ lockHolder' = [k \in Keys |-> IF lockHolder[k] = p THEN NoTxn ELSE lockHolder[k]]
  /\ walletHolder' = [w \in Wallets |-> IF walletHolder[w] = p THEN NoTxn ELSE walletHolder[w]]
  /\ UNCHANGED <<db, doomed, buf>>

UpdateLockRow(p, k) ==
  /\ NextLockRow(p, k)
  /\ lockHolder[k] = NoTxn
  /\ LockRowValid(p, k)
  /\ lockHolder' = [lockHolder EXCEPT ![k] = p]
  /\ UNCHANGED <<db, pc, doomed, buf, walletHolder>>

UpdateWallet(p, w) ==
  /\ NextWallet(p, w)
  /\ walletHolder[w] = NoTxn
  /\ WalletUpdateValid(p, w)
  /\ walletHolder' = [walletHolder EXCEPT ![w] = p]
  /\ UNCHANGED <<db, pc, doomed, buf, lockHolder>>

(* The CHECK constraint of a row refuses the update: IntegrityError.          *)
UpdateRefused(p) ==
  /\ \/ \E k \in Keys : /\ NextLockRow(p, k)
                        /\ lockHolder[k] = NoTxn
                        /\ ~ LockRowValid(p, k)
     \/ \E w \in Wallets : /\ NextWallet(p, w)
                           /\ walletHolder[w] = NoTxn
                           /\ ~ WalletUpdateValid(p, w)
  /\ Rollback(p)

PostedEntries(p) ==
  {[sender |-> t.sender, receiver |-> t.receiver, group |-> t.group,
    amount |-> buf[p].trx[t]] : t \in {u \in TrxKeys : buf[p].trx[u] # 0}}

(* The bulk inserts meet the unique (group_id, sender, receiver, scope) of    *)
(* Trx, the unique key of BalanceLock and its amount >= 0.                    *)
InsertsValid(p) ==
  /\ \A e \in PostedEntries(p), f \in trx :
       ~ (e.sender = f.sender /\ e.receiver = f.receiver /\ e.group = f.group)
  /\ \A k \in Keys : buf[p].new[k] # NoLock =>
                       lockRow[k] = NoLock /\ buf[p].new[k].amount >= 0

AllRowsWritten(p) ==
  /\ pc[p] = "execute"
  /\ LockRowsToWrite(p) = {}
  /\ WalletsToWrite(p) = {}

(* The rows of p become visible.  "raised": the inserts succeeded and         *)
(* MarketStreamCache.execute() then failed on redis: exc_type is still None,  *)
(* so the transaction commits although the caller gets the exception.         *)
Commit(p) ==
  /\ AllRowsWritten(p)
  /\ InsertsValid(p)
  /\ ~ doomed[p]
  /\ \E outcome \in {"committed", "committed, raised"} :
       pc' = [pc EXCEPT ![p] = outcome]
  /\ balance' = [w \in Wallets |-> balance[w] + buf[p].bal[w]]
  /\ locked' = [w \in Wallets |-> locked[w] + buf[p].lck[w]]
  /\ lockRow' = [k \in Keys |->
       IF buf[p].new[k] # NoLock THEN buf[p].new[k]
       ELSE IF buf[p].rel[k] # 0 THEN [lockRow[k] EXCEPT !.amount = @ + buf[p].rel[k]]
       ELSE lockRow[k]]
  /\ trx' = trx \cup PostedEntries(p)
  /\ lockHolder' = [k \in Keys |-> IF lockHolder[k] = p THEN NoTxn ELSE lockHolder[k]]
  /\ walletHolder' = [w \in Wallets |-> IF walletHolder[w] = p THEN NoTxn ELSE walletHolder[w]]
  /\ UNCHANGED <<doomed, buf>>

(* Mutant: an IntegrityError of the inserts is swallowed. *)
InsertsRefusedIfDoomed(p) ==
  /\ AllRowsWritten(p)
  /\ doomed[p]
  /\ Rollback(p)

(* The inserts are refused, or the body had raised: Atomic.__exit__ rolls     *)
(* back.                                                                      *)
InsertsRefused(p) ==
  /\ AllRowsWritten(p)
  /\ doomed[p] \/ ~ InsertsValid(p)
  /\ Rollback(p)

(* The worker dies, or a database error in the body already broke the         *)
(* transaction: PostgreSQL rolls it back.                                     *)
Crash(p) ==
  /\ pc[p] \in {"body", "execute"}
  /\ Rollback(p)

-----------------------------------------------------------------------------
Body(p) ==
  \/ \E k \in Keys, w \in Wallets, a \in Amounts : NewLock(p, k, w, a)
  \/ \E k \in Keys : ReleaseAll(p, k)
  \/ \E k \in Keys, a \in Amounts : ReleasePart(p, k, a)
  \/ \E t \in TrxKeys, a \in Amounts : NewTrx(p, t, a)

(* What the program does by itself once the body is left. *)
Execute(p) ==
  \/ \E k \in Keys : UpdateLockRow(p, k)
  \/ \E w \in Wallets : UpdateWallet(p, w)
  \/ UpdateRefused(p)
  \/ Commit(p)
  \/ InsertsRefused(p)

Leave(p) == \E raised \in BOOLEAN : Exit(p, raised)

Next == \E p \in Txns : Enter(p) \/ Body(p) \/ Leave(p) \/ Execute(p) \/ Crash(p)

Spec == Init /\ [][Next]_vars

(* The interpreter runs a body to its end and _execute to its end; nothing    *)
(* obliges a transaction to start or to crash.                                *)
FairSpec == Spec /\ \A p \in Txns : WF_vars(Leave(p)) /\ WF_vars(Execute(p))

-----------------------------------------------------------------------------
(* Type invariant. *)
TypeOK ==
  /\ balance \in [Wallets -> Int]
  /\ locked \in [Wallets -> Int]
  /\ lockRow \in [Keys -> [wallet : Wallets, amount : Int] \cup {NoLock}]
  /\ trx \subseteq [sender : Wallets, receiver : Wallets, group : Groups,
                  amount : Nat \ {0}]
  /\ pc \in [Txns -> {"start", "body", "execute", "rolled back", "committed",
                      "committed, raised"}]
  /\ doomed \in [Txns -> BOOLEAN]
  /\ buf \in [Txns -> Buffers]
  /\ lockHolder \in [Keys -> Txns \cup {NoTxn}]
  /\ walletHolder \in [Wallets -> Txns \cup {NoTxn}]

(* No interleaving of pipelines leaves a wallet with holds it cannot honour   *)
(* or a lock released beyond its amount: the constraints are checked when a   *)
(* row is updated, and what is committed later is still what was checked.     *)
Solvent ==
  /\ \A w \in Wallets : WalletValid(w, balance[w], locked[w])
  /\ \A k \in Keys : lockRow[k] # NoLock => lockRow[k].amount >= 0

(* Why Solvent holds: whoever holds a row is executing and its update of the  *)
(* row still passes the row's constraint.                                     *)
HeldRowsChecked ==
  /\ \A p \in Txns, w \in Wallets :
       walletHolder[w] = p => pc[p] = "execute" /\ WalletUpdateValid(p, w)
  /\ \A p \in Txns, k \in Keys :
       lockHolder[k] = p => /\ pc[p] = "execute"
                             /\ buf[p].rel[k] # 0
                             /\ LockRowValid(p, k)
  /\ \A p \in Txns, k \in Keys : buf[p].rel[k] # 0 => lockRow[k] # NoLock

(* The refinement mapping: the ledger is what has been committed; buffers,    *)
(* row locks and program counters are invisible to it.                        *)
LedgerView == INSTANCE Ledger WITH
  balance <- balance, lockRow <- lockRow, trx <- trx

(* What the "locked" column stood for before these transactions.              *)
ASSUME LedgerAssumption ==
  /\ IsFiniteSet(Groups)
  /\ \A w \in Wallets : OpeningLocked[w] = LedgerView!Held(OpeningLocks, w)

(* Wallet.locked is the sum of the wallet's BalanceLock rows, whichever       *)
(* pipelines created, reduced or released them, with stale reads or not: the  *)
(* second check of ledger/utils/trx_consistency.py.                           *)
LockedIsBacked == \A w \in Wallets : locked[w] = LedgerView!Held(lockRow, w)

(* Seen through its committed rows, the pipeline implements the ledger: every *)
(* commit posts distinct entries that explain the balances exactly, only      *)
(* shrinks the holds that existed, and leaves every checked wallet good for   *)
(* the holds on it.                                                           *)
ImplementsLedger == LedgerView!Spec

WaitsFor(p, q) ==
  \/ \E k \in Keys : NextLockRow(p, k) /\ lockHolder[k] = q
  \/ \E w \in Wallets : NextWallet(p, w) /\ walletHolder[w] = q

(* The sorted order of _execute leaves no set of pipelines in which each      *)
(* waits for a row that another one holds.                                    *)
NoWaitCycle ==
  \A S \in (SUBSET Txns) \ {{}} :
    \E p \in S : \A q \in S : ~ WaitsFor(p, q)

(* A pipeline that was entered ends: committed or rolled back, with no help   *)
(* from PostgreSQL's deadlock detector.                                       *)
Ended == {"rolled back", "committed", "committed, raised"}
EnteredEnds == \A p \in Txns : pc[p] = "body" ~> pc[p] \in Ended
=============================================================================
