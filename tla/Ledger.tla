------------------------------- MODULE Ledger -------------------------------
(***************************************************************************)
(* What the wallet ledger of the exchange promises, with no pipeline, no   *)
(* row locks and no "locked" column: a journal of transfers that only      *)
(* grows, wallet balances that the journal explains, holds on wallets that *)
(* only shrink, and no checked wallet whose holds exceed what it owns.     *)
(* WalletPipeline.tla is shown to implement it.                            *)
(***************************************************************************)
EXTENDS Integers, FiniteSetsExt

CONSTANTS
  Wallets,    \* wallet rows, all of one asset
  Unchecked,  \* the wallets with check_balance = False (system accounts)
  Keys,       \* the keys a hold can have
  NoLock      \* a key under which nothing was ever held

VARIABLES
  balance,    \* [Wallets -> Int]
  lockRow,    \* [Keys -> NoLock or the hold's wallet and remaining amount]
  trx         \* the journal: [sender, receiver, group, amount] records

vars == <<balance, lockRow, trx>>

(* What a set of journal entries adds to the balance of w. *)
Net(entries, w) ==
  SumFunctionOnSet([e \in entries |-> (IF e.receiver = w THEN e.amount ELSE 0)
                                    - (IF e.sender = w THEN e.amount ELSE 0)], entries)

(* What is held on w by the given lock rows. *)
HeldUnder(rows, k, w) ==
  IF rows[k] # NoLock /\ rows[k].wallet = w THEN rows[k].amount ELSE 0
Held(rows, w) == SumFunctionOnSet([k \in Keys |-> HeldUnder(rows, k, w)], Keys)

SameEntry(e, f) ==
  /\ e.sender = f.sender
  /\ e.receiver = f.receiver
  /\ e.group = f.group

(* One unit of work: it posts entries, opens holds and releases (parts of) *)
(* others, all of it or nothing, and leaves every checked wallet able to   *)
(* honour the holds on it.                                                 *)
Post ==
  /\ trx \subseteq trx'
  /\ \A e \in trx' \ trx : \A f \in trx' : SameEntry(e, f) => e = f
  /\ \A w \in Wallets : balance'[w] = balance[w] + Net(trx' \ trx, w)
  /\ \A k \in Keys :
       lockRow[k] # NoLock =>
         /\ lockRow'[k] # NoLock
         /\ lockRow'[k].wallet = lockRow[k].wallet
         /\ lockRow'[k].amount \in 0 .. lockRow[k].amount
  /\ \A w \in Wallets \ Unchecked : balance'[w] >= Held(lockRow', w)

Init ==
  /\ trx = {}
  /\ \A w \in Wallets \ Unchecked : balance[w] >= Held(lockRow, w)

Spec == Init /\ [][Post]_vars
=============================================================================
