-------------------------- MODULE MCWalletPipeline --------------------------
(* Two customers' wallets and the system's, of one asset; the first customer  *)
(* already has a lock of 2 on the 3 it owns.                                  *)
EXTENDS WalletPipeline

CONSTANTS t1, t2

MCOpening == [w \in Wallets |-> CASE w = 1 -> 3 [] w = 2 -> 1 [] OTHER -> 0]
MCOpeningLocked == [w \in Wallets |-> IF w = 1 THEN 2 ELSE 0]
MCOpeningLocks ==
  [k \in Keys |-> IF k = 1 THEN [wallet |-> 1, amount |-> 2] ELSE NoLock]
MCMaxOps == [p \in Txns |-> IF p = t1 THEN 2 ELSE 1]
=============================================================================
