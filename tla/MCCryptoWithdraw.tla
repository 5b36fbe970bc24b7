-------------------------- MODULE MCCryptoWithdraw --------------------------
(* One or two withdrawals: they share nothing but the workers and requests,   *)
(* so that what matters is how many of those are at work on one of them.      *)
EXTENDS CryptoWithdraw, TLC

Interchangeable ==
  Permutations(Workers) \cup Permutations(Cancellers) \cup Permutations(Callbacks)
=============================================================================
