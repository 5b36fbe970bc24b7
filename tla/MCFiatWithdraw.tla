---------------------------- MODULE MCFiatWithdraw ----------------------------
(* One withdrawal and two who work on it at once. *)
EXTENDS FiatWithdraw
=============================================================================
