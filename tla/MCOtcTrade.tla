----------------------------- MODULE MCOtcTrade -----------------------------
(* A limit trade and a market trade, each of either asset and hedged in the   *)
(* exchange's market or by the provider, and two handlers at once.            *)
EXTENDS OtcTrade, TLC

(* No property names a handler or an asset. *)
Alike == Permutations(Handlers) \cup Permutations(Assets)

(* What must end is followed for either of the two trades, the other one not  *)
(* being requested.                                                           *)
OneTrade == \E t \in Trades : \A u \in Trades \ {t} : status[u] = "none"
=============================================================================
