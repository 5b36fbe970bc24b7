------------------------------ MODULE MCStopLoss ------------------------------
(* An OCO and a stop-loss, each triggered by the other's trades. *)
EXTENDS StopLoss
=============================================================================
