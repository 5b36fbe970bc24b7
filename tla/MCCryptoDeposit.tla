--------------------------- MODULE MCCryptoDeposit ---------------------------
(* One deposit and one recovery give the customer two coins to be refunded,   *)
(* spent and owed; two of everybody who can race.                             *)
EXTENDS CryptoDeposit
=============================================================================
