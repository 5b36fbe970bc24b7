------------------------------ MODULE Settlement ------------------------------
(***************************************************************************)
(* What the exchange promises of the amount of one request of a customer   *)
(* (a withdrawal, a deposit, a trade, a payment, a stake), whichever rows  *)
(* record it and whoever works on it: it is held at most once, charged at  *)
(* most once (a deposit: credited), and a hold that was given back is not  *)
(* charged after all.  What was charged may be reverted, once.             *)
(*                                                                         *)
(* The models of the components implement this specification; contested    *)
(* are the requests whose components do not keep the last part, and each   *)
(* component says which those are.                                         *)
(***************************************************************************)
CONSTANT Requests

VARIABLES
  funds,      \* "none", "held", "charged", "returned" or "reverted"
  contested

Init ==
  /\ funds = [r \in Requests |-> "none"]
  /\ contested = {}

Hold(r) == funds[r] = "none" /\ funds'[r] = "held"

Charge(r) ==
  /\ \/ funds[r] \in {"none", "held"}
     \/ funds[r] = "returned" /\ r \in contested'
  /\ funds'[r] = "charged"

Return(r) == funds[r] = "held" /\ funds'[r] = "returned"

Revert(r) == funds[r] = "charged" /\ funds'[r] = "reverted"

(* One transaction may settle several requests.                               *)
Next ==
  /\ contested \subseteq contested'
  /\ \A r \in Requests :
       \/ Hold(r) \/ Charge(r) \/ Return(r) \/ Revert(r)
       \/ funds'[r] = funds[r]

Spec == Init /\ [][Next]_<<funds, contested>>
=============================================================================
