----------------------------- MODULE MCAnchoring -----------------------------
(***************************************************************************)
(* Instances of Anchoring: a harvest and its transfer, a lot recovered by  *)
(* a public lookup, a second harvest.  In the two-day instance the         *)
(* transfer happens on the second day.                                     *)
(***************************************************************************)
EXTENDS Anchoring, TLC

CONSTANTS harvest1, transfer1, recover2, harvest3

OneDay == [e \in Events |-> 1]
TwoDays == [e \in Events |-> IF e = transfer1 THEN 2 ELSE 1]

ArrivalKind ==
    (harvest1 :> "harvest") @@ (transfer1 :> "transfer") @@
    (recover2 :> "recover") @@ (harvest3 :> "harvest")
Arrival == [e \in Events |-> ArrivalKind[e]]

Lot == [e \in Events |-> IF e = recover2 THEN 2 ELSE IF e = harvest3 THEN 3 ELSE 1]
=============================================================================
