------------------------------- MODULE MCIntake -------------------------------
(* Two demo harvests and a transfer; two requests at once, with the photos of *)
(* the demo; a plot that yields one kilogram and one that yields more.        *)
EXTENDS Intake, TLC

TheDemo == <<[plot |-> 1, kg |-> 1, photo |-> 1], [plot |-> 2, kg |-> 1, photo |-> 2]>>
TheMoves == <<2>>
Yields == 1 :> 1 @@ 2 :> 9
RequestSymmetry == Permutations(Ops)
=============================================================================
