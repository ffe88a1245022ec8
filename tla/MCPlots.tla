-------------------------------- MODULE MCPlots --------------------------------
(* A plot from the start, one the admin page makes and one of the mini app,  *)
(* over two cells; two requests at once.                                  *)
EXTENDS Plots, TLC

MCShapes == {{1}, {2}}
MCSeed == 1 :> [code |-> "P1", shape |-> {1}, status |-> "active"]
Symmetry == Permutations(Ops)
=============================================================================
