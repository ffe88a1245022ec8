------------------------------- MODULE MCGateway -------------------------------
(* A farmer with a device of its own, a cooperative and a collector behind    *)
(* one address; one lot, of 16 grams and collected; two requests in a window  *)
(* of two ticks.                                                              *)
EXTENDS Gateway, TLC

TheRoles == "f" :> "FARMER" @@ "h" :> "COOPERATIVE" @@ "c" :> "COLLECTOR"
TheKeys == "f" :> "own" @@ "h" :> "shared" @@ "c" :> "shared"
TheLots == <<[farmer |-> "f", grams |-> 16, accepted |-> TRUE, band |-> "green",
             stage |-> 1]>>
TheBounds == <<0, 1, 9>>
=============================================================================
