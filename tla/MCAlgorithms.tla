------------------------------ MODULE MCAlgorithms ------------------------------
(* Three lots in pages of two; two lots on a phone; three rows to search;     *)
(* three participants, one of whom types two ids; days of up to five events,  *)
(* two of them different; polygons of up to four corners on a grid of nine    *)
(* points; payloads with objects inside of objects.                           *)
EXTENDS Algorithms

TheLeaves == {<<"a">>, <<"b">>}

TheUpper == "p1" :> "P1" @@ "P1" :> "P1" @@ "p2" :> "P2" @@ "p3" :> "P3"
TheAnswers == {[i \in 1..10 |-> 5], [i \in 1..10 |-> IF i % 2 = 1 THEN 5 ELSE 1], <<1, 2>>,
               [i \in 1..10 |-> IF i < 4 THEN 0 ELSE 2]}

Atoms == {Atom("a"), Atom("b"), Undefined}
Small == Atoms \cup {Array(<<x, y>>) : x, y \in Atoms}
         \cup {Object(<<Member(k, x), Member(3 - k, y)>>) : k \in {1, 2}, x, y \in Atoms}
ThePayloads == Small \cup {Object(<<Member(k, x), Member(3 - k, Atom("a"))>>) : k \in {1, 2}, x \in Small}
                     \cup {Array(<<x>>) : x \in Small}

SlotSymmetry == Permutations(Slots)
=============================================================================
