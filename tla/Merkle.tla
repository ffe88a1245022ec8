-------------------------------- MODULE Merkle --------------------------------
(***************************************************************************)
(* MerkleService: root, proof and verify.  Nothing collides: the hash of a *)
(* pair is the pair, and a leaf is a tuple of one.                         *)
(***************************************************************************)
EXTENDS Integers, Sequences

\* Mutant: a last hash without a neighbour is left out.
PairsOnly(level) == [i \in 1..(Len(level) \div 2) |-> <<level[2 * i - 1], level[2 * i]>>]

\* The next level: a last hash without a neighbour is paired with itself.
Pairs(level) ==
    [i \in 1..((Len(level) + 1) \div 2) |->
        <<level[2 * i - 1], IF 2 * i <= Len(level) THEN level[2 * i] ELSE level[2 * i - 1]>>]

\* Level h above the leaves; the root is no higher than there are leaves.
Level(leaves, h) ==
    LET up[i \in 0..Len(leaves)] == IF i = 0 THEN leaves ELSE Pairs(up[i - 1]) IN up[h]

Height(leaves) == CHOOSE h \in 0..Len(leaves) :
    Len(Level(leaves, h)) = 1 /\ \A i \in 0..(h - 1) : Len(Level(leaves, i)) > 1

Zeros == <<>>

Root(leaves) == IF leaves = <<>> THEN Zeros ELSE Level(leaves, Height(leaves))[1]

\* Where the path from a leaf has come to at level h.
Cursor(index, h) ==
    LET cursor[i \in 0..h] == IF i = 0 THEN index ELSE cursor[i - 1] \div 2 IN cursor[h]

Sibling(level, cursor) ==
    LET s == IF cursor % 2 = 0 THEN cursor + 1 ELSE cursor - 1 IN
    IF s < Len(level) THEN level[s + 1] ELSE level[cursor + 1]

\* Indices are those of the code, from 0.
Proof(leaves, index) ==
    [h \in 1..Height(leaves) |-> Sibling(Level(leaves, h - 1), Cursor(index, h - 1))]

Verify(leaf, proof, index, root) ==
    LET hash[h \in 0..Len(proof)] ==
            IF h = 0 THEN leaf
            ELSE IF Cursor(index, h - 1) % 2 = 0 THEN <<hash[h - 1], proof[h]>>
            ELSE <<proof[h], hash[h - 1]>> IN
    hash[Len(proof)] = root

\* Every leaf of a day has a proof, and the proof is for that leaf only.
ProofsVerify(leaves) ==
    \A i \in DOMAIN leaves : \A j \in DOMAIN leaves :
        Verify(leaves[j], Proof(leaves, i - 1), i - 1, Root(leaves)) <=> leaves[j] = leaves[i]

\* The root of a day binds its events, their number and their order, up to
\* one thing: events of the day repeated at its end.
RootBinds(leaves, others) ==
    Root(leaves) = Root(others) /\ Len(leaves) <= Len(others) =>
        /\ SubSeq(others, 1, Len(leaves)) = leaves
        /\ \A i \in DOMAIN others : \E j \in DOMAIN leaves : others[i] = leaves[j]
=============================================================================
