---------------------------- MODULE AlgorithmsProofs ----------------------------
(***************************************************************************)
(* What the runs of Algorithms check for a few leaves, lots, participants  *)
(* and corners, for any number of them: the Merkle tree, the history page, *)
(* the file of the field study, the list that is read page by page, the    *)
(* polygons, the rating of harvests and the check digit of GTINs.          *)
(***************************************************************************)
EXTENDS Algorithms, FiniteSetTheorems, SequenceTheorems, WellFoundedInduction, TLAPS

(***************************************************************************)
(* Numbers.  What is recursive is reasoned about with the first number for *)
(* which it would be wrong.                                                *)
(***************************************************************************)

\* A set of numbers up to a bound has a least one: of its subsets that have
\* none, one would be smallest.
LEMMA LeastExists ==
    ASSUME NEW last \in Nat, NEW S \in SUBSET (0..last), S # {}
    PROVE  \E x \in S : \A y \in S : x <= y
<1> DEFINE T == {U \in SUBSET S : U # {} /\ ~\E x \in U : \A y \in U : x <= y}
<1> SUFFICES ASSUME T # {} PROVE FALSE
  OBVIOUS
<1>1. IsFiniteSet(S) /\ S \subseteq Int
  <2>1. IsFiniteSet(0..last) /\ 0..last \subseteq Int
    BY FS_Interval
  <2> QED
    BY <2>1, FS_Subset
<1>2. T \subseteq FiniteSubsetsOf(S)
  BY <1>1, FS_FiniteSubsetsOfFinite
<1>3. PICK U \in T : \A V \in T : <<V, U>> \notin StrictSubsetOrdering(S)
  BY <1>1, <1>2, FS_StrictSubsetOrderingWellFounded, WFMin
<1>4. PICK x \in U : TRUE
  OBVIOUS
<1>5. U \ {x} \notin T
  <2>1. <<U \ {x}, U>> \in StrictSubsetOrdering(S)
    BY DEF StrictSubsetOrdering
  <2> QED
    BY <1>3, <2>1
<1>6. CASE U \ {x} = {}
  BY <1>1, <1>6
<1>7. CASE U \ {x} # {}
  <2>1. PICK m \in U \ {x} : \A y \in U \ {x} : m <= y
    BY <1>5, <1>7
  <2>2. m \in Int /\ x \in Int
    BY <1>1
  <2>3. CASE m <= x
    BY <2>1, <2>3
  <2>4. CASE ~(m <= x)
    BY <1>1, <2>1, <2>2, <2>4
  <2> QED
    BY <2>3, <2>4
<1> QED
  BY <1>6, <1>7

\* The first number without a property.
LEMMA FirstWithout ==
    ASSUME NEW last \in Nat, NEW S \in SUBSET (0..last), 0 \in S,
           \A n \in 1..last : n - 1 \in S => n \in S
    PROVE  S = 0..last
<1> SUFFICES ASSUME (0..last) \ S # {} PROVE FALSE
  OBVIOUS
<1>1. PICK k \in (0..last) \ S : \A j \in (0..last) \ S : k <= j
  BY LeastExists
<1>2. k \in 1..last /\ k - 1 \in 0..last /\ ~(k <= k - 1)
  BY <1>1
<1> QED
  BY <1>1, <1>2

(***************************************************************************)
(* The Merkle tree.                                                        *)
(***************************************************************************)

\* The levels of a tree, one above the other.
Climbs(f, leaves, top) ==
    /\ f = [i \in 0..top |-> f[i]] /\ f[0] = leaves
    /\ \A i \in 1..top : f[i] = Pairs(f[i - 1])

LEMMA ClimbsExists ==
    ASSUME NEW top \in Nat, NEW leaves
    PROVE  \E f : Climbs(f, leaves, top)
<1> DEFINE S == {t \in 0..top : \E f : Climbs(f, leaves, t)}
<1>1. 0 \in S
  <2>1. Climbs([i \in 0..0 |-> leaves], leaves, 0)
    BY DEF Climbs
  <2> QED
    BY <2>1
<1>2. ASSUME NEW n \in 1..top, n - 1 \in S PROVE n \in S
  <2>1. PICK f : Climbs(f, leaves, n - 1)
    BY <1>2
  <2> DEFINE g == [i \in 0..n |-> IF i = n THEN Pairs(f[n - 1]) ELSE f[i]]
  <2>2. g = [i \in 0..n |-> g[i]] /\ g[0] = leaves
    BY <2>1 DEF Climbs
  <2>3. ASSUME NEW i \in 1..n PROVE g[i] = Pairs(g[i - 1])
    <3>1. i - 1 \in 0..n /\ i - 1 # n /\ i \in 0..n
      OBVIOUS
    <3>2. CASE i = n
      BY <3>1, <3>2
    <3>3. CASE i # n
      <4>1. i \in 1..(n - 1)
        BY <3>3
      <4>2. f[i] = Pairs(f[i - 1])
        BY <2>1, <4>1 DEF Climbs
      <4> QED
        BY <3>1, <3>3, <4>2
    <3> QED
      BY <3>2, <3>3
  <2> HIDE DEF g
  <2>4. Climbs(g, leaves, n)
    BY <2>2, <2>3 DEF Climbs
  <2> QED
    BY <2>4
<1> HIDE DEF S
<1>3. S = 0..top
  <2>1. S \in SUBSET (0..top)
    BY DEF S
  <2> QED
    BY <1>1, <1>2, <2>1, FirstWithout
<1>4. top \in S
  BY <1>3
<1> QED
  BY <1>4 DEF S

\* Level does what it says.
LEMMA LevelClimbs ==
    ASSUME NEW leaves, Len(leaves) \in Nat
    PROVE  /\ Level(leaves, 0) = leaves
           /\ \A h \in 1..Len(leaves) : Level(leaves, h) = Pairs(Level(leaves, h - 1))
<1> DEFINE n == Len(leaves)
           Is(up) == up = [i \in 0..n |-> IF i = 0 THEN leaves ELSE Pairs(up[i - 1])]
           ups == CHOOSE up : Is(up)
<1>1. PICK f : Climbs(f, leaves, n)
  BY ClimbsExists
<1>2. Is(f)
  <2> DEFINE g == [i \in 0..n |-> IF i = 0 THEN leaves ELSE Pairs(f[i - 1])]
  <2>1. \A i \in 0..n : f[i] = g[i]
    BY <1>1, SMTT(60) DEF Climbs
  <2>2. f = [i \in 0..n |-> f[i]]
    BY <1>1 DEF Climbs
  <2> QED
    BY <2>1, <2>2
<1>3. Is(ups)
  BY <1>2
<1>4. \A h : Level(leaves, h) = ups[h]
  BY DEF Level
<1> HIDE DEF ups
<1>5. ups[0] = leaves /\ \A h \in 1..n : ups[h] = Pairs(ups[h - 1])
  BY <1>3
<1> QED
  BY <1>4, <1>5

\* The next level is half as long, rounded up.
LEMMA PairsLength ==
    ASSUME NEW level, Len(level) \in Nat
    PROVE  /\ Len(Pairs(level)) = (Len(level) + 1) \div 2
           /\ DOMAIN Pairs(level) = 1..((Len(level) + 1) \div 2)
<1> DEFINE m == (Len(level) + 1) \div 2
<1>1. m \in Nat
  OBVIOUS
<1>2. DOMAIN Pairs(level) = 1..m
  BY DEF Pairs
<1>3. Pairs(level) \in Seq({Pairs(level)[i] : i \in 1..m})
  <2> DEFINE V == {Pairs(level)[i] : i \in 1..m}
  <2>1. Pairs(level) \in [1..m -> V]
    BY DEF Pairs
  <2> HIDE DEF V, m
  <2> QED
    BY <1>1, <2>1, SeqDef
<1> HIDE DEF m
<1>4. Len(Pairs(level)) = m
  BY <1>1, <1>2, <1>3, LenProperties
<1> QED
  BY <1>2, <1>4 DEF m

\* Levels have no more hashes the higher they are, down to one.
LEMMA LevelLengths ==
    ASSUME NEW leaves, Len(leaves) \in Nat, DOMAIN leaves = 1..Len(leaves)
    PROVE  \A h \in 0..Len(leaves) :
              /\ Len(Level(leaves, h)) \in Nat
              /\ DOMAIN Level(leaves, h) = 1..Len(Level(leaves, h))
              /\ leaves # <<>> => Len(Level(leaves, h)) >= 1
              /\ Len(Level(leaves, h)) <= 1 \/ Len(Level(leaves, h)) <= Len(leaves) - h
<1> DEFINE n == Len(leaves)
           l(h) == Len(Level(leaves, h))
           S == {h \in 0..n : /\ l(h) \in Nat /\ DOMAIN Level(leaves, h) = 1..l(h)
                              /\ leaves # <<>> => l(h) >= 1
                              /\ l(h) <= 1 \/ l(h) <= n - h}
<1>1. 0 \in S
  <2>1. Level(leaves, 0) = leaves
    BY LevelClimbs
  <2>2. leaves # <<>> => n >= 1
    BY EmptySeq
  <2> QED
    BY <2>1, <2>2
<1>2. ASSUME NEW h \in 1..n, h - 1 \in S PROVE h \in S
  <2>1. Level(leaves, h) = Pairs(Level(leaves, h - 1))
    BY LevelClimbs
  <2>2. l(h - 1) \in Nat /\ (leaves # <<>> => l(h - 1) >= 1) /\ (l(h - 1) <= 1 \/ l(h - 1) <= n - (h - 1))
    BY <1>2
  <2>3. l(h) = (l(h - 1) + 1) \div 2 /\ DOMAIN Level(leaves, h) = 1..l(h)
    BY <2>1, <2>2, PairsLength
  <2> HIDE DEF l
  <2>4. l(h) \in Nat /\ (l(h - 1) >= 1 => l(h) >= 1)
    BY <2>2, <2>3
  <2>5. l(h) <= 1 \/ l(h) <= n - h
    BY <2>2, <2>3
  <2> QED
    BY <2>2, <2>3, <2>4, <2>5
<1>3. S = 0..n
  <2>1. S \in SUBSET (0..n)
    OBVIOUS
  <2> HIDE DEF S
  <2> QED
    BY <1>1, <1>2, <2>1, FirstWithout
<1> QED
  BY <1>3

\* A day of events, as the tree sees it.
HashedDay(leaves) == Len(leaves) \in Nat /\ DOMAIN leaves = 1..Len(leaves)

\* The root stands alone, and the levels below it do not.
LEMMA HeightIsReached ==
    ASSUME NEW leaves, HashedDay(leaves), leaves # <<>>
    PROVE  /\ Height(leaves) \in 0..Len(leaves)
           /\ Len(Level(leaves, Height(leaves))) = 1
           /\ \A h \in 0..(Height(leaves) - 1) : Len(Level(leaves, h)) > 1
<1> DEFINE n == Len(leaves)
           l(h) == Len(Level(leaves, h))
           S == {h \in 0..n : l(h) = 1}
<1>1. n \in Nat /\ n >= 1 /\ \A h \in 0..n : l(h) \in Nat /\ l(h) >= 1 /\ (l(h) <= 1 \/ l(h) <= n - h)
  <2>1. n >= 1
    BY EmptySeq DEF HashedDay
  <2> QED
    BY <2>1, LevelLengths DEF HashedDay
<1> HIDE DEF l
<1>2. n - 1 \in S
  <2>1. n - 1 \in 0..n
    BY <1>1
  <2>2. l(n - 1) \in Nat /\ l(n - 1) >= 1 /\ (l(n - 1) <= 1 \/ l(n - 1) <= n - (n - 1))
    BY <1>1, <2>1
  <2> QED
    BY <1>1, <2>1, <2>2
<1>3. PICK h \in S : \A k \in S : h <= k
  <2>1. S \in SUBSET (0..n) /\ S # {}
    BY <1>2
  <2> HIDE DEF S
  <2> QED
    BY <1>1, <2>1, LeastExists
<1>4. h \in 0..n /\ l(h) = 1 /\ \A i \in 0..(h - 1) : l(i) > 1
  <2> SUFFICES ASSUME NEW i \in 0..(h - 1) PROVE l(i) > 1
    BY <1>3
  <2>1. i \in 0..n /\ ~(h <= i)
    BY <1>1, <1>3
  <2>2. i \notin S
    BY <1>3, <2>1
  <2> QED
    BY <1>1, <2>1, <2>2
<1>5. Height(leaves) = CHOOSE k \in 0..n : l(k) = 1 /\ \A i \in 0..(k - 1) : l(i) > 1
  BY DEF Height, l
<1>6. /\ Height(leaves) \in 0..n /\ l(Height(leaves)) = 1
      /\ \A i \in 0..(Height(leaves) - 1) : l(i) > 1
  BY <1>4, <1>5
<1> QED
  BY <1>6 DEF l

\* A function that halves a number again and again.
Halves(f, index, top) ==
    /\ f \in [0..top -> Nat] /\ f[0] = index
    /\ \A i \in 1..top : f[i] = f[i - 1] \div 2

LEMMA HalvesExists ==
    ASSUME NEW top \in Nat, NEW index \in Nat
    PROVE  \E f : Halves(f, index, top)
<1> DEFINE S == {t \in 0..top : \E f : Halves(f, index, t)}
<1>1. 0 \in S
  <2>1. Halves([i \in 0..0 |-> index], index, 0)
    BY DEF Halves
  <2> QED
    BY <2>1
<1>2. ASSUME NEW n \in 1..top, n - 1 \in S PROVE n \in S
  <2>1. PICK f : Halves(f, index, n - 1)
    BY <1>2
  <2> DEFINE g == [i \in 0..n |-> IF i = n THEN f[n - 1] \div 2 ELSE f[i]]
  <2>2. g \in [0..n -> Nat] /\ g[0] = index
    <3>1. f[n - 1] \in Nat /\ \A i \in 0..n : i # n => i \in 0..(n - 1) /\ f[i] \in Nat
      BY <2>1 DEF Halves
    <3>2. f[n - 1] \div 2 \in Nat
      BY <3>1
    <3> QED
      BY <2>1, <3>1, <3>2 DEF Halves
  <2>3. ASSUME NEW i \in 1..n PROVE g[i] = g[i - 1] \div 2
    <3>1. i - 1 \in 0..n /\ i - 1 # n /\ i \in 0..n
      OBVIOUS
    <3>2. CASE i = n
      BY <3>1, <3>2
    <3>3. CASE i # n
      <4>1. i \in 1..(n - 1)
        BY <3>3
      <4>2. f[i] = f[i - 1] \div 2
        BY <2>1, <4>1 DEF Halves
      <4> QED
        BY <3>1, <3>3, <4>2
    <3> QED
      BY <3>2, <3>3
  <2> HIDE DEF g
  <2>4. Halves(g, index, n)
    BY <2>2, <2>3 DEF Halves
  <2> QED
    BY <2>4
<1> HIDE DEF S
<1>3. S = 0..top
  <2>1. S \in SUBSET (0..top)
    BY DEF S
  <2> QED
    BY <1>1, <1>2, <2>1, FirstWithout
<1>4. top \in S
  BY <1>3
<1> QED
  BY <1>4 DEF S

\* Two functions that halve one number are one as far as both go.
LEMMA HalvesAgree ==
    ASSUME NEW m \in Nat, NEW n \in Nat, NEW f, NEW g, NEW index,
           Halves(f, index, m), Halves(g, index, n), m <= n
    PROVE  f[m] = g[m]
<1> DEFINE S == {i \in 0..m : f[i] = g[i]}
<1>1. 0 \in S
  BY DEF Halves
<1>2. ASSUME NEW i \in 1..m, i - 1 \in S PROVE i \in S
  BY <1>2 DEF Halves
<1>3. S = 0..m
  <2>1. S \in SUBSET (0..m)
    OBVIOUS
  <2> HIDE DEF S
  <2> QED
    BY <1>1, <1>2, <2>1, FirstWithout
<1> QED
  BY <1>3

\* Cursor is such a function, however far it is asked for.
LEMMA CursorIs ==
    ASSUME NEW index \in Nat, NEW h \in Nat
    PROVE  \E f : Halves(f, index, h) /\ Cursor(index, h) = f[h]
<1> DEFINE Is(cursor) ==
               cursor = [i \in 0..h |-> IF i = 0 THEN index ELSE cursor[i - 1] \div 2]
           c == CHOOSE cursor : Is(cursor)
<1>1. PICK f : Halves(f, index, h)
  BY HalvesExists
<1>2. Is(f)
  <2>1. \A i \in 0..h : f[i] = IF i = 0 THEN index ELSE f[i - 1] \div 2
    BY <1>1 DEF Halves
  <2>2. f = [i \in 0..h |-> f[i]]
    BY <1>1 DEF Halves
  <2> QED
    BY <2>1, <2>2
<1>3. Is(c)
  BY <1>2
<1>4. Cursor(index, h) = c[h]
  BY DEF Cursor
<1> HIDE DEF c
<1>5. Halves(c, index, h)
  <2>1. c = [i \in 0..h |-> c[i]] /\ c[0] = index /\ \A i \in 1..h : c[i] = c[i - 1] \div 2
    BY <1>3
  <2> DEFINE S == {i \in 0..h : c[i] \in Nat}
  <2>2. ASSUME NEW i \in 1..h, i - 1 \in S PROVE i \in S
    <3>1. i \in 0..h /\ c[i - 1] \in Nat
      BY <2>2
    <3>2. c[i] = c[i - 1] \div 2
      BY <2>1
    <3>3. c[i] \in Nat
      BY <3>1, <3>2
    <3> QED
      BY <3>1, <3>3
  <2>3. 0 \in S /\ S \in SUBSET (0..h)
    BY <2>1
  <2>4. S = 0..h
    <3> HIDE DEF S
    <3> QED
      BY <2>2, <2>3, FirstWithout
  <2>5. c \in [0..h -> Nat]
    BY <2>1, <2>4
  <2> QED
    BY <2>1, <2>5 DEF Halves
<1> QED
  BY <1>4, <1>5

LEMMA CursorHalves ==
    ASSUME NEW index \in Nat
    PROVE  /\ Cursor(index, 0) = index
           /\ \A h \in Nat \ {0} : Cursor(index, h) = Cursor(index, h - 1) \div 2
<1>1. Cursor(index, 0) = index
  BY CursorIs DEF Halves
<1>2. ASSUME NEW h \in Nat \ {0} PROVE Cursor(index, h) = Cursor(index, h - 1) \div 2
  <2>1. PICK f : Halves(f, index, h) /\ Cursor(index, h) = f[h]
    BY <1>2, CursorIs
  <2>2. PICK g : Halves(g, index, h - 1) /\ Cursor(index, h - 1) = g[h - 1]
    BY <1>2, CursorIs
  <2>3. f[h] = f[h - 1] \div 2
    BY <2>1 DEF Halves
  <2>4. h - 1 \in Nat /\ h - 1 <= h
    OBVIOUS
  <2>5. g[h - 1] = f[h - 1]
    BY <2>1, <2>2, <2>4, HalvesAgree
  <2> QED
    BY <2>1, <2>2, <2>3, <2>5
<1> QED
  BY <1>1, <1>2

\* The hashes from a leaf upwards, as verify computes them.
Hashes(f, leaf, proof, index, top) ==
    /\ f = [h \in 0..top |-> f[h]] /\ f[0] = leaf
    /\ \A h \in 1..top :
          f[h] = IF Cursor(index, h - 1) % 2 = 0 THEN <<f[h - 1], proof[h]>>
                 ELSE <<proof[h], f[h - 1]>>

LEMMA HashesExists ==
    ASSUME NEW top \in Nat, NEW leaf, NEW proof, NEW index
    PROVE  \E f : Hashes(f, leaf, proof, index, top)
<1> DEFINE S == {t \in 0..top : \E f : Hashes(f, leaf, proof, index, t)}
           Up(hash, h) == IF Cursor(index, h - 1) % 2 = 0 THEN <<hash, proof[h]>>
                          ELSE <<proof[h], hash>>
<1>1. 0 \in S
  <2>1. Hashes([i \in 0..0 |-> leaf], leaf, proof, index, 0)
    BY DEF Hashes
  <2> QED
    BY <2>1
<1>2. ASSUME NEW n \in 1..top, n - 1 \in S PROVE n \in S
  <2>1. PICK f : Hashes(f, leaf, proof, index, n - 1)
    BY <1>2
  <2> DEFINE g == [i \in 0..n |-> IF i = n THEN Up(f[n - 1], n) ELSE f[i]]
  <2>2. g = [i \in 0..n |-> g[i]] /\ g[0] = leaf
    BY <2>1 DEF Hashes
  <2>3. ASSUME NEW i \in 1..n PROVE g[i] = Up(g[i - 1], i)
    <3>1. i - 1 \in 0..n /\ i - 1 # n /\ i \in 0..n
      OBVIOUS
    <3>2. CASE i = n
      BY <3>1, <3>2
    <3>3. CASE i # n
      <4>1. i \in 1..(n - 1)
        BY <3>3
      <4>2. f[i] = Up(f[i - 1], i)
        BY <2>1, <4>1 DEF Hashes
      <4> QED
        BY <3>1, <3>3, <4>2
    <3> QED
      BY <3>2, <3>3
  <2> HIDE DEF g
  <2>4. Hashes(g, leaf, proof, index, n)
    BY <2>2, <2>3 DEF Hashes
  <2> QED
    BY <2>4
<1> HIDE DEF S
<1>3. S = 0..top
  <2>1. S \in SUBSET (0..top)
    BY DEF S
  <2> QED
    BY <1>1, <1>2, <2>1, FirstWithout
<1>4. top \in S
  BY <1>3
<1> QED
  BY <1>4 DEF S

\* verify compares the last of them with the root.
LEMMA VerifyHashes ==
    ASSUME NEW leaf, NEW proof, Len(proof) \in Nat, NEW index, NEW root
    PROVE  \E f : /\ Hashes(f, leaf, proof, index, Len(proof))
                  /\ Verify(leaf, proof, index, root) <=> f[Len(proof)] = root
<1> DEFINE n == Len(proof)
           Up(hash, h) == IF Cursor(index, h - 1) % 2 = 0 THEN <<hash, proof[h]>>
                          ELSE <<proof[h], hash>>
           Is(hash) == hash = [h \in 0..n |-> IF h = 0 THEN leaf ELSE Up(hash[h - 1], h)]
           c == CHOOSE hash : Is(hash)
<1>1. PICK f : Hashes(f, leaf, proof, index, n)
  BY HashesExists
<1>2. Is(f)
  <2>1. ASSUME NEW h \in 0..n PROVE f[h] = IF h = 0 THEN leaf ELSE Up(f[h - 1], h)
    <3>1. CASE h = 0
      BY <1>1, <3>1 DEF Hashes
    <3>2. CASE h # 0
      <4>1. h \in 1..n
        BY <3>2
      <4>2. f[h] = Up(f[h - 1], h)
        BY <1>1, <4>1, SMTT(60) DEF Hashes
      <4> QED
        BY <3>2, <4>2
    <3> QED
      BY <3>1, <3>2
  <2>2. f = [h \in 0..n |-> f[h]]
    BY <1>1 DEF Hashes
  <2> QED
    BY <2>1, <2>2
<1>3. Is(c)
  BY <1>2
<1>4. Verify(leaf, proof, index, root) <=> c[n] = root
  BY DEF Verify
<1> HIDE DEF c
<1>5. Hashes(c, leaf, proof, index, n)
  <2>1. c = [h \in 0..n |-> c[h]] /\ c[0] = leaf
    BY <1>3
  <2>2. ASSUME NEW h \in 1..n PROVE c[h] = Up(c[h - 1], h)
    <3>1. h \in 0..n /\ h # 0
      OBVIOUS
    <3> QED
      BY <1>3, <3>1
  <2> QED
    BY <2>1, <2>2 DEF Hashes
<1> QED
  BY <1>4, <1>5

\* A proof has one sibling for every level below the root.
LEMMA ProofLength ==
    ASSUME NEW leaves, HashedDay(leaves), leaves # <<>>, NEW index
    PROVE  Len(Proof(leaves, index)) = Height(leaves)
<1> DEFINE m == Height(leaves)
           p == Proof(leaves, index)
           V == {p[h] : h \in 1..m}
<1>1. m \in Nat
  BY HeightIsReached DEF HashedDay
<1>2. DOMAIN p = 1..m /\ p \in [1..m -> V]
  BY DEF Proof
<1> HIDE DEF p, m, V
<1>3. p \in Seq(V)
  BY <1>1, <1>2, SeqDef
<1>4. Len(p) = m
  BY <1>1, <1>2, <1>3, LenProperties
<1> QED
  BY <1>4 DEF p, m

\* The hashes follow the path of the leaf that the proof is for, if it is that
\* leaf, and leave it for good otherwise.
LEMMA HashesFollowThePath ==
    ASSUME NEW leaves, HashedDay(leaves), leaves # <<>>, NEW i \in DOMAIN leaves, NEW leaf, NEW f,
           Hashes(f, leaf, Proof(leaves, i - 1), i - 1, Height(leaves))
    PROVE  \A h \in 0..Height(leaves) :
              /\ Cursor(i - 1, h) \in 0..(Len(Level(leaves, h)) - 1)
              /\ f[h] = Level(leaves, h)[Cursor(i - 1, h) + 1] <=> leaf = leaves[i]
<1> DEFINE m == Height(leaves)
           L(h) == Level(leaves, h)
           l(h) == Len(L(h))
           c(h) == Cursor(i - 1, h)
           p == Proof(leaves, i - 1)
           S == {h \in 0..m : /\ c(h) \in 0..(l(h) - 1)
                              /\ f[h] = L(h)[c(h) + 1] <=> leaf = leaves[i]}
<1>1. m \in 0..Len(leaves) /\ m \in Nat /\ i \in 1..Len(leaves) /\ i - 1 \in Nat
  BY HeightIsReached DEF HashedDay
<1>2. 0 \in S
  <2>1. L(0) = leaves /\ c(0) = i - 1
    BY <1>1, LevelClimbs, CursorHalves DEF HashedDay
  <2>2. f[0] = leaf
    BY DEF Hashes
  <2>3. 0 \in 0..m /\ (i - 1) + 1 = i
    BY <1>1
  <2> HIDE DEF L, c
  <2>4. c(0) \in 0..(l(0) - 1)
    BY <1>1, <2>1
  <2> QED
    BY <2>1, <2>2, <2>3, <2>4
<1>3. ASSUME NEW h \in 1..m, h - 1 \in S PROVE h \in S
  <2> DEFINE level == L(h - 1)
             n == l(h - 1)
             cursor == c(h - 1)
  <2>1. h \in 1..Len(leaves) /\ h - 1 \in 0..Len(leaves) /\ h \in Nat \ {0}
    BY <1>1
  <2>2. L(h) = Pairs(level)
    BY <2>1, LevelClimbs DEF HashedDay
  <2>3. n \in Nat /\ cursor \in 0..(n - 1)
    BY <1>3, <2>1, LevelLengths DEF HashedDay
  <2>4. l(h) = (n + 1) \div 2
    BY <2>2, <2>3, PairsLength
  <2>5. c(h) = cursor \div 2
    BY <1>1, <2>1, CursorHalves
  <2>6. p[h] = Sibling(level, cursor)
    BY DEF Proof
  <2>7. f[h] = IF cursor % 2 = 0 THEN <<f[h - 1], p[h]>> ELSE <<p[h], f[h - 1]>>
    BY DEF Hashes
  <2>8. f[h - 1] = level[cursor + 1] <=> leaf = leaves[i]
    BY <1>3
  <2>9. h \in 0..m /\ Len(level) = n
    OBVIOUS
  <2> HIDE DEF L, c, p
  <2> DEFINE k == cursor \div 2 + 1
  <2>10. k \in 1..((n + 1) \div 2)
    BY <2>3, SMTT(60)
  <2>11. L(h)[k] = <<level[2 * k - 1], IF 2 * k <= n THEN level[2 * k] ELSE level[2 * k - 1]>>
    BY <2>2, <2>10 DEF Pairs
  <2>12. c(h) \in 0..(l(h) - 1) /\ c(h) + 1 = k
    BY <2>3, <2>4, <2>5
  <2>13. CASE cursor % 2 = 0
    <3>1. 2 * k - 1 = cursor + 1 /\ 2 * k = cursor + 2
      BY <2>3, <2>13, SMTT(60)
    <3>2. p[h] = IF 2 * k <= n THEN level[2 * k] ELSE level[2 * k - 1]
      <4>1. cursor + 1 < n <=> 2 * k <= n
        BY <2>3, <3>1
      <4>2. (cursor + 1) + 1 = 2 * k
        BY <2>3, <3>1
      <4> HIDE DEF k, n, cursor, level
      <4> QED
        BY <2>6, <2>9, <2>13, <3>1, <4>1, <4>2 DEF Sibling
    <3> HIDE DEF k, n, cursor, level
    <3>3. f[h] = L(h)[k] <=> f[h - 1] = level[cursor + 1]
      BY <2>7, <2>11, <2>13, <3>1, <3>2
    <3> QED
      BY <2>8, <2>9, <2>12, <3>3
  <2>14. CASE cursor % 2 # 0
    <3>1. 2 * k - 1 = cursor /\ 2 * k = cursor + 1 /\ 2 * k <= n /\ cursor - 1 < n
      BY <2>3, <2>14, SMTT(60)
    <3>2. p[h] = level[2 * k - 1]
      <4>1. (cursor - 1) + 1 = cursor
        BY <2>3
      <4> HIDE DEF k, n, cursor, level
      <4> QED
        BY <2>6, <2>9, <2>14, <3>1, <4>1 DEF Sibling
    <3> HIDE DEF k, n, cursor, level
    <3>3. f[h] = L(h)[k] <=> f[h - 1] = level[cursor + 1]
      BY <2>7, <2>11, <2>14, <3>1, <3>2
    <3> QED
      BY <2>8, <2>9, <2>12, <3>3
  <2> QED
    BY <2>13, <2>14
<1>4. S = 0..m
  <2>1. S \in SUBSET (0..m)
    OBVIOUS
  <2> HIDE DEF S, m
  <2> QED
    BY <1>1, <1>2, <1>3, <2>1, FirstWithout
<1> QED
  BY <1>4

\* Every leaf of a day has a proof, and the proof is for that leaf only.
LEMMA EveryProofVerifies ==
    ASSUME NEW leaves, HashedDay(leaves)
    PROVE  ProofsVerify(leaves)
<1> SUFFICES ASSUME NEW i \in DOMAIN leaves, NEW j \in DOMAIN leaves
             PROVE  Verify(leaves[j], Proof(leaves, i - 1), i - 1, Root(leaves))
                        <=> leaves[j] = leaves[i]
  BY DEF ProofsVerify
<1> DEFINE m == Height(leaves)
           p == Proof(leaves, i - 1)
<1>1. leaves # <<>>
  BY EmptySeq DEF HashedDay
<1>2. Len(p) = m /\ m \in Nat /\ m \in 0..m
  BY <1>1, ProofLength, HeightIsReached DEF HashedDay
<1>3. PICK f : /\ Hashes(f, leaves[j], p, i - 1, m)
               /\ Verify(leaves[j], p, i - 1, Root(leaves)) <=> f[m] = Root(leaves)
  <2> HIDE DEF m, p
  <2>1. Len(p) \in Nat
    BY <1>2
  <2>2. PICK f : /\ Hashes(f, leaves[j], p, i - 1, Len(p))
                 /\ Verify(leaves[j], p, i - 1, Root(leaves)) <=> f[Len(p)] = Root(leaves)
    BY <2>1, VerifyHashes, SMTT(60)
  <2> QED
    BY <1>2, <2>2
<1>4. /\ Cursor(i - 1, m) \in 0..(Len(Level(leaves, m)) - 1)
      /\ f[m] = Level(leaves, m)[Cursor(i - 1, m) + 1] <=> leaves[j] = leaves[i]
  BY <1>1, <1>2, <1>3, HashesFollowThePath
<1>5. Len(Level(leaves, m)) = 1 /\ Root(leaves) = Level(leaves, m)[1]
  BY <1>1, HeightIsReached DEF Root
<1>6. Cursor(i - 1, m) + 1 = 1
  BY <1>4, <1>5
<1> QED
  BY <1>3, <1>4, <1>5, <1>6

\* A hash above the leaves is the pair of the two below it.
LEMMA HashOfPair ==
    ASSUME NEW leaves, HashedDay(leaves), leaves # <<>>, NEW h \in 1..Height(leaves),
           NEW k \in 1..Len(Level(leaves, h)), NEW n, n = Len(Level(leaves, h - 1))
    PROVE  /\ n \in Nat /\ 2 * k - 1 \in 1..n
           /\ Level(leaves, h)[k] =
                 <<Level(leaves, h - 1)[2 * k - 1],
                   IF 2 * k <= n THEN Level(leaves, h - 1)[2 * k]
                   ELSE Level(leaves, h - 1)[2 * k - 1]>>
<1> DEFINE below == Level(leaves, h - 1)
<1>1. h \in 1..Len(leaves) /\ h - 1 \in 0..Len(leaves)
  BY HeightIsReached DEF HashedDay
<1>2. Level(leaves, h) = Pairs(below)
  BY <1>1, LevelClimbs DEF HashedDay
<1>3. n \in Nat
  BY <1>1, LevelLengths DEF HashedDay
<1> HIDE DEF below
<1>4. Len(below) = n
  BY DEF below
<1>5. k \in 1..((n + 1) \div 2)
  BY <1>2, <1>3, <1>4, PairsLength
<1>6. 2 * k - 1 \in 1..n
  BY <1>3, <1>5
<1>7. Pairs(below)[k] =
         <<below[2 * k - 1], IF 2 * k <= n THEN below[2 * k] ELSE below[2 * k - 1]>>
  BY <1>4, <1>5 DEF Pairs
<1> QED
  BY <1>2, <1>3, <1>6, <1>7 DEF below

LEMMA DayOfLeaves ==
    ASSUME NEW leaves \in Seq(Leaves)
    PROVE  HashedDay(leaves) /\ \A i \in DOMAIN leaves : DOMAIN leaves[i] = {1}
<1>1. \A i \in DOMAIN leaves : leaves[i] \in Leaves
  BY ElementOfSeq, LenProperties
<1> QED
  BY <1>1, LenProperties, LeavesAssumption DEF HashedDay

\* A pair is no leaf.
LEMMA PairIsNoLeaf ==
    ASSUME NEW x, NEW y, NEW z, x = <<y, z>>
    PROVE  DOMAIN x # {1} /\ x # <<>>
<1>1. DOMAIN x = 1..2
  OBVIOUS
<1>2. 2 \in 1..2 /\ 2 \notin {1}
  OBVIOUS
<1>3. x # <<>>
  OBVIOUS
<1> QED
  BY <1>1, <1>2, <1>3

LEMMA LeftOfPair ==
    ASSUME NEW leaves, HashedDay(leaves), leaves # <<>>, NEW h \in 1..Height(leaves),
           NEW g, g = h - 1
    PROVE  \E z : Level(leaves, h)[1] = <<Level(leaves, g)[1], z>>
<1>1. h \in 0..Len(leaves)
  BY HeightIsReached DEF HashedDay
<1>2. 1 \in 1..Len(Level(leaves, h))
  BY <1>1, LevelLengths DEF HashedDay
<1> DEFINE n == Len(Level(leaves, h - 1))
           below == Level(leaves, h - 1)
           z == IF 2 * 1 <= n THEN below[2 * 1] ELSE below[2 * 1 - 1]
<1>3. Level(leaves, h)[1] = <<below[2 * 1 - 1], z>>
  BY <1>2, HashOfPair
<1> HIDE DEF n, z
<1>4. 2 * 1 - 1 = 1
  OBVIOUS
<1>5. Level(leaves, h)[1] = <<below[1], z>>
  BY <1>3, <1>4
<1> QED
  BY <1>5

\* Down the left side of two trees with one root the hashes are the same, and
\* where one tree has come to its leaves the other must have as well.
LEMMA NoHigherTree ==
    ASSUME NEW a \in Seq(Leaves), NEW b \in Seq(Leaves), a # <<>>, b # <<>>, Root(a) = Root(b)
    PROVE  Height(b) <= Height(a)
<1> DEFINE m == Height(a)
           n == Height(b)
           S == {k \in 0..m : Level(a, m - k)[1] = Level(b, n - k)[1]}
<1> SUFFICES ASSUME m < n PROVE FALSE
  <2>1. m \in Nat /\ n \in Nat
    BY DayOfLeaves, HeightIsReached DEF HashedDay
  <2> HIDE DEF m, n
  <2> QED
    BY <2>1 DEF m, n
<1>1. HashedDay(a) /\ HashedDay(b) /\ m \in Nat /\ n \in Nat /\ m \in 0..Len(a) /\ n \in 0..Len(b)
  BY DayOfLeaves, HeightIsReached DEF HashedDay
<1>2. 0 \in S
  <2>1. Level(a, m)[1] = Level(b, n)[1]
    BY DEF Root
  <2> HIDE DEF m, n
  <2>2. m - 0 = m /\ n - 0 = n /\ 0 \in 0..m
    BY <1>1
  <2> QED
    BY <2>1, <2>2
<1>3. ASSUME NEW k \in 1..m, k - 1 \in S PROVE k \in S
  <2>1. /\ m - (k - 1) \in 1..m /\ (m - (k - 1)) - 1 = m - k /\ m - (k - 1) \in 0..Len(a)
        /\ n - (k - 1) \in 1..n /\ (n - (k - 1)) - 1 = n - k /\ n - (k - 1) \in 0..Len(b)
    <3> HIDE DEF m, n
    <3> QED
      BY <1>1 DEF HashedDay
  <2>2. PICK x : Level(a, m - (k - 1))[1] = <<Level(a, m - k)[1], x>>
    BY <1>1, <2>1, LeftOfPair, SMTT(60)
  <2>3. PICK y : Level(b, n - (k - 1))[1] = <<Level(b, n - k)[1], y>>
    BY <1>1, <2>1, LeftOfPair, SMTT(60)
  <2>4. Level(a, m - (k - 1))[1] = Level(b, n - (k - 1))[1]
    BY <1>3
  <2> HIDE DEF m, n
  <2>5. Level(a, m - k)[1] = Level(b, n - k)[1]
    BY <2>2, <2>3, <2>4
  <2> QED
    BY <2>5 DEF m, n
<1>4. S = 0..m
  <2>1. S \in SUBSET (0..m)
    OBVIOUS
  <2> HIDE DEF S, m
  <2> QED
    BY <1>1, <1>2, <1>3, <2>1, FirstWithout
<1>5. Level(a, m - m)[1] = Level(b, n - m)[1]
  BY <1>1, <1>4
<1>6. m - m = 0 /\ n - m \in 1..n /\ n - m \in 0..Len(b) /\ (n - m) - 1 \in 0..Len(b)
  <2> HIDE DEF m, n
  <2> QED
    BY <1>1 DEF HashedDay
<1>7. Level(a, 0)[1] = a[1] /\ DOMAIN a[1] = {1}
  <2>1. Level(a, 0) = a /\ 1 \in DOMAIN a
    BY <1>1, LevelClimbs, EmptySeq DEF HashedDay
  <2> QED
    BY <2>1, DayOfLeaves
<1>8. PICK z : Level(b, n - m)[1] = <<Level(b, (n - m) - 1)[1], z>>
  BY <1>1, <1>6, LeftOfPair
<1>9. Level(a, 0)[1] = Level(b, n - m)[1]
  <2> HIDE DEF m, n
  <2> QED
    BY <1>5, <1>6
<1> QED
  BY <1>7, <1>8, <1>9, PairIsNoLeaf

\* Of two trees the one with more leaves has no fewer hashes on any level.
LEMMA LongerAbove ==
    ASSUME NEW a, NEW b, HashedDay(a), HashedDay(b), Len(a) <= Len(b)
    PROVE  \A h \in 0..Len(a) : Len(Level(a, h)) <= Len(Level(b, h))
<1> DEFINE la(h) == Len(Level(a, h))
           lb(h) == Len(Level(b, h))
           S == {h \in 0..Len(a) : la(h) <= lb(h)}
<1>1. 0 \in S
  BY LevelClimbs DEF HashedDay
<1>2. ASSUME NEW h \in 1..Len(a), h - 1 \in S PROVE h \in S
  <2>1. h \in 1..Len(b) /\ h - 1 \in 0..Len(a) /\ h - 1 \in 0..Len(b)
    BY DEF HashedDay
  <2>2. la(h - 1) \in Nat /\ lb(h - 1) \in Nat /\ la(h - 1) <= lb(h - 1)
    BY <1>2, <2>1, LevelLengths DEF HashedDay
  <2>3. la(h) = (la(h - 1) + 1) \div 2
    BY <2>2, LevelClimbs, PairsLength DEF HashedDay
  <2>4. lb(h) = (lb(h - 1) + 1) \div 2
    BY <2>1, <2>2, LevelClimbs, PairsLength DEF HashedDay
  <2> HIDE DEF la, lb
  <2>5. la(h) <= lb(h)
    BY <2>2, <2>3, <2>4
  <2> QED
    BY <2>5
<1>3. S = 0..Len(a)
  <2>1. S \in SUBSET (0..Len(a)) /\ Len(a) \in Nat
    BY DEF HashedDay
  <2> HIDE DEF S
  <2> QED
    BY <1>1, <1>2, <2>1, FirstWithout
<1> QED
  BY <1>3

\* Level x begins with level y, and has nothing else.
Repeats(x, y) ==
    /\ \A i \in DOMAIN y : x[i] = y[i]
    /\ \A i \in DOMAIN x : \E j \in DOMAIN y : x[i] = y[j]

\* The pair that the i-th hash of a level of n belongs to.
LEMMA PairOfHash ==
    ASSUME NEW i \in Nat, NEW n \in Nat, i >= 1, i <= n, NEW k, k = (i + 1) \div 2
    PROVE  /\ k \in Nat /\ k >= 1 /\ k <= (n + 1) \div 2
           /\ i = 2 * k - 1 \/ (i = 2 * k /\ 2 * k <= n)
<1>1. k \in Int /\ i + 1 - 2 * k \in 0..1
  OBVIOUS
<1>2. (n + 1) \div 2 \in Int /\ n + 1 - 2 * ((n + 1) \div 2) \in 0..1
  OBVIOUS
<1> QED
  BY <1>1, <1>2

\* What is so on one level is so on the level below.
LEMMA RepeatsBelow ==
    ASSUME NEW a, NEW b, HashedDay(a), HashedDay(b), a # <<>>, b # <<>>, Len(a) <= Len(b),
           NEW h \in 1..Height(a), h \in 1..Height(b), Repeats(Level(b, h), Level(a, h))
    PROVE  Repeats(Level(b, h - 1), Level(a, h - 1))
<1> DEFINE x == Level(b, h - 1)
           y == Level(a, h - 1)
           X == Level(b, h)
           Y == Level(a, h)
<1>1. h - 1 \in 0..Len(a) /\ h \in 1..Len(a) /\ h - 1 \in 0..Len(b) /\ h \in 1..Len(b)
  BY HeightIsReached DEF HashedDay
<1>2. /\ Len(x) \in Nat /\ DOMAIN x = 1..Len(x) /\ Len(y) \in Nat /\ DOMAIN y = 1..Len(y)
      /\ Len(y) <= Len(x)
  BY <1>1, LevelLengths, LongerAbove DEF HashedDay
<1>3. /\ DOMAIN X = 1..((Len(x) + 1) \div 2) /\ Len(X) = (Len(x) + 1) \div 2
      /\ DOMAIN Y = 1..((Len(y) + 1) \div 2) /\ Len(Y) = (Len(y) + 1) \div 2
  BY <1>1, <1>2, LevelClimbs, PairsLength DEF HashedDay
<1>4. \A k \in DOMAIN X :
         X[k] = <<x[2 * k - 1], IF 2 * k <= Len(x) THEN x[2 * k] ELSE x[2 * k - 1]>>
  BY <1>3, HashOfPair
<1>5. \A k \in DOMAIN Y :
         Y[k] = <<y[2 * k - 1], IF 2 * k <= Len(y) THEN y[2 * k] ELSE y[2 * k - 1]>>
  BY <1>3, HashOfPair
<1>6. Repeats(X, Y)
  OBVIOUS
<1> HIDE DEF x, y, X, Y
<1>7. ASSUME NEW i \in DOMAIN y PROVE x[i] = y[i]
  <2> DEFINE k == (i + 1) \div 2
  <2>1. k \in DOMAIN Y /\ k \in DOMAIN X /\ (i = 2 * k - 1 \/ (i = 2 * k /\ 2 * k <= Len(y)))
    <3>1. i \in Nat /\ i >= 1 /\ i <= Len(y) /\ i <= Len(x)
      BY <1>2
    <3>2. /\ k \in Nat /\ k >= 1 /\ k <= (Len(y) + 1) \div 2
          /\ i = 2 * k - 1 \/ (i = 2 * k /\ 2 * k <= Len(y))
      BY <1>2, <3>1, PairOfHash
    <3>3. k <= (Len(x) + 1) \div 2
      BY <1>2, <3>1, PairOfHash
    <3> HIDE DEF k
    <3> QED
      BY <1>3, <3>2, <3>3
  <2>2. X[k] = Y[k]
    BY <1>6, <2>1 DEF Repeats
  <2> HIDE DEF k
  <2>3. 2 * k <= Len(y) => 2 * k <= Len(x)
    BY <1>2, <1>3, <2>1
  <2> DEFINE p == <<x[2 * k - 1], IF 2 * k <= Len(x) THEN x[2 * k] ELSE x[2 * k - 1]>>
             q == <<y[2 * k - 1], IF 2 * k <= Len(y) THEN y[2 * k] ELSE y[2 * k - 1]>>
  <2>6. p = q
    BY <1>4, <1>5, <2>1, <2>2
  <2>7. p[1] = q[1] /\ p[2] = q[2]
    BY <2>6
  <2>4. x[2 * k - 1] = y[2 * k - 1]
    BY <2>7
  <2>5. 2 * k <= Len(y) => x[2 * k] = y[2 * k]
    BY <2>3, <2>7
  <2> QED
    BY <2>1, <2>4, <2>5
<1>8. ASSUME NEW i \in DOMAIN x PROVE \E j \in DOMAIN y : x[i] = y[j]
  <2> DEFINE k == (i + 1) \div 2
  <2>1. k \in DOMAIN X /\ (i = 2 * k - 1 \/ (i = 2 * k /\ 2 * k <= Len(x)))
    <3>1. i \in Nat /\ i >= 1 /\ i <= Len(x)
      BY <1>2
    <3>2. /\ k \in Nat /\ k >= 1 /\ k <= (Len(x) + 1) \div 2
          /\ i = 2 * k - 1 \/ (i = 2 * k /\ 2 * k <= Len(x))
      BY <1>2, <3>1, PairOfHash
    <3> HIDE DEF k
    <3> QED
      BY <1>3, <3>2
  <2>2. PICK j \in DOMAIN Y : X[k] = Y[j]
    BY <1>6, <2>1 DEF Repeats
  <2>3. 2 * j - 1 \in DOMAIN y /\ (2 * j <= Len(y) => 2 * j \in DOMAIN y)
    BY <1>2, <1>3, SMTT(60)
  <2> HIDE DEF k
  <2>4. x[2 * k - 1] = y[2 * j - 1]
    BY <1>4, <1>5, <2>1, <2>2
  <2>5. 2 * k <= Len(x) =>
           x[2 * k] = IF 2 * j <= Len(y) THEN y[2 * j] ELSE y[2 * j - 1]
    BY <1>4, <1>5, <2>1, <2>2
  <2>6. CASE i = 2 * k - 1
    BY <2>3, <2>4, <2>6
  <2>7. CASE i = 2 * k /\ 2 * k <= Len(x)
    BY <2>3, <2>5, <2>7
  <2> QED
    BY <2>1, <2>6, <2>7
<1> QED
  BY <1>7, <1>8 DEF Repeats, x, y

\* The root of a day binds its events, their number and their order, up to
\* events of the day repeated at its end: from the root down to the leaves.
LEMMA RootBindsTheDay ==
    ASSUME NEW a \in Seq(Leaves), NEW b \in Seq(Leaves)
    PROVE  RootBinds(a, b)
<1> SUFFICES ASSUME Root(a) = Root(b), Len(a) <= Len(b)
             PROVE  /\ SubSeq(b, 1, Len(a)) = a
                    /\ \A i \in DOMAIN b : \E j \in DOMAIN a : b[i] = a[j]
  BY DEF RootBinds
<1>1. HashedDay(a) /\ HashedDay(b)
  BY DayOfLeaves
<1>2. CASE a = <<>>
  <2>1. b = <<>>
    <3> SUFFICES ASSUME b # <<>> PROVE FALSE
      OBVIOUS
    <3> DEFINE n == Height(b)
    <3>1. Level(b, n)[1] = <<>> /\ n \in Nat /\ n \in 0..n
      <4>1. Root(a) = <<>> /\ Root(b) = Level(b, n)[1]
        BY <1>2 DEF Root, Zeros
      <4>2. n \in Nat
        BY <1>1, HeightIsReached DEF HashedDay
      <4>3. Root(b) = <<>>
        BY <4>1
      <4> HIDE DEF n
      <4>4. Level(b, n)[1] = <<>>
        BY <4>1, <4>3
      <4>5. n \in 0..n
        BY <4>2
      <4> QED
        BY <4>2, <4>4, <4>5
    <3>2. CASE n = 0
      <4>1. Level(b, 0) = b /\ 1 \in DOMAIN b
        BY <1>1, LevelClimbs, EmptySeq DEF HashedDay
      <4>2. DOMAIN b[1] = {1}
        BY <4>1, DayOfLeaves
      <4>3. b[1] = <<>>
        <5> HIDE DEF n
        <5> QED
          BY <3>1, <3>2, <4>1
      <4>4. DOMAIN <<>> # {1}
        OBVIOUS
      <4> QED
        BY <4>2, <4>3, <4>4
    <3>3. CASE n # 0
      <4>1. n \in 1..n
        BY <3>1, <3>3
      <4>2. PICK z : Level(b, n)[1] = <<Level(b, n - 1)[1], z>>
        BY <1>1, <4>1, LeftOfPair
      <4> QED
        BY <3>1, <4>2, PairIsNoLeaf
    <3> QED
      BY <3>2, <3>3
  <2> QED
    BY <1>2, <2>1
<1>3. CASE a # <<>>
  <2>1. b # <<>>
    BY <1>3, EmptySeq, LenProperties
  <2> DEFINE m == Height(a)
  <2>2. m \in Nat /\ m \in 0..Len(a) /\ Height(b) \in Nat
    BY <1>1, <1>3, <2>1, HeightIsReached DEF HashedDay
  <2>3. Height(b) = m
    BY <1>3, <2>1, <2>2, NoHigherTree
  <2> DEFINE S == {k \in 0..m : Repeats(Level(b, m - k), Level(a, m - k))}
  <2>4. 0 \in S
    <3>1. Len(Level(a, m)) = 1 /\ Len(Level(b, m)) = 1 /\ Level(a, m)[1] = Level(b, m)[1]
      BY <1>1, <1>3, <2>1, <2>3, HeightIsReached DEF Root
    <3>2. DOMAIN Level(a, m) = 1..1 /\ DOMAIN Level(b, m) = 1..1
      BY <1>1, <2>2, <2>3, <3>1, <1>3, <2>1, LevelLengths, HeightIsReached DEF HashedDay
    <3> HIDE DEF m
    <3>3. m - 0 = m /\ 0 \in 0..m
      BY <2>2
    <3>4. Repeats(Level(b, m), Level(a, m))
      BY <3>1, <3>2 DEF Repeats
    <3> QED
      BY <3>3, <3>4
  <2>5. ASSUME NEW k \in 1..m, k - 1 \in S PROVE k \in S
    <3>1. /\ m - (k - 1) \in 1..m /\ (m - (k - 1)) - 1 = m - k
      <4> HIDE DEF m
      <4> QED
        BY <2>2
    <3>2. Repeats(Level(b, m - (k - 1)), Level(a, m - (k - 1)))
      BY <2>5
    <3>3. Repeats(Level(b, (m - (k - 1)) - 1), Level(a, (m - (k - 1)) - 1))
      BY <1>1, <1>3, <2>1, <2>3, <3>1, <3>2, RepeatsBelow
    <3> HIDE DEF m
    <3> QED
      BY <3>1, <3>3
  <2>6. S = 0..m
    <3>1. S \in SUBSET (0..m)
      OBVIOUS
    <3> HIDE DEF S, m
    <3> QED
      BY <2>2, <2>4, <2>5, <3>1, FirstWithout
  <2>7. Repeats(b, a)
    <3>1. m \in S /\ m - m = 0
      <4> HIDE DEF m, S
      <4> QED
        BY <2>2, <2>6
    <3>2. Repeats(Level(b, m - m), Level(a, m - m))
      BY <3>1
    <3>3. Level(a, 0) = a /\ Level(b, 0) = b
      BY <1>1, LevelClimbs DEF HashedDay
    <3> HIDE DEF m, S
    <3> QED
      BY <3>1, <3>2, <3>3
  <2>8. SubSeq(b, 1, Len(a)) = a
    <3>1. Len(a) \in Nat /\ Len(b) \in Nat /\ DOMAIN a = 1..Len(a) /\ DOMAIN b = 1..Len(b)
      BY <1>1 DEF HashedDay
    <3>2. /\ SubSeq(b, 1, Len(a)) \in Seq(Leaves)
          /\ Len(SubSeq(b, 1, Len(a))) = Len(a)
          /\ \A i \in 1..Len(a) : SubSeq(b, 1, Len(a))[i] = b[i]
      BY <3>1, SubSeqProperties
    <3>3. \A i \in 1..Len(a) : SubSeq(b, 1, Len(a))[i] = a[i]
      BY <2>7, <3>1, <3>2 DEF Repeats
    <3> QED
      BY <3>2, <3>3, SeqEqual
  <2> QED
    BY <2>7, <2>8 DEF Repeats
<1> QED
  BY <1>2, <1>3

\* The two days that a behaviour about the tree fills with events.
DaysTyped == topic = "merkle" => input \in [1..2 -> Seq(Leaves)]

LEMMA DaysStayTyped == Spec => []DaysTyped
<1>1. Init => DaysTyped
  <2> SUFFICES ASSUME Init, topic = "merkle" PROVE input \in [1..2 -> Seq(Leaves)]
    BY DEF DaysTyped
  <2>1. input = <<<<>>, <<>>>>
    BY DEF Init, FirstInput
  <2> DEFINE e == <<>>
  <2>2. e \in Seq(Leaves) /\ input = <<e, e>>
    BY <2>1, EmptySeq
  <2> HIDE DEF e
  <2>3. DOMAIN input = 1..2 /\ input[1] = e /\ input[2] = e /\ input = [i \in 1..2 |-> e]
    BY <2>2
  <2> QED
    BY <2>2, <2>3
<1>2. ASSUME DaysTyped, [Next]_vars PROVE DaysTyped'
  <2>1. CASE UNCHANGED vars
    BY <1>2, <2>1 DEF DaysTyped, vars
  <2>2. ASSUME NEW d \in {1, 2}, NEW leaf \in Leaves, AddLeaf(d, leaf) PROVE DaysTyped'
    <3>1. input \in [1..2 -> Seq(Leaves)] /\ d \in 1..2
      BY <1>2, <2>2 DEF DaysTyped, AddLeaf
    <3>2. Append(input[d], leaf) \in Seq(Leaves)
      BY <3>1, AppendProperties
    <3>3. input' = [input EXCEPT ![d] = Append(input[d], leaf)]
      BY <2>2 DEF AddLeaf
    <3> QED
      BY <3>1, <3>2, <3>3 DEF DaysTyped
  <2>3. ASSUME topic # "merkle", topic' = topic PROVE DaysTyped'
    BY <2>3 DEF DaysTyped
  <2>4. ASSUME NEW row \in Rows, AddRow(row) PROVE DaysTyped'
    BY <2>3, <2>4 DEF AddRow, Computing
  <2>5. CASE NextLine
    BY <2>3, <2>5 DEF NextLine, Computing
  <2>6. ASSUME NEW p \in Grid, AddCorner(p) PROVE DaysTyped'
    BY <2>3, <2>6 DEF AddCorner, Computing
  <2>7. ASSUME NEW zone \in {"+07:00", "Z"}, AddEvent(zone) PROVE DaysTyped'
    BY <2>3, <2>7 DEF AddEvent, Computing
  <2>8. CASE topic \in {"listing", "history", "pilot"} /\ UNCHANGED topic
    BY <2>3, <2>8
  <2> QED
    BY <1>2, <2>1, <2>2, <2>4, <2>5, <2>6, <2>7, <2>8 DEF Next
<1> QED
  BY <1>1, <1>2, PTL DEF Spec

\* MerkleService for every day of events there can be: root, proof and verify
\* fit together, and two days with one root are one day but for events repeated
\* at the end.
THEOREM DaysAreBound == Spec => []MerkleInv
<1>1. ASSUME DaysTyped PROVE MerkleInv
  <2> SUFFICES ASSUME topic = "merkle"
               PROVE  ProofsVerify(input[1]) /\ RootBinds(input[1], input[2])
    BY DEF MerkleInv
  <2>1. input[1] \in Seq(Leaves) /\ input[2] \in Seq(Leaves)
    BY <1>1 DEF DaysTyped
  <2>2. HashedDay(input[1])
    BY <2>1, DayOfLeaves
  <2> QED
    BY <2>1, <2>2, EveryProofVerifies, RootBindsTheDay
<1> QED
  BY <1>1, DaysStayTyped, PTL

(***************************************************************************)
(* The history page.  It asks once, when it opens, so that no answer is    *)
(* late; and what the phone keeps as delivered is on the server, also what *)
(* it kept when the page asked.                                            *)
(***************************************************************************)

AskedOnce == fetching # NotFetching => open /\ seen = Nothing

KeptIsTrue ==
    \A i \in Lots : local[i] = "HARVESTED" \/ fetching[i] = "HARVESTED" => server[i] # "absent"

HistoryIInv ==
    HistoryTypeOK /\ NothingHidden /\ KeptStaysShown /\ OthersSeeTheirPhone
    /\ ShownIsTrue /\ AskedOnce /\ KeptIsTrue

\* A change of the history on the phone that keeps its type and is true.
LEMMA HistoryChanges ==
    ASSUME HistoryIInv, NEW items \in [Lots -> {"absent", "PENDING_SYNC", "HARVESTED", "FAILED_VALIDATION"}],
           \A i \in Lots : items[i] = "HARVESTED" => server[i] # "absent",
           WriteAllHistory(items), overtaken' = FALSE
    PROVE  HistoryIInv'
<1> USE DEF HistoryIInv, WriteAllHistory, MergeBatches, NotFetching, Nothing
<1>1. HistoryTypeOK'
  BY DEF HistoryTypeOK
<1>2. NothingHidden'
  BY DEF NothingHidden, HistoryTypeOK
<1>3. KeptStaysShown' /\ OthersSeeTheirPhone'
  BY DEF KeptStaysShown, OthersSeeTheirPhone, HistoryTypeOK
<1>4. ShownIsTrue'
  BY DEF ShownIsTrue, HistoryTypeOK
<1>5. AskedOnce'
  BY DEF AskedOnce
<1>6. KeptIsTrue'
  BY DEF KeptIsTrue
<1> QED
  BY <1>1, <1>2, <1>3, <1>4, <1>5, <1>6

LEMMA HistoryStepKeeps ==
    ASSUME HistoryIInv, HistoryNext
    PROVE  HistoryIInv'
<1>1. ASSUME NEW i \in Lots, Submit(i) PROVE HistoryIInv'
  <2> DEFINE items == [local EXCEPT ![i] = "PENDING_SYNC"]
  <2>1. items \in [Lots -> {"absent", "PENDING_SYNC", "HARVESTED", "FAILED_VALIDATION"}]
    BY DEF HistoryIInv, HistoryTypeOK
  <2>2. \A j \in Lots : items[j] = "HARVESTED" => server[j] # "absent"
    BY DEF HistoryIInv, KeptIsTrue, HistoryTypeOK
  <2> QED
    BY <1>1, <2>1, <2>2, HistoryChanges DEF Submit
<1>2. ASSUME NEW i \in Lots, NEW status \in {"HARVESTED", "FAILED_VALIDATION"},
             MarkHarvestHistoryStatus(i, status)
      PROVE  HistoryIInv'
  <2> DEFINE items == [local EXCEPT ![i] = status]
  <2>1. items \in [Lots -> {"absent", "PENDING_SYNC", "HARVESTED", "FAILED_VALIDATION"}]
    BY DEF HistoryIInv, HistoryTypeOK
  <2>2. \A j \in Lots : items[j] = "HARVESTED" => server[j] # "absent"
    BY <1>2 DEF HistoryIInv, KeptIsTrue, HistoryTypeOK, MarkHarvestHistoryStatus
  <2> QED
    BY <1>2, <2>1, <2>2, HistoryChanges DEF MarkHarvestHistoryStatus
<1>3. CASE ClearHarvestHistory
  <2>1. /\ Nothing \in [Lots -> {"absent", "PENDING_SYNC", "HARVESTED", "FAILED_VALIDATION"}]
        /\ \A j \in Lots : Nothing[j] = "HARVESTED" => server[j] # "absent"
    BY DEF Nothing
  <2> QED
    BY <1>3, <2>1, HistoryChanges DEF ClearHarvestHistory
<1>4. ASSUME NEW i \in Lots, Store(i) \/ Receive(i) PROVE HistoryIInv'
  <2> USE <1>4 DEF HistoryIInv, Store, Receive, NotFetching, Nothing
  <2>1. HistoryTypeOK'
    BY DEF HistoryTypeOK
  <2>2. NothingHidden' /\ KeptStaysShown' /\ OthersSeeTheirPhone' /\ AskedOnce'
    BY DEF NothingHidden, KeptStaysShown, OthersSeeTheirPhone, AskedOnce
  <2>3. ShownIsTrue' /\ KeptIsTrue'
    BY DEF ShownIsTrue, KeptIsTrue, HistoryTypeOK
  <2> QED
    BY <2>1, <2>2, <2>3
<1>5. CASE OpenPage
  <2> USE <1>5 DEF HistoryIInv, OpenPage, NotFetching, Nothing
  <2>1. HistoryTypeOK'
    BY DEF HistoryTypeOK
  <2>2. NothingHidden'
    BY DEF NothingHidden, HistoryTypeOK
  <2>3. KeptStaysShown' /\ OthersSeeTheirPhone' /\ AskedOnce'
    BY DEF KeptStaysShown, OthersSeeTheirPhone, AskedOnce
  <2>4. ShownIsTrue' /\ KeptIsTrue'
    BY DEF ShownIsTrue, KeptIsTrue
  <2> QED
    BY <2>1, <2>2, <2>3, <2>4
<1>6. CASE ClosePage
  <2> USE <1>6 DEF HistoryIInv, ClosePage, NotFetching, Nothing
  <2>1. HistoryTypeOK'
    BY DEF HistoryTypeOK
  <2>2. NothingHidden' /\ KeptStaysShown' /\ OthersSeeTheirPhone' /\ AskedOnce'
    BY DEF NothingHidden, KeptStaysShown, OthersSeeTheirPhone, AskedOnce
  <2>3. ShownIsTrue' /\ KeptIsTrue'
    BY DEF ShownIsTrue, KeptIsTrue
  <2> QED
    BY <2>1, <2>2, <2>3
<1>7. CASE Answered
  <2> USE <1>7 DEF HistoryIInv, Answered, MergeBatches
  <2>6. /\ seen' \in [Lots -> {"absent", "HARVESTED", "COLLECTED"}]
        /\ \A i \in Lots : seen'[i] # "absent" => server[i] # "absent"
        /\ ~isDefault => seen' = Nothing
    BY DEF ServerAnswers, Nothing, HistoryTypeOK
  <2>0. fetching \in [Lots -> {"absent", "PENDING_SYNC", "HARVESTED", "FAILED_VALIDATION"}]
    BY DEF HistoryTypeOK
  <2>1. HistoryTypeOK'
    BY <2>0, <2>6 DEF HistoryTypeOK
  <2>2. NothingHidden'
    BY <2>0, <2>6 DEF NothingHidden, HistoryTypeOK
  <2>3. KeptStaysShown' /\ OthersSeeTheirPhone' /\ AskedOnce'
    BY <2>0, <2>6 DEF KeptStaysShown, OthersSeeTheirPhone, AskedOnce, HistoryTypeOK, Nothing
  <2>4. ShownIsTrue'
    BY <2>0, <2>6 DEF ShownIsTrue, KeptIsTrue
  <2>5. KeptIsTrue'
    BY DEF KeptIsTrue, NotFetching
  <2> QED
    BY <2>1, <2>2, <2>3, <2>4, <2>5
<1>8. CASE NotAnswered
  <2> USE <1>8 DEF HistoryIInv, NotAnswered
  <2>0. fetching \in [Lots -> {"absent", "PENDING_SYNC", "HARVESTED", "FAILED_VALIDATION"}]
    BY DEF HistoryTypeOK
  <2>1. HistoryTypeOK'
    BY <2>0 DEF HistoryTypeOK
  <2>2. NothingHidden'
    BY DEF NothingHidden
  <2>3. KeptStaysShown' /\ AskedOnce'
    BY DEF KeptStaysShown, AskedOnce, Nothing
  <2>6. OthersSeeTheirPhone'
    BY <2>0 DEF OthersSeeTheirPhone
  <2>4. ShownIsTrue'
    BY <2>0 DEF ShownIsTrue, KeptIsTrue
  <2>5. KeptIsTrue'
    BY DEF KeptIsTrue, NotFetching
  <2> QED
    BY <2>1, <2>2, <2>3, <2>4, <2>5, <2>6
<1> QED
  BY <1>1, <1>2, <1>3, <1>4, <1>5, <1>6, <1>7, <1>8 DEF HistoryNext

LEMMA HistoryInvariant == Spec => []HistoryIInv
<1>1. Init => HistoryIInv
  BY DEF Init, HistoryInit, HistoryIInv, HistoryTypeOK, NothingHidden, KeptStaysShown,
         OthersSeeTheirPhone, ShownIsTrue, AskedOnce, KeptIsTrue, Nothing, NotFetching
<1>2. ASSUME HistoryIInv, [Next]_vars PROVE HistoryIInv'
  <2>1. CASE HistoryNext
    BY <1>2, <2>1, HistoryStepKeeps
  <2>2. CASE UNCHANGED historyVars
    BY <1>2, <2>2 DEF historyVars, HistoryIInv, HistoryTypeOK, NothingHidden, KeptStaysShown,
                      OthersSeeTheirPhone, ShownIsTrue, AskedOnce, KeptIsTrue, Nothing, NotFetching
  <2>3. Next => HistoryNext \/ UNCHANGED historyVars
    BY DEF Next, AddLeaf, AddRow, NextLine, AddCorner, AddEvent, Computing
  <2> QED
    BY <1>2, <2>1, <2>2, <2>3 DEF vars
<1> QED
  BY <1>1, <1>2, PTL DEF Spec

(***************************************************************************)
(* The file of the field study.                                            *)
(***************************************************************************)

\* A function that adds up the points of the first answers.
AddsPoints(f, scores, top) ==
    /\ f = [i \in 0..top |-> f[i]] /\ f[0] = 0
    /\ \A i \in 1..top : f[i] = f[i - 1] + Points(i, scores[i])

LEMMA AddsPointsExists ==
    ASSUME NEW scores
    PROVE  \E f : AddsPoints(f, scores, 10)
<1> DEFINE S == {t \in 0..10 : \E f : AddsPoints(f, scores, t)}
           point(i) == Points(i, scores[i])
<1>1. 0 \in S
  <2>1. AddsPoints([i \in 0..0 |-> 0], scores, 0)
    BY DEF AddsPoints
  <2> QED
    BY <2>1
<1>2. ASSUME NEW n \in 1..10, n - 1 \in S PROVE n \in S
  <2>1. PICK f : AddsPoints(f, scores, n - 1)
    BY <1>2
  <2> DEFINE g == [i \in 0..n |-> IF i = n THEN f[n - 1] + point(n) ELSE f[i]]
  <2>2. g = [i \in 0..n |-> g[i]] /\ g[0] = 0
    BY <2>1 DEF AddsPoints
  <2>3. ASSUME NEW i \in 1..n PROVE g[i] = g[i - 1] + point(i)
    <3>1. i - 1 \in 0..n /\ i - 1 # n /\ i \in 0..n
      OBVIOUS
    <3>2. CASE i = n
      <4> HIDE DEF point
      <4> QED
        BY <3>1, <3>2
    <3>3. CASE i # n
      <4>1. i \in 1..(n - 1)
        BY <3>3
      <4>2. f[i] = f[i - 1] + point(i)
        BY <2>1, <4>1 DEF AddsPoints
      <4> HIDE DEF point
      <4> QED
        BY <3>1, <3>3, <4>2
    <3> QED
      BY <3>2, <3>3
  <2> HIDE DEF g
  <2>4. AddsPoints(g, scores, n)
    BY <2>2, <2>3 DEF AddsPoints
  <2> QED
    BY <2>4
<1> HIDE DEF S
<1>3. S = 0..10
  <2>1. S \in SUBSET (0..10)
    BY DEF S
  <2> QED
    BY <1>1, <1>2, <2>1, FirstWithout
<1>4. 10 \in S
  BY <1>3
<1> QED
  BY <1>4 DEF S

\* Ten answers on the scale give 0 to 100, in halves.
LEMMA ScoreIsOnScale ==
    ASSUME NEW scores \in Seq(0..5)
    PROVE  CalculateSus(scores) \in 0..200
<1> DEFINE point(i) == Points(i, scores[i])
           Is(total) == total = [i \in 0..10 |-> IF i = 0 THEN 0 ELSE total[i - 1] + point(i)]
           c == CHOOSE total : Is(total)
<1>1. CASE Len(scores) # 10
  BY <1>1 DEF CalculateSus
<1>2. CASE Len(scores) = 10
  <2>1. ASSUME NEW i \in 1..10 PROVE point(i) \in 0..4
    <3>1. scores[i] \in 0..5
      BY <1>2, ElementOfSeq
    <3> QED
      BY <3>1 DEF Points
  <2>2. PICK f : AddsPoints(f, scores, 10)
    BY AddsPointsExists
  <2>3. Is(f)
    <3>1. ASSUME NEW i \in 0..10 PROVE f[i] = IF i = 0 THEN 0 ELSE f[i - 1] + point(i)
      <4>1. CASE i = 0
        BY <2>2, <4>1 DEF AddsPoints
      <4>2. CASE i # 0
        <5>1. i \in 1..10
          BY <4>2
        <5>2. f[i] = f[i - 1] + point(i)
          BY <2>2, <5>1, SMTT(60) DEF AddsPoints
        <5> QED
          BY <4>2, <5>2
      <4> QED
        BY <4>1, <4>2
    <3>2. f = [i \in 0..10 |-> f[i]]
      BY <2>2, SMTT(60) DEF AddsPoints
    <3> QED
      BY <3>1, <3>2
  <2>4. Is(c)
    BY <2>3
  <2>5. CalculateSus(scores) = 5 * c[10]
    BY <1>2 DEF CalculateSus
  <2> HIDE DEF c, point
  <2> DEFINE S == {i \in 0..10 : c[i] \in 0..(4 * i)}
  <2>6. 0 \in S
    BY <2>4
  <2>7. ASSUME NEW i \in 1..10, i - 1 \in S PROVE i \in S
    <3>1. c[i] = c[i - 1] + point(i) /\ c[i - 1] \in 0..(4 * (i - 1)) /\ point(i) \in 0..4
      BY <2>1, <2>4, <2>7, SMTT(60)
    <3>2. c[i] \in 0..(4 * i)
      BY <3>1, SMTT(60)
    <3> QED
      BY <3>2
  <2>8. S = 0..10
    <3>1. S \in SUBSET (0..10)
      OBVIOUS
    <3> HIDE DEF S
    <3> QED
      BY <2>6, <2>7, <3>1, FirstWithout
  <2>9. c[10] \in 0..40
    <3>1. 10 \in S
      <4> HIDE DEF S
      <4> QED
        BY <2>8
    <3>2. 4 * 10 = 40
      OBVIOUS
    <3> QED
      BY <3>1, <3>2
  <2>10. \A x \in 0..40 : 5 * x \in 0..200
    OBVIOUS
  <2> HIDE DEF S
  <2> QED
    BY <2>5, <2>9, <2>10, ZenonT(60)
<1> QED
  BY <1>1, <1>2

ScaleRecords == [id : Participants, sus : 0..200]

Distinct(records) ==
    \A i, j \in DOMAIN records : Upper[records[i].id] = Upper[records[j].id] => i = j

Says(records) == {<<Upper[records[i].id], records[i].sus>> : i \in DOMAIN records}

\* What is written is what the file says, of each participant once.
FileIInv ==
    /\ Records \in Seq(ScaleRecords) /\ Distinct(Records) /\ written = Says(Records)
    /\ submitted \in 0..MaxSubmitted

\* The record of a participant is found by the first index that has it.
LEMMA FoundByUpper ==
    ASSUME NEW records \in Seq(ScaleRecords), NEW r \in ScaleRecords,
           \E i \in DOMAIN records : Upper[records[i].id] = Upper[r.id]
    PROVE  \E k \in DOMAIN records : /\ Upper[records[k].id] = Upper[r.id]
                                     /\ Submitted(records, r) = [records EXCEPT ![k] = r]
<1> DEFINE I == {i \in 1..Len(records) : Upper[records[i].id] = Upper[r.id]}
           k == SelectInSeq(records, LAMBDA x : Upper[x.id] = Upper[r.id])
<1>1. DOMAIN records = 1..Len(records) /\ Len(records) \in Nat
  BY LenProperties
<1>2. I \in SUBSET (0..Len(records)) /\ I # {}
  BY <1>1
<1>3. PICK n \in I : \A j \in I : n <= j
  <2> HIDE DEF I
  <2> QED
    BY <1>1, <1>2, LeastExists
<1>4. k = IF I # {} THEN Min(I) ELSE 0
  BY DEF SelectInSeq
<1>5. Min(I) \in I
  <2> HIDE DEF I
  <2> QED
    BY <1>3 DEF Min
<1>6. k \in I
  <2> HIDE DEF I, k
  <2> QED
    BY <1>2, <1>4, <1>5
<1>7. Submitted(records, r) = [records EXCEPT ![k] = r]
  BY DEF Submitted
<1> HIDE DEF k
<1> QED
  BY <1>1, <1>6, <1>7

\* A submission writes what it submits, and leaves what others wrote.
LEMMA SubmittedSays ==
    ASSUME NEW records \in Seq(ScaleRecords), NEW r \in ScaleRecords, Distinct(records)
    PROVE  /\ Submitted(records, r) \in Seq(ScaleRecords)
           /\ Distinct(Submitted(records, r))
           /\ Says(Submitted(records, r)) =
                 {w \in Says(records) : w[1] # Upper[r.id]} \cup {<<Upper[r.id], r.sus>>}
<1> DEFINE new == Submitted(records, r)
<1>1. DOMAIN records = 1..Len(records) /\ Len(records) \in Nat
  BY LenProperties
<1>2. CASE \E i \in DOMAIN records : Upper[records[i].id] = Upper[r.id]
  <2>1. PICK k \in DOMAIN records : /\ Upper[records[k].id] = Upper[r.id]
                                    /\ new = [records EXCEPT ![k] = r]
    BY <1>2, FoundByUpper
  <2>2. /\ new \in Seq(ScaleRecords) /\ DOMAIN new = DOMAIN records /\ new[k] = r
        /\ \A i \in DOMAIN records : i # k => new[i] = records[i]
    <3>1. k \in 1..Len(records)
      BY <1>1, <2>1
    <3> QED
      BY <1>1, <2>1, <3>1, ExceptSeq
  <2> HIDE DEF new
  <2>3. \A i \in DOMAIN records : i # k => Upper[records[i].id] # Upper[r.id]
    BY <2>1 DEF Distinct
  <2>4. Distinct(new)
    BY <2>1, <2>2, <2>3 DEF Distinct
  <2>5. \A w \in Says(new) : \/ w \in Says(records) /\ w[1] # Upper[r.id]
                            \/ w = <<Upper[r.id], r.sus>>
    <3> SUFFICES ASSUME NEW i \in DOMAIN records, NEW w, w = <<Upper[new[i].id], new[i].sus>>
                 PROVE  \/ w \in Says(records) /\ w[1] # Upper[r.id]
                        \/ w = <<Upper[r.id], r.sus>>
      BY <2>2 DEF Says
    <3>1. CASE i = k
      BY <2>2, <3>1
    <3>2. CASE i # k
      BY <2>2, <2>3, <3>2 DEF Says
    <3> QED
      BY <3>1, <3>2
  <2>6. <<Upper[r.id], r.sus>> \in Says(new)
    BY <2>1, <2>2 DEF Says
  <2>7. ASSUME NEW w \in Says(records), w[1] # Upper[r.id] PROVE w \in Says(new)
    <3>1. PICK i \in DOMAIN records : w = <<Upper[records[i].id], records[i].sus>>
      BY DEF Says
    <3>2. i # k
      BY <2>1, <2>7, <3>1
    <3> QED
      BY <2>2, <3>1, <3>2 DEF Says
  <2>8. Says(new) = {w \in Says(records) : w[1] # Upper[r.id]} \cup {<<Upper[r.id], r.sus>>}
    BY <2>5, <2>6, <2>7
  <2> QED
    BY <2>2, <2>4, <2>8 DEF new
<1>3. CASE ~\E i \in DOMAIN records : Upper[records[i].id] = Upper[r.id]
  <2> DEFINE n == Len(records) + 1
  <2>1. new = Append(records, r)
    BY <1>3 DEF Submitted
  <2>2. /\ new \in Seq(ScaleRecords) /\ DOMAIN new = 1..n /\ new[n] = r
        /\ \A i \in DOMAIN records : i \in 1..n /\ i # n /\ new[i] = records[i]
        /\ n \in 1..n /\ \A i \in 1..n : i # n => i \in DOMAIN records
    <3>1. new \in Seq(ScaleRecords) /\ Len(new) = n
      BY <2>1, AppendProperties
    <3>2. new[n] = r /\ \A i \in 1..Len(records) : new[i] = records[i]
      BY <2>1, AppendProperties
    <3>3. DOMAIN new = 1..n
      BY <3>1, LenProperties
    <3> QED
      BY <1>1, <3>1, <3>2, <3>3
  <2> HIDE DEF new, n
  <2>3. Distinct(new)
    BY <1>3, <2>2 DEF Distinct
  <2>5. \A w \in Says(new) : \/ w \in Says(records) /\ w[1] # Upper[r.id]
                            \/ w = <<Upper[r.id], r.sus>>
    <3> SUFFICES ASSUME NEW i \in 1..n, NEW w, w = <<Upper[new[i].id], new[i].sus>>
                 PROVE  \/ w \in Says(records) /\ w[1] # Upper[r.id]
                        \/ w = <<Upper[r.id], r.sus>>
      BY <2>2 DEF Says
    <3>1. CASE i = n
      BY <2>2, <3>1
    <3>2. CASE i # n
      BY <1>3, <2>2, <3>2 DEF Says
    <3> QED
      BY <3>1, <3>2
  <2>6. <<Upper[r.id], r.sus>> \in Says(new)
    BY <2>2 DEF Says
  <2>7. \A w \in Says(records) : w \in Says(new)
    BY <2>2 DEF Says
  <2>8. Says(new) = {w \in Says(records) : w[1] # Upper[r.id]} \cup {<<Upper[r.id], r.sus>>}
    BY <2>5, <2>6, <2>7
  <2> QED
    BY <2>2, <2>3, <2>8 DEF new
<1> QED
  BY <1>2, <1>3

LEMMA ScaleIsScored == ScaleRecords \subseteq [id : Participants, sus : Nat]
<1> SUFFICES ASSUME NEW r \in ScaleRecords PROVE r \in [id : Participants, sus : Nat]
  OBVIOUS
<1>1. r = [id |-> r.id, sus |-> r.sus]
  BY DEF ScaleRecords
<1>2. r.id \in Participants /\ r.sus \in 0..200
  BY DEF ScaleRecords
<1>3. \A x \in 0..200 : x \in Nat
  OBVIOUS
<1> QED
  BY <1>1, <1>2, <1>3

LEMMA ScaleSeqIsNotTorn ==
    ASSUME NEW records \in Seq(ScaleRecords)
    PROVE  records # Torn
<1>1. records \in Seq([id : Participants, sus : Nat])
  BY ScaleIsScored, SeqMonotonic
<1> QED
  BY <1>1, PilotAssumption

LEMMA FileStepKeeps ==
    ASSUME FileIInv, PilotNext
    PROVE  FileIInv'
<1>1. ASSUME NEW p \in Participants, NEW scores \in Answers, SubmitPilotResult(p, scores)
      PROVE  FileIInv'
  <2> DEFINE r == Record(p, scores)
             new == Submitted(Records, r)
  <2>1. CalculateSus(scores) \in 0..200
    BY ScoreIsOnScale, PilotAssumption
  <2>2. r \in ScaleRecords /\ r.id = p /\ r.sus = CalculateSus(scores)
    BY <2>1 DEF ScaleRecords, Record
  <2>3. /\ new \in Seq(ScaleRecords) /\ Distinct(new)
        /\ Says(new) = {w \in Says(Records) : w[1] # Upper[r.id]} \cup {<<Upper[r.id], r.sus>>}
    <3> HIDE DEF r
    <3> QED
      BY <2>2, SubmittedSays DEF FileIInv
  <2>4. file' = new
    BY <1>1 DEF SubmitPilotResult
  <2>5. Records' = new
    <3> HIDE DEF new
    <3> QED
      BY <2>3, <2>4, ScaleSeqIsNotTorn DEF Records
  <2>6. written' = Says(new)
    <3>1. written' = {w \in written : w[1] # Upper[p]} \cup {<<Upper[p], CalculateSus(scores)>>}
      BY <1>1 DEF SubmitPilotResult
    <3> HIDE DEF new, r
    <3> QED
      BY <2>2, <2>3, <3>1 DEF FileIInv
  <2>7. submitted' \in 0..MaxSubmitted
    BY <1>1, PilotAssumption DEF SubmitPilotResult, FileIInv
  <2> HIDE DEF new
  <2>8. Distinct(Records)' /\ Says(Records)' = Says(new)
    BY <2>3, <2>5 DEF Distinct, Says
  <2> QED
    BY <2>3, <2>5, <2>6, <2>7, <2>8 DEF FileIInv
<1>2. CASE TornWrite
  <2>1. Records' = <<>> /\ written' = {}
    BY <1>2 DEF TornWrite, Records
  <2>2. Records' \in Seq(ScaleRecords) /\ DOMAIN Records' = {}
    BY <2>1, EmptySeq
  <2>3. Distinct(Records)' /\ Says(Records)' = {}
    BY <2>2 DEF Distinct, Says
  <2>4. submitted' \in 0..MaxSubmitted
    BY <1>2, PilotAssumption DEF TornWrite, FileIInv
  <2> QED
    BY <2>1, <2>2, <2>3, <2>4 DEF FileIInv
<1> QED
  BY <1>1, <1>2 DEF PilotNext

LEMMA FileInvariant == Spec => []FileIInv
<1>1. Init => FileIInv
  <2> SUFFICES ASSUME Init PROVE FileIInv
    OBVIOUS
  <2>1. file = <<>> /\ written = {} /\ submitted = 0
    BY DEF Init, PilotInit
  <2>2. Records = <<>>
    BY <2>1 DEF Records
  <2>3. Records \in Seq(ScaleRecords) /\ DOMAIN Records = {}
    BY <2>2, EmptySeq
  <2>4. Distinct(Records) /\ Says(Records) = {}
    BY <2>3 DEF Distinct, Says
  <2> QED
    BY <2>1, <2>3, <2>4, PilotAssumption DEF FileIInv
<1>2. ASSUME FileIInv, [Next]_vars PROVE FileIInv'
  <2>1. CASE PilotNext
    BY <1>2, <2>1, FileStepKeeps
  <2>2. CASE UNCHANGED pilotVars
    BY <1>2, <2>2 DEF pilotVars, FileIInv, Records, Distinct, Says
  <2>3. Next => PilotNext \/ UNCHANGED pilotVars
    BY DEF Next, AddLeaf, AddRow, NextLine, AddCorner, AddEvent, Computing
  <2> QED
    BY <1>2, <2>1, <2>2, <2>3 DEF vars
<1> QED
  BY <1>1, <1>2, PTL DEF Spec

\* The file has the last score of each participant, who is in it once.
LEMMA FileSaysWhatIsWritten ==
    ASSUME FileIInv
    PROVE  PilotTypeOK /\ LostOnlyByTear
<1>1. DOMAIN Records = 1..Len(Records) /\ Len(Records) \in Nat
  BY LenProperties DEF FileIInv
<1>2. \A i \in DOMAIN Records : Records[i].id \in Participants /\ Records[i].sus \in 0..200
  <2>1. \A i \in DOMAIN Records : Records[i] \in ScaleRecords
    BY <1>1, ElementOfSeq DEF FileIInv
  <2> QED
    BY <2>1 DEF ScaleRecords
<1>3. file = Torn \/ file \in Seq([id : Participants, sus : Nat])
  <2>1. ScaleRecords \subseteq [id : Participants, sus : Nat]
    BY ScaleIsScored
  <2>2. Records \in Seq([id : Participants, sus : Nat])
    BY <2>1, SeqMonotonic DEF FileIInv
  <2> QED
    BY <2>2 DEF Records
<1>4. \A w \in written : w[1] \in {Upper[p] : p \in Participants} /\ w[2] \in Nat
  <2> SUFFICES ASSUME NEW i \in DOMAIN Records, NEW w,
                      w = <<Upper[Records[i].id], Records[i].sus>>
               PROVE  w[1] \in {Upper[p] : p \in Participants} /\ w[2] \in Nat
    BY DEF FileIInv, Says
  <2>1. Records[i].id \in Participants /\ Records[i].sus \in 0..200
    BY <1>2
  <2>2. \A x \in 0..200 : x \in Nat
    OBVIOUS
  <2> QED
    BY <2>1, <2>2
<1>5. PilotTypeOK
  BY <1>3, <1>4 DEF PilotTypeOK, FileIInv
<1>6. file = Torn => written = {}
  <2> SUFFICES ASSUME file = Torn PROVE written = {}
    OBVIOUS
  <2>1. Records = <<>>
    BY DEF Records
  <2>2. DOMAIN Records = {}
    BY <2>1
  <2> QED
    BY <2>2 DEF FileIInv, Says
<1>7. Cardinality(written) = Len(Records)
  <2> DEFINE f == [i \in 1..Len(Records) |-> <<Upper[Records[i].id], Records[i].sus>>]
  <2>1. f \in [1..Len(Records) -> written] /\ \A x \in written : \E i \in 1..Len(Records) : f[i] = x
    BY <1>1 DEF FileIInv, Says
  <2>2. \A i, j \in 1..Len(Records) : f[i] = f[j] => i = j
    BY <1>1 DEF FileIInv, Distinct
  <2> HIDE DEF f
  <2>3. ExistsBijection(1..Len(Records), written)
    BY <2>1, <2>2 DEF ExistsBijection, Bijection, Surjection, Injection, IsInjective
  <2>4. \A n \in Nat : IsFiniteSet(1..n) /\ Cardinality(1..n) = n
    BY FS_Interval
  <2> QED
    BY <1>1, <2>3, <2>4, FS_Bijection
<1>8. file # Torn => /\ written = {<<Upper[file[i].id], file[i].sus>> : i \in DOMAIN file}
                     /\ Cardinality(written) = Len(file)
  <2> SUFFICES ASSUME file # Torn
               PROVE  /\ written = {<<Upper[file[i].id], file[i].sus>> : i \in DOMAIN file}
                      /\ Cardinality(written) = Len(file)
    OBVIOUS
  <2>1. Records = file
    BY DEF Records
  <2> QED
    BY <1>7, <2>1 DEF FileIInv, Says
<1> QED
  BY <1>5, <1>6, <1>8 DEF LostOnlyByTear

LEMMA GreatestExists ==
    ASSUME NEW last \in Nat, NEW S \in SUBSET (0..last), S # {}
    PROVE  \E x \in S : \A y \in S : x >= y
<1> DEFINE T == {last - x : x \in S}
<1>1. T \in SUBSET (0..last) /\ T # {}
  <2>1. \A x \in 0..last : last - x \in 0..last
    OBVIOUS
  <2> QED
    BY <2>1
<1>2. PICK t \in T : \A u \in T : t <= u
  <2> HIDE DEF T
  <2> QED
    BY <1>1, LeastExists
<1>3. PICK x \in S : t = last - x
  OBVIOUS
<1>4. ASSUME NEW y \in S PROVE x >= y
  <2>1. last - y \in T /\ x \in 0..last /\ y \in 0..last
    OBVIOUS
  <2>2. last - x <= last - y
    BY <1>2, <1>3, <2>1
  <2> HIDE DEF T
  <2> QED
    BY <2>1, <2>2
<1> QED
  BY <1>4

(***************************************************************************)
(* The summary.                                                            *)
(***************************************************************************)

Values(s) == {s[i] : i \in DOMAIN s}
Below(s, v) == {i \in DOMAIN s : s[i] < v}
UpTo(s, v) == {i \in DOMAIN s : s[i] <= v}

Kth(s, k, v) ==
    v \in Values(s) /\ Cardinality(Below(s, v)) < k /\ Cardinality(UpTo(s, v)) >= k

LEMMA ScoresAreNumbers ==
    ASSUME NEW s \in Seq(0..200)
    PROVE  /\ DOMAIN s = 1..Len(s) /\ Len(s) \in Nat
           /\ \A i \in DOMAIN s : s[i] \in 0..200
           /\ Values(s) \in SUBSET (0..200)
           /\ IsFiniteSet(DOMAIN s) /\ Cardinality(DOMAIN s) = Len(s)
           /\ \A I \in SUBSET DOMAIN s : Cardinality(I) \in 0..Len(s)
<1>1. DOMAIN s = 1..Len(s) /\ Len(s) \in Nat
  BY LenProperties
<1>2. \A i \in DOMAIN s : s[i] \in 0..200
  BY <1>1, ElementOfSeq, ZenonT(60)
<1>3. Values(s) \in SUBSET (0..200)
  BY <1>2, ZenonT(60) DEF Values
<1>4. \A n \in Nat : IsFiniteSet(1..n) /\ Cardinality(1..n) = n
  BY FS_Interval
<1>5. IsFiniteSet(DOMAIN s) /\ Cardinality(DOMAIN s) = Len(s)
  BY <1>1, <1>4
<1>6. ASSUME NEW I \in SUBSET DOMAIN s PROVE Cardinality(I) \in 0..Len(s)
  <2>1. IsFiniteSet(I) /\ Cardinality(I) <= Len(s)
    BY <1>5, FS_Subset
  <2>2. Cardinality(I) \in Nat
    BY <2>1, FS_CardinalityType
  <2> QED
    BY <1>1, <2>1, <2>2
<1> QED
  BY <1>1, <1>2, <1>3, <1>5, <1>6

LEMMA KthExists ==
    ASSUME NEW s \in Seq(0..200), NEW k \in 1..Len(s)
    PROVE  \E v : Kth(s, k, v)
<1> DEFINE V == {v \in Values(s) : Cardinality(UpTo(s, v)) >= k}
<1>1. V # {}
  <2>1. Values(s) # {} /\ Values(s) \in SUBSET (0..200)
    BY ScoresAreNumbers, ZenonT(60) DEF Values
  <2>2. PICK v \in Values(s) : \A w \in Values(s) : v >= w
    BY <2>1, GreatestExists, ZenonT(60)
  <2>3. \A i \in DOMAIN s : s[i] <= v
    BY <2>1, <2>2 DEF Values
  <2>4. UpTo(s, v) = DOMAIN s
    BY <2>3 DEF UpTo
  <2>5. Cardinality(UpTo(s, v)) >= k
    BY <2>4, ScoresAreNumbers
  <2> QED
    BY <2>2, <2>5
<1>2. PICK v \in V : \A w \in V : v <= w
  <2>1. V \in SUBSET (0..200)
    BY ScoresAreNumbers
  <2> HIDE DEF V
  <2> QED
    BY <1>1, <2>1, LeastExists, ZenonT(60)
<1>3. ASSUME ~(Cardinality(Below(s, v)) < k) PROVE FALSE
  <2> DEFINE B == {s[i] : i \in Below(s, v)}
  <2>1. Below(s, v) \in SUBSET DOMAIN s
    BY DEF Below
  <2>2. Cardinality(Below(s, v)) >= k
    <3> DEFINE c == Cardinality(Below(s, v))
    <3>1. c \in 0..Len(s) /\ Len(s) \in Nat /\ ~(c < k)
      BY <1>3, <2>1, ScoresAreNumbers
    <3> HIDE DEF c, V
    <3>2. c >= k
      BY <3>1
    <3> QED
      BY <3>2 DEF c
  <2>3. Below(s, v) # {}
    <3>1. Cardinality({}) = 0
      BY FS_EmptySet
    <3>2. Len(s) \in Nat
      BY ScoresAreNumbers
    <3>3. ~(0 >= k)
      BY <3>2
    <3> HIDE DEF V, B
    <3> QED
      BY <2>2, <3>1, <3>3
  <2>4. B \in SUBSET (0..200) /\ B # {} /\ B \subseteq Values(s)
    <3>1. B \subseteq Values(s) /\ B # {}
      BY <2>1, <2>3 DEF Values
    <3> HIDE DEF B
    <3> QED
      BY <3>1, ScoresAreNumbers, ZenonT(60)
  <2>5. PICK w \in B : \A x \in B : w >= x
    <3> HIDE DEF B
    <3> QED
      BY <2>4, GreatestExists, ZenonT(60)
  <2>6. w \in 0..200 /\ w \in Values(s) /\ v \in 0..200
    <3>1. v \in Values(s)
      OBVIOUS
    <3> HIDE DEF B
    <3> QED
      BY <2>4, <3>1, ScoresAreNumbers, ZenonT(60)
  <2>7. w < v
    BY <2>5 DEF Below
  <2>8. \A i \in DOMAIN s : s[i] <= w <=> s[i] < v
    <3> SUFFICES ASSUME NEW i \in DOMAIN s PROVE s[i] <= w <=> s[i] < v
      OBVIOUS
    <3>1. s[i] < v => s[i] \in B
      BY DEF Below
    <3>2. s[i] < v => w >= s[i]
      <4> HIDE DEF B
      <4> QED
        BY <2>5, <3>1
    <3>3. s[i] \in 0..200
      BY ScoresAreNumbers
    <3> DEFINE x == s[i]
    <3>4. x \in 0..200 /\ (x < v => w >= x)
      BY <3>2, <3>3
    <3> HIDE DEF B, x
    <3>5. x <= w <=> x < v
      BY <2>6, <2>7, <3>4
    <3> QED
      BY <3>5 DEF x
  <2>9. UpTo(s, w) = Below(s, v)
    BY <2>8 DEF UpTo, Below
  <2>10. w \in V
    BY <2>2, <2>6, <2>9
  <2> HIDE DEF B, V
  <2> QED
    BY <1>2, <2>6, <2>7, <2>10
<1> QED
  BY <1>2, <1>3 DEF Kth

LEMMA AscendingKth ==
    ASSUME NEW s \in Seq(0..200), NEW k \in 1..Len(s)
    PROVE  Kth(s, k, Ascending(s)[k]) /\ Ascending(s)[k] \in 0..200
<1>1. DOMAIN s = 1..Len(s)
  BY ScoresAreNumbers
<1>2. Ascending(s)[k] = CHOOSE v \in Values(s) :
          Cardinality(Below(s, v)) < k /\ Cardinality(UpTo(s, v)) >= k
  BY <1>1 DEF Ascending, Values, Below, UpTo
<1>3. PICK v : Kth(s, k, v)
  BY KthExists
<1>4. Kth(s, k, Ascending(s)[k])
  BY <1>2, <1>3 DEF Kth
<1> QED
  BY <1>4, ScoresAreNumbers, ZenonT(60) DEF Kth

\* The median is the mean of two scores; no more than half are below the
\* greater of them, and no more than half above the smaller.
LEMMA MedianIsBetween ==
    ASSUME NEW s \in Seq(0..200), s # <<>>
    PROVE  \E a, b \in Values(s) :
               /\ Median(s) = a + b /\ a <= b
               /\ 2 * Cardinality(Below(s, b)) <= Len(s)
               /\ 2 * (Len(s) - Cardinality(UpTo(s, a))) <= Len(s)
<1> DEFINE n == Len(s)
           sorted == Ascending(s)
           h == n \div 2
<1>1. n \in Nat /\ n # 0
  BY ScoresAreNumbers, EmptySeq
<1>2. \A v : Cardinality(Below(s, v)) \in Nat /\ Cardinality(UpTo(s, v)) \in Nat
  <2> SUFFICES ASSUME NEW v
               PROVE  Cardinality(Below(s, v)) \in Nat /\ Cardinality(UpTo(s, v)) \in Nat
    OBVIOUS
  <2>1. Below(s, v) \in SUBSET DOMAIN s /\ UpTo(s, v) \in SUBSET DOMAIN s
    BY DEF Below, UpTo
  <2>2. Cardinality(Below(s, v)) \in 0..Len(s) /\ Cardinality(UpTo(s, v)) \in 0..Len(s)
    BY <2>1, ScoresAreNumbers
  <2> QED
    BY <2>2
<1>3. CASE n % 2 = 1
  <2>1. h + 1 \in 1..n /\ n = 2 * h + 1 /\ h \in Nat
    BY <1>1, <1>3
  <2>2. Median(s) = 2 * sorted[h + 1]
    BY <1>1, <1>3 DEF Median
  <2>3. Kth(s, h + 1, sorted[h + 1]) /\ sorted[h + 1] \in 0..200
    BY <2>1, AscendingKth
  <2> HIDE DEF sorted, h, n
  <2> DEFINE a == sorted[h + 1]
             below == Cardinality(Below(s, a))
             upTo == Cardinality(UpTo(s, a))
  <2>4. below < h + 1 /\ upTo >= h + 1 /\ a \in Values(s) /\ Median(s) = 2 * a /\ a \in 0..200
    BY <2>2, <2>3 DEF Kth
  <2>5. below \in Nat /\ upTo \in Nat
    BY <1>2
  <2> HIDE DEF a, below, upTo
  <2>6. 2 * below <= n /\ 2 * (n - upTo) <= n /\ Median(s) = a + a /\ a <= a
    BY <2>1, <2>4, <2>5
  <2> QED
    BY <2>4, <2>6 DEF below, upTo, n
<1>4. CASE n % 2 # 1
  <2>1. h \in 1..n /\ h + 1 \in 1..n /\ n = 2 * h
    BY <1>1, <1>4
  <2>2. Median(s) = sorted[h] + sorted[h + 1]
    BY <1>1, <1>4 DEF Median
  <2>3. /\ Kth(s, h, sorted[h]) /\ sorted[h] \in 0..200
        /\ Kth(s, h + 1, sorted[h + 1]) /\ sorted[h + 1] \in 0..200
    BY <2>1, AscendingKth
  <2> HIDE DEF sorted, h, n
  <2> DEFINE a == sorted[h]
             b == sorted[h + 1]
             below == Cardinality(Below(s, b))
             upTo == Cardinality(UpTo(s, a))
  <2>4. below < h + 1 /\ upTo >= h /\ a \in Values(s) /\ b \in Values(s)
    BY <2>3 DEF Kth
  <2>5. below \in Nat /\ upTo \in Nat
    BY <1>2
  <2>6. a <= b
    <3> SUFFICES ASSUME ~(a <= b) PROVE FALSE
      OBVIOUS
    <3>1. b < a
      <4>1. a \in 0..200 /\ b \in 0..200
        BY <2>3
      <4> HIDE DEF a, b
      <4> QED
        BY <4>1
    <3>2. \A i \in DOMAIN s : s[i] \in 0..200
      BY ScoresAreNumbers
    <3>3. a \in 0..200 /\ b \in 0..200
      BY <2>3
    <3>4. \A i \in DOMAIN s : s[i] <= b => s[i] < a
      <4>1. \A x \in 0..200 : x <= b => x < a
        <5> HIDE DEF a, b
        <5> QED
          BY <3>1, <3>3
      <4> HIDE DEF a, b
      <4> QED
        BY <3>2, <4>1
    <3>5. UpTo(s, b) \in SUBSET Below(s, a) /\ Below(s, a) \in SUBSET DOMAIN s
      BY <3>4 DEF UpTo, Below
    <3>6. IsFiniteSet(Below(s, a))
      BY <3>5, ScoresAreNumbers, FS_Subset
    <3>7. Cardinality(UpTo(s, b)) <= Cardinality(Below(s, a))
      BY <3>5, <3>6, FS_Subset
    <3>8. Cardinality(UpTo(s, b)) >= h + 1 /\ Cardinality(Below(s, a)) < h
      BY <2>3 DEF Kth
    <3>9. Cardinality(UpTo(s, b)) \in Nat /\ Cardinality(Below(s, a)) \in Nat
      BY <1>2
    <3> QED
      BY <2>1, <3>7, <3>8, <3>9
  <2>7. Median(s) = a + b
    BY <2>2
  <2> HIDE DEF a, b, below, upTo
  <2>8. 2 * below <= n /\ 2 * (n - upTo) <= n
    BY <1>1, <2>1, <2>4, <2>5
  <2> QED
    BY <2>4, <2>6, <2>7, <2>8 DEF below, upTo, n
<1> QED
  BY <1>3, <1>4

LEMMA SummaryOfTheFile ==
    ASSUME FileIInv
    PROVE  SummaryIsOnScale
<1> SUFFICES ASSUME Records # <<>> PROVE SummaryIsOnScale
  BY DEF SummaryIsOnScale
<1> DEFINE sus == [i \in DOMAIN Records |-> Records[i].sus]
           n == Len(sus)
           median == Median(sus)
           least == CHOOSE v \in Values(sus) : \A w \in Values(sus) : v <= w
           most == CHOOSE v \in Values(sus) : \A w \in Values(sus) : v >= w
<1>1. DOMAIN Records = 1..Len(Records) /\ Len(Records) \in Nat /\ Len(Records) # 0
  BY LenProperties, EmptySeq DEF FileIInv
<1>2. \A i \in DOMAIN Records : Records[i].sus \in 0..200
  <2>1. \A i \in DOMAIN Records : Records[i] \in ScaleRecords
    BY <1>1, ElementOfSeq DEF FileIInv
  <2> QED
    BY <2>1 DEF ScaleRecords
<1>3. sus \in Seq(0..200)
  BY <1>1, <1>2, IsASeq
<1>4. DOMAIN sus = DOMAIN Records /\ \A i \in DOMAIN Records : sus[i] = Records[i].sus
  OBVIOUS
<1>5. /\ Summary.participants = n /\ Summary.median = median
      /\ Summary.least = least /\ Summary.most = most
  BY DEF Summary, Values
<1> HIDE DEF sus
<1>6. sus # <<>>
  <2>1. sus = <<>> => DOMAIN sus = {}
    OBVIOUS
  <2>2. 1 \in 1..Len(Records)
    BY <1>1
  <2> QED
    BY <1>1, <1>4, <2>1, <2>2
<1>7. PICK a \in Values(sus), b \in Values(sus) :
          /\ median = a + b /\ a <= b
          /\ 2 * Cardinality(Below(sus, b)) <= n
          /\ 2 * (n - Cardinality(UpTo(sus, a))) <= n
  BY <1>3, <1>6, MedianIsBetween
<1>8. Values(sus) \in SUBSET (0..200) /\ Values(sus) # {}
  BY <1>3, <1>7, ScoresAreNumbers
<1>9. least \in Values(sus) /\ \A w \in Values(sus) : least <= w
  BY <1>8, LeastExists, ZenonT(60)
<1>10. most \in Values(sus) /\ \A w \in Values(sus) : most >= w
  BY <1>8, GreatestExists, ZenonT(60)
<1> HIDE DEF median, least, most, n
<1>11. a \in 0..200 /\ b \in 0..200 /\ least \in 0..200 /\ most \in 0..200
  BY <1>7, <1>8, <1>9, <1>10
<1>12. least <= a /\ b <= most
  BY <1>7, <1>9, <1>10
<1>13. /\ 0 <= least /\ most <= 200
       /\ 2 * least <= median /\ median <= 2 * most
  <2>1. median = a + b /\ a <= b
    BY <1>7
  <2> QED
    BY <1>11, <1>12, <2>1
<1>14. n \in Nat /\ IsFiniteSet(DOMAIN sus) /\ Cardinality(DOMAIN sus) = n
  BY <1>3, ScoresAreNumbers DEF n
<1>15. \A i \in DOMAIN sus : sus[i] \in 0..200
  BY <1>3, ScoresAreNumbers
<1>16. 2 * Cardinality({i \in DOMAIN sus : 2 * sus[i] < median}) <= n
  <2> DEFINE I == {i \in DOMAIN sus : 2 * sus[i] < median}
             B == Below(sus, b)
  <2>1. \A x \in 0..200 : 2 * x < a + b => x < b
    BY <1>7, <1>11
  <2>2. I \in SUBSET B /\ B \in SUBSET DOMAIN sus
    BY <1>7, <1>15, <2>1 DEF Below
  <2>3. IsFiniteSet(B)
    BY <1>14, <2>2, FS_Subset
  <2> HIDE DEF I, B
  <2>4. IsFiniteSet(I) /\ Cardinality(I) <= Cardinality(B)
    BY <2>2, <2>3, FS_Subset
  <2>5. Cardinality(I) \in Nat /\ Cardinality(B) \in Nat
    BY <2>3, <2>4, FS_CardinalityType
  <2>6. 2 * Cardinality(B) <= n
    BY <1>7 DEF B
  <2>7. 2 * Cardinality(I) <= n
    BY <1>14, <2>4, <2>5, <2>6
  <2> QED
    BY <2>7 DEF I
<1>17. 2 * Cardinality({i \in DOMAIN sus : 2 * sus[i] > median}) <= n
  <2> DEFINE I == {i \in DOMAIN sus : 2 * sus[i] > median}
             U == UpTo(sus, a)
             D == DOMAIN sus
  <2>1. \A x \in 0..200 : 2 * x > a + b => ~(x <= a)
    BY <1>7, <1>11
  <2>2. I \in SUBSET (D \ U) /\ U \in SUBSET D
    BY <1>7, <1>15, <2>1 DEF UpTo
  <2> HIDE DEF I, U
  <2>3. IsFiniteSet(D \ U) /\ Cardinality(D \ U) = n - Cardinality(U)
    <3>1. D \cap U = U
      BY <2>2
    <3> QED
      BY <1>14, <3>1, FS_Difference, ZenonT(60)
  <2> HIDE DEF D
  <2>4. IsFiniteSet(I) /\ Cardinality(I) <= Cardinality(D \ U)
    BY <2>2, <2>3, FS_Subset
  <2>5. Cardinality(I) \in Nat /\ Cardinality(U) \in Nat
    <3>1. IsFiniteSet(U)
      BY <1>14, <2>2, FS_Subset DEF D
    <3> QED
      BY <2>4, <3>1, FS_CardinalityType
  <2>6. 2 * (n - Cardinality(U)) <= n
    BY <1>7 DEF U
  <2>7. 2 * Cardinality(I) <= n
    BY <1>14, <2>3, <2>4, <2>5, <2>6
  <2> QED
    BY <2>7 DEF I
<1> QED
  BY <1>4, <1>5, <1>13, <1>16, <1>17, ZenonT(60) DEF SummaryIsOnScale

\* What is kept of a participant and of a harvest: after any submissions and
\* torn files, and any answers, refreshes and writes of the history page.
THEOREM WhatIsKept == Spec => []KeptInv
<1>1. FileIInv /\ HistoryIInv => KeptInv
  <2> SUFFICES ASSUME FileIInv, HistoryIInv PROVE KeptInv
    OBVIOUS
  <2>1. PilotTypeOK /\ LostOnlyByTear /\ SummaryIsOnScale
    BY FileSaysWhatIsWritten, SummaryOfTheFile
  <2>2. HistoryTypeOK /\ NothingHidden /\ KeptStaysShown /\ OthersSeeTheirPhone /\ ShownIsTrue
    BY DEF HistoryIInv
  <2> QED
    BY <2>1, <2>2 DEF KeptInv
<1> QED
  BY <1>1, FileInvariant, HistoryInvariant, PTL

(***************************************************************************)
(* The list that is read page by page.                                     *)
(***************************************************************************)

Listed == [id : 1..MaxRows, stage : Stages]

MatchingIn(list, f, n) == {list[i].id : i \in {j \in 1..n : Matches(list[j], f)}}

Rank(list, f, n) == Cardinality(MatchingIn(list, f, n))

\* These lots of a filter are all on later pages.
Later(list, f, ids, page) ==
    \A x \in ids : \E i \in DOMAIN list :
        list[i].id = x /\ Matches(list[i], f) /\ Rank(list, f, i) > page * PageSize

LEMMA RanksAreNumbers ==
    ASSUME NEW list \in Seq(Listed), NEW f, NEW n \in 0..Len(list)
    PROVE  /\ DOMAIN list = 1..Len(list) /\ Len(list) \in Nat
           /\ \A i \in DOMAIN list : list[i] \in Listed
           /\ MatchingIn(list, f, n) \in SUBSET (1..MaxRows)
           /\ IsFiniteSet(MatchingIn(list, f, n))
           /\ Rank(list, f, n) \in Nat
<1>1. DOMAIN list = 1..Len(list) /\ Len(list) \in Nat
  BY LenProperties
<1>2. \A i \in DOMAIN list : list[i] \in Listed
  BY <1>1, ElementOfSeq
<1>3. MatchingIn(list, f, n) \in SUBSET (1..MaxRows)
  <2>1. \A i \in 1..n : i \in DOMAIN list
    BY <1>1
  <2>2. \A i \in DOMAIN list : list[i].id \in 1..MaxRows
    BY <1>2 DEF Listed
  <2> QED
    BY <2>1, <2>2 DEF MatchingIn
<1>4. IsFiniteSet(1..MaxRows)
  BY FS_Interval, ListingAssumption
<1>5. IsFiniteSet(MatchingIn(list, f, n))
  BY <1>3, <1>4, FS_Subset
<1>6. Rank(list, f, n) \in Nat
  BY <1>5, FS_CardinalityType DEF Rank
<1> QED
  BY <1>1, <1>2, <1>3, <1>5, <1>6

\* More of a list has no fewer lots of a filter.
LEMMA RanksGrow ==
    ASSUME NEW list \in Seq(Listed), NEW f, NEW n \in 0..Len(list), NEW m \in 0..n
    PROVE  Rank(list, f, m) <= Rank(list, f, n)
<1>1. MatchingIn(list, f, m) \in SUBSET MatchingIn(list, f, n)
  <2>1. Len(list) \in Nat
    BY RanksAreNumbers
  <2>2. \A i \in 1..m : i \in 1..n
    BY <2>1
  <2> QED
    BY <2>2 DEF MatchingIn
<1>2. IsFiniteSet(MatchingIn(list, f, n))
  BY RanksAreNumbers
<1> QED
  BY <1>1, <1>2, FS_Subset DEF Rank

\* A place counts one more lot just if its lot has the filter.
LEMMA RanksCount ==
    ASSUME NEW list \in Seq(Listed), NEW f, NEW n \in 1..Len(list)
    PROVE  /\ Matches(list[n], f) => Rank(list, f, n) <= Rank(list, f, n - 1) + 1 /\ Rank(list, f, n) >= 1
           /\ ~Matches(list[n], f) => Rank(list, f, n) = Rank(list, f, n - 1)
<1>1. Len(list) \in Nat
  BY LenProperties
<1>2. n - 1 \in 0..Len(list) /\ n \in 0..Len(list)
  BY <1>1
<1>3. \A i : i \in 1..n <=> i \in 1..(n - 1) \/ i = n
  BY <1>1
<1>4. CASE Matches(list[n], f)
  <2>1. MatchingIn(list, f, n) = MatchingIn(list, f, n - 1) \cup {list[n].id}
    BY <1>3, <1>4 DEF MatchingIn
  <2>2. IsFiniteSet(MatchingIn(list, f, n - 1))
    BY <1>2, RanksAreNumbers
  <2>3. Rank(list, f, n) = IF list[n].id \in MatchingIn(list, f, n - 1)
                           THEN Rank(list, f, n - 1) ELSE Rank(list, f, n - 1) + 1
    BY <2>1, <2>2, FS_AddElement DEF Rank
  <2>4. Rank(list, f, n) \in Nat /\ Rank(list, f, n - 1) \in Nat
    BY <1>2, RanksAreNumbers
  <2>5. Rank(list, f, n) # 0
    <3>1. MatchingIn(list, f, n) # {}
      BY <2>1
    <3>2. IsFiniteSet(MatchingIn(list, f, n))
      BY <1>2, RanksAreNumbers
    <3> QED
      BY <3>1, <3>2, FS_EmptySet DEF Rank
  <2>6. Rank(list, f, n) >= 1
    BY <2>4, <2>5
  <2>7. Rank(list, f, n) <= Rank(list, f, n - 1) + 1
    BY <2>3, <2>4
  <2> QED
    BY <1>4, <2>6, <2>7
<1>5. CASE ~Matches(list[n], f)
  <2>1. MatchingIn(list, f, n) = MatchingIn(list, f, n - 1)
    BY <1>3, <1>5 DEF MatchingIn
  <2> QED
    BY <1>5, <2>1 DEF Rank
<1> QED
  BY <1>4, <1>5

\* A list that keeps the order of its lots, and of the lots of the filter
\* loses none, has none of them on an earlier page than before.
LEMMA LaterStays ==
    ASSUME NEW list \in Seq(Listed), NEW new \in Seq(Listed), NEW f, NEW ids, NEW page \in Nat,
           NEW place \in [1..Len(list) -> 1..Len(new)],
           \A i, j \in 1..Len(list) : i <= j => place[i] <= place[j],
           \A i \in 1..Len(list) : /\ new[place[i]].id = list[i].id
                                   /\ Matches(list[i], f) => Matches(new[place[i]], f),
           Later(list, f, ids, page)
    PROVE  Later(new, f, ids, page)
<1> SUFFICES ASSUME NEW x \in ids
             PROVE  \E k \in DOMAIN new : /\ new[k].id = x /\ Matches(new[k], f)
                                          /\ Rank(new, f, k) > page * PageSize
  BY DEF Later
<1>1. PICK i \in DOMAIN list : /\ list[i].id = x /\ Matches(list[i], f)
                               /\ Rank(list, f, i) > page * PageSize
  BY DEF Later
<1>2. /\ DOMAIN list = 1..Len(list) /\ Len(list) \in Nat
      /\ DOMAIN new = 1..Len(new) /\ Len(new) \in Nat
  BY LenProperties
<1>3. i \in 0..Len(list) /\ place[i] \in 0..Len(new) /\ place[i] \in DOMAIN new
  BY <1>2
<1>4. MatchingIn(list, f, i) \in SUBSET MatchingIn(new, f, place[i])
  <2> SUFFICES ASSUME NEW j \in 1..i, Matches(list[j], f)
               PROVE  list[j].id \in MatchingIn(new, f, place[i])
    BY DEF MatchingIn
  <2>1. j \in 1..Len(list) /\ j <= i
    BY <1>2
  <2>2. place[j] <= place[i] /\ place[j] \in 1..Len(new)
    BY <1>2, <2>1
  <2>3. place[j] \in 1..place[i]
    BY <1>2, <1>3, <2>2
  <2> QED
    BY <2>1, <2>3 DEF MatchingIn
<1>5. IsFiniteSet(MatchingIn(new, f, place[i])) /\ Rank(new, f, place[i]) \in Nat
  BY <1>3, RanksAreNumbers
<1>6. Rank(list, f, i) <= Rank(new, f, place[i])
  BY <1>4, <1>5, FS_Subset DEF Rank
<1>7. Rank(list, f, i) \in Nat
  BY <1>3, RanksAreNumbers
<1>8. page * PageSize \in Nat
  BY ListingAssumption
<1>9. Rank(new, f, place[i]) > page * PageSize
  BY <1>1, <1>5, <1>6, <1>7, <1>8
<1> QED
  BY <1>1, <1>2, <1>3, <1>9

PageOf(list, f, page) ==
    {list[i].id : i \in {j \in DOMAIN list :
        Matches(list[j], f) /\ Rank(list, f, j) \in (Skip(page) + 1)..(Skip(page) + PageSize)}}

LEMMA PagesFollow ==
    ASSUME NEW page \in Nat \ {0}
    PROVE  /\ Skip(page) \in Nat /\ Skip(page) + PageSize = page * PageSize
           /\ \A before \in Nat : page <= before + 1 => Skip(page) <= before * PageSize
<1> DEFINE P == PageSize
<1>1. P \in Nat \ {0}
  BY ListingAssumption
<1> HIDE DEF P
<1>2. (page - 1) * P \in Nat /\ (page - 1) * P + P = page * P
  BY <1>1, SMTT(30)
<1>3. ASSUME NEW before \in Nat, page <= before + 1
      PROVE  (page - 1) * P <= before * P
  <2>1. \A p, q \in Nat : p <= q => p * P <= q * P
    BY <1>1, SMTT(30)
  <2>2. page - 1 \in Nat /\ page - 1 <= before
    BY <1>3
  <2> QED
    BY <2>1, <2>2
<1> QED
  BY <1>2, <1>3 DEF Skip, P

LEMMA PagesAreCounted ==
    ASSUME NEW total \in Nat, NEW page \in Nat
    PROVE  /\ TotalPages(total) \in Nat
           /\ total > page * PageSize <=> TotalPages(total) > page
<1> DEFINE P == PageSize
           q == (total + P - 1) \div P
<1>1. P \in Nat \ {0}
  BY ListingAssumption
<1> HIDE DEF P
<1>2. q \in Nat
  BY <1>1, SMTT(30)
<1>3. q <= page => total <= page * P
  BY <1>1, SMTT(30)
<1>4. page * P < total => page < q
  BY <1>1, SMTT(30)
<1>5. total <= page * P => q <= page
  BY <1>1, SMTT(30)
<1>6. page * P \in Nat
  BY <1>1
<1>7. TotalPages(total) = q
  BY DEF TotalPages, P
<1> HIDE DEF q
<1>8. total > page * P <=> q > page
  BY <1>2, <1>3, <1>4, <1>5, <1>6
<1> QED
  BY <1>2, <1>7, <1>8 DEF P

\* The lots that are on later pages than the one before this one are on this
\* one or on later ones.
LEMMA PageTakesTheNext ==
    ASSUME NEW list \in Seq(Listed), NEW f, NEW ids, NEW page \in Nat \ {0}, NEW before \in Nat,
           page <= before + 1, Later(list, f, ids, before)
    PROVE  Later(list, f, ids \ PageOf(list, f, page), page)
<1> SUFFICES ASSUME NEW x \in ids, x \notin PageOf(list, f, page)
             PROVE  \E i \in DOMAIN list : /\ list[i].id = x /\ Matches(list[i], f)
                                           /\ Rank(list, f, i) > page * PageSize
  BY DEF Later
<1>1. PICK i \in DOMAIN list : /\ list[i].id = x /\ Matches(list[i], f)
                               /\ Rank(list, f, i) > before * PageSize
  BY DEF Later
<1>2. i \in 0..Len(list)
  <2>1. DOMAIN list = 1..Len(list) /\ Len(list) \in Nat
    BY LenProperties
  <2> QED
    BY <2>1
<1> DEFINE rank == Rank(list, f, i)
           end == page * PageSize
           endBefore == before * PageSize
<1>3. rank \in Nat
  BY <1>2, RanksAreNumbers
<1>4. rank \notin (Skip(page) + 1)..(Skip(page) + PageSize)
  BY <1>1 DEF PageOf
<1>5. Skip(page) \in Nat /\ Skip(page) + PageSize = end /\ Skip(page) <= endBefore
  BY PagesFollow
<1>6. endBefore \in Nat /\ end \in Nat /\ PageSize \in Nat /\ rank > endBefore
  BY <1>1, ListingAssumption
<1> HIDE DEF rank, end, endBefore
<1>7. rank > end
  BY <1>3, <1>4, <1>5, <1>6
<1> QED
  BY <1>1, <1>7 DEF rank, end

\* All lots of the filter are on later pages than page 0.
LEMMA AllAreLater ==
    ASSUME NEW list \in Seq(Listed), NEW f
    PROVE  Later(list, f, MatchingIn(list, f, Len(list)), 0)
<1>1. DOMAIN list = 1..Len(list)
  BY LenProperties
<1>2. 0 * PageSize = 0
  BY ListingAssumption
<1>3. \A i \in DOMAIN list : Matches(list[i], f) => Rank(list, f, i) > 0
  <2> SUFFICES ASSUME NEW i \in DOMAIN list, Matches(list[i], f) PROVE Rank(list, f, i) > 0
    OBVIOUS
  <2>1. Rank(list, f, i) >= 1
    BY <1>1, RanksCount
  <2>2. Rank(list, f, i) \in Nat
    <3>1. i \in 0..Len(list)
      BY <1>1, LenProperties
    <3> QED
      BY <3>1, RanksAreNumbers
  <2> QED
    BY <2>1, <2>2
<1> QED
  BY <1>1, <1>2, <1>3 DEF Later, MatchingIn

\* If some lots are on later pages, more lots than those of this one are counted.
LEMMA LaterIsCounted ==
    ASSUME NEW list \in Seq(Listed), NEW f, NEW ids, ids # {}, NEW page \in Nat,
           Later(list, f, ids, page)
    PROVE  Rank(list, f, Len(list)) > page * PageSize
<1>1. PICK i \in DOMAIN list : Rank(list, f, i) > page * PageSize
  BY DEF Later
<1>2. DOMAIN list = 1..Len(list) /\ Len(list) \in Nat
  BY LenProperties
<1>3. i \in 0..Len(list) /\ Len(list) \in 0..Len(list)
  BY <1>2
<1>4. Rank(list, f, i) <= Rank(list, f, Len(list))
  BY <1>3, RanksGrow
<1>5. Rank(list, f, i) \in Nat /\ Rank(list, f, Len(list)) \in Nat
  BY <1>3, RanksAreNumbers
<1>6. page * PageSize \in Nat
  BY ListingAssumption
<1> QED
  BY <1>1, <1>4, <1>5, <1>6

\* Only a page after the last one is empty: places count lots one by one.
LEMMA EmptyPageIsAfterTheLast ==
    ASSUME NEW list \in Seq(Listed), NEW f, NEW page \in Nat \ {0}, PageOf(list, f, page) = {}
    PROVE  Rank(list, f, Len(list)) <= Skip(page)
<1> DEFINE k == Skip(page)
           r(n) == Rank(list, f, n)
           S == {n \in 0..Len(list) : r(n) > k}
<1>1. DOMAIN list = 1..Len(list) /\ Len(list) \in Nat
  BY LenProperties
<1>2. k \in Nat /\ PageSize \in Nat \ {0}
  BY PagesFollow, ListingAssumption
<1>3. \A n \in 0..Len(list) : r(n) \in Nat
  BY RanksAreNumbers
<1>4. r(0) = 0
  <2>1. MatchingIn(list, f, 0) = {}
    BY DEF MatchingIn
  <2> QED
    BY <2>1, FS_EmptySet DEF Rank
<1>5. ASSUME NEW n \in 1..Len(list), n \in S, n - 1 \notin S PROVE FALSE
  <2>1. n - 1 \in 0..Len(list) /\ n \in 0..Len(list) /\ n \in DOMAIN list
    BY <1>1
  <2>2. r(n) > k /\ ~(r(n - 1) > k) /\ r(n) \in Nat /\ r(n - 1) \in Nat
    BY <1>3, <1>5, <2>1
  <2>3. \/ Matches(list[n], f) /\ r(n) <= r(n - 1) + 1
        \/ ~Matches(list[n], f) /\ r(n) = r(n - 1)
    BY RanksCount
  <2>4. r(n) \notin (k + 1)..(k + PageSize) \/ ~Matches(list[n], f)
    BY <2>1 DEF PageOf
  <2> HIDE DEF r, k
  <2> QED
    BY <1>2, <2>2, <2>3, <2>4
<1>6. S = {}
  <2> SUFFICES ASSUME S # {} PROVE FALSE
    OBVIOUS
  <2>1. PICK n \in S : \A m \in S : n <= m
    <3>1. S \in SUBSET (0..Len(list))
      OBVIOUS
    <3> HIDE DEF S
    <3> QED
      BY <1>1, <3>1, LeastExists
  <2>2. n \in 0..Len(list)
    OBVIOUS
  <2>3. n # 0
    BY <1>2, <1>4
  <2>4. n \in 1..Len(list) /\ ~(n <= n - 1)
    BY <1>1, <2>2, <2>3
  <2> HIDE DEF S
  <2> QED
    BY <1>5, <2>1, <2>4
<1>7. ~(r(Len(list)) > k) /\ r(Len(list)) \in Nat
  <2>1. Len(list) \in 0..Len(list)
    BY <1>1
  <2> QED
    BY <1>3, <1>6, <2>1
<1> HIDE DEF r, k
<1>8. r(Len(list)) <= k
  <2> DEFINE last == r(Len(list))
  <2>1. last \in Nat /\ ~(last > k)
    BY <1>7
  <2> HIDE DEF last, S
  <2>2. last <= k
    BY <1>2, <2>1
  <2> QED
    BY <2>2 DEF last
<1> QED
  BY <1>8 DEF r, k

\* Lots are inserted: those before the place stay, the others move by one.
LEMMA InsertedList ==
    ASSUME NEW list \in Seq(Listed), NEW k \in 1..(Len(list) + 1), NEW e \in Listed
    PROVE  LET new == InsertAt(list, k, e) IN
           /\ new \in Seq(Listed) /\ Len(new) = Len(list) + 1
           /\ \A i \in 1..Len(list) : new[IF i < k THEN i ELSE i + 1] = list[i]
<1> DEFINE n == Len(list)
           front == SubSeq(list, 1, k - 1)
           back == SubSeq(list, k, n)
           one == <<e>>
           most == front \o one
<1>1. n \in Nat /\ k \in 1..(n + 1)
  BY LenProperties
<1>2. \A i \in 1..n : list[i] \in Listed
  BY ElementOfSeq
<1>3. /\ front \in Seq(Listed) /\ Len(front) = k - 1
      /\ \A i \in 1..(k - 1) : front[i] = list[i]
  <2>1. \A i \in 1..(k - 1) : list[i] \in Listed
    BY <1>1, <1>2
  <2>2. 1 \in Int /\ k - 1 \in Int
    BY <1>1
  <2>3. /\ front \in Seq(Listed) /\ Len(front) = IF 1 <= k - 1 THEN k - 1 - 1 + 1 ELSE 0
        /\ \A i \in 1..(k - 1 - 1 + 1) : front[i] = list[1 + i - 1]
    BY <2>1, <2>2, SubSeqProperties
  <2> HIDE DEF front
  <2>4. k - 1 - 1 + 1 = k - 1 /\ \A i \in 1..(k - 1) : 1 + i - 1 = i
    BY <1>1
  <2>5. Len(front) = k - 1
    BY <1>1, <2>3
  <2> QED
    BY <2>3, <2>4, <2>5
<1>4. /\ back \in Seq(Listed) /\ Len(back) = n - k + 1
      /\ \A i \in 1..(n - k + 1) : back[i] = list[k + i - 1]
  <2>1. \A i \in k..n : list[i] \in Listed
    BY <1>1, <1>2
  <2>2. k \in Int /\ n \in Int
    BY <1>1
  <2>3. /\ back \in Seq(Listed) /\ Len(back) = IF k <= n THEN n - k + 1 ELSE 0
        /\ \A i \in 1..(n - k + 1) : back[i] = list[k + i - 1]
    BY <2>1, <2>2, SubSeqProperties
  <2> HIDE DEF back, n
  <2>4. Len(back) = n - k + 1
    BY <1>1, <2>3
  <2> QED
    BY <2>3, <2>4
<1>5. one \in Seq(Listed) /\ Len(one) = 1 /\ one[1] = e
  OBVIOUS
<1> HIDE DEF front, back, one
<1>6. /\ most \in Seq(Listed) /\ Len(most) = k
      /\ \A i \in 1..(k - 1) : most[i] = front[i]
  <2>1. /\ most \in Seq(Listed) /\ Len(most) = Len(front) + Len(one)
        /\ \A i \in 1..(Len(front) + Len(one)) :
               most[i] = IF i <= Len(front) THEN front[i] ELSE one[i - Len(front)]
    BY <1>3, <1>5, ConcatProperties
  <2> HIDE DEF most
  <2> QED
    BY <1>1, <1>3, <1>5, <2>1
<1> DEFINE new == most \o back
<1>7. /\ new \in Seq(Listed) /\ Len(new) = Len(most) + Len(back)
      /\ \A i \in 1..(Len(most) + Len(back)) :
             new[i] = IF i <= Len(most) THEN most[i] ELSE back[i - Len(most)]
  <2> HIDE DEF most
  <2> QED
    BY <1>4, <1>6, ConcatProperties
<1>8. new = InsertAt(list, k, e)
  BY DEF InsertAt, front, back, one, n
<1> HIDE DEF new, most, n
<1>9. Len(new) = n + 1
  BY <1>1, <1>4, <1>6, <1>7
<1>10. ASSUME NEW i \in 1..n PROVE new[IF i < k THEN i ELSE i + 1] = list[i]
  <2>1. CASE i < k
    <3>1. i \in 1..(k - 1) /\ i \in 1..(Len(most) + Len(back)) /\ i <= Len(most)
      BY <1>1, <1>4, <1>6, <2>1
    <3> QED
      BY <1>3, <1>6, <1>7, <2>1, <3>1
  <2>2. CASE ~(i < k)
    <3> DEFINE h == i + 1
               j == h - Len(most)
    <3>1. /\ h \in 1..(Len(most) + Len(back)) /\ ~(h <= Len(most))
          /\ j \in 1..(n - k + 1) /\ k + j - 1 = i
      BY <1>1, <1>4, <1>6, <2>2
    <3>2. new[i + 1] = back[j]
      <4> HIDE DEF h
      <4>1. new[h] = back[j]
        BY <1>7, <3>1
      <4> QED
        BY <4>1 DEF h
    <3> HIDE DEF j
    <3>3. back[j] = list[i]
      BY <1>4, <3>1
    <3> QED
      BY <2>2, <3>2, <3>3
  <2> QED
    BY <2>1, <2>2
<1> QED
  BY <1>7, <1>8, <1>9, <1>10 DEF n

\* What Harvest does to a list moves no lot to an earlier page.
LEMMA HarvestKeepsLater ==
    ASSUME NEW list \in Seq(Listed), NEW k \in 1..(Len(list) + 1), NEW e \in Listed,
           NEW f, NEW ids, NEW page \in Nat, Later(list, f, ids, page)
    PROVE  Later(InsertAt(list, k, e), f, ids, page)
<1> DEFINE new == InsertAt(list, k, e)
           place == [i \in 1..Len(list) |-> IF i < k THEN i ELSE i + 1]
<1>1. /\ new \in Seq(Listed) /\ Len(new) = Len(list) + 1
      /\ \A i \in 1..Len(list) : new[IF i < k THEN i ELSE i + 1] = list[i]
  BY InsertedList
<1> HIDE DEF new
<1>2. Len(list) \in Nat
  BY LenProperties
<1>3. place \in [1..Len(list) -> 1..Len(new)]
  BY <1>1, <1>2
<1>4. \A i, j \in 1..Len(list) : i <= j => place[i] <= place[j]
  BY <1>2
<1>5. \A i \in 1..Len(list) : new[place[i]] = list[i]
  BY <1>1
<1> HIDE DEF place
<1>6. Later(new, f, ids, page)
  BY <1>1, <1>3, <1>4, <1>5, LaterStays, SMTT(60)
<1> QED
  BY <1>6 DEF new

\* What Collect does, but to the filter that the lot leaves.
LEMMA CollectKeepsLater ==
    ASSUME NEW list \in Seq(Listed), NEW k \in DOMAIN list, list[k].stage = "harvested",
           NEW f, f # "harvested", NEW ids, NEW page \in Nat, Later(list, f, ids, page)
    PROVE  /\ [list EXCEPT ![k].stage = "collected"] \in Seq(Listed)
           /\ Later([list EXCEPT ![k].stage = "collected"], f, ids, page)
<1> DEFINE new == [list EXCEPT ![k].stage = "collected"]
           e == [list[k] EXCEPT !.stage = "collected"]
           place == [i \in 1..Len(list) |-> i]
<1>1. DOMAIN list = 1..Len(list) /\ Len(list) \in Nat
  BY LenProperties
<1>2. list[k] \in Listed
  BY <1>1, ElementOfSeq
<1>3. e \in Listed /\ e.id = list[k].id /\ e.stage = "collected"
  BY <1>2 DEF Listed, Stages
<1>4. new = [list EXCEPT ![k] = e]
  OBVIOUS
<1> HIDE DEF new, e
<1>5. /\ new \in Seq(Listed) /\ Len(new) = Len(list)
      /\ \A i \in 1..Len(list) : new[i] = IF i = k THEN e ELSE list[i]
  BY <1>1, <1>3, <1>4, ExceptSeq
<1>6. \A i \in 1..Len(list) : /\ new[i].id = list[i].id
                              /\ Matches(list[i], f) => Matches(new[i], f)
  BY <1>3, <1>5 DEF Matches
<1>7. place \in [1..Len(list) -> 1..Len(new)]
  BY <1>5
<1>8. \A i \in 1..Len(list) : place[i] = i
  OBVIOUS
<1> HIDE DEF place
<1>9. \A i, j \in 1..Len(list) : i <= j => place[i] <= place[j]
  BY <1>8
<1>10. \A i \in 1..Len(list) : /\ new[place[i]].id = list[i].id
                               /\ Matches(list[i], f) => Matches(new[place[i]], f)
  BY <1>6, <1>8
<1>11. Later(new, f, ids, page)
  BY <1>5, <1>7, <1>9, <1>10, LaterStays
<1> QED
  BY <1>5, <1>11 DEF new

ListingRequests ==
    [filter : Filters, page : Nat \ {0}, total : Nat \cup {-1}, torn : BOOLEAN,
     items : SUBSET (1..MaxRows), found : BOOLEAN, left : BOOLEAN,
     alone : BOOLEAN, matching : SUBSET (1..MaxRows)]

ListingViews ==
    [page : Nat \ {0}, totalPages : Nat, total : Nat, torn : BOOLEAN, items : SUBSET (1..MaxRows)]

ListingWalks ==
    [of : Filters \cup {"none"}, kept : SUBSET (1..MaxRows), seen : SUBSET (1..MaxRows), left : BOOLEAN]

\* What is left of a walk is on later pages, and the answer counts more lots
\* than those up to its own page.
GoesOn(list, f, ids, total, torn, page) ==
    Later(list, f, ids, page) /\ (~torn /\ ids # {} => total > page * PageSize)

WalkGoesOn(list, v, w) ==
    w.of # "none" =>
        /\ v \in ListingViews
        /\ ~w.left => GoesOn(list, w.of, w.kept \ w.seen, v.total, v.torn, v.page)

\* What the walk would leave if this answer came now.
AnswerGoesOn(r, list, w) ==
    /\ r.total >= 0 /\ (r.items = {} /\ ~r.torn => r.total <= Skip(r.page))
    /\ r.alone /\ r.page = 1 /\ ~r.left =>
          GoesOn(list, r.filter, r.matching \ r.items, r.total, r.torn, 1)
    /\ r.alone /\ r.page # 1 /\ r.filter = w.of /\ ~w.left =>
          GoesOn(list, r.filter, (w.kept \ w.seen) \ r.items, r.total, r.torn, r.page)

\* A request that is alone asks for the first page or for one next to what is shown.
AskedFrom(v, r) ==
    \/ r.page = 1
    \/ v # NoAnswer /\ r.page \in (v.page - 1)..(v.page + 1)

AloneIsAlone ==
    \A s \in Slots : asked[s] # NoRequest /\ asked[s].alone =>
        AskedFrom(view, asked[s]) /\ \A x \in Slots : x # s => asked[x] = NoRequest

AnswersGoOn ==
    \A s \in Slots : asked[s] # NoRequest /\ asked[s].found => AnswerGoesOn(asked[s], rows, walk)

ViewIsCounted == view # NoAnswer => view.totalPages = TotalPages(view.total)

ListingIInv ==
    /\ ListingTypeOK /\ ViewIsCounted /\ EmptyMeansEnd
    /\ AloneIsAlone /\ AnswersGoOn /\ WalkGoesOn(rows, view, walk)

LEMMA ListingTypes ==
    ListingTypeOK <=>
        /\ rows \in Seq(Listed) /\ filter \in Filters
        /\ asked \in [Slots -> ListingRequests \cup {NoRequest}]
        /\ view = NoAnswer \/ view \in ListingViews
        /\ walk \in ListingWalks /\ requests \in 0..MaxAsked
  BY DEF ListingTypeOK, Listed, ListingRequests, ListingViews, ListingWalks

\* The list says what the invariant needs: what has been read to its end has
\* been shown.
LEMMA NothingIsSkipped ==
    ASSUME ListingIInv
    PROVE  NothingSkipped
<1> SUFFICES ASSUME view # NoAnswer, walk.of # "none", ~walk.left, ~view.torn,
                    view.page >= view.totalPages, walk.kept \ walk.seen # {}
             PROVE  FALSE
  BY DEF NothingSkipped
<1>1. view.total \in Nat /\ view.page \in Nat
  BY ListingTypes DEF ListingIInv, ListingViews
<1>2. view.total > view.page * PageSize
  BY DEF ListingIInv, WalkGoesOn, GoesOn
<1>3. TotalPages(view.total) > view.page /\ TotalPages(view.total) \in Nat
  BY <1>1, <1>2, PagesAreCounted
<1>4. view.totalPages = TotalPages(view.total)
  BY DEF ListingIInv, ViewIsCounted
<1> QED
  BY <1>1, <1>3, <1>4

LEMMA LoadKeeps ==
    ASSUME ListingIInv, NEW s \in Slots, NEW f \in Filters, NEW page \in Nat \ {0},
           \/ page = 1
           \/ view # NoAnswer /\ page \in (view.page - 1)..(view.page + 1),
           Load(s, f, page), filter' \in Filters
    PROVE  ListingIInv'
<1> DEFINE r == [Request(f, page) EXCEPT !.alone = \A x \in Slots : asked[x] = NoRequest]
<1>1. /\ UNCHANGED <<rows, view, walk>> /\ requests' = requests + 1 /\ requests < MaxAsked
      /\ asked' = [x \in Slots |->
              IF x = s THEN r
              ELSE IF asked[x] = NoRequest THEN NoRequest ELSE [asked[x] EXCEPT !.alone = FALSE]]
  BY DEF Load
<1>2. /\ r \in ListingRequests /\ r.found = FALSE /\ r.page = page
      /\ r.alone = \A x \in Slots : asked[x] = NoRequest
  BY DEF Request, ListingRequests
<1> HIDE DEF r
<1>3. asked \in [Slots -> ListingRequests \cup {NoRequest}]
  BY ListingTypes DEF ListingIInv
<1>4. ASSUME NEW x \in Slots, x # s, asked[x] # NoRequest
      PROVE  /\ asked'[x] \in ListingRequests
             /\ asked'[x] = [asked[x] EXCEPT !.alone = FALSE] /\ asked'[x].alone = FALSE
  <2>1. asked[x] \in ListingRequests
    BY <1>3, <1>4
  <2>2. asked'[x] = [asked[x] EXCEPT !.alone = FALSE]
    BY <1>1, <1>4
  <2> QED
    BY <2>1, <2>2 DEF ListingRequests
<1>5. asked'[s] = r /\ \A x \in Slots : x # s /\ asked[x] = NoRequest => asked'[x] = NoRequest
  BY <1>1
<1>6. ListingTypeOK'
  <2>1. asked' \in [Slots -> ListingRequests \cup {NoRequest}]
    <3>1. \A x \in Slots : asked'[x] \in ListingRequests \cup {NoRequest}
      BY <1>2, <1>4, <1>5
    <3> QED
      BY <1>1, <3>1
  <2>2. requests' \in 0..MaxAsked
    BY <1>1, ListingTypes, ListingAssumption DEF ListingIInv
  <2>3. /\ rows \in Seq(Listed) /\ walk \in ListingWalks
        /\ view = NoAnswer \/ view \in ListingViews
    BY ListingTypes DEF ListingIInv
  <2> QED
    BY <1>1, <2>1, <2>2, <2>3
       DEF ListingTypeOK, Listed, ListingRequests, ListingViews, ListingWalks
<1>7. AloneIsAlone'
  <2> SUFFICES ASSUME NEW x \in Slots, asked'[x] # NoRequest, asked'[x].alone
               PROVE  /\ AskedFrom(view', asked'[x])
                      /\ \A y \in Slots : y # x => asked'[y] = NoRequest
    BY DEF AloneIsAlone
  <2>1. x = s
    BY <1>4, <1>5
  <2>2. \A y \in Slots : y # x => asked'[y] = NoRequest
    BY <1>2, <1>5, <2>1
  <2>3. AskedFrom(view', asked'[x])
    BY <1>1, <1>2, <1>5, <2>1 DEF AskedFrom
  <2> QED
    BY <2>2, <2>3
<1>8. AnswersGoOn'
  <2> SUFFICES ASSUME NEW x \in Slots, asked'[x] # NoRequest, asked'[x].found
               PROVE  AnswerGoesOn(asked'[x], rows', walk')
    BY DEF AnswersGoOn
  <2>1. x # s /\ asked[x] # NoRequest
    BY <1>2, <1>5
  <2>2. asked[x] \in ListingRequests
    BY <1>3, <2>1
  <2>3. /\ asked'[x].found = asked[x].found /\ asked'[x].total = asked[x].total
        /\ asked'[x].items = asked[x].items /\ asked'[x].torn = asked[x].torn
        /\ asked'[x].page = asked[x].page /\ asked'[x].alone = FALSE
    BY <1>4, <2>1, <2>2, ZenonT(60) DEF ListingRequests
  <2>4. AnswerGoesOn(asked[x], rows, walk)
    BY <2>1, <2>3 DEF ListingIInv, AnswersGoOn
  <2> QED
    BY <2>3, <2>4 DEF AnswerGoesOn
<1> QED
  BY <1>1, <1>6, <1>7, <1>8 DEF ListingIInv, ViewIsCounted, EmptyMeansEnd, WalkGoesOn

\* A step that changes one request and neither the list nor what is shown.
LEMMA RequestChanges ==
    ASSUME ListingIInv, NEW s \in Slots, NEW r \in ListingRequests \cup {NoRequest},
           asked' = [asked EXCEPT ![s] = r], UNCHANGED <<rows, filter, view, walk, requests>>,
           r # NoRequest => /\ asked[s] # NoRequest /\ r.page = asked[s].page /\ r.alone = asked[s].alone
                            /\ r.found => AnswerGoesOn(r, rows, walk)
    PROVE  ListingIInv'
<1>1. asked \in [Slots -> ListingRequests \cup {NoRequest}]
  BY ListingTypes DEF ListingIInv
<1>2. asked'[s] = r /\ \A x \in Slots : x # s => asked'[x] = asked[x]
  BY <1>1
<1>3. ListingTypeOK'
  <2>1. asked' \in [Slots -> ListingRequests \cup {NoRequest}]
    BY <1>1
  <2>2. /\ rows \in Seq(Listed) /\ filter \in Filters /\ walk \in ListingWalks
        /\ view = NoAnswer \/ view \in ListingViews
        /\ requests \in 0..MaxAsked
    BY ListingTypes DEF ListingIInv
  <2> QED
    BY <2>1, <2>2 DEF ListingTypeOK, Listed, ListingRequests, ListingViews, ListingWalks
<1>4. AloneIsAlone'
  <2> SUFFICES ASSUME NEW x \in Slots, asked'[x] # NoRequest, asked'[x].alone
               PROVE  /\ AskedFrom(view', asked'[x])
                      /\ \A y \in Slots : y # x => asked'[y] = NoRequest
    BY DEF AloneIsAlone
  <2>1. asked[x] # NoRequest /\ asked[x].alone /\ asked'[x].page = asked[x].page
    BY <1>2
  <2>2. /\ AskedFrom(view, asked[x])
        /\ \A y \in Slots : y # x => asked[y] = NoRequest
    BY <2>1 DEF ListingIInv, AloneIsAlone
  <2>3. AskedFrom(view', asked'[x])
    BY <2>1, <2>2 DEF AskedFrom
  <2>4. ASSUME NEW y \in Slots, y # x PROVE asked'[y] = NoRequest
    <3>1. asked[y] = NoRequest
      BY <2>2, <2>4
    <3>2. CASE y = s
      BY <1>2, <3>1, <3>2
    <3>3. CASE y # s
      BY <1>2, <3>1, <3>3
    <3> QED
      BY <3>2, <3>3
  <2> QED
    BY <2>3, <2>4
<1>5. AnswersGoOn'
  <2> SUFFICES ASSUME NEW x \in Slots, asked'[x] # NoRequest, asked'[x].found
               PROVE  AnswerGoesOn(asked'[x], rows', walk')
    BY DEF AnswersGoOn
  <2>1. CASE x = s
    BY <1>2, <2>1
  <2>2. CASE x # s
    <3>1. AnswerGoesOn(asked[x], rows, walk)
      BY <1>2, <2>2 DEF ListingIInv, AnswersGoOn
    <3> QED
      BY <1>2, <2>2, <3>1
  <2> QED
    BY <2>1, <2>2
<1> QED
  BY <1>3, <1>4, <1>5 DEF ListingIInv, ViewIsCounted, EmptyMeansEnd

\* What the model counts and finds, in the terms of the lemmas.
LEMMA ListOfRows ==
    /\ \A f, n : Ranked(f, n) = Rank(rows, f, n) /\ Matching(f, n) = MatchingIn(rows, f, n)
    /\ \A f, page : OnPage(f, page) = PageOf(rows, f, page)
  BY DEF Ranked, Rank, Matching, MatchingIn, OnPage, PageOf

LEMMA CountKeeps ==
    ASSUME ListingIInv, NEW s \in Slots, Count(s)
    PROVE  ListingIInv'
<1> DEFINE total == Ranked(asked[s].filter, Len(rows))
           r == [asked[s] EXCEPT !.total = total]
<1>1. /\ asked[s] # NoRequest /\ asked[s].total = -1 /\ asked' = [asked EXCEPT ![s] = r]
      /\ UNCHANGED <<rows, filter, view, walk, requests>>
  BY DEF Count
<1>2. asked[s] \in ListingRequests /\ rows \in Seq(Listed)
  BY <1>1, ListingTypes DEF ListingIInv
<1>3. Len(rows) \in 0..Len(rows)
  <2>1. Len(rows) \in Nat
    BY <1>2, LenProperties
  <2> QED
    BY <2>1
<1>4. total \in Nat
  BY <1>2, <1>3, ListOfRows, RanksAreNumbers
<1> HIDE DEF total
<1>5. /\ r \in ListingRequests /\ r.page = asked[s].page /\ r.alone = asked[s].alone
      /\ r.found = asked[s].found
  BY <1>2, <1>4 DEF ListingRequests
<1>6. ~asked[s].found
  <2>1. asked[s].found => asked[s].total >= 0
    BY <1>1 DEF ListingIInv, AnswersGoOn, AnswerGoesOn
  <2> QED
    BY <1>1, <2>1
<1> HIDE DEF r
<1> QED
  BY <1>1, <1>5, <1>6, RequestChanges

\* The page that is found goes on with the walk: as a first page with all lots
\* of the filter, as another one with those that the shown pages have left.
LEMMA FindKeeps ==
    ASSUME ListingIInv, NEW s \in Slots, Find(s)
    PROVE  ListingIInv'
<1> DEFINE old == asked[s]
           f == old.filter
           items == OnPage(f, old.page)
           matching == Matching(f, Len(rows))
           torn == Ranked(f, Len(rows)) # old.total
           r == [old EXCEPT !.found = TRUE, !.items = items, !.matching = matching, !.torn = torn]
<1>1. /\ old # NoRequest /\ old.total >= 0 /\ asked' = [asked EXCEPT ![s] = r]
      /\ UNCHANGED <<rows, filter, view, walk, requests>>
  BY DEF Find
<1>2. old \in ListingRequests /\ rows \in Seq(Listed)
  BY <1>1, ListingTypes DEF ListingIInv
<1>3. old.page \in Nat \ {0} /\ old.total \in Nat
  <2>1. old.page \in Nat \ {0} /\ old.total \in Nat \cup {-1}
    BY <1>2 DEF ListingRequests
  <2> HIDE DEF old
  <2> QED
    BY <1>1, <2>1
<1>4. DOMAIN rows = 1..Len(rows) /\ Len(rows) \in Nat
  BY <1>2, LenProperties
<1>5. Len(rows) \in 0..Len(rows)
  BY <1>4
<1>6. items = PageOf(rows, f, old.page) /\ matching = MatchingIn(rows, f, Len(rows))
      /\ (torn = (Rank(rows, f, Len(rows)) # old.total))
  BY ListOfRows
<1>7. items \in SUBSET (1..MaxRows) /\ matching \in SUBSET (1..MaxRows)
  <2>1. MatchingIn(rows, f, Len(rows)) \in SUBSET (1..MaxRows)
    BY <1>2, <1>5, RanksAreNumbers
  <2>2. PageOf(rows, f, old.page) \in SUBSET MatchingIn(rows, f, Len(rows))
    BY <1>4 DEF PageOf, MatchingIn
  <2> HIDE DEF items, matching
  <2> QED
    BY <1>6, <2>1, <2>2
<1> HIDE DEF items, matching, torn
<1>8. /\ r \in ListingRequests /\ r.found /\ r.page = old.page /\ r.alone = old.alone
      /\ r.total = old.total /\ r.filter = f /\ r.items = items /\ r.matching = matching
      /\ r.torn = torn
  <2>1. torn \in BOOLEAN
    BY DEF torn
  <2> HIDE DEF old
  <2> QED
    BY <1>2, <1>7, <2>1 DEF ListingRequests, f
<1> HIDE DEF r
<1> DEFINE last == Rank(rows, f, Len(rows))
<1>9. torn \/ last = old.total
  BY <1>6
<1>10. \A ids, before : before \in Nat /\ old.page <= before + 1 /\ Later(rows, f, ids, before)
           => GoesOn(rows, f, ids \ items, old.total, torn, old.page)
  <2> SUFFICES ASSUME NEW ids, NEW before \in Nat, old.page <= before + 1,
                      Later(rows, f, ids, before)
               PROVE  GoesOn(rows, f, ids \ items, old.total, torn, old.page)
    OBVIOUS
  <2>1. Later(rows, f, ids \ items, old.page)
    <3>1. Later(rows, f, ids \ PageOf(rows, f, old.page), old.page)
      BY <1>2, <1>3, PageTakesTheNext
    <3> QED
      BY <1>6, <3>1
  <2>2. ids \ items # {} => last > old.page * PageSize
    BY <1>2, <1>3, <2>1, LaterIsCounted
  <2> QED
    BY <1>9, <2>1, <2>2 DEF GoesOn
<1>11. items = {} /\ ~torn => old.total <= Skip(old.page)
  BY <1>2, <1>3, <1>6, <1>9, EmptyPageIsAfterTheLast
<1>12. old.page = 1 => GoesOn(rows, f, matching \ items, old.total, torn, 1)
  <2>1. Later(rows, f, matching, 0)
    BY <1>2, <1>6, AllAreLater
  <2> QED
    BY <1>10, <2>1
<1>13. old.alone /\ old.page # 1 /\ f = walk.of /\ ~walk.left =>
           GoesOn(rows, f, (walk.kept \ walk.seen) \ items, old.total, torn, old.page)
  <2> SUFFICES ASSUME old.alone, old.page # 1, f = walk.of, ~walk.left
               PROVE  GoesOn(rows, f, (walk.kept \ walk.seen) \ items, old.total, torn, old.page)
    OBVIOUS
  <2>1. view # NoAnswer /\ old.page \in (view.page - 1)..(view.page + 1)
    BY <1>1 DEF ListingIInv, AloneIsAlone, AskedFrom
  <2>2. view.page \in Nat
    BY <2>1, ListingTypes DEF ListingIInv, ListingViews
  <2>3. old.page <= view.page + 1
    <3> HIDE DEF old
    <3> QED
      BY <1>3, <2>1, <2>2
  <2>4. f # "none"
    BY <1>2 DEF ListingRequests, Filters, Stages
  <2>5. Later(rows, f, walk.kept \ walk.seen, view.page)
    BY <2>4 DEF ListingIInv, WalkGoesOn, GoesOn
  <2> QED
    BY <1>10, <2>2, <2>3, <2>5
<1>14. AnswerGoesOn(r, rows, walk)
  BY <1>1, <1>8, <1>11, <1>12, <1>13 DEF AnswerGoesOn
<1> QED
  BY <1>1, <1>8, <1>14, RequestChanges

LEMMA LoseKeeps ==
    ASSUME ListingIInv, NEW s \in Slots, Lose(s)
    PROVE  ListingIInv'
  BY RequestChanges DEF Lose

\* The answer of a request that was alone is shown as the next page of the walk.
LEMMA DeliverKeeps ==
    ASSUME ListingIInv, NEW s \in Slots, Deliver(s)
    PROVE  ListingIInv'
<1> DEFINE r == asked[s]
           v == [page |-> r.page, totalPages |-> TotalPages(r.total), total |-> r.total,
                 torn |-> r.torn, items |-> r.items]
           w == IF ~r.alone THEN [walk EXCEPT !.of = "none"]
                ELSE IF r.page = 1
                THEN [of |-> r.filter, kept |-> r.matching, seen |-> r.items, left |-> r.left]
                ELSE IF r.filter = walk.of THEN [walk EXCEPT !.seen = @ \cup r.items]
                ELSE [walk EXCEPT !.of = "none"]
<1>1. /\ r # NoRequest /\ r.found /\ view' = v /\ walk' = w
      /\ asked' = [asked EXCEPT ![s] = NoRequest] /\ UNCHANGED <<rows, filter, requests>>
  BY DEF Deliver
<1>2. r \in ListingRequests /\ walk \in ListingWalks
  BY <1>1, ListingTypes DEF ListingIInv
<1>3. AnswerGoesOn(r, rows, walk)
  BY <1>1 DEF ListingIInv, AnswersGoOn
<1>4. /\ r.page \in Nat \ {0} /\ r.total \in Nat
      /\ r.torn \in BOOLEAN /\ r.items \in SUBSET (1..MaxRows)
  <2>1. /\ r.page \in Nat \ {0} /\ r.total \in Nat \cup {-1} /\ r.total >= 0
        /\ r.torn \in BOOLEAN /\ r.items \in SUBSET (1..MaxRows)
    BY <1>2, <1>3 DEF ListingRequests, AnswerGoesOn
  <2> HIDE DEF r
  <2> QED
    BY <2>1
<1>5. TotalPages(r.total) \in Nat
  BY <1>4, PagesAreCounted
<1>6. /\ v \in ListingViews /\ v.page = r.page /\ v.totalPages = TotalPages(r.total)
      /\ v.total = r.total /\ v.torn = r.torn /\ v.items = r.items
  <2> HIDE DEF r
  <2> QED
    BY <1>4, <1>5 DEF ListingViews
<1>7. w \in ListingWalks
  <2>1. r.filter \in Filters /\ r.matching \in SUBSET (1..MaxRows) /\ r.left \in BOOLEAN
    BY <1>2 DEF ListingRequests
  <2> HIDE DEF r
  <2> QED
    BY <1>2, <1>4, <2>1 DEF ListingWalks
<1>8. asked \in [Slots -> ListingRequests \cup {NoRequest}]
  BY ListingTypes DEF ListingIInv
<1>9. asked'[s] = NoRequest /\ \A x \in Slots : x # s => asked'[x] = asked[x]
  BY <1>1, <1>8
<1>10. ListingTypeOK'
  <2>1. asked' \in [Slots -> ListingRequests \cup {NoRequest}]
    BY <1>1, <1>8
  <2>2. rows \in Seq(Listed) /\ filter \in Filters /\ requests \in 0..MaxAsked
    BY ListingTypes DEF ListingIInv
  <2> HIDE DEF v, w
  <2>3. view' \in ListingViews /\ walk' \in ListingWalks
    BY <1>1, <1>6, <1>7
  <2> QED
    BY <1>1, <2>1, <2>2, <2>3 DEF ListingTypeOK, Listed, ListingRequests, ListingViews, ListingWalks
<1>11. ASSUME r.alone, NEW x \in Slots PROVE asked'[x] = NoRequest
  <2>1. x # s => asked[x] = NoRequest
    BY <1>1, <1>11 DEF ListingIInv, AloneIsAlone
  <2> QED
    BY <1>9, <2>1
<1>12. ASSUME NEW x \in Slots, asked'[x] # NoRequest
       PROVE  x # s /\ asked[x] # NoRequest /\ asked'[x] = asked[x] /\ ~asked[x].alone /\ ~r.alone
  <2>1. x # s /\ asked'[x] = asked[x]
    BY <1>9, <1>12
  <2>2. ~r.alone
    BY <1>11, <1>12
  <2>3. ~asked[x].alone
    BY <1>1, <1>12, <2>1 DEF ListingIInv, AloneIsAlone
  <2> QED
    BY <1>12, <2>1, <2>2, <2>3
<1>13. AloneIsAlone'
  BY <1>12 DEF AloneIsAlone
<1>14. AnswersGoOn'
  <2> SUFFICES ASSUME NEW x \in Slots, asked'[x] # NoRequest, asked'[x].found
               PROVE  AnswerGoesOn(asked'[x], rows', walk')
    BY DEF AnswersGoOn
  <2>1. asked'[x] = asked[x] /\ ~asked[x].alone
    BY <1>12
  <2>2. AnswerGoesOn(asked[x], rows, walk)
    BY <1>12 DEF ListingIInv, AnswersGoOn
  <2> QED
    BY <2>1, <2>2 DEF AnswerGoesOn
<1>15. ViewIsCounted'
  <2> HIDE DEF v, w
  <2> QED
    BY <1>1, <1>6 DEF ViewIsCounted
<1>16. EmptyMeansEnd'
  <2> SUFFICES ASSUME r.items = {}, ~r.torn
               PROVE  r.page > TotalPages(r.total)
    <3> HIDE DEF v, w
    <3> QED
      BY <1>1, <1>6 DEF EmptyMeansEnd
  <2>1. r.total <= Skip(r.page)
    BY <1>3 DEF AnswerGoesOn
  <2> DEFINE before == r.page - 1
  <2>2. before \in Nat /\ r.page = before + 1
    <3> HIDE DEF r
    <3> QED
      BY <1>4
  <2>3. Skip(r.page) = before * PageSize
    BY DEF Skip
  <2>4. TotalPages(r.total) \in Nat
    BY <1>5
  <2>5. r.total > before * PageSize <=> TotalPages(r.total) > before
    <3> HIDE DEF before, r
    <3> QED
      BY <1>4, <2>2, PagesAreCounted
  <2>6. before * PageSize \in Nat
    <3> HIDE DEF before
    <3> QED
      BY <2>2, ListingAssumption
  <2> HIDE DEF before, r
  <2> QED
    BY <1>4, <2>1, <2>2, <2>3, <2>4, <2>5, <2>6
<1>17. w.of # "none" /\ ~w.left => GoesOn(rows, w.of, w.kept \ w.seen, r.total, r.torn, r.page)
  <2> SUFFICES ASSUME w.of # "none", ~w.left
               PROVE  GoesOn(rows, w.of, w.kept \ w.seen, r.total, r.torn, r.page)
    OBVIOUS
  <2>1. [walk EXCEPT !.of = "none"].of = "none"
    BY <1>2 DEF ListingWalks
  <2>2. r.alone
    BY <2>1
  <2>3. CASE r.page = 1
    <3>1. w.of = r.filter /\ w.kept = r.matching /\ w.seen = r.items /\ w.left = r.left
      BY <2>2, <2>3
    <3> QED
      BY <1>3, <2>2, <2>3, <3>1 DEF AnswerGoesOn
  <2>4. CASE r.page # 1
    <3>1. r.filter = walk.of /\ w = [walk EXCEPT !.seen = @ \cup r.items]
      BY <2>1, <2>2, <2>4
    <3>2. /\ w.of = walk.of /\ w.kept = walk.kept /\ w.seen = walk.seen \cup r.items
          /\ w.left = walk.left
      <4> HIDE DEF r, w
      <4> QED
        BY <1>2, <3>1 DEF ListingWalks
    <3>3. GoesOn(rows, r.filter, (walk.kept \ walk.seen) \ r.items, r.total, r.torn, r.page)
      BY <1>3, <2>2, <2>4, <3>1, <3>2 DEF AnswerGoesOn
    <3>4. w.kept \ w.seen = (walk.kept \ walk.seen) \ r.items
      <4> HIDE DEF r, w
      <4> QED
        BY <3>2
    <3> HIDE DEF r, w
    <3> QED
      BY <3>1, <3>2, <3>3, <3>4
  <2> QED
    BY <2>3, <2>4
<1>18. WalkGoesOn(rows', view', walk')
  <2> HIDE DEF v, w
  <2> QED
    BY <1>1, <1>6, <1>17 DEF WalkGoesOn
<1> QED
  BY <1>10, <1>13, <1>14, <1>15, <1>16, <1>18 DEF ListingIInv

LEMMA HarvestKeeps ==
    ASSUME ListingIInv, NEW k \in 1..(Len(rows) + 1), Harvest(k)
    PROVE  ListingIInv'
<1> DEFINE e == [id |-> Len(rows) + 1, stage |-> "harvested"]
<1>1. /\ Len(rows) < MaxRows /\ rows' = InsertAt(rows, k, e)
      /\ UNCHANGED <<filter, asked, view, walk, requests>>
  BY DEF Harvest
<1>2. rows \in Seq(Listed)
  BY ListingTypes DEF ListingIInv
<1>3. e \in Listed
  <2>1. Len(rows) \in Nat
    BY <1>2, LenProperties
  <2>2. Len(rows) + 1 \in 1..MaxRows
    BY <1>1, <2>1, ListingAssumption
  <2> QED
    BY <2>2 DEF Listed, Stages
<1> HIDE DEF e
<1>4. rows' \in Seq(Listed)
  BY <1>1, <1>2, <1>3, InsertedList
<1>5. \A f, ids, page : page \in Nat /\ Later(rows, f, ids, page) => Later(rows', f, ids, page)
  BY <1>1, <1>2, <1>3, HarvestKeepsLater
<1>6. \A f, ids, total, torn, page :
          page \in Nat /\ GoesOn(rows, f, ids, total, torn, page)
              => GoesOn(rows', f, ids, total, torn, page)
  BY <1>5 DEF GoesOn
<1>7. ListingTypeOK'
  <2>1. /\ filter \in Filters /\ asked \in [Slots -> ListingRequests \cup {NoRequest}]
        /\ view = NoAnswer \/ view \in ListingViews
        /\ walk \in ListingWalks /\ requests \in 0..MaxAsked
    BY ListingTypes DEF ListingIInv
  <2> QED
    BY <1>1, <1>4, <2>1 DEF ListingTypeOK, Listed, ListingRequests, ListingViews, ListingWalks
<1>8. AnswersGoOn'
  <2> SUFFICES ASSUME NEW s \in Slots, asked[s] # NoRequest, asked[s].found
               PROVE  AnswerGoesOn(asked[s], rows', walk)
    BY <1>1 DEF AnswersGoOn
  <2>1. asked[s].page \in Nat
    BY ListingTypes DEF ListingIInv, ListingRequests
  <2>2. AnswerGoesOn(asked[s], rows, walk)
    BY DEF ListingIInv, AnswersGoOn
  <2> QED
    BY <1>6, <2>1, <2>2 DEF AnswerGoesOn
<1>9. WalkGoesOn(rows, view, walk)'
  <2>1. walk.of # "none" => view.page \in Nat
    BY DEF ListingIInv, WalkGoesOn, ListingViews
  <2> QED
    BY <1>1, <1>6, <2>1 DEF ListingIInv, WalkGoesOn
<1> QED
  BY <1>1, <1>7, <1>8, <1>9 DEF ListingIInv, ViewIsCounted, EmptyMeansEnd, AloneIsAlone

LEMMA CollectKeeps ==
    ASSUME ListingIInv, NEW k \in DOMAIN rows, Collect(k)
    PROVE  ListingIInv'
<1>1. /\ rows[k].stage = "harvested" /\ rows' = [rows EXCEPT ![k].stage = "collected"]
      /\ walk' = IF walk.of = "harvested" THEN [walk EXCEPT !.left = TRUE] ELSE walk
      /\ asked' = [s \in Slots |->
            IF asked[s] # NoRequest /\ asked[s].found /\ asked[s].filter = "harvested"
            THEN [asked[s] EXCEPT !.left = TRUE] ELSE asked[s]]
      /\ UNCHANGED <<filter, view, requests>>
  BY DEF Collect
<1>2. /\ rows \in Seq(Listed) /\ filter \in Filters
      /\ asked \in [Slots -> ListingRequests \cup {NoRequest}]
      /\ view = NoAnswer \/ view \in ListingViews
      /\ walk \in ListingWalks /\ requests \in 0..MaxAsked
  BY ListingTypes DEF ListingIInv
<1>3. \A f, ids, page : f # "harvested" /\ page \in Nat /\ Later(rows, f, ids, page)
          => Later(rows', f, ids, page)
  BY <1>1, <1>2, CollectKeepsLater
<1>4. rows' \in Seq(Listed)
  <2>1. Later(rows, "all", {}, 0)
    BY DEF Later
  <2> QED
    BY <1>1, <1>2, <2>1, CollectKeepsLater
<1>5. \A f, ids, total, torn, page :
          f # "harvested" /\ page \in Nat /\ GoesOn(rows, f, ids, total, torn, page)
              => GoesOn(rows', f, ids, total, torn, page)
  BY <1>3 DEF GoesOn
<1>6. /\ walk' \in ListingWalks /\ walk'.of = walk.of /\ walk'.kept = walk.kept
      /\ walk'.seen = walk.seen /\ (walk.of = "harvested" => walk'.left) /\ (walk.left => walk'.left)
  BY <1>1, <1>2 DEF ListingWalks
<1>7. ASSUME NEW s \in Slots, asked'[s] # NoRequest
      PROVE  /\ asked[s] # NoRequest /\ asked[s] \in ListingRequests
             /\ asked'[s] \in ListingRequests
             /\ asked'[s].page = asked[s].page /\ asked'[s].alone = asked[s].alone
             /\ asked'[s].found = asked[s].found /\ asked'[s].filter = asked[s].filter
             /\ asked'[s].total = asked[s].total /\ asked'[s].torn = asked[s].torn
             /\ asked'[s].items = asked[s].items /\ asked'[s].matching = asked[s].matching
             /\ asked[s].left => asked'[s].left
             /\ asked[s].found /\ asked[s].filter = "harvested" => asked'[s].left
  <2>1. asked'[s] = IF asked[s] # NoRequest /\ asked[s].found /\ asked[s].filter = "harvested"
                    THEN [asked[s] EXCEPT !.left = TRUE] ELSE asked[s]
    BY <1>1
  <2>2. asked[s] # NoRequest /\ asked[s] \in ListingRequests
    BY <1>2, <1>7, <2>1
  <2>3. CASE asked[s].found /\ asked[s].filter = "harvested"
    <3>1. asked'[s] = [asked[s] EXCEPT !.left = TRUE]
      BY <2>1, <2>2, <2>3
    <3> QED
      BY <2>2, <3>1 DEF ListingRequests
  <2>4. CASE ~(asked[s].found /\ asked[s].filter = "harvested")
    <3>1. asked'[s] = asked[s]
      BY <2>1, <2>4
    <3> QED
      BY <2>2, <2>4, <3>1
  <2> QED
    BY <2>3, <2>4
<1>8. \A s \in Slots : asked[s] = NoRequest => asked'[s] = NoRequest
  BY <1>1
<1>9. ListingTypeOK'
  <2>1. asked' \in [Slots -> ListingRequests \cup {NoRequest}]
    <3>1. \A s \in Slots : asked'[s] \in ListingRequests \cup {NoRequest}
      BY <1>7
    <3> QED
      BY <1>1, <3>1
  <2> QED
    BY <1>1, <1>2, <1>4, <1>6, <2>1
       DEF ListingTypeOK, Listed, ListingRequests, ListingViews, ListingWalks
<1>10. AloneIsAlone'
  BY <1>1, <1>7, <1>8 DEF ListingIInv, AloneIsAlone, AskedFrom
<1>11. AnswersGoOn'
  <2> SUFFICES ASSUME NEW s \in Slots, asked'[s] # NoRequest, asked'[s].found
               PROVE  AnswerGoesOn(asked'[s], rows', walk')
    BY DEF AnswersGoOn
  <2>1. AnswerGoesOn(asked[s], rows, walk)
    BY <1>7 DEF ListingIInv, AnswersGoOn
  <2>2. asked[s].page \in Nat
    BY <1>7 DEF ListingRequests
  <2>3. asked'[s].alone /\ asked'[s].page = 1 /\ ~asked'[s].left =>
            GoesOn(rows', asked[s].filter, asked[s].matching \ asked[s].items,
                   asked[s].total, asked[s].torn, 1)
    BY <1>5, <1>7, <2>1 DEF AnswerGoesOn
  <2>4. asked'[s].alone /\ asked'[s].page # 1 /\ asked[s].filter = walk.of /\ ~walk'.left =>
            GoesOn(rows', asked[s].filter, (walk.kept \ walk.seen) \ asked[s].items,
                   asked[s].total, asked[s].torn, asked[s].page)
    BY <1>5, <1>6, <1>7, <2>1, <2>2 DEF AnswerGoesOn
  <2> QED
    BY <1>6, <1>7, <2>1, <2>3, <2>4 DEF AnswerGoesOn
<1>12. WalkGoesOn(rows, view, walk)'
  <2>1. walk.of # "none" => view \in ListingViews /\ view.page \in Nat
    BY DEF ListingIInv, WalkGoesOn, ListingViews
  <2>2. walk.of # "none" /\ ~walk'.left =>
            GoesOn(rows', walk.of, walk.kept \ walk.seen, view.total, view.torn, view.page)
    BY <1>5, <1>6, <2>1 DEF ListingIInv, WalkGoesOn
  <2> QED
    BY <1>1, <1>6, <2>1, <2>2 DEF WalkGoesOn
<1> QED
  BY <1>1, <1>9, <1>10, <1>11, <1>12 DEF ListingIInv, ViewIsCounted, EmptyMeansEnd

LEMMA ListingStepKeeps ==
    ASSUME ListingIInv, ListingNext
    PROVE  ListingIInv'
<1>1. view # NoAnswer => view.page \in Nat \ {0} /\ view.totalPages \in Nat
  BY ListingTypes DEF ListingIInv, ListingViews
<1>2. filter \in Filters
  BY ListingTypes DEF ListingIInv
<1>3. ASSUME NEW s \in Slots, NEW f \in Filters, Choose(s, f) PROVE ListingIInv'
  BY <1>3, LoadKeeps DEF Choose
<1>4. ASSUME NEW s \in Slots, Refresh(s) PROVE ListingIInv'
  <2>1. filter' \in Filters
    BY <1>2, <1>4 DEF Refresh
  <2>2. CASE view = NoAnswer
    BY <1>2, <1>4, <2>1, <2>2, LoadKeeps DEF Refresh
  <2>3. CASE view # NoAnswer
    <3>1. view.page \in Nat \ {0} /\ view.page \in (view.page - 1)..(view.page + 1)
      BY <1>1, <2>3
    <3> QED
      BY <1>2, <1>4, <2>1, <2>3, <3>1, LoadKeeps DEF Refresh
  <2> QED
    BY <2>2, <2>3
<1>5. ASSUME NEW s \in Slots, NextPage(s) PROVE ListingIInv'
  <2>1. filter' \in Filters /\ view # NoAnswer
    BY <1>2, <1>5 DEF NextPage
  <2>2. view.page + 1 \in Nat \ {0} /\ view.page + 1 \in (view.page - 1)..(view.page + 1)
    BY <1>1, <2>1
  <2> QED
    BY <1>2, <1>5, <2>1, <2>2, LoadKeeps DEF NextPage
<1>6. ASSUME NEW s \in Slots, PreviousPage(s) PROVE ListingIInv'
  <2>1. filter' \in Filters /\ view # NoAnswer /\ view.page > 1
    BY <1>2, <1>6 DEF PreviousPage
  <2>2. view.page - 1 \in Nat \ {0} /\ view.page - 1 \in (view.page - 1)..(view.page + 1)
    BY <1>1, <2>1
  <2> QED
    BY <1>2, <1>6, <2>1, <2>2, LoadKeeps DEF PreviousPage
<1> QED
  BY <1>3, <1>4, <1>5, <1>6, CountKeeps, FindKeeps, DeliverKeeps, LoseKeeps, HarvestKeeps,
     CollectKeeps
     DEF ListingNext

LEMMA ListingStarts ==
    ASSUME ListingInit
    PROVE  ListingIInv
<1>1. PICK s \in Slots :
          asked = [x \in Slots |-> IF x = s THEN Request("all", 1) ELSE NoRequest]
  BY DEF ListingInit
<1>2. /\ rows = <<>> /\ filter = "all" /\ view = NoAnswer /\ requests = 1
      /\ walk = [of |-> "none", kept |-> {}, seen |-> {}, left |-> FALSE]
  BY DEF ListingInit
<1> DEFINE r == Request("all", 1)
<1>3. r \in ListingRequests /\ ~r.found /\ r.page = 1
  BY DEF Request, ListingRequests, Filters
<1> HIDE DEF r
<1>4. ListingTypeOK
  <2>1. rows \in Seq(Listed)
    BY <1>2, EmptySeq
  <2>2. filter \in Filters /\ walk \in ListingWalks /\ requests \in 0..MaxAsked
    BY <1>2, ListingAssumption DEF Filters, ListingWalks
  <2>3. asked \in [Slots -> ListingRequests \cup {NoRequest}]
    BY <1>1, <1>3 DEF r
  <2> QED
    BY <1>2, <2>1, <2>2, <2>3, ListingTypes
<1>5. \A x \in Slots : asked[x] # NoRequest => x = s /\ asked[x] = r
  BY <1>1 DEF r
<1>6. AloneIsAlone /\ AnswersGoOn
  BY <1>3, <1>5 DEF AloneIsAlone, AnswersGoOn, AskedFrom
<1> QED
  BY <1>2, <1>4, <1>6 DEF ListingIInv, ViewIsCounted, EmptyMeansEnd, WalkGoesOn

LEMMA ListingInvariant == Spec => []ListingIInv
<1>1. Init => ListingIInv
  BY ListingStarts DEF Init
<1>2. ASSUME ListingIInv, [Next]_vars PROVE ListingIInv'
  <2>1. CASE ListingNext
    BY <1>2, <2>1, ListingStepKeeps
  <2>2. CASE UNCHANGED listingVars
    <3>1. /\ rows' = rows /\ filter' = filter /\ asked' = asked /\ view' = view /\ walk' = walk
          /\ requests' = requests
      BY <2>2 DEF listingVars
    <3> QED
      BY <1>2, <3>1 DEF ListingIInv, ListingTypeOK, ViewIsCounted, EmptyMeansEnd, AloneIsAlone,
                        AnswersGoOn
  <2>3. Next => ListingNext \/ UNCHANGED listingVars
    BY DEF Next, AddLeaf, AddRow, NextLine, AddCorner, AddEvent, Computing
  <2> QED
    BY <1>2, <2>1, <2>2, <2>3 DEF vars
<1> QED
  BY <1>1, <1>2, PTL DEF Spec

\* Whoever turns the pages of a list has been shown, at its end, all lots that
\* were there at its beginning, whatever was harvested meanwhile and however
\* many answers were lost; and only a page after the last one is empty.
THEOREM PagesAreWhole == Spec => []ListingInv
<1>1. ListingIInv => ListingInv
  BY NothingIsSkipped DEF ListingInv, ListingIInv
<1> QED
  BY <1>1, ListingInvariant, PTL

(***************************************************************************)
(* Polygons.  Corners are seen from the point p: their coordinates are     *)
(* taken from there, and the side of an edge on which p lies is the sign   *)
(* of a cross product.                                                     *)
(***************************************************************************)

Plane == Int \X Int

East(a, p) == a[1] - p[1]
North(a, p) == a[2] - p[2]
Cross(a, b, p) == East(a, p) * North(b, p) - North(a, p) * East(b, p)

LEMMA SeenFrom ==
    ASSUME NEW a \in Plane, NEW p \in Plane
    PROVE  East(a, p) \in Int /\ North(a, p) \in Int
  BY DEF Plane, East, North

LEMMA CrossIs ==
    ASSUME NEW p \in Plane, NEW a \in Plane, NEW b \in Plane
    PROVE  /\ Cross(a, b, p) \in Int
           /\ Orientation(a, b, p) = Cross(a, b, p)
           /\ Cross(b, a, p) = -Cross(a, b, p)
<1> DEFINE a1 == a[1]
           a2 == a[2]
           b1 == b[1]
           b2 == b[2]
           p1 == p[1]
           p2 == p[2]
<1>1. a1 \in Int /\ a2 \in Int /\ b1 \in Int /\ b2 \in Int /\ p1 \in Int /\ p2 \in Int
  BY DEF Plane
<1>2. /\ Cross(a, b, p) = (a1 - p1) * (b2 - p2) - (a2 - p2) * (b1 - p1)
      /\ Cross(b, a, p) = (b1 - p1) * (a2 - p2) - (b2 - p2) * (a1 - p1)
      /\ Orientation(a, b, p) = (b1 - a1) * (p2 - a2) - (b2 - a2) * (p1 - a1)
  BY DEF Cross, East, North, Orientation
<1> HIDE DEF a1, a2, b1, b2, p1, p2
<1>3. (a1 - p1) * (b2 - p2) - (a2 - p2) * (b1 - p1) \in Int
  BY <1>1
<1>4. (b1 - a1) * (p2 - a2) - (b2 - a2) * (p1 - a1)
          = (a1 - p1) * (b2 - p2) - (a2 - p2) * (b1 - p1)
  BY <1>1
<1>5. (b1 - p1) * (a2 - p2) - (b2 - p2) * (a1 - p1)
          = -((a1 - p1) * (b2 - p2) - (a2 - p2) * (b1 - p1))
  BY <1>1
<1> QED
  BY <1>2, <1>3, <1>4, <1>5

\* The ray to the east crosses an edge that comes from one side of its line
\* to the other and has p on its left, upwards, or on its right, downwards.
LEMMA CrossesIs ==
    ASSUME NEW p \in Plane, NEW a \in Plane, NEW b \in Plane
    PROVE  Crosses(p, a, b) <=>
               /\ North(a, p) > 0 <=> ~(North(b, p) > 0)
               /\ North(b, p) > 0 => Cross(a, b, p) > 0
               /\ ~(North(b, p) > 0) => Cross(a, b, p) < 0
<1> DEFINE a1 == a[1]
           a2 == a[2]
           b1 == b[1]
           b2 == b[2]
           p1 == p[1]
           p2 == p[2]
           left == (p1 - a1) * (b2 - a2)
           run == (b1 - a1) * (p2 - a2)
<1>1. a1 \in Int /\ a2 \in Int /\ b1 \in Int /\ b2 \in Int /\ p1 \in Int /\ p2 \in Int
  BY DEF Plane
<1>2. /\ North(a, p) = a2 - p2 /\ North(b, p) = b2 - p2
      /\ Cross(a, b, p) = (a1 - p1) * (b2 - p2) - (a2 - p2) * (b1 - p1)
  BY DEF Cross, East, North
<1>3. Crosses(p, a, b) <=>
          /\ a2 > p2 <=> ~(b2 > p2)
          /\ IF b2 - a2 > 0 THEN left < run ELSE left > run
  BY DEF Crosses
<1> HIDE DEF a1, a2, b1, b2, p1, p2
<1>4. (a1 - p1) * (b2 - p2) - (a2 - p2) * (b1 - p1) = run - left
  BY <1>1
<1>5. left \in Int /\ run \in Int
  BY <1>1
<1> HIDE DEF left, run
<1>6. (a2 > p2 <=> a2 - p2 > 0) /\ (b2 > p2 <=> b2 - p2 > 0)
  BY <1>1
<1>7. (a2 > p2 <=> ~(b2 > p2)) => (b2 - a2 > 0 <=> b2 > p2)
  BY <1>1
<1>8. (run - left > 0 <=> left < run) /\ (run - left < 0 <=> left > run)
  BY <1>5
<1> QED
  BY <1>2, <1>3, <1>4, <1>6, <1>7, <1>8

LEMMA CrossesBothWays ==
    ASSUME NEW p \in Plane, NEW a \in Plane, NEW b \in Plane
    PROVE  Crosses(p, a, b) <=> Crosses(p, b, a)
<1>1. /\ Cross(a, b, p) \in Int /\ Cross(b, a, p) = -Cross(a, b, p)
  BY CrossIs
<1>2. Cross(b, a, p) > 0 <=> Cross(a, b, p) < 0
  BY <1>1
<1>3. Cross(b, a, p) < 0 <=> Cross(a, b, p) > 0
  BY <1>1
<1> QED
  BY <1>2, <1>3, CrossesIs

(***************************************************************************)
(* Odd and even numbers of edges.                                          *)
(***************************************************************************)

Odd(S) == Cardinality(S) % 2 = 1

LEMMA OddUpTo ==
    ASSUME NEW n \in Nat, NEW S \in SUBSET (1..n), NEW k \in 1..n
    PROVE  Odd(S \cap (1..k)) <=> ~(Odd(S \cap (1..(k - 1))) <=> k \in S)
<1> DEFINE T == S \cap (1..(k - 1))
<1>1. IsFiniteSet(T)
  <2>1. IsFiniteSet(1..n)
    BY FS_Interval
  <2>2. T \in SUBSET (1..n)
    OBVIOUS
  <2> QED
    BY <2>1, <2>2, FS_Subset
<1>2. k \notin T
  OBVIOUS
<1>3. CASE k \in S
  <2>1. S \cap (1..k) = T \cup {k}
    BY <1>3
  <2> HIDE DEF T
  <2>2. Cardinality(T \cup {k}) = Cardinality(T) + 1 /\ Cardinality(T) \in Nat
    BY <1>1, <1>2, FS_AddElement, FS_CardinalityType
  <2>3. \A c \in Nat : (c + 1) % 2 = 1 <=> ~(c % 2 = 1)
    OBVIOUS
  <2>4. Odd(S \cap (1..k)) <=> ~Odd(T)
    BY <2>1, <2>2, <2>3 DEF Odd
  <2> QED
    BY <1>3, <2>4 DEF T
<1>4. CASE k \notin S
  <2>1. S \cap (1..k) = T
    BY <1>4
  <2> QED
    BY <1>4, <2>1
<1> QED
  BY <1>3, <1>4

LEMMA OddNone == \A S : ~Odd(S \cap (1..0))
<1> SUFFICES ASSUME NEW S PROVE ~Odd(S \cap (1..0))
  OBVIOUS
<1>1. S \cap (1..0) = {}
  OBVIOUS
<1> QED
  BY <1>1, FS_EmptySet DEF Odd

\* Two ways to count how often a round trip leaves or enters a region have the
\* same parity, when each step counts once for just one of them if it crosses
\* the border.
LEMMA RoundTrip ==
    ASSUME NEW n \in Nat \ {0}, NEW E \in SUBSET (1..n), NEW N \in SUBSET (1..n),
           NEW Q \in SUBSET (1..n),
           \A i \in 1..n : ~(i \in E <=> i \in N)
                               <=> ~(i \in Q <=> (IF i = 1 THEN n ELSE i - 1) \in Q)
    PROVE  Odd(E) <=> Odd(N)
<1> DEFINE e(k) == Odd(E \cap (1..k))
           t(k) == Odd(N \cap (1..k))
           at(k) == IF k = 0 THEN n \in Q ELSE k \in Q
           S == {k \in 0..n : ~(e(k) <=> t(k)) <=> ~(n \in Q <=> at(k))}
<1>1. 0 \in S
  <2>1. ~e(0) /\ ~t(0) /\ (at(0) <=> n \in Q)
    BY OddNone
  <2> HIDE DEF e, t, at
  <2> QED
    BY <2>1
<1>2. ASSUME NEW k \in 1..n, k - 1 \in S PROVE k \in S
  <2>1. e(k) <=> ~(e(k - 1) <=> k \in E)
    BY OddUpTo
  <2>2. t(k) <=> ~(t(k - 1) <=> k \in N)
    BY OddUpTo
  <2>3. (at(k) <=> k \in Q) /\ (at(k - 1) <=> (IF k = 1 THEN n ELSE k - 1) \in Q)
    OBVIOUS
  <2>4. ~(k \in E <=> k \in N) <=> ~(at(k) <=> at(k - 1))
    BY <2>3
  <2>5. ~(e(k - 1) <=> t(k - 1)) <=> ~(n \in Q <=> at(k - 1))
    BY <1>2
  <2>6. k \in 0..n
    OBVIOUS
  <2> HIDE DEF e, t, at
  <2>7. ~(e(k) <=> t(k)) <=> ~(n \in Q <=> at(k))
    BY <2>1, <2>2, <2>4, <2>5
  <2> QED
    BY <2>6, <2>7
<1>3. S = 0..n
  <2>1. S \in SUBSET (0..n)
    OBVIOUS
  <2> HIDE DEF S
  <2> QED
    BY <1>1, <1>2, <2>1, FirstWithout
<1>4. n \in S
  <2>1. n \in 0..n
    OBVIOUS
  <2> HIDE DEF S
  <2> QED
    BY <1>3, <2>1
<1>5. (e(n) <=> t(n))
  <2>1. at(n) <=> n \in Q
    OBVIOUS
  <2>2. ~(e(n) <=> t(n)) <=> ~(n \in Q <=> at(n))
    BY <1>4
  <2> HIDE DEF e, t, at
  <2> QED
    BY <2>1, <2>2
<1>6. E \cap (1..n) = E /\ N \cap (1..n) = N
  OBVIOUS
<1> QED
  BY <1>5, <1>6

\* Sets of indices that correspond one by one.
Correspond(n, A, B, there, back) ==
    /\ n \in Nat /\ A \in SUBSET (1..n) /\ B \in SUBSET (1..n)
    /\ there \in [1..n -> 1..n] /\ back \in [1..n -> 1..n]
    /\ \A i \in 1..n : back[there[i]] = i /\ there[back[i]] = i
    /\ \A i \in 1..n : i \in A <=> there[i] \in B

LEMMA SameNumber ==
    ASSUME NEW n, NEW A, NEW B, NEW there, NEW back, Correspond(n, A, B, there, back)
    PROVE  Cardinality(A) = Cardinality(B)
<1> USE DEF Correspond
<1> DEFINE f == [i \in A |-> there[i]]
<1>1. f \in [A -> B] /\ \A j \in B : \E i \in A : f[i] = j
  OBVIOUS
<1>2. \A i, j \in A : f[i] = f[j] => i = j
  OBVIOUS
<1> HIDE DEF f
<1>3. ExistsBijection(A, B)
  BY <1>1, <1>2 DEF ExistsBijection, Bijection, Surjection, Injection, IsInjective
<1>4. IsFiniteSet(A)
  <2>1. IsFiniteSet(1..n)
    BY FS_Interval
  <2> QED
    BY <2>1, FS_Subset
<1> QED
  BY <1>3, <1>4, FS_Bijection

(***************************************************************************)
(* Other ways to list the corners of a polygon.                            *)
(***************************************************************************)

LEMMA Neighbours ==
    ASSUME NEW s \in Seq(Plane)
    PROVE  /\ DOMAIN s = 1..Len(s) /\ Len(s) \in Nat
           /\ \A i \in 1..Len(s) :
                 /\ s[i] \in Plane
                 /\ After(i, s) \in 1..Len(s) /\ Before(i, s) \in 1..Len(s)
                 /\ After(Before(i, s), s) = i /\ Before(After(i, s), s) = i
<1>1. DOMAIN s = 1..Len(s) /\ Len(s) \in Nat
  BY LenProperties
<1>2. \A i \in 1..Len(s) : s[i] \in Plane
  BY ElementOfSeq
<1>3. \A i \in 1..Len(s) :
          /\ After(i, s) \in 1..Len(s) /\ Before(i, s) \in 1..Len(s)
          /\ After(Before(i, s), s) = i /\ Before(After(i, s), s) = i
  <2> DEFINE n == Len(s)
  <2>1. n \in Nat
    BY <1>1
  <2>2. \A i : /\ After(i, s) = IF i = n THEN 1 ELSE i + 1
               /\ Before(i, s) = IF i = 1 THEN n ELSE i - 1
    BY DEF After, Before
  <2> HIDE DEF n
  <2>3. \A i \in 1..n : After(i, s) \in 1..n /\ Before(i, s) \in 1..n
    BY <2>1, <2>2
  <2>4. \A i \in 1..n : After(Before(i, s), s) = i
    BY <2>1, <2>2
  <2>5. \A i \in 1..n : Before(After(i, s), s) = i
    BY <2>1, <2>2
  <2> QED
    BY <2>3, <2>4, <2>5 DEF n
<1> QED
  BY <1>1, <1>2, <1>3

LEMMA ListedAgain ==
    ASSUME NEW s \in Seq(Plane), NEW e(_), \A i \in 1..Len(s) : e(i) \in Plane
    PROVE  LET t == [i \in 1..Len(s) |-> e(i)] IN t \in Seq(Plane) /\ Len(t) = Len(s)
<1> DEFINE t == [i \in 1..Len(s) |-> e(i)]
<1>1. Len(s) \in Nat
  BY LenProperties
<1>2. t \in Seq(Plane)
  BY <1>1, IsASeq
<1>3. DOMAIN t = 1..Len(s)
  OBVIOUS
<1> HIDE DEF t
<1>4. DOMAIN t = 1..Len(t) /\ Len(t) \in Nat
  BY <1>2, LenProperties
<1>5. Len(t) = Len(s)
  BY <1>1, <1>3, <1>4
<1> QED
  BY <1>2, <1>5 DEF t

LEMMA RotatedIs ==
    ASSUME NEW s \in Seq(Plane)
    PROVE  /\ Rotated(s) \in Seq(Plane) /\ Len(Rotated(s)) = Len(s)
           /\ \A i \in 1..Len(s) : Rotated(s)[i] = s[After(i, s)]
<1>1. Rotated(s) = [i \in 1..Len(s) |-> s[After(i, s)]]
  BY Neighbours DEF Rotated
<1>2. \A i \in 1..Len(s) : s[After(i, s)] \in Plane
  BY Neighbours
<1> QED
  BY <1>1, <1>2, ListedAgain

LEMMA ReversedIs ==
    ASSUME NEW s \in Seq(Plane)
    PROVE  /\ Reversed(s) \in Seq(Plane) /\ Len(Reversed(s)) = Len(s)
           /\ \A i \in 1..Len(s) : /\ Reversed(s)[i] = s[Len(s) + 1 - i]
                                   /\ Len(s) + 1 - i \in 1..Len(s)
<1>1. Reversed(s) = [i \in 1..Len(s) |-> s[Len(s) + 1 - i]]
  BY Neighbours DEF Reversed
<1>2. Len(s) \in Nat
  BY LenProperties
<1>3. \A i \in 1..Len(s) : Len(s) + 1 - i \in 1..Len(s)
  BY <1>2
<1>4. \A i \in 1..Len(s) : s[Len(s) + 1 - i] \in Plane
  BY <1>3, Neighbours
<1> QED
  BY <1>1, <1>3, <1>4, ListedAgain

LEMMA SwappedIs ==
    ASSUME NEW s \in Seq(Plane)
    PROVE  /\ Swapped(s) \in Seq(Plane) /\ Len(Swapped(s)) = Len(s)
           /\ \A i \in 1..Len(s) : Swapped(s)[i] = Swap(s[i])
<1>1. Swapped(s) = [i \in 1..Len(s) |-> Swap(s[i])]
  BY Neighbours DEF Swapped
<1>2. \A a \in Plane : Swap(a) \in Plane
  BY DEF Swap, Plane
<1>3. \A i \in 1..Len(s) : Swap(s[i]) \in Plane
  BY <1>2, Neighbours
<1> QED
  BY <1>1, <1>3, ListedAgain

\* The edges that the ray from p to the east crosses.
Crossed(p, s) == {i \in 1..Len(s) : Crosses(p, s[i], s[Before(i, s)])}

LEMMA InsideIsOdd ==
    ASSUME NEW s \in Seq(Plane), NEW p
    PROVE  PointInPolygon(p, s) = Odd(Crossed(p, s))
<1>1. {i \in DOMAIN s : Crosses(p, s[i], s[Before(i, s)])} = Crossed(p, s)
  BY Neighbours DEF Crossed
<1> QED
  BY <1>1 DEF PointInPolygon, Odd

\* Edge i of the rotated polygon is the edge after i.
LEMMA InsideOfRotated ==
    ASSUME NEW s \in Seq(Plane), NEW p \in Plane
    PROVE  PointInPolygon(p, s) = PointInPolygon(p, Rotated(s))
<1> DEFINE n == Len(s)
           t == Rotated(s)
           there == [i \in 1..n |-> After(i, s)]
           back == [i \in 1..n |-> Before(i, s)]
<1>1. /\ t \in Seq(Plane) /\ Len(t) = n
      /\ \A i \in 1..n : t[i] = s[After(i, s)]
  BY RotatedIs
<1>2. \A i \in 1..n : /\ After(i, s) \in 1..n /\ Before(i, s) \in 1..n
                      /\ After(Before(i, s), s) = i /\ Before(After(i, s), s) = i
  BY Neighbours
<1>3. n \in Nat
  BY Neighbours
<1> HIDE DEF n, t
<1>4. \A i \in 1..n : i \in Crossed(p, t) <=> there[i] \in Crossed(p, s)
  <2> SUFFICES ASSUME NEW i \in 1..n
               PROVE  i \in Crossed(p, t) <=> there[i] \in Crossed(p, s)
    OBVIOUS
  <2>1. there[i] = After(i, s) /\ After(i, s) \in 1..n /\ Before(After(i, s), s) = i
    BY <1>2
  <2>2. Before(i, t) = Before(i, s)
    BY <1>1 DEF Before, n
  <2>3. t[i] = s[After(i, s)] /\ t[Before(i, t)] = s[i]
    BY <1>1, <1>2, <2>2
  <2> QED
    BY <1>1, <2>1, <2>3 DEF Crossed, n
<1>5. there \in [1..n -> 1..n] /\ back \in [1..n -> 1..n]
  BY <1>2
<1>6. \A i \in 1..n : back[there[i]] = i /\ there[back[i]] = i
  BY <1>2
<1>7. Crossed(p, t) \in SUBSET (1..n) /\ Crossed(p, s) \in SUBSET (1..n)
  BY <1>1 DEF Crossed, n
<1> HIDE DEF there, back
<1>8. Cardinality(Crossed(p, t)) = Cardinality(Crossed(p, s))
  <2>1. Correspond(n, Crossed(p, t), Crossed(p, s), there, back)
    BY <1>3, <1>4, <1>5, <1>6, <1>7 DEF Correspond
  <2> QED
    BY <2>1, SameNumber
<1> QED
  BY <1>1, <1>8, InsideIsOdd DEF Odd, t

\* Edge i of the reversed polygon is an edge of the polygon, turned around.
LEMMA InsideOfReversed ==
    ASSUME NEW s \in Seq(Plane), NEW p \in Plane
    PROVE  PointInPolygon(p, s) = PointInPolygon(p, Reversed(s))
<1> DEFINE n == Len(s)
           t == Reversed(s)
           there == [i \in 1..n |-> IF i = 1 THEN 1 ELSE n + 2 - i]
<1>1. /\ t \in Seq(Plane) /\ Len(t) = n
      /\ \A i \in 1..n : t[i] = s[n + 1 - i]
  BY ReversedIs
<1>2. n \in Nat /\ \A i \in 1..n : s[i] \in Plane
  BY Neighbours
<1> HIDE DEF n, t
<1>3. \A i \in 1..n : i \in Crossed(p, t) <=> there[i] \in Crossed(p, s)
  <2> SUFFICES ASSUME NEW i \in 1..n
               PROVE  i \in Crossed(p, t) <=> there[i] \in Crossed(p, s)
    OBVIOUS
  <2> DEFINE j == there[i]
             k == Before(j, s)
  <2>1. j \in 1..n /\ k \in 1..n /\ k = n + 1 - i
    BY <1>2 DEF Before, n
  <2>2. Before(i, t) \in 1..n /\ n + 1 - Before(i, t) = j
    BY <1>1, <1>2 DEF Before
  <2>3. t[i] = s[k] /\ t[Before(i, t)] = s[j]
    BY <1>1, <2>1, <2>2
  <2> HIDE DEF j
  <2>4. Crosses(p, s[k], s[j]) <=> Crosses(p, s[j], s[k])
    BY <1>2, <2>1, CrossesBothWays
  <2>5. i \in Crossed(p, t) <=> j \in Crossed(p, s)
    BY <1>1, <2>1, <2>3, <2>4 DEF Crossed, n
  <2> QED
    BY <2>5 DEF j
<1>4. there \in [1..n -> 1..n]
  BY <1>2
<1>5. \A i \in 1..n : there[there[i]] = i
  BY <1>2
<1>6. Crossed(p, t) \in SUBSET (1..n) /\ Crossed(p, s) \in SUBSET (1..n)
  BY <1>1 DEF Crossed, n
<1> HIDE DEF there
<1>7. Cardinality(Crossed(p, t)) = Cardinality(Crossed(p, s))
  <2>1. Correspond(n, Crossed(p, t), Crossed(p, s), there, there)
    BY <1>2, <1>3, <1>4, <1>5, <1>6 DEF Correspond
  <2> QED
    BY <2>1, SameNumber
<1> QED
  BY <1>1, <1>7, InsideIsOdd DEF Odd, t

(***************************************************************************)
(* Rays to the east and to the north.  The border of the quarter between   *)
(* them is met by an edge that goes into it or out of it.                  *)
(***************************************************************************)

LEMMA SignOfProduct ==
    ASSUME NEW x \in Int, NEW y \in Int
    PROVE  /\ x * y \in Int
           /\ x > 0 /\ y > 0 => x * y > 0
           /\ x > 0 /\ ~(y > 0) => x * y <= 0
           /\ ~(x > 0) /\ y > 0 => x * y <= 0
           /\ ~(x > 0) /\ ~(y > 0) => x * y >= 0
<1>1. x * y \in Int
  OBVIOUS
<1>2. x > 0 /\ y > 0 => x * y > 0
  BY SMTT(30)
<1>3. x > 0 /\ ~(y > 0) => x * y <= 0
  BY SMTT(30)
<1>4. ~(x > 0) /\ y > 0 => x * y <= 0
  BY SMTT(30)
<1>5. ~(x > 0) /\ ~(y > 0) => x * y >= 0
  BY SMTT(30)
<1> QED
  BY <1>1, <1>2, <1>3, <1>4, <1>5

LEMMA OnSegmentIs ==
    ASSUME NEW p \in Plane, NEW a \in Plane, NEW b \in Plane
    PROVE  OnSegment(p, a, b) <=> /\ Cross(a, b, p) = 0
                                  /\ East(a, p) * East(b, p) <= 0
                                  /\ North(a, p) * North(b, p) <= 0
<1> DEFINE a1 == a[1]
           a2 == a[2]
           b1 == b[1]
           b2 == b[2]
           p1 == p[1]
           p2 == p[2]
<1>1. a1 \in Int /\ a2 \in Int /\ b1 \in Int /\ b2 \in Int /\ p1 \in Int /\ p2 \in Int
  BY DEF Plane
<1>2. /\ East(a, p) * East(b, p) = (a1 - p1) * (b1 - p1)
      /\ North(a, p) * North(b, p) = (a2 - p2) * (b2 - p2)
  BY DEF East, North
<1>3. OnSegment(p, a, b) <=> /\ Orientation(a, b, p) = 0
                             /\ (p1 - a1) * (p1 - b1) <= 0
                             /\ (p2 - a2) * (p2 - b2) <= 0
  BY DEF OnSegment
<1> HIDE DEF a1, a2, b1, b2, p1, p2
<1>4. (p1 - a1) * (p1 - b1) = (a1 - p1) * (b1 - p1)
  BY <1>1
<1>5. (p2 - a2) * (p2 - b2) = (a2 - p2) * (b2 - p2)
  BY <1>1
<1> QED
  BY <1>2, <1>3, <1>4, <1>5, CrossIs

InQuarter(a, p) == East(a, p) > 0 /\ North(a, p) > 0

LEMMA EdgeOfQuarter ==
    ASSUME NEW p \in Plane, NEW a \in Plane, NEW b \in Plane, ~OnSegment(p, a, b)
    PROVE  ~(Crosses(p, a, b) <=> Crosses(Swap(p), Swap(a), Swap(b)))
               <=> ~(InQuarter(a, p) <=> InQuarter(b, p))
<1> DEFINE ax == East(a, p)
           ay == North(a, p)
           bx == East(b, p)
           by == North(b, p)
           u == ax * by
           v == ay * bx
           x == ax * bx
           y == ay * by
           c == Cross(a, b, p)
<1>1. ax \in Int /\ ay \in Int /\ bx \in Int /\ by \in Int
  BY SeenFrom
<1>2. Crosses(p, a, b) <=> /\ ay > 0 <=> ~(by > 0)
                           /\ by > 0 => c > 0
                           /\ ~(by > 0) => c < 0
  BY CrossesIs
<1>3. /\ Swap(p) \in Plane /\ Swap(a) \in Plane /\ Swap(b) \in Plane
      /\ North(Swap(a), Swap(p)) = ax /\ North(Swap(b), Swap(p)) = bx
      /\ East(Swap(a), Swap(p)) = ay /\ East(Swap(b), Swap(p)) = by
  BY DEF Swap, Plane, East, North
<1>4. Cross(Swap(a), Swap(b), Swap(p)) = ay * bx - ax * by
  BY <1>3 DEF Cross
<1>5. c = ax * by - ay * bx
  BY DEF Cross
<1>6. ~(c = 0 /\ x <= 0 /\ y <= 0)
  BY OnSegmentIs
<1> HIDE DEF ax, ay, bx, by, c
<1>7. /\ u \in Int
      /\ ax > 0 /\ by > 0 => u > 0
      /\ ax > 0 /\ ~(by > 0) => u <= 0
      /\ ~(ax > 0) /\ by > 0 => u <= 0
      /\ ~(ax > 0) /\ ~(by > 0) => u >= 0
  BY <1>1, SignOfProduct
<1>8. /\ v \in Int
      /\ ay > 0 /\ bx > 0 => v > 0
      /\ ay > 0 /\ ~(bx > 0) => v <= 0
      /\ ~(ay > 0) /\ bx > 0 => v <= 0
      /\ ~(ay > 0) /\ ~(bx > 0) => v >= 0
  BY <1>1, SignOfProduct
<1>9. (ax > 0 /\ ~(bx > 0) => x <= 0) /\ (~(ax > 0) /\ bx > 0 => x <= 0)
  BY <1>1, SignOfProduct
<1>10. (ay > 0 /\ ~(by > 0) => y <= 0) /\ (~(ay > 0) /\ by > 0 => y <= 0)
  BY <1>1, SignOfProduct
<1>11. c = u - v /\ Cross(Swap(a), Swap(b), Swap(p)) = v - u
  BY <1>4, <1>5
<1> HIDE DEF u, v, x, y
<1>12. Crosses(Swap(p), Swap(a), Swap(b)) <=> /\ ax > 0 <=> ~(bx > 0)
                                              /\ bx > 0 => v - u > 0
                                              /\ ~(bx > 0) => v - u < 0
  BY <1>3, <1>11, CrossesIs
<1>13. (v - u > 0 <=> c < 0) /\ (v - u < 0 <=> c > 0)
  BY <1>7, <1>8, <1>11
<1>14. /\ ~(ax > 0) /\ by > 0 /\ ~(ay > 0 /\ ~(bx > 0)) /\ ~(~(ay > 0) /\ bx > 0) => c <= 0
       /\ c \in Int
  BY <1>7, <1>8, <1>11
<1> DEFINE e == Crosses(p, a, b)
           t == Crosses(Swap(p), Swap(a), Swap(b))
<1>15. InQuarter(a, p) <=> ax > 0 /\ ay > 0
  BY DEF InQuarter, ax, ay
<1>16. InQuarter(b, p) <=> bx > 0 /\ by > 0
  BY DEF InQuarter, bx, by
<1>17. (ay > 0 <=> ~(by > 0)) /\ (ax > 0 <=> bx > 0) =>
           IF ax > 0 THEN (by > 0 <=> c > 0) /\ (~(by > 0) <=> c < 0)
           ELSE (by > 0 => ~(c > 0)) /\ (~(by > 0) => ~(c < 0))
  BY <1>7, <1>8, <1>11
<1>18. (ax > 0 <=> ~(bx > 0)) /\ (ay > 0 <=> by > 0) =>
           IF ay > 0 THEN (bx > 0 <=> c < 0) /\ (~(bx > 0) <=> c > 0)
           ELSE (bx > 0 => ~(c < 0)) /\ (~(bx > 0) => ~(c > 0))
  BY <1>7, <1>8, <1>11
<1>19. (ax > 0 <=> ~(bx > 0)) /\ (ay > 0 <=> ~(by > 0)) => c > 0 \/ c < 0
  BY <1>6, <1>9, <1>10, <1>14
<1>20. ~(c > 0 /\ c < 0)
  BY <1>14
<1> HIDE DEF e, t
<1> QED
  BY <1>2, <1>12, <1>13, <1>15, <1>16, <1>17, <1>18, <1>19, <1>20

\* The ray may as well go to the north.
LEMMA InsideOfSwapped ==
    ASSUME NEW s \in Seq(Plane), NEW p \in Plane, Len(s) # 0, ~OnBoundary(p, s)
    PROVE  PointInPolygon(p, s) = PointInPolygon(Swap(p), Swapped(s))
<1> DEFINE n == Len(s)
           E == Crossed(p, s)
           N == Crossed(Swap(p), Swapped(s))
           Q == {i \in 1..n : InQuarter(s[i], p)}
<1>1. n \in Nat \ {0} /\ \A i \in 1..n : s[i] \in Plane /\ Before(i, s) \in 1..n
  BY Neighbours
<1>2. /\ Swapped(s) \in Seq(Plane) /\ Len(Swapped(s)) = n
      /\ \A i \in 1..n : Swapped(s)[i] = Swap(s[i])
  BY SwappedIs
<1>3. \A i \in 1..n : Before(i, s) = IF i = 1 THEN n ELSE i - 1
  BY DEF Before
<1>4. \A i \in 1..n : Before(i, Swapped(s)) = Before(i, s)
  BY <1>2 DEF Before
<1> HIDE DEF n
<1>5. ASSUME NEW i \in 1..n
      PROVE  ~(i \in E <=> i \in N) <=> ~(i \in Q <=> Before(i, s) \in Q)
  <2> DEFINE j == Before(i, s)
  <2>1. j \in 1..n /\ s[i] \in Plane /\ s[j] \in Plane
    BY <1>1
  <2>2. ~OnSegment(p, s[j], s[i])
    <3>1. After(j, s) = i /\ j \in DOMAIN s
      BY <2>1, Neighbours DEF n
    <3> QED
      BY <3>1 DEF OnBoundary
  <2>3. i \in E <=> Crosses(p, s[i], s[j])
    BY DEF Crossed, n
  <2>4. i \in N <=> Crosses(Swap(p), Swap(s[i]), Swap(s[j]))
    BY <1>2, <1>4, <2>1 DEF Crossed
  <2>5. Crosses(p, s[i], s[j]) <=> Crosses(p, s[j], s[i])
    BY <2>1, CrossesBothWays
  <2>6. Crosses(Swap(p), Swap(s[i]), Swap(s[j])) <=> Crosses(Swap(p), Swap(s[j]), Swap(s[i]))
    <3>1. \A a \in Plane : Swap(a) \in Plane
      BY DEF Swap, Plane
    <3> QED
      BY <2>1, <3>1, CrossesBothWays
  <2>7. ~(Crosses(p, s[j], s[i]) <=> Crosses(Swap(p), Swap(s[j]), Swap(s[i])))
            <=> ~(InQuarter(s[j], p) <=> InQuarter(s[i], p))
    BY <2>1, <2>2, EdgeOfQuarter
  <2>8. (i \in Q <=> InQuarter(s[i], p)) /\ (j \in Q <=> InQuarter(s[j], p))
    BY <2>1
  <2> HIDE DEF E, N, Q, j
  <2>9. ~(i \in E <=> i \in N) <=> ~(i \in Q <=> j \in Q)
    BY <2>3, <2>4, <2>5, <2>6, <2>7, <2>8
  <2> QED
    BY <2>9 DEF j
<1>6. E \in SUBSET (1..n) /\ N \in SUBSET (1..n) /\ Q \in SUBSET (1..n)
  BY <1>2 DEF Crossed, n
<1> HIDE DEF E, N, Q
<1>7. \A i \in 1..n : ~(i \in E <=> i \in N)
                          <=> ~(i \in Q <=> (IF i = 1 THEN n ELSE i - 1) \in Q)
  BY <1>3, <1>5
<1>8. Odd(E) <=> Odd(N)
  BY <1>1, <1>6, <1>7, RoundTrip
<1>9. PointInPolygon(p, s) = Odd(E)
  BY InsideIsOdd DEF E
<1>10. PointInPolygon(Swap(p), Swapped(s)) = Odd(N)
  BY <1>2, InsideIsOdd DEF N
<1>11. Odd(E) = Odd(N)
  BY <1>8 DEF Odd
<1> QED
  BY <1>9, <1>10, <1>11

(***************************************************************************)
(* A triangle.                                                             *)
(***************************************************************************)

\* Off the edge, but with its ends on two sides of the ray's line, p is not on
\* the line of the edge.
LEMMA OffTheEdge ==
    ASSUME NEW p \in Plane, NEW a \in Plane, NEW b \in Plane, ~OnSegment(p, a, b),
           North(a, p) > 0 <=> ~(North(b, p) > 0)
    PROVE  Cross(a, b, p) > 0 \/ Cross(a, b, p) < 0
<1>1. Crosses(p, a, b) <=> /\ North(b, p) > 0 => Cross(a, b, p) > 0
                           /\ ~(North(b, p) > 0) => Cross(a, b, p) < 0
  BY CrossesIs
<1> DEFINE ax == East(a, p)
           ay == North(a, p)
           bx == East(b, p)
           by == North(b, p)
           u == ax * by
           v == ay * bx
<1>2. ax \in Int /\ ay \in Int /\ bx \in Int /\ by \in Int
  BY SeenFrom
<1>3. Cross(a, b, p) = u - v /\ Cross(a, b, p) \in Int
  BY CrossIs DEF Cross
<1>4. ay > 0 <=> ~(by > 0)
  OBVIOUS
<1>5. ~(Cross(a, b, p) = 0 /\ ax * bx <= 0 /\ ay * by <= 0)
  BY OnSegmentIs
<1> HIDE DEF ax, ay, bx, by
<1>6. ay * by <= 0
  BY <1>2, <1>4, SignOfProduct
<1>7. ax * bx <= 0 \/ (ax > 0 /\ bx > 0) \/ (ax < 0 /\ bx < 0)
  <2>1. (ax > 0 /\ ~(bx > 0) => ax * bx <= 0) /\ (~(ax > 0) /\ bx > 0 => ax * bx <= 0)
    BY <1>2, SignOfProduct
  <2>2. ax = 0 \/ bx = 0 => ax * bx <= 0
    BY <1>2
  <2> QED
    BY <1>2, <2>1, <2>2
<1>8. ax > 0 /\ bx > 0 => u - v > 0 \/ u - v < 0
  <2>1. /\ u \in Int /\ v \in Int
        /\ ax > 0 /\ by > 0 => u > 0
        /\ ax > 0 /\ ~(by > 0) => u <= 0
        /\ ay > 0 /\ bx > 0 => v > 0
        /\ ~(ay > 0) /\ bx > 0 => v <= 0
    BY <1>2, SignOfProduct
  <2> HIDE DEF u, v
  <2> QED
    BY <1>4, <2>1
<1>9. ax < 0 /\ bx < 0 => u - v > 0 \/ u - v < 0
  <2>1. /\ u \in Int /\ v \in Int
        /\ ax < 0 /\ by > 0 => u < 0
        /\ ax < 0 /\ ~(by > 0) => u >= 0
        /\ ay > 0 /\ bx < 0 => v < 0
        /\ ~(ay > 0) /\ bx < 0 => v >= 0
    BY <1>2, SMTT(30)
  <2> HIDE DEF u, v
  <2> QED
    BY <1>4, <2>1
<1> HIDE DEF u, v
<1> QED
  BY <1>3, <1>5, <1>6, <1>7, <1>8, <1>9

\* What p sees of three corners adds up.
LEMMA SumOfSides ==
    ASSUME NEW p \in Plane, NEW a \in Plane, NEW b \in Plane, NEW c \in Plane
    PROVE  Cross(a, b, p) * North(c, p) + Cross(b, c, p) * North(a, p)
               + Cross(c, a, p) * North(b, p) = 0
<1> DEFINE ax == East(a, p)
           ay == North(a, p)
           bx == East(b, p)
           by == North(b, p)
           cx == East(c, p)
           cy == North(c, p)
<1>1. /\ ax \in Int /\ ay \in Int /\ bx \in Int /\ by \in Int
      /\ cx \in Int /\ cy \in Int
  BY SeenFrom
<1>2. /\ Cross(a, b, p) = ax * by - ay * bx
      /\ Cross(b, c, p) = bx * cy - by * cx
      /\ Cross(c, a, p) = cx * ay - cy * ax
  BY DEF Cross
<1> HIDE DEF ax, ay, bx, by, cx, cy
<1>3. (ax * by - ay * bx) * cy + (bx * cy - by * cx) * ay + (cx * ay - cy * ax) * by = 0
  BY <1>1, SMTT(30)
<1> QED
  BY <1>2, <1>3 DEF ay, by, cy

OnOneSide(x, y, z) == (x > 0 /\ y > 0 /\ z > 0) \/ (x < 0 /\ y < 0 /\ z < 0)

\* No corner is alone on its side of the line of the ray: p is outside.
LEMMA NoneAlone ==
    ASSUME NEW p \in Plane, NEW a \in Plane, NEW b \in Plane, NEW c \in Plane,
           North(a, p) > 0 <=> North(b, p) > 0, North(b, p) > 0 <=> North(c, p) > 0
    PROVE  ~OnOneSide(Cross(a, b, p), Cross(b, c, p), Cross(c, a, p))
<1> DEFINE ay == North(a, p)
           by == North(b, p)
           cy == North(c, p)
           k == Cross(a, b, p)
           l == Cross(b, c, p)
           m == Cross(c, a, p)
<1>1. /\ ay \in Int /\ by \in Int /\ cy \in Int
      /\ k \in Int /\ l \in Int /\ m \in Int
  BY SeenFrom, CrossIs
<1>2. k * cy + l * ay + m * by = 0
  BY SumOfSides
<1>3. ay = 0 /\ by = 0 => k = 0
  <2>1. East(a, p) \in Int /\ East(b, p) \in Int
    BY SeenFrom
  <2>2. k = East(a, p) * by - ay * East(b, p)
    BY DEF Cross
  <2> HIDE DEF k, ay, by
  <2> QED
    BY <2>1, <2>2
<1>4. (ay > 0 <=> by > 0) /\ (by > 0 <=> cy > 0)
  OBVIOUS
<1> HIDE DEF ay, by, cy, k, l, m
<1> DEFINE u == k * cy
           v == l * ay
           w == m * by
<1>5. u \in Int /\ v \in Int /\ w \in Int
  BY <1>1
<1>6. CASE ay > 0
  <2>1. k > 0 /\ l > 0 /\ m > 0 => u > 0 /\ v > 0 /\ w > 0
    BY <1>1, <1>4, <1>6, SignOfProduct
  <2>2. k < 0 /\ l < 0 /\ m < 0 => u < 0 /\ v < 0 /\ w < 0
    BY <1>1, <1>4, <1>6, SMTT(30)
  <2> HIDE DEF u, v, w
  <2> QED
    BY <1>2, <1>5, <2>1, <2>2 DEF OnOneSide, k, l, m, u, v, w
<1>7. CASE ~(ay > 0)
  <2>1. k > 0 /\ l > 0 /\ m > 0 => /\ u <= 0 /\ v <= 0 /\ w <= 0
                                   /\ (v = 0 => ay = 0) /\ (w = 0 => by = 0)
    BY <1>1, <1>4, <1>7, SMTT(30)
  <2>2. k < 0 /\ l < 0 /\ m < 0 => /\ u >= 0 /\ v >= 0 /\ w >= 0
                                   /\ (v = 0 => ay = 0) /\ (w = 0 => by = 0)
    BY <1>1, <1>4, <1>7, SMTT(30)
  <2> HIDE DEF u, v, w
  <2>3. u + v + w = 0
    BY <1>2 DEF u, v, w
  <2>4. ~(k > 0 /\ l > 0 /\ m > 0)
    BY <1>1, <1>3, <1>5, <2>1, <2>3
  <2>5. ~(k < 0 /\ l < 0 /\ m < 0)
    BY <1>1, <1>3, <1>5, <2>2, <2>3
  <2> QED
    BY <2>4, <2>5 DEF OnOneSide, k, l, m
<1> QED
  BY <1>6, <1>7

\* One corner is alone on its side: p is inside if the two edges that leave it
\* have p on the same side.
LEMMA OneAlone ==
    ASSUME NEW p \in Plane, NEW a \in Plane, NEW b \in Plane, NEW c \in Plane,
           ~OnSegment(p, a, b), ~OnSegment(p, b, c), ~OnSegment(p, c, a),
           North(a, p) > 0 <=> ~(North(b, p) > 0), North(b, p) > 0 <=> North(c, p) > 0
    PROVE  /\ ~Crosses(p, b, c)
           /\ ~(Crosses(p, a, b) <=> Crosses(p, c, a))
                  <=> OnOneSide(Cross(a, b, p), Cross(b, c, p), Cross(c, a, p))
<1> DEFINE ay == North(a, p)
           by == North(b, p)
           cy == North(c, p)
           k == Cross(a, b, p)
           l == Cross(b, c, p)
           m == Cross(c, a, p)
<1>1. /\ ay \in Int /\ by \in Int /\ cy \in Int
      /\ k \in Int /\ l \in Int /\ m \in Int
  BY SeenFrom, CrossIs
<1>2. k * cy + l * ay + m * by = 0
  BY SumOfSides
<1>3. (ay > 0 <=> ~(by > 0)) /\ (by > 0 <=> cy > 0)
  OBVIOUS
<1>4. ~Crosses(p, b, c)
  BY CrossesIs
<1>5. Crosses(p, a, b) <=> (by > 0 => k > 0) /\ (~(by > 0) => k < 0)
  BY CrossesIs
<1>6. Crosses(p, c, a) <=> (ay > 0 => m > 0) /\ (~(ay > 0) => m < 0)
  BY CrossesIs
<1>7. k > 0 \/ k < 0
  BY OffTheEdge
<1>8. m > 0 \/ m < 0
  BY OffTheEdge
<1>9. by = 0 /\ cy = 0 => ~(k > 0 /\ m > 0) /\ ~(k < 0 /\ m < 0)
  <2> DEFINE ax == East(a, p)
             bx == East(b, p)
             cx == East(c, p)
  <2>1. ax \in Int /\ bx \in Int /\ cx \in Int
    BY SeenFrom
  <2>2. k = ax * by - ay * bx /\ l = bx * cy - by * cx /\ m = cx * ay - cy * ax
    BY DEF Cross
  <2>3. ~(l = 0 /\ bx * cx <= 0 /\ by * cy <= 0)
    BY OnSegmentIs
  <2> HIDE DEF ax, bx, cx, k, l, m, ay, by, cy
  <2> SUFFICES ASSUME by = 0, cy = 0 PROVE ~(k > 0 /\ m > 0) /\ ~(k < 0 /\ m < 0)
    OBVIOUS
  <2>4. k = -(ay * bx) /\ m = cx * ay /\ l = 0 /\ by * cy <= 0
    BY <1>1, <2>1, <2>2
  <2>5. ay > 0
    BY <1>1, <1>3
  <2> DEFINE g == ay * bx
             h == cx * ay
  <2>6. ~(bx * cx <= 0)
    BY <2>3, <2>4
  <2>7. (bx > 0 /\ cx > 0) \/ (bx < 0 /\ cx < 0)
    BY <2>1, <2>6, SMTT(30)
  <2>8. CASE bx > 0 /\ cx > 0
    <3>1. g > 0 /\ h > 0
      BY <1>1, <2>1, <2>5, <2>8, SignOfProduct
    <3>2. g \in Int /\ h \in Int /\ k = -g /\ m = h
      BY <1>1, <2>1, <2>4
    <3> HIDE DEF g, h
    <3> QED
      BY <3>1, <3>2
  <2>9. CASE bx < 0 /\ cx < 0
    <3>1. g < 0 /\ h < 0
      BY <1>1, <2>1, <2>5, <2>9, SMTT(30)
    <3>2. g \in Int /\ h \in Int /\ k = -g /\ m = h
      BY <1>1, <2>1, <2>4
    <3> HIDE DEF g, h
    <3> QED
      BY <3>1, <3>2
  <2> QED
    BY <2>7, <2>8, <2>9
<1> HIDE DEF ay, by, cy, k, l, m
<1> DEFINE u == k * cy
           v == l * ay
           w == m * by
<1>10. u \in Int /\ v \in Int /\ w \in Int /\ u + v + w = 0
  BY <1>1, <1>2
<1>11. ASSUME k > 0, m > 0 PROVE l > 0
  <2>1. CASE ay > 0
    <3>1. u <= 0 /\ w <= 0 /\ (u = 0 => cy = 0) /\ (w = 0 => by = 0)
      BY <1>1, <1>3, <1>11, <2>1, SMTT(30)
    <3>2. ~(l > 0) => v <= 0
      BY <1>1, <2>1, SignOfProduct
    <3> HIDE DEF u, v, w
    <3> QED
      BY <1>9, <1>10, <1>11, <3>1, <3>2
  <2>2. CASE ~(ay > 0)
    <3>1. u > 0 /\ w > 0
      BY <1>1, <1>3, <1>11, <2>2, SignOfProduct
    <3>2. ~(l > 0) => v >= 0
      BY <1>1, <2>2, SignOfProduct
    <3> HIDE DEF u, v, w
    <3> QED
      BY <1>10, <3>1, <3>2
  <2> QED
    BY <2>1, <2>2
<1>12. ASSUME k < 0, m < 0 PROVE l < 0
  <2>1. CASE ay > 0
    <3>1. u >= 0 /\ w >= 0 /\ (u = 0 => cy = 0) /\ (w = 0 => by = 0)
      BY <1>1, <1>3, <1>12, <2>1, SMTT(30)
    <3>2. ~(l < 0) => v >= 0
      BY <1>1, <2>1, SMTT(30)
    <3> HIDE DEF u, v, w
    <3> QED
      BY <1>9, <1>10, <1>12, <3>1, <3>2
  <2>2. CASE ~(ay > 0)
    <3>1. u < 0 /\ w < 0
      BY <1>1, <1>3, <1>12, <2>2, SMTT(30)
    <3>2. ~(l < 0) => v <= 0
      BY <1>1, <2>2, SMTT(30)
    <3> HIDE DEF u, v, w
    <3> QED
      BY <1>10, <3>1, <3>2
  <2> QED
    BY <2>1, <2>2
<1>13. ~(Crosses(p, a, b) <=> Crosses(p, c, a)) <=> (k > 0 /\ m > 0) \/ (k < 0 /\ m < 0)
  BY <1>1, <1>3, <1>5, <1>6, <1>7, <1>8
<1>14. OnOneSide(k, l, m) <=> (k > 0 /\ m > 0) \/ (k < 0 /\ m < 0)
  BY <1>11, <1>12 DEF OnOneSide
<1> QED
  BY <1>4, <1>13, <1>14 DEF k, l, m

LEMMA InsideOfTriangle ==
    ASSUME NEW s \in Seq(Plane), NEW p \in Plane, Len(s) = 3, ~OnBoundary(p, s)
    PROVE  PointInPolygon(p, s) <=>
               \/ \A i \in DOMAIN s : Orientation(s[i], s[After(i, s)], p) > 0
               \/ \A i \in DOMAIN s : Orientation(s[i], s[After(i, s)], p) < 0
<1> DEFINE a == s[1]
           b == s[2]
           c == s[3]
           k == Cross(a, b, p)
           l == Cross(b, c, p)
           m == Cross(c, a, p)
           S == Crossed(p, s)
<1>1. DOMAIN s = 1..3 /\ a \in Plane /\ b \in Plane /\ c \in Plane
  <2>1. /\ DOMAIN s = 1..3
        /\ \A i \in 1..3 : s[i] \in Plane
    BY Neighbours
  <2>2. 1 \in 1..3 /\ 2 \in 1..3 /\ 3 \in 1..3
    OBVIOUS
  <2> QED
    BY <2>1, <2>2
<1>2. After(1, s) = 2 /\ After(2, s) = 3 /\ After(3, s) = 1
  BY DEF After
<1>3. Before(1, s) = 3 /\ Before(2, s) = 1 /\ Before(3, s) = 2
  BY DEF Before
<1>4. ~OnSegment(p, a, b) /\ ~OnSegment(p, b, c) /\ ~OnSegment(p, c, a)
  <2>1. 1 \in DOMAIN s /\ 2 \in DOMAIN s /\ 3 \in DOMAIN s
    BY <1>1
  <2> QED
    BY <1>2, <2>1 DEF OnBoundary
<1>5. OnOneSide(k, l, m) <=>
          \/ \A i \in DOMAIN s : Orientation(s[i], s[After(i, s)], p) > 0
          \/ \A i \in DOMAIN s : Orientation(s[i], s[After(i, s)], p) < 0
  <2>1. /\ Orientation(s[1], s[After(1, s)], p) = k
        /\ Orientation(s[2], s[After(2, s)], p) = l
        /\ Orientation(s[3], s[After(3, s)], p) = m
    BY <1>1, <1>2, CrossIs
  <2>2. \A i : i \in DOMAIN s <=> i = 1 \/ i = 2 \/ i = 3
    BY <1>1
  <2> HIDE DEF k, l, m
  <2> QED
    BY <2>1, <2>2 DEF OnOneSide
<1>6. /\ 1 \in S <=> Crosses(p, c, a)
      /\ 2 \in S <=> Crosses(p, a, b)
      /\ 3 \in S <=> Crosses(p, b, c)
  <2>1. S = {i \in 1..3 : Crosses(p, s[i], s[Before(i, s)])}
    BY DEF Crossed
  <2>2. /\ 1 \in S <=> Crosses(p, a, c)
        /\ 2 \in S <=> Crosses(p, b, a)
        /\ 3 \in S <=> Crosses(p, c, b)
    BY <1>3, <2>1
  <2> QED
    BY <1>1, <2>2, CrossesBothWays
<1>7. S \in SUBSET (1..3)
  BY DEF Crossed
<1> HIDE DEF S
<1>8. Odd(S) <=> (~(~(1 \in S <=> 2 \in S) <=> 3 \in S))
  <2>1. \A j \in 1..3 : Odd(S \cap (1..j)) <=> ~(Odd(S \cap (1..(j - 1))) <=> j \in S)
    BY <1>7, OddUpTo
  <2>2. 1 \in 1..3 /\ 2 \in 1..3 /\ 3 \in 1..3 /\ 1 - 1 = 0 /\ 2 - 1 = 1 /\ 3 - 1 = 2
    OBVIOUS
  <2>3. /\ Odd(S \cap (1..1)) <=> ~(Odd(S \cap (1..0)) <=> 1 \in S)
        /\ Odd(S \cap (1..2)) <=> ~(Odd(S \cap (1..1)) <=> 2 \in S)
        /\ Odd(S \cap (1..3)) <=> ~(Odd(S \cap (1..2)) <=> 3 \in S)
    BY <2>1, <2>2
  <2>4. S \cap (1..3) = S
    BY <1>7
  <2> QED
    BY <2>3, <2>4, OddNone
<1> DEFINE high(x) == North(x, p) > 0
           ab == Crosses(p, a, b)
           bc == Crosses(p, b, c)
           ca == Crosses(p, c, a)
<1>9. (~(~(ca <=> ab) <=> bc)) <=> OnOneSide(k, l, m)
  <2>1. CASE (high(a) <=> high(b)) /\ (high(b) <=> high(c))
    <3>1. ~ab /\ ~bc /\ ~ca
      BY <1>1, <2>1, CrossesIs
    <3>2. ~OnOneSide(k, l, m)
      BY <1>1, <2>1, NoneAlone
    <3> HIDE DEF ab, bc, ca
    <3> QED
      BY <3>1, <3>2
  <2>2. CASE (high(a) <=> ~high(b)) /\ (high(b) <=> high(c))
    <3>1. ~bc /\ (~(ab <=> ca) <=> OnOneSide(k, l, m))
      BY <1>1, <1>4, <2>2, OneAlone
    <3> HIDE DEF ab, bc, ca
    <3> QED
      BY <3>1
  <2>3. CASE (high(b) <=> ~high(c)) /\ (high(c) <=> high(a))
    <3>1. ~ca /\ (~(bc <=> ab) <=> OnOneSide(l, m, k))
      BY <1>1, <1>4, <2>3, OneAlone
    <3>2. OnOneSide(l, m, k) <=> OnOneSide(k, l, m)
      BY DEF OnOneSide
    <3> HIDE DEF ab, bc, ca
    <3> QED
      BY <3>1, <3>2
  <2>4. CASE (high(c) <=> ~high(a)) /\ (high(a) <=> high(b))
    <3>1. ~ab /\ (~(ca <=> bc) <=> OnOneSide(m, k, l))
      BY <1>1, <1>4, <2>4, OneAlone
    <3>2. OnOneSide(m, k, l) <=> OnOneSide(k, l, m)
      BY DEF OnOneSide
    <3> HIDE DEF ab, bc, ca
    <3> QED
      BY <3>1, <3>2
  <2> HIDE DEF high, ab, bc, ca
  <2> QED
    BY <2>1, <2>2, <2>3, <2>4
<1>10. PointInPolygon(p, s) = Odd(S)
  BY InsideIsOdd DEF S
<1> HIDE DEF k, l, m
<1> QED
  BY <1>5, <1>6, <1>8, <1>9, <1>10

(***************************************************************************)
(* Sides that cross.                                                       *)
(***************************************************************************)

Crossing(s, i, j) == Intersects(s[i], s[After(i, s)], s[j], s[After(j, s)])
NotNext(s, i, j) == i # j /\ j # After(i, s) /\ i # After(j, s)
SidesApart(s) == \A i, j \in 1..Len(s) : NotNext(s, i, j) => ~Crossing(s, i, j)
Corners(s) == {s[i] : i \in DOMAIN s}

LEMMA ValidShapeIs ==
    ASSUME NEW s \in Seq(Plane)
    PROVE  ValidShape(s) <=> /\ Len(s) >= 3 /\ Cardinality(Corners(s)) >= 3
                             /\ SidesApart(s)
<1>1. DOMAIN s = 1..Len(s) /\ Len(s) \in Nat
  BY Neighbours
<1>2. \A i, j : Crossing(s, i, j) <=> Crossing(s, j, i)
  BY DEF Crossing, Intersects
<1>3. \A i, j : NotNext(s, i, j) <=> NotNext(s, j, i)
  BY DEF NotNext
<1>4. ValidShape(s) <=>
          /\ Len(s) >= 3 /\ Cardinality(Corners(s)) >= 3
          /\ \A i, j \in 1..Len(s) : i < j /\ NotNext(s, i, j) => ~Crossing(s, i, j)
  <2>1. \A i, j \in 1..Len(s) :
            (i < j /\ j # After(i, s) /\ i # After(j, s)) <=> (i < j /\ NotNext(s, i, j))
    BY <1>1 DEF NotNext
  <2>2. ValidShape(s) <=>
            /\ Len(s) >= 3 /\ Cardinality(Corners(s)) >= 3
            /\ \A i, j \in 1..Len(s) :
                  i < j /\ j # After(i, s) /\ i # After(j, s) => ~Crossing(s, i, j)
    BY <1>1 DEF ValidShape, Corners, Crossing
  <2> QED
    BY <2>1, <2>2
<1>5. (\A i, j \in 1..Len(s) : i < j /\ NotNext(s, i, j) => ~Crossing(s, i, j)) => SidesApart(s)
  <2> SUFFICES ASSUME \A i, j \in 1..Len(s) : i < j /\ NotNext(s, i, j) => ~Crossing(s, i, j),
                      NEW i \in 1..Len(s), NEW j \in 1..Len(s), NotNext(s, i, j)
               PROVE  ~Crossing(s, i, j)
    BY DEF SidesApart
  <2>1. i < j \/ j < i
    BY <1>1 DEF NotNext
  <2> QED
    BY <1>2, <1>3, <2>1
<1> QED
  BY <1>4, <1>5 DEF SidesApart

\* The sides of t are those of s, each under another number.
SameSides(s, t, there, back) ==
    /\ s \in Seq(Plane) /\ t \in Seq(Plane) /\ Len(t) = Len(s)
    /\ there \in [1..Len(s) -> 1..Len(s)] /\ back \in [1..Len(s) -> 1..Len(s)]
    /\ \A i \in 1..Len(s) : back[there[i]] = i /\ there[back[i]] = i
    /\ \A i, j \in 1..Len(s) : /\ NotNext(t, i, j) <=> NotNext(s, there[i], there[j])
                               /\ Crossing(t, i, j) <=> Crossing(s, there[i], there[j])
    /\ Corners(t) = Corners(s)

LEMMA SameShape ==
    ASSUME NEW s, NEW t, NEW there, NEW back, SameSides(s, t, there, back)
    PROVE  ValidShape(s) = ValidShape(t)
<1> DEFINE n == Len(s)
<1>1. /\ s \in Seq(Plane) /\ t \in Seq(Plane) /\ Len(t) = n
      /\ there \in [1..n -> 1..n] /\ back \in [1..n -> 1..n]
      /\ \A i \in 1..n : back[there[i]] = i /\ there[back[i]] = i
      /\ \A i, j \in 1..n : /\ NotNext(t, i, j) <=> NotNext(s, there[i], there[j])
                            /\ Crossing(t, i, j) <=> Crossing(s, there[i], there[j])
      /\ Corners(t) = Corners(s)
  BY DEF SameSides
<1>2. /\ SidesApart(s) <=> \A i, j \in 1..n : NotNext(s, i, j) => ~Crossing(s, i, j)
      /\ SidesApart(t) <=> \A i, j \in 1..n : NotNext(t, i, j) => ~Crossing(t, i, j)
  BY <1>1 DEF SidesApart
<1> HIDE DEF n
<1>3. SidesApart(s) => SidesApart(t)
  BY <1>1, <1>2
<1>4. ASSUME SidesApart(t), NEW i \in 1..n, NEW j \in 1..n, NotNext(s, i, j)
      PROVE  ~Crossing(s, i, j)
  <2>1. back[i] \in 1..n /\ back[j] \in 1..n
    BY <1>1
  <2>2. there[back[i]] = i /\ there[back[j]] = j
    BY <1>1
  <2>3. /\ NotNext(t, back[i], back[j]) <=> NotNext(s, i, j)
        /\ Crossing(t, back[i], back[j]) <=> Crossing(s, i, j)
    BY <1>1, <2>1, <2>2, SMTT(60)
  <2> QED
    BY <1>2, <1>4, <2>1, <2>3
<1>5. ValidShape(s) <=> ValidShape(t)
  BY <1>1, <1>2, <1>3, <1>4, ValidShapeIs DEF n
<1> QED
  BY <1>5 DEF ValidShape

LEMMA ShapeOfRotated ==
    ASSUME NEW s \in Seq(Plane)
    PROVE  ValidShape(s) = ValidShape(Rotated(s))
<1> DEFINE n == Len(s)
           t == Rotated(s)
           there == [i \in 1..n |-> After(i, s)]
           back == [i \in 1..n |-> Before(i, s)]
<1>1. /\ t \in Seq(Plane) /\ Len(t) = n
      /\ \A i \in 1..n : t[i] = s[After(i, s)]
  BY RotatedIs
<1>2. \A i \in 1..n : /\ After(i, s) \in 1..n /\ Before(i, s) \in 1..n
                      /\ After(Before(i, s), s) = i /\ Before(After(i, s), s) = i
  BY Neighbours
<1>3. DOMAIN s = 1..n /\ DOMAIN t = 1..n
  BY <1>1, Neighbours
<1>4. \A i : After(i, t) = After(i, s)
  BY <1>1 DEF After
<1> HIDE DEF n, t
<1>5. there \in [1..n -> 1..n] /\ back \in [1..n -> 1..n]
  BY <1>2
<1>6. \A i \in 1..n : back[there[i]] = i /\ there[back[i]] = i
  BY <1>2
<1>7. \A i, j \in 1..n : NotNext(t, i, j) <=> NotNext(s, there[i], there[j])
  <2> SUFFICES ASSUME NEW i \in 1..n, NEW j \in 1..n
               PROVE  NotNext(t, i, j) <=> NotNext(s, there[i], there[j])
    OBVIOUS
  <2>1. \A x, y \in 1..n : x = y <=> After(x, s) = After(y, s)
    BY <1>2
  <2>2. there[i] = After(i, s) /\ there[j] = After(j, s)
    OBVIOUS
  <2> QED
    BY <1>2, <1>4, <2>1, <2>2 DEF NotNext
<1>8. \A i, j \in 1..n : Crossing(t, i, j) <=> Crossing(s, there[i], there[j])
  <2> SUFFICES ASSUME NEW i \in 1..n, NEW j \in 1..n
               PROVE  Crossing(t, i, j) <=> Crossing(s, there[i], there[j])
    OBVIOUS
  <2>1. there[i] = After(i, s) /\ there[j] = After(j, s)
    OBVIOUS
  <2>2. /\ t[i] = s[there[i]] /\ t[After(i, t)] = s[After(there[i], s)]
        /\ t[j] = s[there[j]] /\ t[After(j, t)] = s[After(there[j], s)]
    BY <1>1, <1>2, <1>4, <2>1
  <2> QED
    BY <2>2 DEF Crossing
<1>9. Corners(t) = Corners(s)
  <2>1. \A i \in 1..n : t[i] = s[After(i, s)] /\ s[i] = t[Before(i, s)]
    BY <1>1, <1>2
  <2> QED
    BY <1>2, <1>3, <2>1 DEF Corners
<1> HIDE DEF there, back
<1>10. SameSides(s, t, there, back)
  BY <1>1, <1>5, <1>6, <1>7, <1>8, <1>9 DEF SameSides, n
<1> QED
  BY <1>10, SameShape DEF t

LEMMA IntersectsTurned ==
    ASSUME NEW a \in Plane, NEW b \in Plane, NEW c \in Plane, NEW d \in Plane
    PROVE  Intersects(b, a, d, c) <=> Intersects(a, b, c, d)
<1> DEFINE x == Orientation(a, b, c)
           y == Orientation(a, b, d)
           z == Orientation(c, d, a)
           w == Orientation(c, d, b)
<1>1. x \in Int /\ y \in Int /\ z \in Int /\ w \in Int
  BY CrossIs
<1>2. /\ Orientation(b, a, c) = -x /\ Orientation(b, a, d) = -y
      /\ Orientation(d, c, a) = -z /\ Orientation(d, c, b) = -w
  BY CrossIs
<1>3. Intersects(a, b, c, d) <=> x * y < 0 /\ z * w < 0
  BY DEF Intersects
<1>4. Intersects(b, a, d, c) <=> (-y) * (-x) < 0 /\ (-w) * (-z) < 0
  BY <1>2 DEF Intersects
<1> HIDE DEF x, y, z, w
<1>5. (-y) * (-x) = x * y /\ (-w) * (-z) = z * w
  BY <1>1
<1> QED
  BY <1>3, <1>4, <1>5

LEMMA ShapeOfReversed ==
    ASSUME NEW s \in Seq(Plane)
    PROVE  ValidShape(s) = ValidShape(Reversed(s))
<1> DEFINE n == Len(s)
           t == Reversed(s)
           mirror(i) == n + 1 - i
           there == [i \in 1..n |-> Before(mirror(i), s)]
           back == [i \in 1..n |-> mirror(After(i, s))]
<1>1. /\ t \in Seq(Plane) /\ Len(t) = n
      /\ \A i \in 1..n : t[i] = s[mirror(i)] /\ mirror(i) \in 1..n
  BY ReversedIs
<1>2. \A i \in 1..n : /\ After(i, s) \in 1..n /\ Before(i, s) \in 1..n
                      /\ After(Before(i, s), s) = i /\ Before(After(i, s), s) = i
                      /\ s[i] \in Plane
  BY Neighbours
<1>3. n \in Nat /\ DOMAIN s = 1..n /\ DOMAIN t = 1..n
  BY <1>1, Neighbours
<1>4. \A i \in 1..n : /\ After(i, t) \in 1..n
                      /\ mirror(After(i, t)) = Before(mirror(i), s)
  <2>1. \A i : After(i, t) = IF i = n THEN 1 ELSE i + 1
    BY <1>1 DEF After
  <2>2. \A i : Before(i, s) = IF i = 1 THEN n ELSE i - 1
    BY DEF Before
  <2> HIDE DEF n, t
  <2> QED
    BY <1>3, <2>1, <2>2
<1>5. \A i \in 1..n : mirror(mirror(i)) = i
  BY <1>3
<1> HIDE DEF n, t, mirror
<1>6. there \in [1..n -> 1..n] /\ back \in [1..n -> 1..n]
  BY <1>1, <1>2
<1>7. \A i \in 1..n : back[there[i]] = i /\ there[back[i]] = i
  BY <1>1, <1>2, <1>5
<1>8. \A i, j \in 1..n : NotNext(t, i, j) <=> NotNext(s, there[i], there[j])
  <2> SUFFICES ASSUME NEW i \in 1..n, NEW j \in 1..n
               PROVE  NotNext(t, i, j) <=> NotNext(s, there[i], there[j])
    OBVIOUS
  <2>1. \A x, y \in 1..n : x = y <=> there[x] = there[y]
    BY <1>7
  <2>2. \A x \in 1..n : there[After(x, t)] = Before(there[x], s)
    BY <1>4
  <2>3. \A x, y \in 1..n : there[x] = Before(there[y], s) <=> there[y] = After(there[x], s)
    <3>1. \A x \in 1..n : there[x] \in 1..n
      BY <1>6
    <3> HIDE DEF there
    <3> QED
      BY <1>2, <3>1
  <2> HIDE DEF there
  <2>4. \A x, y \in 1..n : x = After(y, t) <=> there[y] = After(there[x], s)
    <3> SUFFICES ASSUME NEW x \in 1..n, NEW y \in 1..n
                 PROVE  x = After(y, t) <=> there[y] = After(there[x], s)
      OBVIOUS
    <3>1. x = After(y, t) <=> there[x] = there[After(y, t)]
      BY <1>4, <2>1
    <3>2. there[After(y, t)] = Before(there[y], s)
      BY <2>2
    <3> QED
      BY <2>3, <3>1, <3>2
  <2> QED
    BY <2>1, <2>4 DEF NotNext
<1>9. \A i, j \in 1..n : Crossing(t, i, j) <=> Crossing(s, there[i], there[j])
  <2> SUFFICES ASSUME NEW i \in 1..n, NEW j \in 1..n
               PROVE  Crossing(t, i, j) <=> Crossing(s, there[i], there[j])
    OBVIOUS
  <2>1. \A x \in 1..n : /\ there[x] \in 1..n /\ After(there[x], s) \in 1..n
                        /\ t[x] = s[After(there[x], s)] /\ t[After(x, t)] = s[there[x]]
    <3> SUFFICES ASSUME NEW x \in 1..n
                 PROVE  /\ there[x] \in 1..n /\ After(there[x], s) \in 1..n
                        /\ t[x] = s[After(there[x], s)] /\ t[After(x, t)] = s[there[x]]
      OBVIOUS
    <3>1. mirror(x) \in 1..n /\ there[x] = Before(mirror(x), s)
      BY <1>1
    <3>2. there[x] \in 1..n /\ After(there[x], s) = mirror(x)
      BY <1>2, <3>1
    <3>3. t[After(x, t)] = s[mirror(After(x, t))]
      BY <1>1, <1>4
    <3> QED
      BY <1>1, <1>4, <3>1, <3>2, <3>3
  <2> HIDE DEF there
  <2>2. /\ s[there[i]] \in Plane /\ s[After(there[i], s)] \in Plane
        /\ s[there[j]] \in Plane /\ s[After(there[j], s)] \in Plane
    BY <1>2, <2>1
  <2> QED
    BY <2>1, <2>2, IntersectsTurned DEF Crossing
<1>10. Corners(t) = Corners(s)
  <2>1. \A i \in 1..n : mirror(i) \in 1..n /\ t[i] = s[mirror(i)] /\ s[i] = t[mirror(i)]
    BY <1>1, <1>5
  <2> QED
    BY <1>3, <2>1 DEF Corners
<1> HIDE DEF there, back
<1>11. SameSides(s, t, there, back)
  BY <1>1, <1>6, <1>7, <1>8, <1>9, <1>10 DEF SameSides, n
<1> QED
  BY <1>11, SameShape DEF t

\* Two segments cross if and only if they are the diagonals of a convex field.
LEMMA CrossingDiagonals ==
    ASSUME NEW a \in Plane, NEW b \in Plane, NEW c \in Plane, NEW d \in Plane
    PROVE  Intersects(a, b, c, d) <=> ConvexQuad(a, c, b, d)
<1> DEFINE x == Orientation(a, b, c)
           y == Orientation(a, b, d)
           z == Orientation(c, d, a)
           w == Orientation(c, d, b)
<1>1. x \in Int /\ y \in Int /\ z \in Int /\ w \in Int
  BY CrossIs
<1>2. /\ Orientation(a, c, b) = -x /\ Orientation(c, b, d) = -w
      /\ Orientation(b, d, a) = y /\ Orientation(d, a, c) = z
      /\ x - y = w - z
  <2> DEFINE a1 == a[1]
             a2 == a[2]
             b1 == b[1]
             b2 == b[2]
             c1 == c[1]
             c2 == c[2]
             d1 == d[1]
             d2 == d[2]
  <2>1. /\ a1 \in Int /\ a2 \in Int /\ b1 \in Int /\ b2 \in Int
        /\ c1 \in Int /\ c2 \in Int /\ d1 \in Int /\ d2 \in Int
    BY DEF Plane
  <2>2. /\ x = (b1 - a1) * (c2 - a2) - (b2 - a2) * (c1 - a1)
        /\ y = (b1 - a1) * (d2 - a2) - (b2 - a2) * (d1 - a1)
        /\ z = (d1 - c1) * (a2 - c2) - (d2 - c2) * (a1 - c1)
        /\ w = (d1 - c1) * (b2 - c2) - (d2 - c2) * (b1 - c1)
        /\ Orientation(a, c, b) = (c1 - a1) * (b2 - a2) - (c2 - a2) * (b1 - a1)
        /\ Orientation(c, b, d) = (b1 - c1) * (d2 - c2) - (b2 - c2) * (d1 - c1)
        /\ Orientation(b, d, a) = (d1 - b1) * (a2 - b2) - (d2 - b2) * (a1 - b1)
        /\ Orientation(d, a, c) = (a1 - d1) * (c2 - d2) - (a2 - d2) * (c1 - d1)
    BY DEF Orientation
  <2> HIDE DEF a1, a2, b1, b2, c1, c2, d1, d2, x, y, z, w
  <2>3. Orientation(a, c, b) = -x
    BY <2>1, <2>2
  <2>4. Orientation(c, b, d) = -w
    BY <2>1, <2>2
  <2>5. Orientation(b, d, a) = y
    BY <2>1, <2>2
  <2>6. Orientation(d, a, c) = z
    BY <2>1, <2>2
  <2>7. x - y = w - z
    BY <2>1, <2>2
  <2> QED
    BY <2>3, <2>4, <2>5, <2>6, <2>7
<1>3. Intersects(a, b, c, d) <=> x * y < 0 /\ z * w < 0
  BY DEF Intersects
<1>4. ConvexQuad(a, c, b, d) <=> \/ -x > 0 /\ -w > 0 /\ y > 0 /\ z > 0
                                 \/ -x < 0 /\ -w < 0 /\ y < 0 /\ z < 0
  BY <1>2 DEF ConvexQuad
<1> HIDE DEF x, y, z, w
<1>5. x * y < 0 <=> (x > 0 /\ y < 0) \/ (x < 0 /\ y > 0)
  BY <1>1, SMTT(30)
<1>6. z * w < 0 <=> (z > 0 /\ w < 0) \/ (z < 0 /\ w > 0)
  BY <1>1, SMTT(30)
<1> QED
  BY <1>1, <1>2, <1>3, <1>4, <1>5, <1>6

LEMMA FourCorners ==
    ASSUME NEW s \in Seq(Plane), Len(s) = 4, Cardinality(Corners(s)) >= 3
    PROVE  ~ValidShape(s) <=> \/ ConvexQuad(s[1], s[3], s[2], s[4])
                              \/ ConvexQuad(s[2], s[4], s[3], s[1])
<1>1. After(1, s) = 2 /\ After(2, s) = 3 /\ After(3, s) = 4 /\ After(4, s) = 1
  BY DEF After
<1>2. s[1] \in Plane /\ s[2] \in Plane /\ s[3] \in Plane /\ s[4] \in Plane
  <2>1. \A i \in 1..4 : s[i] \in Plane
    BY Neighbours
  <2> QED
    BY <2>1
<1>3. ValidShape(s) <=> SidesApart(s)
  BY ValidShapeIs, SMTT(60)
<1>4. /\ Crossing(s, 1, 3) <=> Intersects(s[1], s[2], s[3], s[4])
      /\ Crossing(s, 2, 4) <=> Intersects(s[2], s[3], s[4], s[1])
  BY <1>1 DEF Crossing
<1>5. /\ Crossing(s, 3, 1) <=> Crossing(s, 1, 3)
      /\ Crossing(s, 4, 2) <=> Crossing(s, 2, 4)
  BY DEF Crossing, Intersects
<1>6. \A i, j \in 1..4 : NotNext(s, i, j) <=> <<i, j>> \in {<<1, 3>>, <<3, 1>>, <<2, 4>>, <<4, 2>>}
  <2>1. \A i \in 1..4 : i = 1 \/ i = 2 \/ i = 3 \/ i = 4
    OBVIOUS
  <2> QED
    BY <1>1, <2>1 DEF NotNext
<1>7. SidesApart(s) <=> ~Crossing(s, 1, 3) /\ ~Crossing(s, 2, 4)
  <2>1. 1 \in 1..4 /\ 2 \in 1..4 /\ 3 \in 1..4 /\ 4 \in 1..4
    OBVIOUS
  <2>2. SidesApart(s) <=> \A i, j \in 1..4 : NotNext(s, i, j) => ~Crossing(s, i, j)
    BY DEF SidesApart
  <2> QED
    BY <1>5, <1>6, <2>1, <2>2
<1>8. /\ Intersects(s[1], s[2], s[3], s[4]) <=> ConvexQuad(s[1], s[3], s[2], s[4])
      /\ Intersects(s[2], s[3], s[4], s[1]) <=> ConvexQuad(s[2], s[4], s[3], s[1])
  BY <1>2, CrossingDiagonals
<1> QED
  BY <1>3, <1>4, <1>7, <1>8

CornersTyped == topic = "polygon" => input \in Seq(Grid)

LEMMA CornersStayTyped == Spec => []CornersTyped
<1>1. Init => CornersTyped
  <2> SUFFICES ASSUME Init, topic = "polygon" PROVE input \in Seq(Grid)
    BY DEF CornersTyped
  <2>1. input = <<>>
    BY DEF Init, FirstInput
  <2> QED
    BY <2>1, EmptySeq
<1>2. ASSUME CornersTyped, [Next]_vars PROVE CornersTyped'
  <2>1. CASE UNCHANGED vars
    BY <1>2, <2>1 DEF CornersTyped, vars
  <2>2. ASSUME NEW p \in Grid, AddCorner(p) PROVE CornersTyped'
    <3>1. input \in Seq(Grid) /\ input' = Append(input, p)
      BY <1>2, <2>2 DEF CornersTyped, AddCorner
    <3> QED
      BY <3>1, AppendProperties DEF CornersTyped
  <2>3. ASSUME topic # "polygon", topic' = topic PROVE CornersTyped'
    BY <2>3 DEF CornersTyped
  <2>4. ASSUME NEW d \in {1, 2}, NEW leaf \in Leaves, AddLeaf(d, leaf) PROVE CornersTyped'
    BY <2>3, <2>4 DEF AddLeaf, Computing
  <2>5. ASSUME NEW row \in Rows, AddRow(row) PROVE CornersTyped'
    BY <2>3, <2>5 DEF AddRow, Computing
  <2>6. CASE NextLine
    BY <2>3, <2>6 DEF NextLine, Computing
  <2>7. ASSUME NEW zone \in {"+07:00", "Z"}, AddEvent(zone) PROVE CornersTyped'
    BY <2>3, <2>7 DEF AddEvent, Computing
  <2>8. CASE topic \in {"listing", "history", "pilot"} /\ UNCHANGED topic
    BY <2>3, <2>8
  <2> QED
    BY <1>2, <2>1, <2>2, <2>4, <2>5, <2>6, <2>7, <2>8 DEF Next
<1> QED
  BY <1>1, <1>2, PTL DEF Spec

\* pointInPolygon and validatePolygonShape for every polygon on every grid:
\* a place off the border is inside or outside whatever corner the list begins
\* with, whichever way round it runs and whichever way the ray is cast; in a
\* triangle it is inside if it is on one side of all edges; and of the fields
\* with four corners those are refused in which two sides cross.
THEOREM FieldsAreWellDefined == Spec => []GeometryInv
<1>1. ASSUME CornersTyped PROVE GeometryInv
  <2> SUFFICES ASSUME topic = "polygon"
               PROVE  /\ Len(input) >= 3 => InsideIsWellDefined(input)
                      /\ TriangleIsInside(input)
                      /\ CrossingsAreRefused(input)
    BY DEF GeometryInv
  <2>1. Grid \subseteq Plane
    BY GeometryAssumption DEF Grid, Plane
  <2>2. input \in Seq(Plane)
    <3>1. input \in Seq(Grid)
      BY <1>1 DEF CornersTyped
    <3> QED
      BY <2>1, <3>1, SeqMonotonic
  <2> DEFINE s == input
  <2>3. s \in Seq(Plane)
    BY <2>2
  <2> HIDE DEF s
  <2>4. Len(s) >= 3 => InsideIsWellDefined(s)
    <3> SUFFICES ASSUME Len(s) >= 3, NEW p \in Grid, ~OnBoundary(p, s)
                 PROVE  /\ PointInPolygon(p, s) = PointInPolygon(p, Rotated(s))
                        /\ PointInPolygon(p, s) = PointInPolygon(p, Reversed(s))
                        /\ PointInPolygon(p, s) = PointInPolygon(Swap(p), Swapped(s))
      BY DEF InsideIsWellDefined
    <3>1. p \in Plane /\ Len(s) # 0
      BY <2>1
    <3> QED
      BY <2>3, <3>1, InsideOfRotated, InsideOfReversed, InsideOfSwapped
  <2>5. TriangleIsInside(s)
    <3> SUFFICES ASSUME Len(s) = 3, NEW p \in Grid, ~OnBoundary(p, s)
                 PROVE  PointInPolygon(p, s) <=>
                            \/ \A i \in DOMAIN s : Orientation(s[i], s[After(i, s)], p) > 0
                            \/ \A i \in DOMAIN s : Orientation(s[i], s[After(i, s)], p) < 0
      BY DEF TriangleIsInside
    <3>1. p \in Plane
      BY <2>1
    <3> QED
      BY <2>3, <3>1, InsideOfTriangle
  <2>6. CrossingsAreRefused(s)
    <3>1. ValidShape(s) = ValidShape(Rotated(s)) /\ ValidShape(s) = ValidShape(Reversed(s))
      BY <2>3, ShapeOfRotated, ShapeOfReversed
    <3>2. Len(s) = 4 /\ Cardinality({s[i] : i \in DOMAIN s}) >= 3 =>
              (~ValidShape(s) <=> \/ ConvexQuad(s[1], s[3], s[2], s[4])
                                  \/ ConvexQuad(s[2], s[4], s[3], s[1]))
      BY <2>3, FourCorners DEF Corners
    <3> QED
      BY <3>1, <3>2 DEF CrossingsAreRefused
  <2> QED
    BY <2>4, <2>5, <2>6 DEF s
<1> QED
  BY <1>1, CornersStayTyped, PTL

(***************************************************************************)
(* Ratings.  No two issues of one harvest have the same code, so that the  *)
(* sum over them is one of a weight, or nothing, for each code.            *)
(***************************************************************************)

IssuesOfRules(S) ==
    /\ IsFiniteSet(S)
    /\ \A i \in S : i.code \in DOMAIN RISK_WEIGHTS /\ i.score = RISK_WEIGHTS[i.code]
    /\ \A i, j \in S : i.code = j.code => i = j

WeightOf(S, c) == IF \E i \in S : i.code = c THEN RISK_WEIGHTS[c] ELSE 0

TotalWeight(S) ==
    WeightOf(S, "G") + WeightOf(S, "Y") + WeightOf(S, "D") + WeightOf(S, "T") +
    WeightOf(S, "R") + WeightOf(S, "W") + WeightOf(S, "A") + WeightOf(S, "S")

LEMMA Weights ==
    /\ DOMAIN RISK_WEIGHTS = {"G", "Y", "D", "T", "R", "W", "A", "S"}
    /\ \A c \in DOMAIN RISK_WEIGHTS : RISK_WEIGHTS[c] \in Nat
    /\ \A S : \A c \in DOMAIN RISK_WEIGHTS : WeightOf(S, c) \in Nat
<1>1. DOMAIN RISK_WEIGHTS = {"G", "Y", "D", "T", "R", "W", "A", "S"}
  BY DEF RISK_WEIGHTS
<1>2. \A c \in DOMAIN RISK_WEIGHTS : RISK_WEIGHTS[c] \in Nat
  BY DEF RISK_WEIGHTS
<1> QED
  BY <1>1, <1>2 DEF WeightOf

LEMMA TotalWithout ==
    ASSUME NEW S, IssuesOfRules(S), NEW x \in S
    PROVE  TotalWeight(S) = x.score + TotalWeight(S \ {x}) /\ TotalWeight(S \ {x}) \in Nat
<1> DEFINE T == S \ {x}
           with(c) == WeightOf(S, c)
           without(c) == WeightOf(T, c)
<1>1. \A c \in DOMAIN RISK_WEIGHTS : c # x.code => with(c) = without(c)
  BY DEF WeightOf
<1>2. with(x.code) = x.score /\ without(x.code) = 0
  BY DEF WeightOf, IssuesOfRules
<1>3. x.code \in DOMAIN RISK_WEIGHTS
  BY DEF IssuesOfRules
<1>4. \A c \in DOMAIN RISK_WEIGHTS : with(c) \in Nat /\ without(c) \in Nat
  BY Weights
<1>5. TotalWeight(S) = with("G") + with("Y") + with("D") + with("T") + with("R") + with("W")
                           + with("A") + with("S")
  BY DEF TotalWeight
<1>6. TotalWeight(T) = without("G") + without("Y") + without("D") + without("T") + without("R")
                           + without("W") + without("A") + without("S")
  BY DEF TotalWeight
<1> DEFINE gone(c) == IF c = x.code THEN x.score ELSE 0
<1> HIDE DEF T, with, without
<1>7. \A c \in DOMAIN RISK_WEIGHTS : with(c) = without(c) + gone(c) /\ gone(c) \in Nat
  BY <1>1, <1>2, <1>3, <1>4
<1>8. gone("G") + gone("Y") + gone("D") + gone("T") + gone("R") + gone("W") + gone("A")
          + gone("S") = x.score
  BY <1>2, <1>3, <1>4, Weights
<1> HIDE DEF gone
<1>9. \A c \in {"G", "Y", "D", "T", "R", "W", "A", "S"} :
          with(c) = without(c) + gone(c) /\ gone(c) \in Nat /\ without(c) \in Nat
  BY <1>4, <1>7, Weights
<1>10. TotalWeight(S) = x.score + TotalWeight(T)
  BY <1>5, <1>6, <1>8, <1>9
<1>11. TotalWeight(T) \in Nat
  BY <1>6, <1>9
<1> QED
  BY <1>10, <1>11 DEF T

OneOf(S) == CHOOSE x \in S : TRUE

LEMMA SumIsTotal ==
    ASSUME NEW S, IssuesOfRules(S)
    PROVE  MapThenSumSet(LAMBDA i : i.score, S) = TotalWeight(S)
<1> DEFINE Sums(f) == f = [U \in SUBSET S |-> IF U = {} THEN 0
                                              ELSE OneOf(U).score + f[U \ {OneOf(U)}]]
           total == [U \in SUBSET S |-> TotalWeight(U)]
           sum == CHOOSE f : Sums(f)
<1>1. MapThenSumSet(LAMBDA i : i.score, S) = sum[S]
  BY DEF MapThenSumSet, MapThenFoldSet, OneOf
<1>2. \A U \in SUBSET S : IssuesOfRules(U)
  BY FS_Subset DEF IssuesOfRules
<1>3. \A U \in SUBSET S : U # {} => OneOf(U) \in U
  BY DEF OneOf
<1>4. \A U \in SUBSET S : TotalWeight(U) = IF U = {} THEN 0
                                           ELSE OneOf(U).score + TotalWeight(U \ {OneOf(U)})
  <2> SUFFICES ASSUME NEW U \in SUBSET S
               PROVE  TotalWeight(U) = IF U = {} THEN 0
                                       ELSE OneOf(U).score + TotalWeight(U \ {OneOf(U)})
    OBVIOUS
  <2>1. CASE U = {}
    BY <2>1 DEF TotalWeight, WeightOf
  <2>2. CASE U # {}
    BY <1>2, <1>3, <2>2, TotalWithout
  <2> QED
    BY <2>1, <2>2
<1>5. Sums(total)
  <2>1. \A U \in SUBSET S : U # {} => U \ {OneOf(U)} \in SUBSET S
    OBVIOUS
  <2>2. total = [U \in SUBSET S |-> IF U = {} THEN 0
                                    ELSE OneOf(U).score + total[U \ {OneOf(U)}]]
    BY <1>4, <2>1
  <2> HIDE DEF total
  <2> QED
    BY <2>2
<1>6. Sums(sum)
  <2> HIDE DEF total, Sums
  <2> QED
    BY <1>5
<1>7. \A U \in SUBSET S : sum[U] = IF U = {} THEN 0 ELSE OneOf(U).score + sum[U \ {OneOf(U)}]
  <2> HIDE DEF sum
  <2> QED
    BY <1>6
<1> HIDE DEF sum
<1> DEFINE B == {U \in SUBSET S : sum[U] # TotalWeight(U)}
<1>8. B = {}
  <2> SUFFICES ASSUME B # {} PROVE FALSE
    OBVIOUS
  <2>1. B \subseteq FiniteSubsetsOf(S)
    BY FS_FiniteSubsetsOfFinite DEF IssuesOfRules
  <2>2. PICK U \in B : \A V \in B : <<V, U>> \notin StrictSubsetOrdering(S)
    BY <2>1, FS_StrictSubsetOrderingWellFounded, WFMin
  <2>3. U # {}
    BY <1>4, <1>7
  <2>4. U \ {OneOf(U)} \notin B
    <3>1. <<U \ {OneOf(U)}, U>> \in StrictSubsetOrdering(S)
      BY <1>3, <2>3 DEF StrictSubsetOrdering
    <3> QED
      BY <2>2, <3>1
  <2>5. sum[U \ {OneOf(U)}] = TotalWeight(U \ {OneOf(U)})
    BY <2>4
  <2> QED
    BY <1>4, <1>7, <2>3, <2>5
<1>9. sum[S] = TotalWeight(S)
  BY <1>8
<1> QED
  BY <1>1, <1>9

\* A harvest as ValidationService can be given one.
AnyHarvest ==
    [plotActive : BOOLEAN, geofence : {"in", "out", "unknown"}, inside : BOOLEAN,
     seasonal : Nat, kg : Nat, maxYield : Nat, reused : BOOLEAN, nearby : Nat,
     actor : [known : BOOLEAN, active : BOOLEAN, role : STRING, owns : BOOLEAN],
     integrity : STRING, accuracy : Nat \cup {-1}]

Outside(x) == x.geofence = "out" \/ (x.geofence = "unknown" /\ ~x.inside)

\* Which codes a harvest is given.
GivenCode(x, c) == \E i \in HarvestIssues(x) : i.code = c

LEMMA GivenCodes ==
    ASSUME NEW x
    PROVE  /\ IssuesOfRules(HarvestIssues(x))
           /\ GivenCode(x, "S") <=> ~x.plotActive
           /\ GivenCode(x, "G") <=> Outside(x)
           /\ GivenCode(x, "Y") <=> x.seasonal + x.kg > x.maxYield
           /\ GivenCode(x, "D") <=> x.reused
           /\ GivenCode(x, "T") <=> x.nearby >= 3
           /\ GivenCode(x, "R") <=> ~MayHarvest(x.actor)
           /\ GivenCode(x, "A") <=> x.integrity = "compromised" \/ x.accuracy > 100
           /\ ~GivenCode(x, "W")
           /\ (\E i \in HarvestIssues(x) : i.severity = "block")
                  <=> \/ ~x.plotActive \/ Outside(x) \/ x.reused \/ ~MayHarvest(x.actor)
                      \/ x.integrity = "compromised"
<1> DEFINE all == {Issue("S", "block"), Issue("G", "block"), Issue("Y", "warning"),
                   Issue("D", "block"), Issue("T", "warning"), Issue("R", "block"),
                   Issue("A", "block"), Issue("A", "warning")}
           H == HarvestIssues(x)
<1>1. IsFiniteSet(H)
  <2>1. IsFiniteSet(all)
    <3> DEFINE four == {Issue("S", "block"), Issue("G", "block"), Issue("Y", "warning"),
                        Issue("D", "block")}
               more == {Issue("T", "warning"), Issue("R", "block"), Issue("A", "block"),
                        Issue("A", "warning")}
    <3>1. \A a, b, c, d : IsFiniteSet({a, b, c, d})
      <4> SUFFICES ASSUME NEW a, NEW b, NEW c, NEW d PROVE IsFiniteSet({a, b, c, d})
        OBVIOUS
      <4>1. \A S, e : IsFiniteSet(S) => IsFiniteSet(S \cup {e})
        BY FS_AddElement
      <4>2. IsFiniteSet({a})
        BY FS_Singleton
      <4>3. IsFiniteSet({a} \cup {b})
        BY <4>1, <4>2
      <4>4. IsFiniteSet(({a} \cup {b}) \cup {c})
        BY <4>1, <4>3
      <4>5. IsFiniteSet((({a} \cup {b}) \cup {c}) \cup {d})
        BY <4>1, <4>4
      <4>6. {a, b, c, d} = (({a} \cup {b}) \cup {c}) \cup {d}
        OBVIOUS
      <4> QED
        BY <4>5, <4>6
    <3>2. IsFiniteSet(four) /\ IsFiniteSet(more)
      BY <3>1
    <3>3. all = four \cup more
      OBVIOUS
    <3> HIDE DEF all, four, more
    <3> QED
      BY <3>2, <3>3, FS_Union
  <2>2. H \subseteq all
    BY DEF HarvestIssues, DeviceIssues
  <2> HIDE DEF all, H
  <2> QED
    BY <2>1, <2>2, FS_Subset
<1>2. \A c, v : Issue(c, v).code = c /\ Issue(c, v).severity = v
                /\ Issue(c, v).score = RISK_WEIGHTS[c]
  BY DEF Issue
<1>3. \A i : i \in H <=> \/ i = Issue("S", "block") /\ ~x.plotActive
                         \/ i = Issue("G", "block") /\ Outside(x)
                         \/ i = Issue("Y", "warning") /\ x.seasonal + x.kg > x.maxYield
                         \/ i = Issue("D", "block") /\ x.reused
                         \/ i = Issue("T", "warning") /\ x.nearby >= 3
                         \/ i = Issue("R", "block") /\ ~MayHarvest(x.actor)
                         \/ i = Issue("A", "block") /\ x.integrity = "compromised"
                         \/ i = Issue("A", "warning") /\ x.accuracy > 100
                                /\ x.integrity # "compromised"
  BY DEF HarvestIssues, DeviceIssues, Outside
<1> HIDE DEF H
<1>4. \A i \in H : i.code \in DOMAIN RISK_WEIGHTS /\ i.score = RISK_WEIGHTS[i.code]
  BY <1>2, <1>3, Weights
<1>5. \A i, j \in H : i.code = j.code => i = j
  BY <1>2, <1>3
<1>6. IssuesOfRules(H)
  BY <1>1, <1>4, <1>5 DEF IssuesOfRules
<1>7. \A c : GivenCode(x, c) <=> \E i \in H : i.code = c
  BY DEF GivenCode, H
<1>8. GivenCode(x, "S") <=> ~x.plotActive
  BY <1>2, <1>3, <1>7
<1>9. GivenCode(x, "G") <=> Outside(x)
  BY <1>2, <1>3, <1>7
<1>10. GivenCode(x, "Y") <=> x.seasonal + x.kg > x.maxYield
  BY <1>2, <1>3, <1>7
<1>11. GivenCode(x, "D") <=> x.reused
  BY <1>2, <1>3, <1>7
<1>12. GivenCode(x, "T") <=> x.nearby >= 3
  BY <1>2, <1>3, <1>7
<1>13. GivenCode(x, "R") <=> ~MayHarvest(x.actor)
  BY <1>2, <1>3, <1>7
<1>14. GivenCode(x, "A") <=> x.integrity = "compromised" \/ x.accuracy > 100
  BY <1>2, <1>3, <1>7
<1>15. ~GivenCode(x, "W")
  BY <1>2, <1>3, <1>7
<1>16. (\E i \in H : i.severity = "block")
           <=> \/ ~x.plotActive \/ Outside(x) \/ x.reused \/ ~MayHarvest(x.actor)
               \/ x.integrity = "compromised"
  BY <1>2, <1>3
<1> QED
  BY <1>6, <1>8, <1>9, <1>10, <1>11, <1>12, <1>13, <1>14, <1>15, <1>16 DEF H

Capped(n) == IF n < 100 THEN n ELSE 100

LEMMA RatingIs ==
    ASSUME NEW x
    PROVE  /\ ValidateHarvest(x).score = Capped(TotalWeight(HarvestIssues(x)))
           /\ ValidateHarvest(x).band = RiskBand(Capped(TotalWeight(HarvestIssues(x))))
           /\ ValidateHarvest(x).accepted = ~\E i \in HarvestIssues(x) : i.severity = "block"
           /\ TotalWeight(HarvestIssues(x)) \in Nat
<1> DEFINE H == HarvestIssues(x)
<1>1. MapThenSumSet(LAMBDA i : i.score, H) = TotalWeight(H)
  BY GivenCodes, SumIsTotal
<1>2. TotalWeight(H) \in Nat
  BY Weights DEF TotalWeight
<1>3. ValidateHarvest(x) =
          [score |-> Capped(MapThenSumSet(LAMBDA i : i.score, H)),
           band |-> RiskBand(Capped(MapThenSumSet(LAMBDA i : i.score, H))), issues |-> H,
           accepted |-> ~\E i \in H : i.severity = "block"]
  BY DEF ValidateHarvest, Summarize, Capped
<1> HIDE DEF H
<1> QED
  BY <1>1, <1>2, <1>3 DEF H

\* A harvest with more codes weighs more.
LEMMA MoreWeighsMore ==
    ASSUME NEW x, NEW y, \A c \in DOMAIN RISK_WEIGHTS : GivenCode(x, c) => GivenCode(y, c)
    PROVE  ValidateHarvest(y).score >= ValidateHarvest(x).score
<1> DEFINE X == HarvestIssues(x)
           Y == HarvestIssues(y)
           wx(c) == WeightOf(X, c)
           wy(c) == WeightOf(Y, c)
<1>1. \A c \in DOMAIN RISK_WEIGHTS : wx(c) <= wy(c) /\ wx(c) \in Nat /\ wy(c) \in Nat
  BY Weights DEF WeightOf, GivenCode
<1>2. /\ TotalWeight(X) = wx("G") + wx("Y") + wx("D") + wx("T") + wx("R") + wx("W") + wx("A")
                              + wx("S")
      /\ TotalWeight(Y) = wy("G") + wy("Y") + wy("D") + wy("T") + wy("R") + wy("W") + wy("A")
                              + wy("S")
  BY DEF TotalWeight
<1> HIDE DEF X, Y, wx, wy
<1>3. \A c \in {"G", "Y", "D", "T", "R", "W", "A", "S"} :
          wx(c) <= wy(c) /\ wx(c) \in Nat /\ wy(c) \in Nat
  BY <1>1, Weights
<1>4. TotalWeight(X) <= TotalWeight(Y) /\ TotalWeight(X) \in Nat /\ TotalWeight(Y) \in Nat
  BY <1>2, <1>3
<1>5. Capped(TotalWeight(Y)) >= Capped(TotalWeight(X))
  BY <1>4 DEF Capped
<1> QED
  BY <1>5, RatingIs DEF X, Y

LEMMA WorseIsGivenMore ==
    ASSUME NEW x \in AnyHarvest, NEW y \in Worse(x)
    PROVE  /\ \A c \in DOMAIN RISK_WEIGHTS : GivenCode(x, c) => GivenCode(y, c)
           /\ ValidateHarvest(y).accepted => ValidateHarvest(x).accepted
<1>1. /\ y.plotActive => x.plotActive
      /\ Outside(x) => Outside(y)
      /\ x.seasonal + x.kg > x.maxYield => y.seasonal + y.kg > y.maxYield
      /\ x.reused => y.reused
      /\ x.nearby >= 3 => y.nearby >= 3
      /\ MayHarvest(y.actor) => MayHarvest(x.actor)
      /\ x.integrity = "compromised" => y.integrity = "compromised"
      /\ x.accuracy > 100 => y.accuracy > 100
  <2> USE DEF AnyHarvest, Outside, MayHarvest
  <2>1. CASE y = [x EXCEPT !.plotActive = FALSE]
    BY <2>1
  <2>2. CASE y = [x EXCEPT !.geofence = "out"]
    BY <2>2
  <2>3. CASE y = [x EXCEPT !.inside = FALSE]
    BY <2>3
  <2>4. CASE y = [x EXCEPT !.kg = @ + 1]
    BY <2>4
  <2>5. CASE y = [x EXCEPT !.reused = TRUE]
    BY <2>5
  <2>6. CASE y = [x EXCEPT !.nearby = @ + 1]
    BY <2>6
  <2>7. CASE y = [x EXCEPT !.actor.active = FALSE]
    BY <2>7
  <2>8. CASE y = [x EXCEPT !.actor.owns = FALSE]
    BY <2>8
  <2>9. CASE y = [x EXCEPT !.integrity = "compromised"]
    BY <2>9
  <2>10. CASE y = [x EXCEPT !.accuracy = IF @ = -1 THEN 101 ELSE @ + 1]
    BY <2>10
  <2> QED
    BY <2>1, <2>2, <2>3, <2>4, <2>5, <2>6, <2>7, <2>8, <2>9, <2>10 DEF Worse
<1>2. \A c \in DOMAIN RISK_WEIGHTS : GivenCode(x, c) => GivenCode(y, c)
  BY <1>1, GivenCodes, Weights
<1>3. ValidateHarvest(y).accepted => ValidateHarvest(x).accepted
  BY <1>1, GivenCodes, RatingIs
<1> QED
  BY <1>2, <1>3

\* The rating of any harvest, with any weights, distances and counts: one that
\* is accepted is not red, and making it worse in one thing neither lowers its
\* score nor gets it accepted.
THEOREM RatingIsFair ==
    ASSUME NEW x \in AnyHarvest
    PROVE  AcceptedIsNotRed(x) /\ WorseNeverHelps(x)
<1>1. AcceptedIsNotRed(x)
  <2> DEFINE H == HarvestIssues(x)
             w(c) == WeightOf(H, c)
  <2> SUFFICES ASSUME ValidateHarvest(x).accepted PROVE ValidateHarvest(x).band # "red"
    BY DEF AcceptedIsNotRed
  <2>1. w("S") = 0 /\ w("G") = 0 /\ w("D") = 0 /\ w("R") = 0 /\ w("W") = 0
    BY GivenCodes, RatingIs, ZenonT(60) DEF WeightOf, GivenCode
  <2>2. w("Y") \in {0, 30} /\ w("T") \in {0, 15} /\ w("A") \in {0, 20}
    BY DEF WeightOf, RISK_WEIGHTS
  <2>3. TotalWeight(H) = w("G") + w("Y") + w("D") + w("T") + w("R") + w("W") + w("A") + w("S")
    BY DEF TotalWeight
  <2>4. TotalWeight(H) \in Nat /\ ValidateHarvest(x).band = RiskBand(Capped(TotalWeight(H)))
    BY RatingIs
  <2> HIDE DEF H, w
  <2>5. TotalWeight(H) <= 65
    BY <2>1, <2>2, <2>3
  <2> QED
    BY <2>4, <2>5 DEF RiskBand, Capped
<1>2. WorseNeverHelps(x)
  BY WorseIsGivenMore, MoreWeighsMore DEF WorseNeverHelps
<1> QED
  BY <1>1, <1>2

(***************************************************************************)
(* The check digit of a GTIN.                                              *)
(***************************************************************************)

\* A function that adds up the weighted digits.
AddsDigits(f, s, top) ==
    /\ f = [i \in 0..top |-> f[i]] /\ f[0] = 0
    /\ \A i \in 1..top : f[i] = f[i - 1] + s[i] * GtinWeight(i, s)

LEMMA AddsDigitsExists ==
    ASSUME NEW s, NEW top \in Nat
    PROVE  \E f : AddsDigits(f, s, top)
<1> DEFINE S == {t \in 0..top : \E f : AddsDigits(f, s, t)}
           term(i) == s[i] * GtinWeight(i, s)
<1>1. 0 \in S
  <2>1. AddsDigits([i \in 0..0 |-> 0], s, 0)
    BY DEF AddsDigits
  <2> QED
    BY <2>1
<1>2. ASSUME NEW n \in 1..top, n - 1 \in S PROVE n \in S
  <2>1. PICK f : AddsDigits(f, s, n - 1)
    BY <1>2
  <2> DEFINE g == [i \in 0..n |-> IF i = n THEN f[n - 1] + term(n) ELSE f[i]]
  <2>2. g = [i \in 0..n |-> g[i]] /\ g[0] = 0
    BY <2>1 DEF AddsDigits
  <2>3. ASSUME NEW i \in 1..n PROVE g[i] = g[i - 1] + term(i)
    <3>1. i - 1 \in 0..n /\ i - 1 # n /\ i \in 0..n
      OBVIOUS
    <3>2. CASE i = n
      <4> HIDE DEF term
      <4> QED
        BY <3>1, <3>2
    <3>3. CASE i # n
      <4>1. i \in 1..(n - 1)
        BY <3>3
      <4>2. f[i] = f[i - 1] + term(i)
        BY <2>1, <4>1 DEF AddsDigits
      <4> HIDE DEF term
      <4> QED
        BY <3>1, <3>3, <4>2
    <3> QED
      BY <3>2, <3>3
  <2> HIDE DEF g
  <2>4. AddsDigits(g, s, n)
    BY <2>2, <2>3 DEF AddsDigits
  <2> QED
    BY <2>4
<1> HIDE DEF S
<1>3. S = 0..top
  <2>1. S \in SUBSET (0..top)
    BY DEF S
  <2> QED
    BY <1>1, <1>2, <2>1, FirstWithout
<1>4. top \in S
  BY <1>3
<1> QED
  BY <1>4 DEF S

LEMMA CheckSumAdds ==
    ASSUME NEW s, Len(s) - 1 \in Nat
    PROVE  \E f : AddsDigits(f, s, Len(s) - 1) /\ CheckSum(s) = f[Len(s) - 1]
<1> DEFINE n == Len(s) - 1
           term(i) == s[i] * GtinWeight(i, s)
           Is(sum) == sum = [i \in 0..n |-> IF i = 0 THEN 0 ELSE sum[i - 1] + term(i)]
           c == CHOOSE sum : Is(sum)
<1>1. CheckSum(s) = c[n]
  BY DEF CheckSum
<1>2. n \in Nat
  OBVIOUS
<1>3. PICK f : AddsDigits(f, s, n)
  BY <1>2, AddsDigitsExists
<1>4. f = [i \in 0..n |-> f[i]] /\ f[0] = 0 /\ \A i \in 1..n : f[i] = f[i - 1] + term(i)
  BY <1>3 DEF AddsDigits
<1> HIDE DEF n, term
<1>5. Is(f)
  <2>1. \A i \in 0..n : f[i] = IF i = 0 THEN 0 ELSE f[i - 1] + term(i)
    BY <1>2, <1>4
  <2> QED
    BY <1>4, <2>1
<1>6. Is(c)
  <2> HIDE DEF Is
  <2> QED
    BY <1>5
<1> HIDE DEF c
<1>7. AddsDigits(c, s, n)
  <2>1. c[0] = 0 /\ \A i \in 1..n : c[i] = c[i - 1] + term(i)
    BY <1>2, <1>6
  <2>2. c = [i \in 0..n |-> c[i]]
    BY <1>6
  <2> QED
    BY <2>1, <2>2 DEF AddsDigits, term
<1> QED
  BY <1>1, <1>7 DEF n

Digits == 0..9

LEMMA SumsOfDigits ==
    ASSUME NEW s \in Seq(Digits), NEW n \in Nat, n = Len(s) - 1, NEW f, AddsDigits(f, s, n),
           NEW k \in 0..n
    PROVE  f[k] \in Nat
<1> DEFINE S == {i \in 0..n : f[i] \in Nat}
<1>1. 0 \in S
  BY DEF AddsDigits
<1>2. ASSUME NEW i \in 1..n, i - 1 \in S PROVE i \in S
  <2>1. s[i] \in Nat
    <3>1. i \in 1..Len(s)
      BY LenProperties
    <3>2. s[i] \in Digits
      BY <3>1, ElementOfSeq
    <3> QED
      BY <3>2 DEF Digits
  <2>2. s[i] * GtinWeight(i, s) \in Nat
    <3>1. GtinWeight(i, s) = 3 \/ GtinWeight(i, s) = 1
      BY DEF GtinWeight
    <3> QED
      BY <2>1, <3>1
  <2>3. f[i] = f[i - 1] + s[i] * GtinWeight(i, s)
    BY DEF AddsDigits
  <2> QED
    BY <1>2, <2>2, <2>3
<1> HIDE DEF S
<1>3. S = 0..n
  <2>1. S \in SUBSET (0..n)
    BY DEF S
  <2> QED
    BY <1>1, <1>2, <2>1, FirstWithout
<1> QED
  BY <1>3 DEF S

\* With one digit changed, the sum is another, by a number that is no multiple
\* of ten.
LEMMA SumsDiffer ==
    ASSUME NEW s \in Seq(Digits), NEW n \in Nat, n = Len(s) - 1, NEW j \in 1..n, NEW d \in Digits,
           NEW f, AddsDigits(f, s, n), NEW g, AddsDigits(g, [s EXCEPT ![j] = d], n)
    PROVE  g[n] = f[n] + (d - s[j]) * GtinWeight(j, s)
<1> DEFINE t == [s EXCEPT ![j] = d]
           more == (d - s[j]) * GtinWeight(j, s)
           S == {i \in 0..n : g[i] = f[i] + (IF i >= j THEN more ELSE 0)}
<1>1. DOMAIN s = 1..(n + 1) /\ \A i \in 1..n : s[i] \in Digits
  <2>1. DOMAIN s = 1..Len(s) /\ Len(s) \in Nat
    BY LenProperties
  <2>2. n + 1 = Len(s)
    BY <2>1
  <2>3. \A i \in 1..n : i \in 1..Len(s)
    BY <2>2
  <2> QED
    BY <2>1, <2>2, <2>3, ElementOfSeq
<1>2. t[j] = d /\ \A i \in 1..n : i # j => t[i] = s[i]
  BY <1>1
<1>3. Len(t) = Len(s)
  <2>1. t \in Seq(Digits) /\ Len(t) = Len(s)
    <3>1. j \in 1..Len(s)
      BY <1>1, LenProperties
    <3> QED
      BY <3>1, ExceptSeq
  <2> QED
    BY <2>1
<1>4. \A i : GtinWeight(i, t) = GtinWeight(i, s) /\ GtinWeight(i, s) \in {1, 3}
  BY <1>3 DEF GtinWeight
<1>5. \A i \in 0..n : f[i] \in Nat
  BY SumsOfDigits
<1>6. more \in Int
  <2>1. d - s[j] \in Int
    BY <1>1, SMTT(60) DEF Digits
  <2>2. GtinWeight(j, s) \in Int
    BY <1>4
  <2> HIDE DEF t
  <2> QED
    BY <2>1, <2>2
<1>7. 0 \in S
  BY <1>6 DEF AddsDigits
<1>8. ASSUME NEW i \in 1..n, i - 1 \in S PROVE i \in S
  <2> DEFINE w == GtinWeight(i, s)
  <2>1. f[i] = f[i - 1] + s[i] * w /\ g[i] = g[i - 1] + t[i] * w
    BY <1>4 DEF AddsDigits
  <2>2. f[i - 1] \in Nat /\ f[i] \in Nat /\ i - 1 \in 0..n /\ i \in 0..n
    <3>1. i - 1 \in 0..n /\ i \in 0..n
      OBVIOUS
    <3> QED
      BY <1>5, <3>1
  <2>3. g[i - 1] = f[i - 1] + (IF i - 1 >= j THEN more ELSE 0)
    BY <1>8
  <2>4. s[i] \in Int /\ w \in Int /\ s[i] * w \in Int
    <3>1. s[i] \in Int /\ w \in Int
      BY <1>1, <1>4, SMTT(60) DEF Digits
    <3> QED
      BY <3>1
  <2>5. CASE i = j
    <3>1. t[i] = d /\ more = (d - s[i]) * w /\ d \in Int
      BY <1>2, <2>5 DEF Digits
    <3> HIDE DEF more, t, w
    <3>2. d * w = s[i] * w + (d - s[i]) * w
      BY <2>4, <3>1, SMTT(60)
    <3>3. g[i] = f[i] + more
      <4> DEFINE u == s[i] * w
                 v == (d - s[i]) * w
      <4>1. u \in Int /\ v \in Int /\ d * w = u + v /\ more = v
        BY <1>6, <2>4, <3>1, <3>2
      <4>2. g[i - 1] = f[i - 1]
        BY <2>2, <2>3, <2>5
      <4>3. f[i] = f[i - 1] + u /\ g[i] = f[i - 1] + (u + v)
        BY <2>1, <3>1, <4>1, <4>2
      <4> HIDE DEF u, v
      <4> QED
        BY <2>2, <4>1, <4>3, SMTT(60)
    <3> QED
      BY <2>2, <2>5, <3>3
  <2>6. CASE i # j
    <3>1. t[i] * w = s[i] * w
      BY <1>2, <2>6
    <3> DEFINE u == s[i] * w
               v == IF i >= j THEN more ELSE 0
    <3>2. v = (IF i - 1 >= j THEN more ELSE 0) /\ v \in Int /\ u \in Int
      BY <1>6, <2>4, <2>6
    <3>3. f[i] = f[i - 1] + u /\ g[i] = (f[i - 1] + v) + u
      BY <2>1, <2>3, <3>1, <3>2
    <3> HIDE DEF u, v, more
    <3>4. g[i] = f[i] + v
      BY <2>2, <3>2, <3>3, SMTT(60)
    <3> QED
      BY <2>2, <3>4 DEF v
  <2> QED
    BY <2>5, <2>6
<1> HIDE DEF S
<1>9. S = 0..n
  <2>1. S \in SUBSET (0..n)
    BY DEF S
  <2> QED
    BY <1>7, <1>8, <2>1, FirstWithout
<1>10. n \in S /\ n >= j
  BY <1>9
<1> QED
  BY <1>10 DEF S

\* For a GTIN of any length: no digit can be mistyped and leave it valid.
THEOREM NoDigitMistyped ==
    ASSUME NEW s \in Seq(Digits), IsValidGtin(s),
           NEW j \in 1..Len(s), NEW d \in Digits, d # s[j]
    PROVE  ~IsValidGtin([s EXCEPT ![j] = d])
<1> DEFINE t == [s EXCEPT ![j] = d]
           n == Len(s) - 1
<1>1. t \in Seq(Digits) /\ Len(t) = Len(s) /\ t[j] = d /\ \A i \in 1..Len(s) : i # j => t[i] = s[i]
  BY ExceptSeq
<1>2. n \in Nat /\ n >= 7
  <2>1. Len(s) \in {8, 12, 13, 14}
    BY DEF IsValidGtin
  <2>2. \A l \in {8, 12, 13, 14} : l - 1 \in Nat /\ l - 1 >= 7
    OBVIOUS
  <2> QED
    BY <2>1, <2>2
<1>3. PICK f : AddsDigits(f, s, n) /\ CheckSum(s) = f[n]
  BY <1>2, CheckSumAdds
<1>4. PICK g : AddsDigits(g, t, n) /\ CheckSum(t) = g[n]
  BY <1>1, <1>2, CheckSumAdds
<1>5. f[n] \in Nat /\ g[n] \in Nat
  <2>1. n = Len(s) - 1 /\ n = Len(t) - 1 /\ n \in 0..n
    BY <1>1, <1>2
  <2> HIDE DEF n, t
  <2>2. f[n] \in Nat
    BY <1>2, <1>3, <2>1, SumsOfDigits
  <2>3. g[n] \in Nat
    BY <1>1, <1>2, <1>4, <2>1, SumsOfDigits
  <2> QED
    BY <2>2, <2>3
<1>6. s[j] \in Digits
  BY ElementOfSeq
<1>7. \A x, y \in Nat : (10 - (x % 10)) % 10 = (10 - (y % 10)) % 10 => x % 10 = y % 10
  BY SMTT(30)
<1>8. CASE j = Len(s)
  <2>1. \A i \in 1..n : t[i] = s[i] /\ GtinWeight(i, t) = GtinWeight(i, s)
    BY <1>1, <1>2, <1>8 DEF GtinWeight
  <2>2. g[n] = f[n]
    <3> DEFINE S == {i \in 0..n : g[i] = f[i]}
    <3>1. 0 \in S
      BY <1>2, <1>3, <1>4 DEF AddsDigits
    <3>2. ASSUME NEW i \in 1..n, i - 1 \in S PROVE i \in S
      <4>1. f[i] = f[i - 1] + s[i] * GtinWeight(i, s)
        BY <1>3 DEF AddsDigits
      <4>2. g[i] = g[i - 1] + s[i] * GtinWeight(i, s)
        BY <1>4, <2>1 DEF AddsDigits
      <4>3. i \in 0..n /\ g[i - 1] = f[i - 1]
        BY <1>2, <3>2
      <4> QED
        BY <4>1, <4>2, <4>3
    <3>3. S = 0..n
      <4>1. S \in SUBSET (0..n)
        OBVIOUS
      <4> HIDE DEF S, n
      <4> QED
        BY <1>2, <3>1, <3>2, <4>1, FirstWithout
    <3> QED
      BY <1>2, <3>3
  <2>3. IsValidGtin(t) => t[j] = s[j]
    BY <1>1, <1>3, <1>4, <1>8, <2>2 DEF IsValidGtin
  <2> QED
    BY <1>1, <2>3
<1>9. CASE j # Len(s)
  <2>1. j \in 1..n
    BY <1>2, <1>9
  <2> DEFINE w == GtinWeight(j, s)
             e == d - s[j]
  <2>2. g[n] = f[n] + e * w
    BY <1>2, <1>3, <1>4, <2>1, SumsDiffer
  <2>3. t[Len(s)] = s[Len(s)]
    BY <1>1, <1>2, <1>9
  <2>4. w = 1 \/ w = 3
    BY DEF GtinWeight
  <2>5. e \in (-9)..9 /\ e # 0
    <3>1. d \in 0..9 /\ s[j] \in 0..9 /\ d # s[j]
      BY <1>6 DEF Digits
    <3> DEFINE c == s[j]
    <3> HIDE DEF c
    <3>2. d \in 0..9 /\ c \in 0..9 /\ d # c /\ e = d - c
      BY <3>1 DEF c
    <3> HIDE DEF e
    <3> QED
      BY <3>2
  <2> DEFINE x == f[n]
             y == g[n]
  <2>6. x \in Nat /\ y \in Nat /\ (y = x + e \/ y = x + e * 3)
    BY <1>5, <2>2, <2>4, <2>5, SMTT(60)
  <2>7. IsValidGtin(t) => (10 - (x % 10)) % 10 = (10 - (y % 10)) % 10
    BY <1>1, <1>3, <1>4, <2>3 DEF IsValidGtin
  <2> HIDE DEF x, y, e, w
  <2>8. x % 10 # y % 10
    BY <2>5, <2>6, SMTT(60)
  <2> QED
    BY <1>7, <2>6, <2>7, <2>8
<1> QED
  BY <1>8, <1>9
=============================================================================
