--------------------------- MODULE MCOfflineQueue ---------------------------
\* One form under overlapping syncs or loads; one under server failures; two
\* harvests with the photos of the fallback; a harvest and a transfer in tight
\* storage without IndexedDB.
EXTENDS OfflineQueue
CONSTANTS s1, s2, l1, l2
ThreeForms == 1..3
World(room, forms, syncs, loads, up, failures) ==
    [room |-> room, forms |-> forms, syncs |-> syncs, loads |-> loads,
     idbUp |-> up, faults |-> failures]
Scenarios == {World(2, {1}, {s1, s2}, {l1}, TRUE, 0),
              World(2, {1}, {s1}, {l1, l2}, TRUE, 1),
              World(2, {1}, {s1, s2}, {}, TRUE, 2),
              World(2, {1}, {s1}, {}, TRUE, 3),
              World(2, {1, 3}, {s1, s2}, {}, TRUE, 0),
              World(1, {1, 2}, {s1}, {l1}, FALSE, 1)}
=============================================================================
