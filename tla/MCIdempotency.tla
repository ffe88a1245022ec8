---------------------------- MODULE MCIdempotency ----------------------------
(* Attempts with one key: the first and its resends, and another request   *)
(* that reuses the key with a different body.                              *)
EXTENDS Idempotency

CONSTANTS first, again, late, other, key1, harvest, transfer, nobody

OneKey == [r \in Requests |-> key1]
BodyOf == [r \in Requests |-> IF r = other THEN transfer ELSE harvest]
=============================================================================
