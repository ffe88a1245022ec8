------------------------------ MODULE MCCustody ------------------------------
(* Requests about one lot: a harvest and its resend under the same lot id,  *)
(* a public lookup, two collectors, a packer and an exporter.               *)
EXTENDS Custody

CONSTANTS harvest, resend, lookup, collect1, collect2, pack, ship, noone, boot

StageOf == [r \in Requests |->
    CASE r \in {harvest, resend, lookup} -> 1
      [] r \in {collect1, collect2} -> 2
      [] r = pack -> 3
      [] r = ship -> 4]

\* The harvests raise the warnings Y, T and A; every transfer has a weight
\* that differs by more than ten percent.
ScoreOf == [r \in Requests |->
    IF r = lookup THEN 0 ELSE IF StageOf[r] = 1 THEN 65 ELSE 30]
PublicLookups == Requests \cap {lookup}
=============================================================================
