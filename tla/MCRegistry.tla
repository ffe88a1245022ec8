------------------------------ MODULE MCRegistry ------------------------------
\* A farmer, who has a phone and a Zalo id and may have an account by each, and
\* a collector with the same phone; a profile may get a second number.
EXTENDS Registry, TLC
CONSTANTS farmer, collector, o1, o2
RequestSymmetry == Permutations({o1, o2})
PeopleRoles == (farmer :> "FARMER" @@ collector :> "COLLECTOR")
PeoplePhones == (farmer :> 91 @@ collector :> 91)
PeopleZalo == (farmer :> 7 @@ collector :> NoZalo)
ClockIds == [FARMER |-> {1, 2}, COLLECTOR |-> {3}]
=============================================================================
