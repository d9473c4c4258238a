---------------------- MODULE MCAccountReservations ----------------------
(* Instances of AccountReservations for TLC. *)
EXTENDS AccountReservations, TLC

CONSTANTS i1, i2, i3, f1, f2

\* Two reserving payments of two units each, which the three units of the
\* account do not cover together, and one of one unit that reserves nothing.
TwoTwoOne == [i \in Intents |-> IF i = i3 THEN 1 ELSE 2]

Symmetries == Permutations({i1, i2}) \cup Permutations({f1, f2})
=============================================================================
