------------------------------ MODULE MCVisits ------------------------------
(* Two lanes of one garage and one of another, two cars, one allowed visit. *)
EXTENDS Visits, TLC

MCGarageOf == [l \in Lanes |-> IF l = "b1" THEN "B" ELSE "A"]
MCCarsAlike == Permutations(Cars)
=============================================================================
