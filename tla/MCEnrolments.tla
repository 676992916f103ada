---------------------------- MODULE MCEnrolments ----------------------------
(* The register of MCPassRegister with two QRs; both passes last, so that  *)
(* stays run on: p2 to the last day.                                       *)
EXTENDS Enrolments, TLC

MCGaragesOf == [p \in Passes |-> IF p = "p1" THEN {1, 2} ELSE {2}]
MCLongValidTo == [p \in Passes |-> IF p = "p1" THEN Forever ELSE MaxDay]
MCDayAt == [i \in Instants |-> [g \in Garages |-> IF g = 2 THEN i + 1 ELSE i]]
MCStays == {<<1, 2>>, <<2, 3>>}
MCSymmetry == Permutations(CodeIds)
=============================================================================
