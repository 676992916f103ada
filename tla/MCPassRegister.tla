--------------------------- MODULE MCPassRegister ---------------------------
(* A small register for TLC: p1 over both garages, p2 at the second alone, *)
(* so a turnover can take a car at one garage of a pass and not another.   *)
EXTENDS PassRegister

MCGaragesOf == [p \in Passes |-> IF p = "p1" THEN {1, 2} ELSE {2}]
MCValidTo == [p \in Passes |-> IF p = "p1" THEN MaxDay - 1 ELSE Forever]
MCNoLastDay == [p \in Passes |-> Forever]
(* Late in the evening garage 2 is already on the next day. *)
MCDayAt == [i \in Instants |-> [g \in Garages |-> IF g = 2 THEN i + 1 ELSE i]]
=============================================================================
