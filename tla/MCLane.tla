------------------------------- MODULE MCLane -------------------------------
(* The passes and clocks of MCEnrolments, read by the lane; the one QR is  *)
(* for a stay of three days, a registration is on any days.  p1 allows two *)
(* visits in a day's window, and one was recorded at each of its garages.  *)
(* Garage 1 never stated whether it takes transient parking.               *)
EXTENDS Lane

MCGaragesOf == [p \in Passes |-> IF p = "p1" THEN {1, 2} ELSE {2}]
MCValidTo == [p \in Passes |-> Forever]
MCDayAt == [i \in Instants |-> [g \in Garages |-> IF g = 2 THEN i + 1 ELSE i]]
MCStays == {<<1, 3>>}
MCTermsOf ==
    [p \in Passes |->
        [validFrom |-> 0, validTo |-> ValidTo[p], maxStay |-> 0, lanes |-> Unstated,
         directions |-> {"entry", "exit"},
         windows |-> IF p = "p1" THEN <<[days |-> 1..7, start |-> 0, end |-> 1]>> ELSE <<>>,
         allowance |-> [count |-> IF p = "p1" THEN 2 ELSE 0, per |-> "window"]]]
MCRecorded ==
    {  [pass |-> "p1", garage |-> 1, identity |-> "car", enteredAt |-> 2, exitedAt |-> 2],
       [pass |-> "p1", garage |-> 2, identity |-> "car", enteredAt |-> 2, exitedAt |-> Unstated] }
MCTransientAt == [g \in Garages |-> IF g = 1 THEN "unstated" ELSE "yes"]
(* Everything is read; p1 is stranded; or garage 1's zone is lost and p2   *)
(* stranded.                                                               *)
MCSystems ==
    {  [carried |-> {1, 2}, stranded |-> {}],
       [carried |-> {1, 2}, stranded |-> {"p1"}],
       [carried |-> {2}, stranded |-> {"p2"}] }
MCPassOrder == [p \in Passes |-> IF p = "p1" THEN 1 ELSE 2]
=============================================================================
