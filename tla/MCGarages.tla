------------------------------ MODULE MCGarages ------------------------------
(* Days of two weeks, ranges of one day, six days, seven and no bounds,     *)
(* windows on one weekday, an empty one and one that names no day, lanes    *)
(* stated at one garage or both.                                            *)
EXTENDS Garages, TLC

Document(garages, from, to, windows, lanes, directions, stay, allowance) ==
    [garages |-> garages,
     terms |-> [validFrom |-> from, validTo |-> to, windows |-> windows, maxStay |-> stay,
                allowance |-> allowance, directions |-> directions, lanes |-> lanes]]

Window(days, start, end) == [days |-> days, start |-> start, end |-> end]
At(g, lanes) == [garage |-> g, lanes |-> lanes]
Both == {"entry", "exit"}

Ranges == { <<3, 3>>, <<2, 7>>, <<2, 8>>, <<5, 4>>, <<Unstated, 4>>, <<Unstated, Unstated>> }
Windows == { << >>, <<Window({1}, 0, 1)>>, <<Window({3}, 1, 2), Window({1, 3}, 0, 2)>>,
             <<Window({3}, 1, 1)>>, <<Window({}, 0, 2)>>, <<Window({8}, 0, 2)>>,
             <<Window({3}, 0, 3)>> }
LanesAtA == { Unstated, << >>, <<At("A", {"A1"})>>, <<At("A", {})>>, <<At("A", {Blank})>>,
              <<At("A", {"A1"}), At("A", {"A2"})>> }
LanesAtBoth == { <<At("A", {"A1"})>>, <<At("A", {"A1"}), At("B", {"B1"})>> }

MCGarageDocs ==
    { [zone |-> "Denver", transient |-> "yes", enrolsAt |-> Unstated],
      [zone |-> "Phoenix", transient |-> "no", enrolsAt |-> Unstated],
      [zone |-> "Denver", transient |-> "no", enrolsAt |-> "exit"] }
MCDays == -2..8
MCDesksAlike == Permutations(Desks)
MCPassesOf == [p \in Passes |->
    { Document({"A"}, r[1], r[2], w, Unstated, Both, Unstated, Unstated) : r \in Ranges, w \in Windows }
    \cup { Document({"A"}, 2, 7, << >>, lanes, Both, Unstated, Unstated) : lanes \in LanesAtA }
    \cup { Document({"A", "B"}, 2, 7, << >>, lanes, Both, Unstated, Unstated) : lanes \in LanesAtBoth }
    \cup { Document({"A"}, 2, 7, << >>, Unstated, dirs, stay, allowance) :
             dirs \in {{}, {"exit"}}, stay \in {Unstated, 0, 1},
             allowance \in { Unstated, [count |-> 0, per |-> "life"],
                             [count |-> 1, per |-> "life"], [count |-> 1, per |-> "window"] } }]
=============================================================================
