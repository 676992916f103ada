-------------------------- MODULE MCAccessAnswers --------------------------
(* Questions for TLC: two garages half a day apart, a car under two        *)
(* spellings and another car, passes of every state and term under two ids, *)
(* up to two of each handed in.                                            *)
EXTENDS AccessAnswers

MCKey == [v \in {"car", "c-ar", "other"} |-> IF v = "c-ar" THEN "car" ELSE v]
MCPlace == [id \in {"a", "b"} |-> IF id = "a" THEN 1 ELSE 2]
MCDayAt == [i \in 1..4 |-> [z \in 1..2 |-> IF z = 1 THEN (i + 1) \div 2 ELSE (i + 2) \div 2]]
MCMinuteAt == [i \in 1..4 |-> [z \in 1..2 |-> ((i + z) % 2) * 12]]

Garage(id, readable, transient) ==
    [id |-> id, zone |-> IF id = "g" THEN 1 ELSE 2, readable |-> readable,
     transient |-> transient]

Open == [validFrom |-> 0, validTo |-> Forever, windows |-> <<>>, maxStay |-> 0,
         allowance |-> [count |-> 0, per |-> "window"], directions |-> {"entry", "exit"},
         lanes |-> None]
AllDay == [days |-> 1..7, start |-> 0, end |-> 24]
Counted == [Open EXCEPT !.windows = <<AllDay>>, !.allowance.count = 1]
Mornings == [Open EXCEPT !.windows = <<[AllDay EXCEPT !.end = 12]>>, !.allowance.count = 1]

Pass(id, garages, state, terms) ==
    [id |-> id, garages |-> garages, state |-> state, readable |-> TRUE, terms |-> terms,
     text |-> terms.allowance.count + terms.maxStay]

PassesHandedIn ==
    { Pass("a", {"g"}, "active", Open), Pass("a", {"g", "h"}, "revoked", Open),
      [Pass("a", {"g"}, "active", Open) EXCEPT !.readable = FALSE],
      Pass("a", {"h"}, "active", Open), Pass("a", {"g", "h"}, "active", Counted),
      Pass("b", {"g"}, "active", [Open EXCEPT !.maxStay = 1, !.directions = {"exit"}]),
      Pass("b", {"g"}, "revoked", Open), Pass("b", {"g"}, "suspended", Open) }

OnePass ==
    { Pass("a", {"g", "h"}, "active", t) : t \in
        { Counted, Mornings, [Mornings EXCEPT !.allowance = [count |-> 2, per |-> "life"]],
          [Open EXCEPT !.maxStay = 1], [Open EXCEPT !.validTo = 1],
          [Open EXCEPT !.validFrom = 3],
          [Open EXCEPT !.lanes = [g \in {"g", "h"} |-> {g}]] } }
    \cup { Pass("a", {"g"}, s, Open) : s \in {"draft", "awaiting_enrolment", "suspended"} }

Registration(id, car, from, to, exitOnlyAt) ==
    [pass |-> id, identity |-> car, from |-> from, to |-> to,
     exitOnly |-> exitOnlyAt # 0, exitOnlyAt |-> IF exitOnlyAt > 1 THEN exitOnlyAt ELSE None]

(* exitOnlyAt = 1: replaced at an instant that is not known *)
RegistrationsHandedIn ==
    { Registration("a", "car", 1, Forever, 0), Registration("a", "c-ar", 1, 3, 2),
      Registration("a", "car", 1, Forever, 1), Registration("a", "car", 1, Forever, 3),
      Registration("a", "car", 1, 2, 0),
      Registration("b", "car", 2, 3, 0), Registration("b", "c-ar", 1, 2, 0),
      Registration("b", "other", 1, Forever, 0) }

UpToTwo(S) == {<<>>} \cup { <<x>> : x \in S } \cup { <<x, y>> : x \in S, y \in S }

Entry(car, garage, at, exitedAt) ==
    [pass |-> "a", garage |-> garage, identity |-> car, enteredAt |-> at, exitedAt |-> exitedAt]
VisitsRecorded ==
    { Entry("c-ar", "g", 2, None), Entry("car", "g", 3, None), Entry("car", "h", 1, None),
      Entry("other", "h", 2, 3), Entry("other", "h", 4, None) }

Here0 == Garage("g", TRUE, "yes")
Directions == {"entry", "exit"}

(* Every pair of passes with every pair of registrations. *)
WhoHolds ==
    [garage : {Here0}, passes : UpToTwo(PassesHandedIn),
     registrations : UpToTwo(RegistrationsHandedIn), visits : {<<Entry("car", "g", 2, None)>>},
     garages : {<<>>}, identity : {"car"}, lane : {"g"}, direction : Directions, at : {3},
     enteredAt : {None, 2}]

(* Every term of one pass, measured on every pair of visits. *)
WhatIsMeasured ==
    [garage : {Here0}, passes : { <<p>> : p \in OnePass },
     registrations : { <<Registration("a", "car", 1, Forever, x)>> : x \in {0, 2} },
     visits : UpToTwo(VisitsRecorded),
     garages : {<<>>, <<Garage("h", TRUE, "yes")>>, <<Garage("h", FALSE, "no")>>,
                <<Garage("h", TRUE, "yes"), Garage("h", TRUE, "no")>>},
     identity : {"c-ar"}, lane : {"g", "h"}, direction : Directions, at : 3..4, enteredAt : {1}]

(* What cannot be looked up at all. *)
WhatIsMissing ==
    [garage : { Garage("g", r, t) : r \in BOOLEAN, t \in Transients },
     passes : {<<Pass("a", {"g"}, "active", Open)>>},
     registrations : { <<Registration("a", "car", 1, to, 0)>> : to \in {2, Forever} },
     visits : {<<>>}, garages : {<<>>}, identity : {"car", "other", Blank},
     lane : {"g", Blank}, direction : Directions, at : {3}, enteredAt : {None}]

MCQuestions == WhoHolds \cup WhatIsMeasured \cup WhatIsMissing
MCTies == { q \in WhoHolds : q.enteredAt = None }
=============================================================================
