-------------------------- MODULE MCRegisterRaces --------------------------
(* Two writers on two passes over the same two garages, from every shape   *)
(* of hold a turnover, a release, a run-on and an end meet.                *)
EXTENDS RegisterRaces

MCGaragesOf == [p \in Passes |-> {1, 2}]
MCValidTo == [p \in Passes |-> IF p = "p1" THEN MaxDay - 1 ELSE Forever]
MCDayAt == [i \in Instants |-> [g \in Garages |-> IF g = 2 THEN i + 1 ELSE i]]

(* Nothing; a stay of p1 to its last day; p1 open to its valid_to.         *)
MCStarts ==
    { {}, Registered({}, 0, "p1", "car", 1, 3, ENDED_AFTER_LAST_DAY),
      Registered({}, 0, "p1", "car", 1, Forever, OPEN) }

Of(verb, p, f, t, why) ==
    [verb |-> verb, pass |-> p, car |-> "car", from |-> f, to |-> t, why |-> why, at |-> Never]
MCCalls ==
    { Of("register", "p2", 2, Forever, OPEN), Of("register", "p2", 3, 4, ENDED_BY_OWNER),
      Of("register", "p1", 1, 2, ENDED_BY_OWNER), Of("hold", "p1", 1, 4, ENDED_AFTER_LAST_DAY),
      Of("hold", "p2", 2, 4, ENDED_AFTER_LAST_DAY),
      Of("end", "p1", 1, 2, ENDED_BY_OWNER), Of("end", "p1", 1, 3, ENDED_BY_OWNER),
      Of("end", "p2", 1, 3, ENDED_BY_OWNER),
      Of("end_stay", "p1", 1, 2, ENDED_BY_CHECKOUT), Of("end_stay", "p1", 1, 3, ENDED_BY_CHECKOUT) }
        \cup { [Of("revoke", p, 1, 1, OPEN) EXCEPT !.at = 1] : p \in Passes }
=============================================================================
