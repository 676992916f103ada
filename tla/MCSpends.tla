------------------------------ MODULE MCSpends ------------------------------
(* p1 at two garages holds "a" by the plate of q1, and sold q2 before      *)
(* plates were required; p2, at the second garage, waits for its first     *)
(* car, and names a third that never stated its transient parking.  A      *)
(* third id is there to be issued.                                         *)
EXTENDS Spends

MCGaragesOf == [p \in Passes |-> IF p = "p1" THEN {1, 2} ELSE {2, 3}]
MCTransient == [g \in Garages |-> CASE g = 1 -> "no" [] g = 2 -> "yes" [] OTHER -> "unstated"]
MCEnrolsAt == [g \in Garages |-> IF g = 2 THEN "exit" ELSE "unstated"]
MCSimilar == {<<"a", "b">>, <<"b", "a">>}

Made(p, plate) == [pass |-> p, state |-> "issued", plate |-> plate, car |-> NoCar,
                   exitOnly |-> FALSE, kept |-> 0]
MCStartCodes == [q \in Codes |-> CASE q = "q1" -> Made("p1", "a")
                                   [] q = "q2" -> Made("p1", NoCar)
                                   [] OTHER    -> NoCode]
MCStartHeld == {1, 2} \X {"p1"} \X {"a"}
MCStartState == [p \in Passes |-> "draft"]

Base == [verb |-> "redeem", pass |-> "p1", garage |-> 1, code |-> "q1", new |-> "q3",
         read |-> "a", lane |-> "lane", dir |-> "entry", matched |-> TRUE]
Redeem(q, g, dir, read) ==
    [Base EXCEPT !.code = q, !.garage = g, !.dir = dir, !.read = read]
MCCalls ==
    { Redeem("q1", 1, "entry", "a"), Redeem("q1", 1, "entry", "b"), Redeem("q1", 1, "entry", "c"),
      Redeem("q1", 2, "exit", NoCar), Redeem("q2", 1, "entry", "b"), Redeem("q2", 1, "entry", "c"),
      Redeem("q2", 1, "exit", "c"), Redeem("q3", 2, "exit", "c"),
      Redeem("q3", 3, "exit", "c") }
    \cup { [Base EXCEPT !.verb = "confirm", !.read = NoCar, !.matched = m] : m \in BOOLEAN }
    \cup { [Base EXCEPT !.verb = "cancel", !.code = q] : q \in {"q1", "q2"} }
    \cup { [Base EXCEPT !.verb = "replace", !.code = q, !.read = "c"] : q \in {"q1", "q2"} }
    \cup { [Base EXCEPT !.verb = "issue", !.pass = p, !.read = "c"] : p \in Passes }
    \cup { [Base EXCEPT !.verb = "revoke"] }
MCBlankLane == { [c EXCEPT !.lane = ""] : c \in MCCalls }
=============================================================================
