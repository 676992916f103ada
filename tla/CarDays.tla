------------------------------ MODULE CarDays ------------------------------
(***************************************************************************)
(* What the register promises, said without rows: one car, one pass per    *)
(* garage.  A seat is a car at a garage on a day, and at most one hold is  *)
(* on it.  A hold is one registration of a pass, <<pass, number>>.  A pass *)
(* takes a car's days at EVERY garage it names, together or not at all; it *)
(* takes seats that are free, or that are the last day of another pass's   *)
(* hold (checkout-day turnover) -- never a day before that last day and    *)
(* never a day of its own.  A hold only shrinks from its end, it is given  *)
(* up by its own pass, and nothing else moves a seat.                      *)
(***************************************************************************)
EXTENDS Integers, FiniteSets

CONSTANTS Passes, Garages, Cars, Days, GaragesOf, Numbers, Free

VARIABLE hold

Seats == Garages \X Cars \X Days
Holds == Passes \X Numbers

CarDaysTypeOK == hold \in [Seats -> Holds \cup {Free}]

CarDaysInit == hold = [s \in Seats |-> Free]

(* The hold on the seat is not on the car's next day at that garage.       *)
IsLastDay(g, c, d) == d + 1 \in Days => hold[<<g, c, d + 1>>] # hold[<<g, c, d>>]

Claim(h, c, D) ==
    /\ \A g \in GaragesOf[h[1]], d \in D :
         \/ hold[<<g, c, d>>] = Free
         \/ hold[<<g, c, d>>][1] # h[1] /\ IsLastDay(g, c, d)
    /\ hold' = [s \in Seats |->
                  IF s[1] \in GaragesOf[h[1]] /\ s[2] = c /\ s[3] \in D THEN h ELSE hold[s]]

(* A pass gives back days from the end of its holds: a seat given up       *)
(* leaves that hold no later day of that car at that garage.               *)
GiveBack(p) ==
    /\ hold' \in [Seats -> Holds \cup {Free}]
    /\ \A s \in Seats : hold'[s] # hold[s] =>
         /\ hold[s] # Free /\ hold[s][1] = p
         /\ hold'[s] = Free
         /\ \A d \in Days : d > s[3] => hold'[<<s[1], s[2], d>>] # hold[s]

CarDaysNext ==
    \/ \E h \in Holds, c \in Cars, D \in SUBSET Days : Claim(h, c, D)
    \/ \E p \in Passes : GiveBack(p)

CarDaysSpec == CarDaysInit /\ [][CarDaysNext]_hold
=============================================================================
