------------------------------ MODULE Register ------------------------------
(***************************************************************************)
(* The vehicle register of garage-pass as data: the rows of                *)
(* vehicle_registrations and the operators store/records.py computes on    *)
(* them.  No state: PassRegister and Enrolments own the rows and apply     *)
(* these operators in their actions.                                       *)
(*                                                                         *)
(* A row holds a car on a pass at ONE garage for the half-open range of    *)
(* local days [from, to).  SQL's NULL end day is Forever, a number past    *)
(* every day, so daterange(from, NULL) is [from, Forever).  A pass without *)
(* a valid_to has ValidTo = Forever.  Days are whole numbers 1..MaxDay;    *)
(* the days of one instant differ between garages (DayAt), as their        *)
(* timezones do.  Garages are numbers in the order of their external ids,  *)
(* the order every fan-out walks (garages_of).                             *)
(***************************************************************************)
EXTENDS Integers, FiniteSets

CONSTANTS
    Passes,      \* the passes of one tenant
    Garages,     \* its garages, numbered in external-id order
    Cars,        \* vehicle identities in their one normal form (plate_key)
    MaxDay,      \* BOUND: days typed by a caller are 1..MaxDay
    GaragesOf,   \* GaragesOf[p]: the non-empty set of garages pass p names
    ValidTo,     \* ValidTo[p]: the last day of p's terms, or Forever
    Readable,    \* the garages whose stored timezone the system can read
    Instants,    \* the instants a change of state happens at
    DayAt        \* DayAt[i][g]: the local day of instant i at garage g

Day == 1..MaxDay
Forever == MaxDay + 2
EndDay == (1..(MaxDay + 1)) \cup {Forever}

ASSUME MaxDayAssumption == MaxDay \in Nat \ {0}
ASSUME GaragesAssumption == Garages \subseteq Nat
ASSUME PassAssumption ==
    /\ GaragesOf \in [Passes -> SUBSET Garages]
    /\ \A p \in Passes : GaragesOf[p] # {}
    /\ ValidTo \in [Passes -> Day \cup {Forever}]
ASSUME ClockAssumption == DayAt \in [Instants -> [Garages -> Day]]

-----------------------------------------------------------------------------
(* Why a row has an end day: ended_reason.  "open" is a NULL end day.      *)

ENDED_BY_OWNER       == "ended"
ENDED_BY_REVOCATION  == "pass revoked"
ENDED_BY_EXPIRY      == "pass valid_to passed"
ENDED_AFTER_LAST_DAY == "the stay's last day"
ENDED_BY_NEXT_STAY   == "the car's next stay began"
ENDED_BY_CHECKOUT    == "checked out"
OPEN                 == "open"

Reasons == {ENDED_BY_OWNER, ENDED_BY_REVOCATION, ENDED_BY_EXPIRY,
            ENDED_AFTER_LAST_DAY, ENDED_BY_NEXT_STAY, ENDED_BY_CHECKOUT, OPEN}

(* One row.  reg numbers the write that inserted it: the rows of one       *)
(* fan-out share it, and (reg, garage) stands for the row's id.            *)
Row == [reg : Nat, garage : Garages, pass : Passes, car : Cars,
        from : Day, to : EndDay, why : Reasons]

Greatest(a, b) == IF a >= b THEN a ELSE b

Covers(r, d) == r.from <= d /\ d < r.to

(* daterange && daterange: an empty range overlaps nothing.                *)
Overlaps(r, f, t) == r.from < r.to /\ f < t /\ r.from < t /\ f < r.to

(* s is the row r, with r's end or an earlier one.                         *)
Shortened(s, r) ==
    /\ s.reg = r.reg /\ s.garage = r.garage /\ s.pass = r.pass
    /\ s.car = r.car /\ s.from = r.from
    /\ s.to <= r.to

(* Whether a row was ended by its stay ending on that very day.            *)
EndsAStayThatDay(why) == why \in {ENDED_BY_NEXT_STAY, ENDED_BY_CHECKOUT}

-----------------------------------------------------------------------------
(* The pass: which states take a registration, and the moves allowed.      *)

States == {"draft", "awaiting_enrolment", "active", "suspended", "revoked"}
REGISTRABLE_STATES == {"draft", "awaiting_enrolment", "active"}

ALLOWED_TRANSITIONS ==
    [ s \in States |->
        CASE s = "draft"              -> {"awaiting_enrolment", "active", "revoked"}
          [] s = "awaiting_enrolment" -> {"active", "revoked"}
          [] s = "active"             -> {"suspended", "revoked"}
          [] s = "suspended"          -> {"active", "revoked"}
          [] s = "revoked"            -> {} ]

(* Expired is derived, never stored: the pass's last day is before d.      *)
ExpiredOn(p, d) == ValidTo[p] < d

(* The garage a verb names is one of the pass's and its zone is readable.  *)
Addressed(p) == GaragesOf[p] \cap Readable # {}

-----------------------------------------------------------------------------
(* register_vehicle: what the rows allow, and what it makes of them.       *)

(* MUTANT: only the holders standing on the first day are looked for.      *)
HoldersOnTheFirstDay(rows, p, c, f, t) ==
    { r \in rows : r.garage \in GaragesOf[p] /\ r.car = c /\ Covers(r, f) }

(* Every row of the car overlapping the range at a garage of the pass.     *)
Holders(rows, p, c, f, t) ==
    { r \in rows : r.garage \in GaragesOf[p] /\ r.car = c /\ Overlaps(r, f, t) }

(* An open row on a pass that expired before the new registration starts.  *)
Released(r, f) == r.to = Forever /\ ExpiredOn(r.pass, f)

LastDayOf(r) == IF r.to = Forever THEN ValidTo[r.pass] ELSE r.to - 1

(* MUTANT: the last day is not compared with the new stay's first.         *)
TurnsOverAnyDay(r, p, f) ==
    /\ r.pass # p
    /\ r.why = ENDED_AFTER_LAST_DAY \/ (r.to = Forever /\ ValidTo[r.pass] # Forever)
    /\ r.from <= f

(* MUTANT: the pass's own stay turns over too.                             *)
TurnsOverItself(r, p, f) ==
    /\ r.why = ENDED_AFTER_LAST_DAY \/ (r.to = Forever /\ ValidTo[r.pass] # Forever)
    /\ r.from <= f
    /\ LastDayOf(r) <= f

(* Checkout-day turnover: another pass's stay whose last day is f.         *)
TurnsOver(r, p, f) ==
    /\ r.pass # p
    /\ \/ r.why = ENDED_AFTER_LAST_DAY
       \/ r.to = Forever /\ ValidTo[r.pass] # Forever
    /\ r.from <= f
    /\ LastDayOf(r) <= f

MayRegister(rows, p, c, f, t) ==
    /\ ~ExpiredOn(p, f)
    /\ t # Forever => f < t /\ t <= ValidTo[p] + 1
    /\ \A r \in Holders(rows, p, c, f, t) : Released(r, f) \/ TurnsOver(r, p, f)

(* What a holder becomes before the new rows are written.                  *)
GivenWay(r, f) ==
    IF Released(r, f)
    THEN [r EXCEPT !.to = Greatest(ValidTo[r.pass] + 1, r.from), !.why = ENDED_BY_EXPIRY]
    ELSE [r EXCEPT !.to = Greatest(f, r.from), !.why = ENDED_BY_NEXT_STAY]

NewRows(n, p, c, f, t, why) ==
    { [reg |-> n, garage |-> g, pass |-> p, car |-> c, from |-> f, to |-> t,
       why |-> IF t = Forever THEN OPEN ELSE why] : g \in GaragesOf[p] }

(* The rows after register_vehicle wrote its n-th registration.            *)
Registered(rows, n, p, c, f, t, why) ==
    { IF r \in Holders(rows, p, c, f, t) THEN GivenWay(r, f) ELSE r : r \in rows }
        \cup NewRows(n, p, c, f, t, why)

-----------------------------------------------------------------------------
(* end_registration.                                                       *)

(* The row the end is judged by: the car's latest effective day on the     *)
(* pass, at the first garage.  The query's order leaves a tie (two         *)
(* registrations of one effective day) to the database.                    *)
Latest(rows, p, c) ==
    LET mine  == { r \in rows : r.pass = p /\ r.car = c }
        newest == { r \in mine : \A s \in mine : s.from <= r.from }
    IN  { r \in newest : \A s \in newest : r.garage <= s.garage }

(* MUTANT: a stay's planned end may be moved to any day.                   *)
MayEndAnyDay(r, d) == (r.to = Forever \/ r.why = ENDED_AFTER_LAST_DAY) /\ d > r.from

MayEnd(r, d) ==
    /\ r.to = Forever \/ (r.why = ENDED_AFTER_LAST_DAY /\ d < r.to)
    /\ d > r.from

(* The rows the end writes: those of that car ending as the first one does. *)
EndsWith(s, r) ==
    s.pass = r.pass /\ s.car = r.car /\ s.from = r.from /\ s.to = r.to

Ended(rows, r, d) ==
    { IF EndsWith(s, r) THEN [s EXCEPT !.to = d, !.why = ENDED_BY_OWNER] ELSE s : s \in rows }

-----------------------------------------------------------------------------
(* end_stay and the revocation: every row of the pass still in force is    *)
(* cut, and one that has not begun becomes an empty range.                 *)

InForceFrom(r, p, d) == r.pass = p /\ r.to > d /\ r.to > r.from

(* MUTANT: a registration that has not begun ends before it starts.        *)
CheckedOutUnclamped(rows, p, d) ==
    { IF InForceFrom(r, p, d) THEN [r EXCEPT !.to = d, !.why = ENDED_BY_CHECKOUT] ELSE r
        : r \in rows }

CheckedOut(rows, p, d) ==
    { IF InForceFrom(r, p, d)
      THEN [r EXCEPT !.to = Greatest(d, r.from), !.why = ENDED_BY_CHECKOUT]
      ELSE r : r \in rows }

(* MUTANT: every garage's rows end on the latest garage's day.             *)
EndedOnOneDay(rows, p, i) ==
    LET d == CHOOSE e \in { DayAt[i][g] : g \in Garages } : \A g \in Garages : e >= DayAt[i][g]
    IN  { IF r.pass = p /\ r.to > Greatest(d, r.from)
          THEN [r EXCEPT !.to = Greatest(d, r.from), !.why = ENDED_BY_REVOCATION]
          ELSE r : r \in rows }

(* On EACH garage's own day of the instant.                                *)
EndedByRevocation(rows, p, i) ==
    { IF r.pass = p /\ r.to > Greatest(DayAt[i][r.garage], r.from)
      THEN [r EXCEPT !.to = Greatest(DayAt[i][r.garage], r.from), !.why = ENDED_BY_REVOCATION]
      ELSE r : r \in rows }

-----------------------------------------------------------------------------
(* A QR's stay: the days it is to hold, and the gaps in what its pass       *)
(* holds already.                                                          *)

(* The end day of a stay whose last day is last: bounded by valid_to.      *)
StayEnd(p, last) == IF last > ValidTo[p] THEN ValidTo[p] + 1 ELSE last + 1

(* MUTANT: held at any garage is held.                                     *)
HeldAnywhere(own, p, d) == \E g \in GaragesOf[p] : \E r \in own : r.garage = g /\ Covers(r, d)

(* A day is held when EVERY garage the pass names has a row covering it.   *)
HeldOn(own, p, d) == \A g \in GaragesOf[p] : \E r \in own : r.garage = g /\ Covers(r, d)

GapStarts(own, p, f, t) ==
    { d \in f..(t - 1) : ~HeldOn(own, p, d) /\ (d = f \/ HeldOn(own, p, d - 1)) }

GapEnd(own, p, d, t) ==
    CHOOSE e \in (d + 1)..t :
        /\ e = t \/ HeldOn(own, p, e)
        /\ \A x \in (d + 1)..(e - 1) : ~HeldOn(own, p, x)

(* The stay's registration up to day d: one row per garage, each ending on *)
(* d as a stay's last day.                                                 *)
EndingOn(own, d) == { r \in own : r.from < d /\ r.to = d }
MayRunOn(own, p, d) ==
    /\ EndingOn(own, d) # {}
    /\ \A g \in GaragesOf[p] : Cardinality({ r \in EndingOn(own, d) : r.garage = g }) = 1
    /\ \A r \in EndingOn(own, d) : r.why = ENDED_AFTER_LAST_DAY

(* _run_on's question: any registration of the plate, whoever's, already   *)
(* on those days at a garage of the pass.                                  *)
Stands(rows, p, c, d, t) == Holders(rows, p, c, d, t) # {}

-----------------------------------------------------------------------------
(* What writers that run one at a time leave of the register: a row per id, *)
(* at a garage its pass names, one car at a garage a day, and no row of a   *)
(* stay's pass, car and first day that ends after the stay's last day.      *)

NothingOutlastsAStay(rows) ==
    \A r, s \in rows :
        /\ r.pass = s.pass /\ r.car = s.car /\ r.from = s.from
        /\ r.why = ENDED_AFTER_LAST_DAY /\ r.from < r.to
        => s.to <= r.to

LeftByOneWriter(rows) ==
    /\ rows \subseteq Row /\ \A r \in rows : r.garage \in GaragesOf[r.pass]
    /\ \A r, s \in rows : r.reg = s.reg /\ r.garage = s.garage => r = s
    /\ \A r, s \in rows : r # s /\ r.garage = s.garage /\ r.car = s.car
                          => ~Overlaps(r, s.from, s.to)
    /\ NothingOutlastsAStay(rows)

=============================================================================
