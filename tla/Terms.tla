-------------------------------- MODULE Terms --------------------------------
(***************************************************************************)
(* When the terms of a pass contradict themselves (terms.py: check_terms,  *)
(* days_that_occur; passes.py: refuse_lanes_off_the_pass).  A Terms value  *)
(* that contradicts itself cannot be built, so none is ever stored.        *)
(*                                                                         *)
(* A day is a number, and day 1 is a Monday; a maximum stay is a number of *)
(* minutes; a lane is Blank or a name.  Which refusal is named first is    *)
(* wording, and left out.                                                  *)
(***************************************************************************)
EXTENDS Integers, FiniteSets, SequencesExt

CONSTANTS
    Unstated,  \* "not stated" of a day, a stay, an allowance, the lanes
    Blank,     \* a lane that is no text
    EndOfDay   \* END_OF_DAY: the minutes of a local day

Weekdays == 1..7
isoweekday(day) == ((day - 1) % 7) + 1

Bounded(terms) == terms.validFrom # Unstated /\ terms.validTo # Unstated

(* MUTANT: six days are every weekday.                                     *)
SixDaysAreAWeek(from, to) ==
    IF to - from >= 5 THEN Weekdays ELSE { isoweekday(day) : day \in from..to }

(* Seven days or more is every weekday; fewer is walked.                   *)
days_that_occur(from, to) ==
    IF to - from >= 6 THEN Weekdays ELSE { isoweekday(day) : day \in from..to }

WindowStands(window, terms) ==
    /\ window.days # {} /\ window.days \subseteq Weekdays
    /\ {window.start, window.end} \subseteq 0..EndOfDay
    /\ window.start < window.end
    /\ Bounded(terms) => window.days \cap days_that_occur(terms.validFrom, terms.validTo) # {}

(* The lanes stated, one entry per garage, each with lanes that have names. *)
LanesStand(entries) ==
    /\ entries # << >>
    /\ \A i \in DOMAIN entries : entries[i].lanes # {} /\ Blank \notin entries[i].lanes
    /\ \A i, j \in DOMAIN entries : entries[i].garage = entries[j].garage => i = j

check_terms(terms) ==
    /\ Bounded(terms) => terms.validFrom <= terms.validTo
    /\ \A i \in DOMAIN terms.windows : WindowStands(terms.windows[i], terms)
    /\ terms.maxStay # Unstated => terms.maxStay > 0
    /\ terms.allowance # Unstated =>
         /\ terms.allowance.count > 0
         /\ terms.allowance.per = "window" => terms.windows # << >>
    /\ terms.directions # {}
    /\ terms.lanes # Unstated => LanesStand(terms.lanes)

(* Lanes are stated at the garages the pass names, and at every one.       *)
refuse_lanes_off_the_pass(garages, terms) ==
    terms.lanes # Unstated => { terms.lanes[i].garage : i \in DOMAIN terms.lanes } = garages

lanes_at(terms, garage) ==
    IF terms.lanes = Unstated THEN Unstated
    ELSE UNION { terms.lanes[i].lanes : i \in { j \in DOMAIN terms.lanes :
                                                  terms.lanes[j].garage = garage } }

-----------------------------------------------------------------------------
(* What the terms are read for: a movement at a lane, on a day, at a       *)
(* minute, in a direction.                                                 *)
Allows(terms, garage, lane, day, minute, direction) ==
    /\ direction \in terms.directions
    /\ terms.validFrom = Unstated \/ terms.validFrom <= day
    /\ terms.validTo = Unstated \/ day <= terms.validTo
    /\ lanes_at(terms, garage) = Unstated \/ lane \in lanes_at(terms, garage)
    /\ terms.windows = << >> \/ \E i \in DOMAIN terms.windows :
         /\ isoweekday(day) \in terms.windows[i].days
         /\ terms.windows[i].start <= minute /\ minute < terms.windows[i].end
=============================================================================
