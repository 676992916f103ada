------------------------------- MODULE Access -------------------------------
(***************************************************************************)
(* The access answer (access.py): given a garage, the passes,              *)
(* registrations and visits the caller holds, a car, a lane, a direction   *)
(* and an instant, one answer.  A pure function, so operators and no       *)
(* state; AccessAnswers asks it questions, Lane asks it from the store.    *)
(*                                                                         *)
(* A question is a record q.  Its passes, registrations, visits and        *)
(* garages are sequences, as the caller handed them in: the order and the  *)
(* copies matter.  Instants are whole numbers, and the difference of two   *)
(* is the time elapsed; a zone reads an instant as a day and a minute of   *)
(* it.  A term that is not stated is 0 (valid_from, max_stay, a count),    *)
(* Forever (valid_to, end_day), None (lanes, instants) or <<>> (windows).  *)
(* The sentence of an answer (detail) is left out, but for whether it      *)
(* names an inconsistency in the data.                                     *)
(***************************************************************************)
EXTENDS Integers, Sequences, FiniteSets

CONSTANTS
    None,       \* not stated
    Blank,      \* an identity or a lane that is blank once stripped
    Forever,    \* later than every day
    Key,        \* Key[v]: plate_key, the normal form of identity v
    DayAt,      \* DayAt[i][z]: the local day of instant i in zone z
    MinuteAt,   \* MinuteAt[i][z]: its minute of that day
    Place       \* Place[id]: where pass id sorts among the ids

-----------------------------------------------------------------------------
(* Answers *)

StateValues == <<"active", "awaiting_enrolment", "draft", "revoked", "suspended">>

IsExit(q) == q.direction = "exit"
Today(q) == DayAt[q.at][q.garage.zone]
Minute(q) == MinuteAt[q.at][q.garage.zone]
Weekday(d) == ((d - 1) % 7) + 1
Largest(S) == CHOOSE x \in S : \A y \in S : y <= x
Least(S) == CHOOSE x \in S : \A y \in S : x <= y

Covered(p, unmeasured) ==
    [outcome |-> "covered", pass |-> p, reason |-> None, missing |-> None,
     means |-> "COVERED", unmeasured |-> unmeasured, inconsistent |-> FALSE]

Refused(missing, p) ==
    [outcome |-> "refused_to_answer", pass |-> p, reason |-> None, missing |-> missing,
     means |-> None, unmeasured |-> {}, inconsistent |-> FALSE]

NotCovered(q, reason, p) ==
    [outcome |-> "not_covered", pass |-> p, reason |-> reason, missing |-> None,
     means |-> IF IsExit(q) THEN "EXIT_OUT_OF_TERMS"
               ELSE IF q.garage.transient = "yes" THEN "TRANSIENT_STAY"
               ELSE "NOTHING_TO_ADMIT_AS",
     unmeasured |-> {}, inconsistent |-> FALSE]

NamingInconsistency(answer) == [answer EXCEPT !.inconsistent = TRUE]

-----------------------------------------------------------------------------
(* Which passes and registrations bear on the question *)

Copies(q, id) == { k \in DOMAIN q.passes : q.passes[k].id = id }

(* One id handed in more than once, a copy of it at this garage.           *)
Duplicated(q, id) ==
    /\ Cardinality(Copies(q, id)) > 1
    /\ \E k \in Copies(q, id) : q.garage.id \in q.passes[k].garages

(* The copy of an id that is not duplicated, if it names this garage.      *)
Selected(q, id) ==
    { k \in Copies(q, id) : ~Duplicated(q, id) /\ q.garage.id \in q.passes[k].garages }

InForce(q, r) == r.from <= Today(q) /\ Today(q) < r.to

Matching(q) ==
    { k \in DOMAIN q.registrations : Key[q.registrations[k].identity] = Key[q.identity] }

Here(q) ==
    { k \in Matching(q) : LET id == q.registrations[k].pass
                          IN  Duplicated(q, id) \/ Selected(q, id) # {} }

(* In force, and naming a pass that was not handed in.                     *)
Dangling(q) ==
    { k \in Matching(q) : /\ Copies(q, q.registrations[k].pass) = {}
                          /\ InForce(q, q.registrations[k]) }

Effective(q) == { k \in Here(q) : InForce(q, q.registrations[k]) }

(* MUTANT: an id handed in twice goes unnoticed.                           *)
DuplicatedUnnoticed(q) == {}

DuplicatedInForce(q) ==
    { k \in Effective(q) : Duplicated(q, q.registrations[k].pass) }

-----------------------------------------------------------------------------
(* One pass: what is measured *)

ReplacementsOf(q, id) ==
    { k \in Effective(q) : q.registrations[k].pass = id /\ q.registrations[k].exitOnly }

(* The latest instant the car was replaced at on the pass, or None.        *)
ReplacedAt(q, id) ==
    LET known == { q.registrations[k].exitOnlyAt : k \in ReplacementsOf(q, id) } \ {None}
    IN  IF known = {} THEN None ELSE Largest(known)

(* MUTANT: the stay is not compared with the replacement.                  *)
NeverAfterReplacement(q, id) == FALSE

EnteredAfterReplacement(q, id) ==
    /\ q.enteredAt # None /\ ReplacedAt(q, id) # None
    /\ q.enteredAt >= ReplacedAt(q, id)

LanesAt(terms, g) == IF g \in DOMAIN terms.lanes THEN terms.lanes[g] ELSE {}

OpenWindows(q, p) ==
    { k \in DOMAIN p.terms.windows :
        LET w == p.terms.windows[k]
        IN  /\ Weekday(Today(q)) \in w.days
            /\ w.start <= Minute(q) /\ Minute(q) < w.end }

HandedIn(q, g) == { k \in DOMAIN q.garages : q.garages[k].id = g }

(* Why an entry recorded at g cannot be read on g's clock, or None.        *)
NoClock(q, g) ==
    IF g = q.garage.id THEN None
    ELSE IF HandedIn(q, g) = {} THEN "MISSING_GARAGE_HANDED_IN"
    ELSE IF Cardinality(HandedIn(q, g)) > 1 THEN "DUPLICATED_GARAGE_ID"
    ELSE IF ~q.garages[Least(HandedIn(q, g))].readable THEN "MISSING_TIMEZONE"
    ELSE None

(* MUTANT: an entry is read on the asking garage's clock.                  *)
AskingZone(q, g) == q.garage.zone

ZoneOf(q, g) ==
    IF g = q.garage.id THEN q.garage.zone ELSE q.garages[Least(HandedIn(q, g))].zone

OnPass(q, p) == { k \in DOMAIN q.visits : q.visits[k].pass = p.id }

(* MUTANT: no exit is told apart where the allowance is counted.           *)
CountsAlways(q, p) == p.terms.allowance.count > 0

(* An entry counts the allowance, an exit never does.                      *)
Counts(q, p) == ~IsExit(q) /\ p.terms.allowance.count > 0

(* The first entry on the pass that cannot be read on its own clock.       *)
Unclocked(q, p) ==
    IF Counts(q, p) /\ p.terms.allowance.per = "window"
    THEN { k \in OnPass(q, p) : NoClock(q, q.visits[k].garage) # None }
    ELSE {}

VisitsUsed(q, p) ==
    IF p.terms.allowance.per = "life" THEN Cardinality(OnPass(q, p))
    ELSE LET w == p.terms.windows[Least(OpenWindows(q, p))]
             Read(k) == MinuteAt[q.visits[k].enteredAt][ZoneOf(q, q.visits[k].garage)]
         IN  Cardinality({ k \in OnPass(q, p) :
                 /\ DayAt[q.visits[k].enteredAt][ZoneOf(q, q.visits[k].garage)] = Today(q)
                 /\ w.start <= Read(k) /\ Read(k) < w.end })

(* The instant of the latest open entry of the car on the pass, here.      *)
EnteredHere(q, p) ==
    LET open == { q.visits[k].enteredAt : k \in { j \in OnPass(q, p) :
                    /\ q.visits[j].garage = q.garage.id
                    /\ Key[q.visits[j].identity] = Key[q.identity]
                    /\ q.visits[j].exitedAt = None } }
    IN  IF open = {} THEN None ELSE Largest(open)

StayMeasured(q, p) == EnteredHere(q, p) # None /\ EnteredHere(q, p) <= q.at

Unmeasured(q, p) ==
    IF ~IsExit(q) THEN {}
    ELSE { term \in {"max_stay", "replacement"} :
             IF term = "max_stay" THEN p.terms.maxStay > 0 /\ ~StayMeasured(q, p)
             ELSE /\ ReplacementsOf(q, p.id) # {}
                  /\ q.enteredAt = None \/ ReplacedAt(q, p.id) = None }

-----------------------------------------------------------------------------
(* One pass, in the order that is the contract: the first check that fails *)
(* is the answer, and nothing after it is evaluated.                       *)

CHECKS == <<"REVOKED", "PASS_UNREADABLE", "EXPIRED", "SUSPENDED", "NOT_ACTIVE",
            "NOT_STARTED", "EXIT_ONLY", "DIRECTION_NOT_ALLOWED", "WRONG_LANE",
            "OUTSIDE_WINDOW", "NO_CLOCK", "OUT_OF_VISITS", "OVER_MAX_STAY">>

Fails(q, p, check) ==
    CASE check = "REVOKED"         -> p.state = "revoked"
      [] check = "PASS_UNREADABLE" -> ~p.readable
      [] check = "EXPIRED"         -> p.terms.validTo < Today(q)
      [] check = "SUSPENDED"       -> p.state = "suspended"
      [] check = "NOT_ACTIVE"      -> p.state \in {"draft", "awaiting_enrolment"}
      [] check = "NOT_STARTED"     -> Today(q) < p.terms.validFrom
      [] check = "EXIT_ONLY"       -> /\ ReplacementsOf(q, p.id) # {}
                                      /\ ~IsExit(q) \/ EnteredAfterReplacement(q, p.id)
      [] check = "DIRECTION_NOT_ALLOWED" -> q.direction \notin p.terms.directions
      [] check = "WRONG_LANE"      -> /\ p.terms.lanes # None
                                      /\ q.lane \notin LanesAt(p.terms, q.garage.id)
      [] check = "OUTSIDE_WINDOW"  -> p.terms.windows # <<>> /\ OpenWindows(q, p) = {}
      [] check = "NO_CLOCK"        -> Unclocked(q, p) # {}
      [] check = "OUT_OF_VISITS"   -> /\ Counts(q, p)
                                      /\ VisitsUsed(q, p) >= p.terms.allowance.count
      [] check = "OVER_MAX_STAY"   -> /\ IsExit(q) /\ p.terms.maxStay > 0
                                      /\ StayMeasured(q, p)
                                      /\ q.at - EnteredHere(q, p) > p.terms.maxStay

FailedCheck(q, p) ==
    LET k == CHOOSE k \in DOMAIN CHECKS :
                 /\ Fails(q, p, CHECKS[k])
                 /\ \A j \in 1..(k - 1) : ~Fails(q, p, CHECKS[j])
    IN  CHECKS[k]

Passed(q, p) == \A k \in DOMAIN CHECKS : ~Fails(q, p, CHECKS[k])

(* MUTANT: an entry that cannot be read on its clock is not refused.       *)
EvaluateUnclocked(q, p) ==
    IF Passed(q, p) THEN Covered(p.id, Unmeasured(q, p))
    ELSE NotCovered(q, FailedCheck(q, p), p.id)

Evaluate(q, p) ==
    IF Passed(q, p) THEN Covered(p.id, Unmeasured(q, p))
    ELSE IF FailedCheck(q, p) = "NO_CLOCK"
    THEN Refused(NoClock(q, q.visits[Least(Unclocked(q, p))].garage), p.id)
    ELSE IF FailedCheck(q, p) = "PASS_UNREADABLE" /\ ~IsExit(q)
    THEN Refused("UNREADABLE_TERMS", p.id)
    ELSE NotCovered(q, FailedCheck(q, p), p.id)

-----------------------------------------------------------------------------
(* The whole answer *)

(* No registration is in force: the revoked pass if the car has one here,  *)
(* the one that ended last, the first of those that tie.                   *)
NobodyHolds(q) ==
    LET revoked == { k \in Here(q) : \E j \in Selected(q, q.registrations[k].pass) :
                                         q.passes[j].state = "revoked" }
        End(k) == IF q.registrations[k].to = Forever THEN Today(q) ELSE q.registrations[k].to
        From(k) == q.registrations[k].from
        last == { k \in revoked : \A j \in revoked :
                    End(j) < End(k) \/ (End(j) = End(k) /\ From(j) <= From(k)) }
    IN  IF revoked # {} THEN NotCovered(q, "REVOKED", q.registrations[Least(last)].pass)
        ELSE NotCovered(q, "NO_PASS", None)

(* The copies of every pass that holds the car, as places in q.passes.     *)
Candidates(q) ==
    UNION { IF Duplicated(q, id) THEN Copies(q, id) ELSE Selected(q, id)
              : id \in { q.registrations[k].pass : k \in Effective(q) } }

StateRank(s) == CHOOSE k \in DOMAIN StateValues : StateValues[k] = s

(* MUTANT: the copies of a pass are taken as they arrived.                 *)
InArrivalOrder(p, r) == Place[p.id] <= Place[r.id]

(* Passes by id, the copies of one by _copy_order (text stands for what    *)
(* the terms and the label read as).                                       *)
InOrder(p, r) ==
    \/ Place[p.id] < Place[r.id]
    \/ /\ p.id = r.id
       /\ \/ StateRank(p.state) < StateRank(r.state)
          \/ /\ p.state = r.state
             /\ \/ p.readable /\ ~r.readable
                \/ p.readable = r.readable /\ p.text <= r.text

FirstOf(q, S) ==
    q.passes[CHOOSE k \in S : \A j \in S : InOrder(q.passes[k], q.passes[j])]

(* MUTANT: the first copy decides, covering or not.                        *)
FirstCopyDecides(q) == NamingInconsistency(Evaluate(q, FirstOf(q, Candidates(q))))

(* More than one pass, or more than one copy, holds the car at an exit:    *)
(* each is evaluated and the car is covered if any of them covers it.      *)
EveryCopy(q) ==
    LET covering == { k \in Candidates(q) : Evaluate(q, q.passes[k]).outcome = "covered" }
    IN  NamingInconsistency(
          IF covering # {} THEN Evaluate(q, FirstOf(q, covering))
          ELSE IF DuplicatedInForce(q) # {} /\ Cardinality(Effective(q)) = 1 /\ Dangling(q) = {}
          THEN NotCovered(q, "PASS_DUPLICATED", None)
          ELSE Evaluate(q, FirstOf(q, Candidates(q))))

(* What cannot be answered: named at an exit, refused at an entry.         *)
Unanswerable(q, reason, missing) ==
    IF IsExit(q) THEN NotCovered(q, reason, None) ELSE Refused(missing, None)

OfTheRegistrations(q) ==
    IF Dangling(q) # {} /\ ~IsExit(q) THEN Refused("MISSING_PASS_HANDED_IN", None)
    ELSE IF DuplicatedInForce(q) # {} /\ ~IsExit(q) THEN Refused("DUPLICATED_PASS_ID", None)
    ELSE IF Effective(q) = {}
    THEN IF Dangling(q) # {}
         THEN NamingInconsistency(NotCovered(q, "PASS_NOT_HANDED_IN", None))
         ELSE NobodyHolds(q)
    ELSE IF Cardinality(Effective(q)) = 1 /\ Dangling(q) = {} /\ DuplicatedInForce(q) = {}
    THEN Evaluate(q, FirstOf(q, Candidates(q)))
    ELSE IF ~IsExit(q) THEN Refused("MISSING_ONE_PASS", None)
    ELSE EveryCopy(q)

Answer(q) ==
    IF ~q.garage.readable THEN Unanswerable(q, "GARAGE_UNREADABLE", "MISSING_TIMEZONE")
    ELSE IF q.identity = Blank
    THEN Unanswerable(q, "BLANK_IDENTITY", "MISSING_VEHICLE_IDENTITY")
    ELSE IF q.lane = Blank THEN Unanswerable(q, "BLANK_LANE", "MISSING_LANE")
    ELSE IF ~IsExit(q) /\ q.garage.transient = "unstated"
    THEN Refused("MISSING_TRANSIENT_MODE", None)
    ELSE OfTheRegistrations(q)
=============================================================================
