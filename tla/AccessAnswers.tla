---------------------------- MODULE AccessAnswers ----------------------------
(***************************************************************************)
(* The access call: a question is asked and answered.  Each property below *)
(* compares an answer with other answers of the same call -- to a smaller  *)
(* or a reordered question -- or with what the question says.              *)
(***************************************************************************)
EXTENDS Access

CONSTANTS
    Questions    \* what the callers ask

VARIABLES question, answer

answerVars == <<question, answer>>

NoAnswer == [outcome |-> "none"]
Answered == answer.outcome # "none"
Transients == {"yes", "no", "unstated"}

REFUSED_TO_ANSWER ==
    {"MISSING_TIMEZONE", "MISSING_VEHICLE_IDENTITY", "MISSING_LANE", "MISSING_TRANSIENT_MODE",
     "MISSING_PASS_HANDED_IN", "DUPLICATED_PASS_ID", "MISSING_ONE_PASS", "UNREADABLE_TERMS",
     "MISSING_GARAGE_HANDED_IN", "DUPLICATED_GARAGE_ID"}

NOT_COVERED_REASONS ==
    {"GARAGE_UNREADABLE", "BLANK_IDENTITY", "BLANK_LANE", "PASS_NOT_HANDED_IN",
     "PASS_DUPLICATED", "NO_PASS"}
        \cup ({ CHECKS[k] : k \in DOMAIN CHECKS } \ {"NO_CLOCK"})

(* What _require_inputs and the value types admit: whole sequences, a pass *)
(* with an id and a state, an instant or none.                             *)
IsSequence(s) == Len(s) \in Nat /\ DOMAIN s = 1..Len(s)
IsInstant(i) == i = None \/ i \in Int

IsPass(p) ==
    /\ DOMAIN p = {"id", "garages", "state", "readable", "terms", "text"}
    /\ p.id \in DOMAIN Place
    /\ \E k \in DOMAIN StateValues : p.state = StateValues[k]
    /\ p.readable \in BOOLEAN /\ p.text \in Int
    /\ p.readable => p.terms.allowance.per \in {"window", "life"}

(* Terms that read alike are the same terms (terms.py: describe).          *)
ReadAlike(p, r) ==
    p.id = r.id /\ p.readable /\ r.readable /\ p.text = r.text => p.terms = r.terms

IsQuestion(q) ==
    /\ DOMAIN q = {"garage", "passes", "registrations", "visits", "garages", "identity",
                   "lane", "direction", "at", "enteredAt"}
    /\ IsSequence(q.passes) /\ \A k \in DOMAIN q.passes : IsPass(q.passes[k])
    /\ \A j, k \in DOMAIN q.passes : ReadAlike(q.passes[j], q.passes[k])
    /\ IsSequence(q.registrations)
    /\ \A k \in DOMAIN q.registrations : IsInstant(q.registrations[k].exitOnlyAt)
    /\ IsSequence(q.visits)
    /\ IsSequence(q.garages)
    /\ IsInstant(q.enteredAt)

ASSUME QuestionsAssumption == \A q \in Questions : IsQuestion(q)

ASSUME PlaceAssumption ==
    \A a, b \in DOMAIN Place : Place[a] \in Int /\ (Place[a] = Place[b] => a = b)

ASSUME NoneAssumption ==
    None \notin Int /\ None \notin DOMAIN Place \cup REFUSED_TO_ANSWER \cup NOT_COVERED_REASONS

(* An answer is one of the three outcomes, with the reason or the missing  *)
(* field of that outcome alone, each one the contract publishes.           *)
IsAnswer(a) ==
    /\ a.outcome \in {"covered", "not_covered", "refused_to_answer"}
    /\ a.missing \in REFUSED_TO_ANSWER \cup {None}
    /\ a.reason \in NOT_COVERED_REASONS \cup {None}
    /\ a.outcome = "covered" => a.pass \in DOMAIN Place
    /\ a.outcome = "not_covered" <=> a.reason # None
    /\ a.outcome = "refused_to_answer" <=> a.missing # None

AnswersTypeOK == Answered => IsAnswer(answer)

AnswersInit == question \in Questions /\ answer = NoAnswer

Ask ==
    /\ ~Answered
    /\ answer' = Answer(question)
    /\ UNCHANGED question

AnswersSpec == AnswersInit /\ [][Ask]_answerVars

-----------------------------------------------------------------------------
(* AN EXIT IS NEVER REFUSED (G4): whatever was handed in, an exit is       *)
(* covered or not covered, never for a missing field, and an uncovered one *)
(* means out of terms and nothing else.                                    *)
ExitIsNeverRefused ==
    Answered /\ IsExit(question) =>
        /\ answer.outcome \in {"covered", "not_covered"}
        /\ answer.missing = None
        /\ answer.outcome = "not_covered" => answer.means = "EXIT_OUT_OF_TERMS"

(* The members of a sequence at the places S, in their order.              *)
At(s, S) ==
    [k \in 1..Cardinality(S) |->
        s[CHOOSE j \in S : Cardinality({ i \in S : i < j }) = k - 1]]

(* The question with one copy of one pass handed in, and its registrations. *)
Alone(q, p) ==
    LET onIt == { k \in DOMAIN q.registrations : q.registrations[k].pass = q.passes[p].id }
    IN  [q EXCEPT !.registrations = At(@, onIt), !.passes = <<@[p]>>]

(* A copy of a pass that names no garage here is still one of the copies:  *)
(* asked about alone it must be put at this garage.                        *)
HeldHere(q) ==
    LET p == q.passes[1]
    IN  [q EXCEPT !.passes = <<[p EXCEPT !.garages = @ \cup {q.garage.id}]>>]

(* Two passes that both hold a car, or two copies of one, never resolve    *)
(* against the holder at an exit and never for them: the exit is covered   *)
(* exactly when some copy of a pass with a registration in force would be  *)
(* covered were that copy, and its registrations, all that was handed in.  *)
AnyPassThatCoversLetsOut ==
    Answered /\ IsExit(question) =>
        (answer.outcome = "covered" <=>
            /\ question.garage.readable
            /\ question.identity # Blank
            /\ \E r \in Effective(question) :
                 \E p \in Copies(question, question.registrations[r].pass) :
                    /\ Duplicated(question, question.registrations[r].pass)
                       \/ question.garage.id \in question.passes[p].garages
                    /\ Answer(HeldHere(Alone(question, p))).outcome = "covered")

(* An entry is never guessed: it is covered only when exactly one          *)
(* registration of the car is in force, on one readable pass handed in     *)
(* once, and not one replaced; and then as if nothing else were handed in. *)
AnEntryIsCoveredOnOnePass ==
    Answered /\ ~IsExit(question) /\ answer.outcome = "covered" =>
        \E r \in Matching(question) :
            LET id == question.registrations[r].pass
            IN  /\ id = answer.pass
                /\ { s \in Matching(question) :
                       /\ InForce(question, question.registrations[s])
                       /\ \/ Copies(question, question.registrations[s].pass) = {}
                          \/ \E p \in Copies(question, question.registrations[s].pass) :
                               question.garage.id \in question.passes[p].garages } = {r}
                /\ \E p \in DOMAIN question.passes :
                     /\ Copies(question, id) = {p}
                     /\ Answer(Alone(question, p)) = answer
                /\ ~question.registrations[r].exitOnly

Backwards(s) == [k \in DOMAIN s |-> s[Len(s) + 1 - k]]

Reversed(q) ==
    [q EXCEPT !.passes = Backwards(@), !.registrations = Backwards(@),
              !.visits = Backwards(@), !.garages = Backwards(@)]

(* Nothing the lane acts on depends on the order the passes,               *)
(* registrations, visits and garages were handed in.                       *)
TheSameOutcomeInAnyOrder ==
    Answered =>
        LET other == Answer(Reversed(question))
        IN  /\ other.outcome = answer.outcome
            /\ other.reason = answer.reason
            /\ other.means = answer.means
            /\ other.unmeasured = answer.unmeasured
            /\ other.inconsistent = answer.inconsistent

(* A car replaced on a pass is over with it: it never enters on it, and    *)
(* does not leave on it for a stay known to have begun at or after every   *)
(* known instant it was replaced at.                                       *)
AReplacedCarIsOver ==
    Answered /\ answer.outcome = "covered" =>
        LET replaced == { r \in { question.registrations[k] : k \in DOMAIN question.registrations } :
                            /\ r.exitOnly /\ r.pass = answer.pass /\ InForce(question, r)
                            /\ Key[r.identity] = Key[question.identity] }
        IN  replaced # {} =>
                /\ IsExit(question)
                /\ \/ question.enteredAt = None
                   \/ \A r \in replaced : r.exitOnlyAt = None
                   \/ \E r \in replaced : r.exitOnlyAt # None /\ question.enteredAt < r.exitOnlyAt

(* The entries that fell on another day of the garage they were made at.   *)
OnAnotherDay(q) ==
    { k \in DOMAIN q.visits :
        /\ NoClock(q, q.visits[k].garage) = None
        /\ \E g \in IF q.visits[k].garage = q.garage.id THEN {q.garage}
                   ELSE { q.garages[j] : j \in DOMAIN q.garages } :
             /\ g.id = q.visits[k].garage
             /\ DayAt[q.visits[k].enteredAt][g.zone] # Today(q) }

WithoutVisits(q, S) == [q EXCEPT !.visits = At(@, DOMAIN @ \ S)]

(* An allowance per window counts every garage of the pass, each entry on  *)
(* the clock of the garage it was recorded at (G9): an entry that fell on  *)
(* another day there changes no entry's answer, and none is covered while  *)
(* an entry of its pass has no clock to be read on.                        *)
EachEntryOnItsOwnClock ==
    Answered /\ ~IsExit(question) =>
        /\ (\A p \in DOMAIN question.passes : question.passes[p].terms.allowance.per = "window")
           => Answer(WithoutVisits(question, OnAnotherDay(question))) = answer
        /\ answer.outcome = "covered" =>
             \A p \in DOMAIN question.passes, v \in DOMAIN question.visits :
                /\ question.passes[p].id = answer.pass
                /\ question.visits[v].pass = answer.pass
                /\ question.passes[p].terms.allowance.count > 0
                /\ question.passes[p].terms.allowance.per = "window"
                => NoClock(question, question.visits[v].garage) = None

=============================================================================
