-------------------------------- MODULE Lane --------------------------------
(***************************************************************************)
(* The lane's answer from the store (store/access.py): what the rows of    *)
(* the register and the credentials hand the access engine, composed with  *)
(* every writer of them.  The answer changes nothing, so there are no      *)
(* actions of its own: an invariant asks every question in every state.    *)
(*                                                                         *)
(* The reads of one answer are taken as of one moment.  Rows that start on *)
(* one day, and visits of one instant, come in a fixed order, which the    *)
(* queries leave open; the visits of all the passes are in one order,      *)
(* where the code appends a pass's to those before.  The zone of a garage  *)
(* is named by the garage; the instant of a replacement is not kept        *)
(* (AccessAnswers is about it), nor the one a stay entered at.             *)
(*                                                                         *)
(* What the store holds may be unreadable to the system that answers: a    *)
(* release of the tz database drops a zone (Garages.Upgrade), a validator  *)
(* is tightened after a pass was stored.  Either may happen at any moment  *)
(* and be undone, and what cannot be read is refused every write that asks *)
(* a day or a term of it, so it brings the rows into no state they are not *)
(* brought into without it.  Every question is therefore asked of every    *)
(* system that could be running then (Systems), whatever ran before.       *)
(***************************************************************************)
EXTENDS Enrolments, SequencesExt

CONSTANTS
    TermsOf,     \* TermsOf[p]: the terms of pass p, as Access reads them
    Recorded,    \* the visits recorded so far
    PassOrder,   \* PassOrder[p]: where p's id sorts
    TransientAt, \* TransientAt[g]: what garage g states of transient parking
    Unstated,    \* the value that stands for "not stated"
    Systems      \* the systems that may be the one that answers

ASSUME TermsAssumption == \A p \in Passes : TermsOf[p].validTo = ValidTo[p]

(* A visit is at a garage its pass names (the schema's foreign key); a car *)
(* has a plate and the lane a name, so neither reads as blank.             *)
ASSUME LaneAssumption ==
    /\ IsFiniteSet(Garages) /\ IsFiniteSet(Recorded)
    /\ TransientAt \in [Garages -> {"yes", "no", "unstated"}]
    /\ \A v \in Recorded : v.garage \in GaragesOf[v.pass] /\ v.enteredAt \in Int
    /\ NoCar # "lane"

(* The garages whose zones a system carries, and the passes whose stored   *)
(* terms its validators no longer accept.                                  *)
ASSUME SystemsAssumption ==
    Systems \subseteq [carried : SUBSET Garages, stranded : SUBSET Passes]

Engine == INSTANCE Access WITH
    None <- Unstated,
    Blank <- NoCar,
    Key <- [c \in Cars |-> c],
    MinuteAt <- [i \in Instants |-> [g \in Garages |-> 0]],
    Place <- PassOrder

-----------------------------------------------------------------------------
(* The queries' order: by effective_day, by entered_at.                    *)

ByDay(rows) ==
    CHOOSE s \in SetToSeqs(rows) : \A j, k \in DOMAIN s : j < k => s[j].from <= s[k].from

ByEntry(visits) ==
    CHOOSE s \in SetToSeqs(visits) :
        \A j, k \in DOMAIN s : j < k => s[j].enteredAt <= s[k].enteredAt

-----------------------------------------------------------------------------
(* registrations_of *)

Handed(r, today) ==
    [pass |-> r.pass, identity |-> r.car, from |-> r.from, to |-> r.to,
     exitOnly |-> ExitOnlyOn(r.pass, r.car, today), exitOnlyAt |-> Unstated]

RowsOf(g, c) == { r \in regs : r.garage = g /\ r.car = c }

-----------------------------------------------------------------------------
(* answer_in_transaction *)

CheckedOutOn(g, c, d) ==
    { r.pass : r \in { s \in RowsOf(g, c) : s.to = d /\ s.from < d /\ s.why = ENDED_BY_CHECKOUT } }

(* MUTANT: the stay's own last day is like any day after it.               *)
AsTheyAre(g, c, today, direction) == RowsOf(g, c)

(* On the day the guest checked out, where nothing else holds the car, an  *)
(* exit finds the stay running to the end of the day.                      *)
RowsAnswering(g, c, today, direction) ==
    IF direction = "exit" /\ ~\E r \in RowsOf(g, c) : Covers(r, today)
    THEN { IF r.pass \in CheckedOutOn(g, c, today) /\ r.to = today
           THEN [r EXCEPT !.to = today + 1] ELSE r : r \in RowsOf(g, c) }
    ELSE RowsOf(g, c)

(* A stored row the system cannot read is handed in as unreadable.         *)
GarageHanded(g, sys) ==
    [id |-> g, zone |-> g, readable |-> g \in sys.carried, transient |-> TransientAt[g]]

PassHanded(p, sys) ==
    [id |-> p, garages |-> GaragesOf[p], state |-> passState[p],
     readable |-> p \notin sys.stranded,
     terms |-> IF p \in sys.stranded THEN Unstated ELSE TermsOf[p], text |-> 0]

(* MUTANT: the engine is handed the asking garage's clock alone.           *)
NoOtherGarage(ps, g) == {}

OtherGarages(ps, g) == (UNION { GaragesOf[p] : p \in ps }) \ {g}

(* What is loaded for one movement: the rows, their passes, the visits on  *)
(* those passes, and every other garage those passes name.  (An asking     *)
(* garage without a clock has no day: the engine answers before it reads   *)
(* one.)                                                                   *)
QuestionFromStore(g, c, i, direction, sys) ==
    LET today == DayAt[i][g]
        rows == RowsAnswering(g, c, today, direction)
        ps == { r.pass : r \in rows }
        ordered == ByDay(rows)
    IN  [garage |-> GarageHanded(g, sys),
         passes |-> SetToSeq({ PassHanded(p, sys) : p \in ps }),
         registrations |-> [k \in DOMAIN ordered |-> Handed(ordered[k], today)],
         visits |-> ByEntry({ v \in Recorded : v.pass \in ps }),
         garages |-> SetToSeq({ GarageHanded(h, sys) : h \in OtherGarages(ps, g) }),
         identity |-> c, lane |-> "lane", direction |-> direction, at |-> i,
         enteredAt |-> Unstated]

AnswerFromStore(g, c, i, direction, sys) ==
    Engine!Answer(QuestionFromStore(g, c, i, direction, sys))

-----------------------------------------------------------------------------
(* Properties *)

(* The passes whose rows hold the car at the garage on the day.            *)
HoldersOf(g, c, d) == { r.pass : r \in { s \in RowsOf(g, c) : Covers(s, d) } }

(* An entry asked of the store is refused an answer for nothing but what   *)
(* the answering system cannot read, and the refusal names it: the asking  *)
(* garage's zone, or its transient mode where it never stated one; the     *)
(* terms of the pass that holds the car; the clock of another garage of    *)
(* that pass, where a visit waits to be counted.  Never for a pass missing *)
(* or handed in twice, two passes on one car, or a garage left out.  And   *)
(* on terms that cannot be read no entry is decided at all (G17): it is    *)
(* neither let in nor turned away, unless the pass is revoked.             *)
OnlyTheUnreadableIsLeftUnanswered ==
    \A sys \in Systems, g \in Garages, c \in Cars, i \in Instants :
        LET answer == AnswerFromStore(g, c, i, "entry", sys)
            held == HoldersOf(g, c, DayAt[i][g])
            unread == { p \in held \cap sys.stranded : passState[p] # "revoked" }
            uncounted == { p \in held \ sys.stranded :
                             \E v \in Recorded : v.pass = p /\ v.garage \notin sys.carried }
        IN  /\ answer.outcome = "refused_to_answer" =>
                 \/ answer.missing = "MISSING_TIMEZONE" /\ g \notin sys.carried
                 \/ answer.missing = "MISSING_TRANSIENT_MODE" /\ TransientAt[g] = "unstated"
                 \/ answer.missing = "UNREADABLE_TERMS" /\ answer.pass \in unread
                 \/ answer.missing = "MISSING_TIMEZONE" /\ answer.pass \in uncounted
            /\ unread # {} => answer.outcome = "refused_to_answer"

(* What the terms of a pass alone decide of an exit.                       *)
TERMS_CHECKS ==
    {"NOT_STARTED", "DIRECTION_NOT_ALLOWED", "WRONG_LANE", "OUTSIDE_WINDOW", "OVER_MAX_STAY"}

(* The guest who checked out today and is still inside drives out on their *)
(* own pass by plate, where its terms let a car out, unless another stay   *)
(* of the car has begun -- whatever other garage or pass cannot be read,   *)
(* and no other pass is ever charged or credited with that exit.           *)
ACheckedOutGuestDrivesOut ==
    \A sys \in Systems, g \in Garages, c \in Cars, i \in Instants, r \in regs :
        LET d == DayAt[i][g]
            question == QuestionFromStore(g, c, i, "exit", sys)
            answer == AnswerFromStore(g, c, i, "exit", sys)
        IN  /\ r.garage = g /\ r.car = c /\ r.from < d /\ r.to = d
            /\ r.why = ENDED_BY_CHECKOUT
            /\ g \in sys.carried /\ r.pass \notin sys.stranded
            /\ passState[r.pass] = "active" /\ ~ExpiredOn(r.pass, d)
            /\ \A check \in TERMS_CHECKS :
                 ~Engine!Fails(question, PassHanded(r.pass, sys), check)
            /\ ~\E s \in RowsOf(g, c) : Covers(s, d)
            => answer.outcome = "covered" /\ answer.pass = r.pass

(* Two passes holding one car is "a state this module refuses to create"   *)
(* (access.py), so no answer from the store names an inconsistency.        *)
TheStoreIsNeverInconsistent ==
    \A sys \in Systems, g \in Garages, c \in Cars, i \in Instants,
        direction \in {"entry", "exit"} :
            ~AnswerFromStore(g, c, i, direction, sys).inconsistent
=============================================================================
