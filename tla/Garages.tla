------------------------------- MODULE Garages -------------------------------
(***************************************************************************)
(* The garages of a tenant, their two repairs, and the passes created at   *)
(* them (garage.py; store/records.py: store_garage, set_garage_timezone,   *)
(* set_garage_enrols_at, create_pass), as READ COMMITTED transactions: the *)
(* rows are read, unlocked; one statement writes; the commit.  The tz      *)
(* database of the running system may lose a zone, or carry it again: a    *)
(* garage that names it is unreadable, and takes one write, its repair.    *)
(*                                                                         *)
(* PostgreSQL is external: an INSERT waits for an uncommitted row of its   *)
(* key and is a UniqueViolation on a committed one; an UPDATE waits for an *)
(* uncommitted write of its row, then changes the columns it names on the  *)
(* row as committed.                                                       *)
(***************************************************************************)
EXTENDS Terms

CONSTANTS
    Garages,
    Zones,      \* the names typed as a timezone
    Passes,     \* ids of passes
    GarageDocs, \* what a document may state of a garage
    PassesOf,   \* PassesOf[p]: the garage set and terms a document may state for p
    Desks,      \* the connections at work at once
    Lanes, Days, Minutes,  \* the movements the properties ask about
    NoGarage, NoPass,
    MaxCalls    \* BOUND: transactions ever begun

VARIABLES
    carried,   \* the zones the running system carries
    rows,      \* garages, as committed
    changes,   \* garage_changes, as committed: append-only
    passes,    \* passes with their terms and garage set, as committed
    calls,     \* how many transactions began
    desk       \* each connection's transaction

vars == <<carried, rows, changes, passes, calls, desk>>

Ends == {"entry", "exit"}
Transients == {"yes", "no", Unstated}
Garage == [zone : Zones, transient : Transients, enrolsAt : Ends \cup {Unstated}]

Idle == [step |-> "idle", call |-> [verb |-> "none"], seen |-> NoGarage]

ASSUME NoGarageAssumption == NoGarage \notin Garage
(* What a document may say of terms, before anything is checked of it.     *)
TermsStated ==
    [validFrom : Int \cup {Unstated}, validTo : Int \cup {Unstated},
     windows : Seq([days : SUBSET Int, start : Int, end : Int]),
     maxStay : Int \cup {Unstated},
     allowance : [count : Int, per : {"life", "window"}] \cup {Unstated},
     directions : SUBSET Ends,
     lanes : Seq([garage : Garages, lanes : SUBSET (Lanes \cup {Blank})]) \cup {Unstated}]

ASSUME DocumentsAssumption ==
    /\ GarageDocs \subseteq Garage
    /\ \A p \in Passes : \A doc \in PassesOf[p] :
         doc.garages \subseteq Garages /\ doc.terms \in TermsStated

(* The movements asked about are enough of them: every minute of a day, a  *)
(* lane at least, and the days of a range that is bounded or one week of a *)
(* range that is not.                                                      *)
ASSUME MovementsAssumption ==
    /\ EndOfDay \in Nat \ {0} /\ 0..(EndOfDay - 1) \subseteq Minutes
    /\ Lanes # {}
    /\ \A p \in Passes : \A doc \in PassesOf[p] :
         LET from == doc.terms.validFrom
             to   == doc.terms.validTo
         IN  IF Bounded(doc.terms) THEN from..to \subseteq Days
             ELSE \E first \in Days :
                    /\ \A k \in 0..6 : first + k \in Days
                    /\ first \in Int /\ (from # Unstated => from <= first)
                    /\ (to # Unstated => first + 6 <= to)

-----------------------------------------------------------------------------
(* R1: a garage with no transient parking cannot enrol at its exit.        *)
refuse_enrols_at_contradiction(transient, enrolsAt) ==
    ~(transient = "no" /\ enrolsAt = "exit")

(* localday.zone: a name the running system does not carry is refused.     *)
zone(name) == name \in carried

Readable(g) == rows[g] # NoGarage /\ zone(rows[g].zone)

(* The row another transaction has written and not committed.              *)
WrittenBy(e) ==
    IF desk[e].step # "written" THEN {}
    ELSE IF desk[e].call.verb = "create-pass" THEN {<<"pass", desk[e].call.pass>>}
    ELSE {<<"garage", desk[e].call.garage>>}

Waits(d, row) == \E e \in Desks \ {d} : row \in WrittenBy(e)

-----------------------------------------------------------------------------
Init ==
    /\ carried = Zones
    /\ rows = [g \in Garages |-> NoGarage]
    /\ changes = << >>
    /\ passes = [p \in Passes |-> NoPass]
    /\ calls = 0
    /\ desk = [d \in Desks |-> Idle]

Goes(d, tx) == desk' = [desk EXCEPT ![d] = tx]

(* A call whose reads refuse nothing; a refused one writes nothing.        *)
Read(d, call, seen) ==
    /\ desk[d].step = "idle"
    /\ calls < MaxCalls
    /\ calls' = calls + 1
    /\ Goes(d, [step |-> "read", call |-> call, seen |-> seen])
    /\ UNCHANGED <<carried, rows, changes, passes>>

(* The Garage value is built before anything is read.                      *)
store_garage(d, g, garage) ==
    /\ zone(garage.zone)
    /\ refuse_enrols_at_contradiction(garage.transient, garage.enrolsAt)
    /\ rows[g] = NoGarage
    /\ Read(d, [verb |-> "create", garage |-> g, row |-> garage], NoGarage)

(* The one write that takes an unreadable garage.                          *)
set_garage_timezone(d, g, name) ==
    /\ zone(name)
    /\ rows[g] # NoGarage
    /\ Read(d, [verb |-> "repair", garage |-> g, field |-> "zone", new |-> name], rows[g])

set_garage_enrols_at(d, g, end) ==
    /\ Readable(g)
    /\ refuse_enrols_at_contradiction(rows[g].transient, end)
    /\ Read(d, [verb |-> "repair", garage |-> g, field |-> "enrolsAt", new |-> end], rows[g])

(* Every garage of the set is stored and readable; the terms were checked  *)
(* where the Pass was built.                                               *)
create_pass(d, g, p, doc) ==
    /\ check_terms(doc.terms) /\ refuse_lanes_off_the_pass(doc.garages, doc.terms)
    /\ g \in doc.garages
    /\ \A h \in doc.garages : Readable(h)
    /\ passes[p] = NoPass
    /\ Read(d, [verb |-> "create-pass", pass |-> p, doc |-> doc], NoGarage)

(* MUTANT: the whole row is written back as it was read.                   *)
RowAsRead(d, g) == desk[d].seen

(* An UPDATE of one column, on the row as committed.                       *)
RowUpdated(d, g) == rows[g]

(* The INSERT or UPDATE; one that finds its key taken is refused.          *)
Write(d) ==
    LET call == desk[d].call
        row == IF call.verb = "create-pass" THEN <<"pass", call.pass>>
               ELSE <<"garage", call.garage>>
        taken == \/ call.verb = "create-pass" /\ passes[call.pass] # NoPass
                 \/ call.verb = "create" /\ rows[call.garage] # NoGarage
    IN  /\ desk[d].step = "read"
        /\ ~Waits(d, row)
        /\ Goes(d, IF taken THEN Idle ELSE [desk[d] EXCEPT !.step = "written"])
        /\ UNCHANGED <<carried, rows, changes, passes, calls>>

(* What was written stands.                                                *)
Commits(d, verb) ==
    /\ desk[d].step = "written" /\ desk[d].call.verb = verb
    /\ Goes(d, Idle)
    /\ UNCHANGED <<carried, calls>>

CommitGarage(d) ==
    /\ Commits(d, "create")
    /\ rows' = [rows EXCEPT ![desk[d].call.garage] = desk[d].call.row]
    /\ UNCHANGED <<changes, passes>>

(* A repair stands with its record, whose old value is the one read.       *)
CommitRepair(d) ==
    LET call == desk[d].call
    IN  /\ Commits(d, "repair")
        /\ rows' = [rows EXCEPT ![call.garage] =
                      [RowUpdated(d, call.garage) EXCEPT ![call.field] = call.new]]
        /\ changes' = Append(changes,
             [garage |-> call.garage, field |-> call.field,
              old |-> desk[d].seen[call.field], new |-> call.new])
        /\ UNCHANGED passes

(* A pass stands whole: its row, its garages, its windows and its lanes.   *)
CommitPass(d) ==
    /\ Commits(d, "create-pass")
    /\ passes' = [passes EXCEPT ![desk[d].call.pass] = desk[d].call.doc]
    /\ UNCHANGED <<rows, changes>>

(* A refusal, or the connection lost: nothing was written.                 *)
Rollback(d) ==
    /\ desk[d].step # "idle"
    /\ Goes(d, Idle)
    /\ UNCHANGED <<carried, rows, changes, passes, calls>>

(* Another release of the tz database.                                     *)
Upgrade(zones) ==
    /\ zones # {} /\ zones # carried
    /\ carried' = zones
    /\ UNCHANGED <<rows, changes, passes, calls, desk>>

Next ==
    \/ \E d \in Desks, g \in Garages :
         \/ \E garage \in GarageDocs : store_garage(d, g, garage)
         \/ \E name \in Zones : set_garage_timezone(d, g, name)
         \/ \E end \in Ends : set_garage_enrols_at(d, g, end)
         \/ \E p \in Passes : \E doc \in PassesOf[p] : create_pass(d, g, p, doc)
    \/ \E d \in Desks : \/ Write(d) \/ Rollback(d)
                        \/ CommitGarage(d) \/ CommitRepair(d) \/ CommitPass(d)
    \/ \E zones \in SUBSET Zones : Upgrade(zones)

Spec == Init /\ [][Next]_vars

-----------------------------------------------------------------------------
(* Properties *)

(* THE REPAIR IS RECORDED: whatever repairs raced, the field of a repaired *)
(* garage is what its last record in the history says, so no repair was    *)
(* lost under another one of the other field or of the same one.           *)
TheHistoryEndsAtTheRow ==
    \A i \in DOMAIN changes :
        (\A j \in DOMAIN changes : j > i =>
            <<changes[j].garage, changes[j].field>> # <<changes[i].garage, changes[i].field>>)
        => rows[changes[i].garage][changes[i].field] = changes[i].new

(* ONLY TERMS THAT CAN BE MET ARE STORED (G2): at every garage a stored    *)
(* pass names there is a lane, and every window of it opens -- on some day *)
(* of its range, for some minute, in some direction.                       *)
AStoredPassCanBeUsed ==
    \A p \in Passes : passes[p] # NoPass =>
        LET terms == passes[p].terms
            opens(of, g) == \E lane \in Lanes, day \in Days, minute \in Minutes, dir \in Ends :
                              Allows([terms EXCEPT !.windows = of], g, lane, day, minute, dir)
        IN  \A g \in passes[p].garages :
              IF terms.windows = << >> THEN opens(<< >>, g)
              ELSE \A i \in DOMAIN terms.windows : opens(<<terms.windows[i]>>, g)

-----------------------------------------------------------------------------
(* What the documents say and the transactions do not keep. *)

(* "the old value and the new": the old value a repair records is the one  *)
(* it replaced.                                                            *)
TheHistoryIsAChain ==
    \A i, j \in DOMAIN changes :
        /\ i < j
        /\ <<changes[i].garage, changes[i].field>> = <<changes[j].garage, changes[j].field>>
        /\ \A k \in (i + 1)..(j - 1) :
             <<changes[k].garage, changes[k].field>> # <<changes[i].garage, changes[i].field>>
        => changes[j].old = changes[i].new
=============================================================================
