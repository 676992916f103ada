----------------------------- MODULE Enrolments -----------------------------
(***************************************************************************)
(* The credentials on top of the register (store/enrolments.py): QRs made  *)
(* for a plate, QRs stored before plates were required, and the holder's   *)
(* one-time link -- every writer of the two credential tables, one         *)
(* committed transaction per action, composed with PassRegister's writers. *)
(*                                                                         *)
(* Left out because no property here depends on it: the token and its      *)
(* digest, the lane, the description, and enrolments.matches, an append-   *)
(* only log that no code reads.  A refusal that needs only a lane, a       *)
(* direction or a garage's enrols_at takes a step away and adds none.      *)
(***************************************************************************)
EXTENDS PassRegister

CONSTANTS
    Stays,     \* BOUND: the <<starts_on, last day>> a credential is issued for
    CodeIds,   \* ids a caller may give an enrolment
    LinkIds,   \* ids a caller may give a holder link
    NoCar,     \* "no plate", "bound to no car"
    Desk       \* the issuer of a credential no link issued

ASSUME StaysAssumption == Stays \subseteq { s \in Day \X Day : s[1] <= s[2] }
ASSUME NoCarAssumption == NoCar \notin Cars
ASSUME DeskAssumption == Desk \notin LinkIds

VARIABLES
    codes,     \* enrolments
    links      \* holder_links

creds == <<codes, links>>
allVars == <<vars, creds>>

Code == [id : CodeIds, pass : Passes, starts : Day, last : Day, by : LinkIds \cup {Desk},
         plate : Cars \cup {NoCar}, car : Cars \cup {NoCar},
         state : {"issued", "redeemed", "cancelled"}, exitOnly : BOOLEAN]
Link == [id : LinkIds, pass : Passes, starts : Day, last : Day,
         state : {"issued", "redeemed", "cancelled"}]

(* The schema's checks ride along: an id names one row, and a QR redeemed  *)
(* or marked exit only has a car.                                          *)
CredentialsTypeOK ==
    /\ codes \subseteq Code /\ links \subseteq Link
    /\ \A q, u \in codes : q.id = u.id => q = u
    /\ \A k, u \in links : k.id = u.id => k = u
    /\ \A q \in codes : q.state = "redeemed" \/ q.exitOnly => q.plate # NoCar \/ q.car # NoCar

EnrolInit == Init /\ codes = {} /\ links = {}

-----------------------------------------------------------------------------
(* Helpers *)

(* The car a QR answers for: its plate from issue, or the one it bound.    *)
Bound(q) == IF q.plate # NoCar THEN q.plate ELSE q.car

(* A pass a credential is issued onto, or redeemed on, on a day.           *)
Issuable(p, d) == passState[p] \in REGISTRABLE_STATES /\ ~ExpiredOn(p, d)

(* Expired is derived, and a state that was written outranks it.           *)
credential_state(k, d) == IF k.state = "issued" /\ d > k.last THEN "expired" ELSE k.state

Redeemable(k, d) == credential_state(k, d) = "issued" /\ k.starts <= d

(* MUTANT: the car's stays, whichever pass they are on.                    *)
StayOfTheCar(q, g, d) ==
    LET rows == { r \in regs : r.garage = g /\ r.car = Bound(q) }
    IN  IF \E r \in rows : Covers(r, d) THEN "live"
        ELSE IF \E r \in rows : r.to = d /\ EndsAStayThatDay(r.why) THEN "last_day"
        ELSE IF rows # {} /\ \A r \in rows : r.from > d THEN "not_started"
        ELSE "ended"

(* What a bound QR's own stay is on a day, by the rows of its car on its   *)
(* pass at that garage.                                                    *)
StayOf(q, g, d) ==
    LET rows == { r \in regs : r.garage = g /\ r.pass = q.pass /\ r.car = Bound(q) }
    IN  IF \E r \in rows : Covers(r, d) THEN "live"
        ELSE IF \E r \in rows : r.to = d /\ EndsAStayThatDay(r.why) THEN "last_day"
        ELSE IF rows # {} /\ \A r \in rows : r.from > d THEN "not_started"
        ELSE "ended"

(* A bound QR shown by its own car -- or confirmed by a picture match --   *)
(* is recognised: not cancelled and in its stay; where the stay ended that *)
(* day, or the car was replaced, at an exit only.                          *)
Recognised(q, g, d, dir) ==
    /\ Bound(q) # NoCar
    /\ q.state # "cancelled"
    /\ StayOf(q, g, d) \in {"live", "last_day"}
    /\ dir = "entry" => ~q.exitOnly /\ StayOf(q, g, d) = "live"

-----------------------------------------------------------------------------
(* Who may only leave: registrations_of derives it from the car's QRs on   *)
(* the pass, and nothing stores it on the registration.                    *)

(* MUTANT: a cancelled QR no longer says its car was replaced.             *)
ReplacedByALiveCode(p, c) ==
    \E q \in codes : q.pass = p /\ Bound(q) = c /\ q.exitOnly /\ q.state # "cancelled"

WasReplaced(p, c) == \E q \in codes : q.pass = p /\ Bound(q) = c /\ q.exitOnly

(* A QR of the car that lets it enter on the day: redeemed, or issued and  *)
(* within its own days.                                                    *)
LiveFor(q, p, c, today) ==
    /\ q.pass = p /\ Bound(q) = c /\ ~q.exitOnly
    /\ \/ credential_state(q, today) = "redeemed"
       \/ credential_state(q, today) = "issued" /\ q.starts <= today

ExitOnlyOn(p, c, today) ==
    WasReplaced(p, c) /\ ~\E q \in codes : LiveFor(q, p, c, today)

-----------------------------------------------------------------------------
(* _hold_the_whole_stay: the days of the stay the pass does not hold are   *)
(* filled, gap by gap in day order; what it held is read once, before.     *)

OwnRows(p, c, f, t) ==
    { r \in regs : r.pass = p /\ r.garage \in GaragesOf[p] /\ r.car = c /\ Overlaps(r, f, t) }

(* One gap: the stay so far is run on, or the days are registered.  acc is *)
(* what the walk carries: the rows, the next number, refused or not.       *)
FillGap(acc, own, p, c, d, stop, t) ==
    IF stop = t /\ MayRunOn(own, p, d) /\ ~Stands(acc.rows, p, c, d, t)
    THEN [acc EXCEPT !.rows = { IF r \in EndingOn(own, d) THEN [r EXCEPT !.to = t] ELSE r
                                  : r \in acc.rows }]
    ELSE IF MayRegister(acc.rows, p, c, d, stop)
    THEN [acc EXCEPT !.rows = Registered(acc.rows, acc.next, p, c, d, stop, ENDED_AFTER_LAST_DAY),
                     !.next = acc.next + 1]
    ELSE [acc EXCEPT !.refused = TRUE]

(* filled[d]: after the gaps that start by day d.                          *)
HoldTheWholeStay(p, c, f, t) ==
    LET own  == OwnRows(p, c, f, t)
        filled[d \in Nat] ==
            IF d < f THEN [rows |-> regs, next |-> written, refused |-> FALSE]
            ELSE LET acc == filled[d - 1]
                 IN  IF acc.refused \/ d \notin GapStarts(own, p, f, t) THEN acc
                     ELSE FillGap(acc, own, p, c, d, GapEnd(own, p, d, t), t)
    IN  filled[t - 1]

(* The part every issue of a QR for a plate shares.                        *)
MintForPlate(id, p, c, f, last) ==
    /\ \A q \in codes : q.id # id
    /\ <<f, last>> \in Stays
    /\ Issuable(p, f)
    /\ LET held == HoldTheWholeStay(p, c, f, StayEnd(p, last))
       IN  /\ ~held.refused
           /\ held.next <= MaxRegistrations
           /\ regs' = held.rows
           /\ written' = held.next

NewCode(id, p, c, f, last, by) ==
    [id |-> id, pass |-> p, starts |-> f, last |-> last, by |-> by, plate |-> c,
     car |-> NoCar, state |-> "issued", exitOnly |-> FALSE]

-----------------------------------------------------------------------------
(* Actions *)

IssueEnrolment(id, p, c, f, last) ==
    /\ Addressed(p)
    /\ MintForPlate(id, p, c, f, last)
    /\ codes' = codes \cup {NewCode(id, p, c, f, last, Desk)}
    /\ UNCHANGED <<passVars, links>>

(* The QR as it was issued before plates were required: the same mint, no  *)
(* plate and no registration.                                              *)
MintWithoutPlate(id, p, f, last) ==
    /\ Addressed(p)
    /\ \A q \in codes : q.id # id
    /\ <<f, last>> \in Stays
    /\ Issuable(p, f)
    /\ codes' = codes \cup {NewCode(id, p, NoCar, f, last, Desk)}
    /\ UNCHANGED <<vars, links>>

IssueHolderLink(id, p, f, last) ==
    /\ Addressed(p)
    /\ \A k \in links : k.id # id
    /\ <<f, last>> \in Stays
    /\ Issuable(p, f)
    /\ links' = links \cup {[id |-> id, pass |-> p, starts |-> f, last |-> last,
                             state |-> "issued"]}
    /\ UNCHANGED <<vars, codes>>

(* MUTANT: the link is not spent.                                          *)
LeftIssued(k) == links

Spent(k) == (links \ {k}) \cup {[k EXCEPT !.state = "redeemed"]}

RedeemHolderLink(k, g, i, id, c, f, last) ==
    /\ g \in GaragesOf[k.pass] \cap Readable
    /\ Redeemable(k, DayAt[i][g])
    /\ Issuable(k.pass, DayAt[i][g])
    /\ MintForPlate(id, k.pass, c, f, last)
    /\ codes' = codes \cup {NewCode(id, k.pass, c, f, last, k.id)}
    /\ links' = Spent(k)
    /\ UNCHANGED passVars

(* change_state to active, from the two states a first car moves.          *)
Activated(p) ==
    IF passState[p] \in {"draft", "awaiting_enrolment"}
    THEN [passState EXCEPT ![p] = "active"] ELSE passState

(* redeem_enrolment on a QR bound to no car: the lane binds it.            *)
BindOnFirstUse(q, g, i, c) ==
    /\ Bound(q) = NoCar
    /\ g \in GaragesOf[q.pass] \cap Readable
    /\ Redeemable(q, DayAt[i][g])
    /\ Issuable(q.pass, DayAt[i][g])
    /\ written < MaxRegistrations
    /\ MayRegister(regs, q.pass, c, DayAt[i][g], Forever)
    /\ regs' = Registered(regs, written, q.pass, c, DayAt[i][g], Forever, OPEN)
    /\ written' = written + 1
    /\ passState' = Activated(q.pass)
    /\ codes' = (codes \ {q}) \cup {[q EXCEPT !.state = "redeemed", !.car = c]}
    /\ UNCHANGED <<revokedAt, links>>

(* redeem_enrolment on a bound QR, and confirm_match's yes: a recognised   *)
(* use moves a pass still waiting for its first car, and nothing else.     *)
UseBoundCode(q, g, i, dir) ==
    /\ g \in GaragesOf[q.pass] \cap Readable
    /\ Recognised(q, g, DayAt[i][g], dir)
    /\ passState' = Activated(q.pass)
    /\ UNCHANGED <<revokedAt, regs, written, creds>>

(* MUTANT: every replaced QR stays for the exit, bound or not.             *)
LeftForTheExit(q) == [q EXCEPT !.exitOnly = TRUE]

(* A bound QR stays for the exit; one that never bound is cancelled.       *)
Replaced(q) ==
    IF Bound(q) # NoCar THEN [q EXCEPT !.exitOnly = TRUE] ELSE [q EXCEPT !.state = "cancelled"]

ReplaceCar(q, id, c, f, last) ==
    /\ Addressed(q.pass)
    /\ q.state # "cancelled" /\ ~q.exitOnly
    /\ MintForPlate(id, q.pass, c, f, last)
    /\ codes' = (codes \ {q}) \cup {Replaced(q), NewCode(id, q.pass, c, f, last, Desk)}
    /\ UNCHANGED <<passVars, links>>

CancelCode(q) ==
    /\ Addressed(q.pass)
    /\ q.state # "cancelled"
    /\ codes' = (codes \ {q}) \cup {[q EXCEPT !.state = "cancelled"]}
    /\ UNCHANGED <<vars, links>>

(* The revocation's cascade: a credential never outlives its pass.         *)
CancelledCodes(p) ==
    { IF q.pass = p /\ q.state \in {"issued", "redeemed"}
      THEN [q EXCEPT !.state = "cancelled"] ELSE q : q \in codes }
CancelledLinks(p) ==
    { IF k.pass = p /\ k.state = "issued" THEN [k EXCEPT !.state = "cancelled"] ELSE k
        : k \in links }

RevokePass(p, i) ==
    /\ Revoke(p, i)
    /\ codes' = CancelledCodes(p)
    /\ links' = CancelledLinks(p)

RegisterNext ==
    /\ \E p \in Passes :
         \/ \E s \in StatesStated : CreatePass(p, s)
         \/ \E c \in Cars, f \in Day, t \in EndDay : RegisterVehicle(p, c, f, t, ENDED_BY_OWNER)
         \/ \E c \in Cars, d \in EndDay \ {Forever} : EndRegistration(p, c, d)
         \/ \E d \in Day : EndStay(p, d)
         \/ \E to \in States : ChangeState(p, to)
    /\ UNCHANGED creds

EnrolNext ==
    \/ RegisterNext
    \/ \E p \in Passes, i \in Instants : RevokePass(p, i)
    \/ \E id \in CodeIds, p \in Passes, c \in Cars, f, last \in Day :
         IssueEnrolment(id, p, c, f, last)
    \/ \E id \in CodeIds, p \in Passes, f, last \in Day : MintWithoutPlate(id, p, f, last)
    \/ \E id \in LinkIds, p \in Passes, f, last \in Day : IssueHolderLink(id, p, f, last)
    \/ \E k \in links, g \in Garages, i \in Instants, id \in CodeIds, c \in Cars, f, last \in Day :
         RedeemHolderLink(k, g, i, id, c, f, last)
    \/ \E q \in codes, g \in Garages, i \in Instants, c \in Cars : BindOnFirstUse(q, g, i, c)
    \/ \E q \in codes, g \in Garages, i \in Instants, dir \in {"entry", "exit"} :
         UseBoundCode(q, g, i, dir)
    \/ \E q \in codes, id \in CodeIds, c \in Cars, f, last \in Day : ReplaceCar(q, id, c, f, last)
    \/ \E q \in codes : CancelCode(q)

EnrolSpec == EnrolInit /\ [][EnrolNext]_allVars

-----------------------------------------------------------------------------
(* Properties *)

(* THE PLATE IS HELD FOR EVERY DAY OF THE NEW QR'S STAY (G31): whatever    *)
(* the pass held before -- part of the stay, at some of its garages only,  *)
(* a stay that ended sooner -- a QR just issued holds its car from its     *)
(* first day to its last, at every garage, so it works to its own last day. *)
ANewCodeHoldsItsStayStep ==
    \A q \in codes' : q.plate # NoCar /\ (\A u \in codes : u.id # q.id) =>
        \A d \in q.starts..(StayEnd(q.pass, q.last) - 1), g \in GaragesOf[q.pass] :
            \E r \in regs' : r.garage = g /\ r.pass = q.pass /\ r.car = q.plate /\ Covers(r, d)
ANewCodeHoldsItsStay == [][ANewCodeHoldsItsStayStep]_allVars

(* NOTHING CARRIES OVER (G32): at one garage on one day, at most one pass  *)
(* is entered on a QR of a given car -- an earlier stay's QR never enters  *)
(* on the car's next stay, whatever was issued, run on or turned over.     *)
OneStayAnswers ==
    \A q, u \in codes, g \in Garages, d \in Day :
        /\ q.pass # u.pass /\ Bound(q) = Bound(u)
        /\ g \in GaragesOf[q.pass] \cap GaragesOf[u.pass]
        => ~(Recognised(q, g, d, "entry") /\ Recognised(u, g, d, "entry"))

(* A link is spent exactly when it issued its QR, and issues one (G24).    *)
OneLinkOneCode ==
    \A k \in links :
        LET made == { q \in codes : q.by = k.id }
        IN  (k.state = "redeemed" => Cardinality(made) = 1)
            /\ (k.state = "issued" => made = {})

(* A car replaced on a pass is let in on it again only by a QR made or     *)
(* bound for it after that: nothing else that is written -- a cancellation *)
(* of either QR, a revocation, a stay ended or begun again -- lets it back *)
(* in, though whether it was replaced is kept nowhere but on its old QRs.  *)
AReplacedCarNeedsANewCodeStep ==
    \A p \in Passes, c \in Cars, d \in Day :
        LET made == \E q \in codes' : /\ q.pass = p /\ Bound(q) = c
                                      /\ \A u \in codes : u.id = q.id => Bound(u) # c
        IN  ExitOnlyOn(p, c, d) /\ ~made => ExitOnlyOn(p, c, d)'
AReplacedCarNeedsANewCode == [][AReplacedCarNeedsANewCodeStep]_allVars

-----------------------------------------------------------------------------
(* What the documents say and the credentials do not hold. *)

(* The car's next stay may start on the stay's last day; before that day   *)
(* the plate on another pass is refused (G32): no registration on another  *)
(* pass takes a day of a QR's stay that is not the QR's last day.          *)
OnlyTheCheckoutDayTurnsOverStep ==
    \A q \in codes, d \in Day, g \in Garages :
        LET holds(rows) == \E r \in rows : /\ r.garage = g /\ r.pass = q.pass
                                           /\ r.car = q.plate /\ Covers(r, d)
            taken == \E r \in regs' \ regs : r.pass # q.pass /\ r.reg = written
        IN  /\ q.state = "issued" /\ q.plate # NoCar
            /\ q.starts <= d /\ d < StayEnd(q.pass, q.last) - 1
            => ~(holds(regs) /\ ~holds(regs') /\ taken)
OnlyTheCheckoutDayTurnsOver == [][OnlyTheCheckoutDayTurnsOverStep]_allVars

(* After its last day a QR opens nothing, at an entry or an exit           *)
(* (REFUSAL_CREDENTIAL_STAY_ENDED).                                        *)
AfterItsLastDayACodeOpensNothing ==
    \A q \in codes, g \in Garages, d \in Day, dir \in {"entry", "exit"} :
        q.plate # NoCar /\ d > q.last => ~Recognised(q, g, d, dir)
=============================================================================
