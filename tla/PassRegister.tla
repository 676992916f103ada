---------------------------- MODULE PassRegister ----------------------------
(***************************************************************************)
(* The register's writers, one committed transaction per action: the       *)
(* verbs create-pass, register-vehicle, end-registration, end-stay and     *)
(* set-state of store/records.py, each with everything it writes.  A call  *)
(* that is refused writes nothing and is not a step.                       *)
(*                                                                         *)
(* The database's EXCLUDE constraint is deliberately absent: the module's  *)
(* claim is that its own checks keep one car on one pass, and that the     *)
(* constraint is reached only by a raw write or by two writers racing.     *)
(***************************************************************************)
EXTENDS Register

CONSTANTS
    MaxRegistrations,  \* BOUND: registrations ever written
    StatesStated,      \* the states the documents of new passes state
    NoInstant          \* "never revoked"

VARIABLES
    passState,   \* passes.state, "absent" before create_pass
    revokedAt,   \* the instant pass_state_changes records for the revocation
    regs,        \* vehicle_registrations
    written      \* how many registrations were written: the next row's number

passVars == <<passState, revokedAt>>
vars == <<passState, revokedAt, regs, written>>

ASSUME BoundAssumption == MaxRegistrations \in Nat
ASSUME StatesStatedAssumption == StatesStated \subseteq States
ASSUME NoInstantAssumption == NoInstant \notin Instants

(* The rows keep the schema's own checks too: no row ends before it starts, *)
(* a row says why it ended exactly when it has an end day, and it is at a  *)
(* garage its pass names.                                                  *)
TypeOK ==
    /\ passState \in [Passes -> States \cup {"absent"}]
    /\ revokedAt \in [Passes -> Instants \cup {NoInstant}]
    /\ regs \in SUBSET Row
    /\ \A r \in regs : /\ r.from <= r.to /\ (r.to = Forever <=> r.why = OPEN)
                       /\ r.garage \in GaragesOf[r.pass]
    /\ written \in Nat

Init ==
    /\ passState = [p \in Passes |-> "absent"]
    /\ revokedAt = [p \in Passes |-> NoInstant]
    /\ regs = {}
    /\ written = 0

-----------------------------------------------------------------------------

(* The document may state any state the pass starts in.                    *)
CreatePass(p, s) ==
    /\ passState[p] = "absent"
    /\ GaragesOf[p] \subseteq Readable
    /\ passState' = [passState EXCEPT ![p] = s]
    /\ UNCHANGED <<revokedAt, regs, written>>

RegisterVehicle(p, c, f, t, why) ==
    /\ written < MaxRegistrations
    /\ Addressed(p)
    /\ passState[p] \in REGISTRABLE_STATES
    /\ MayRegister(regs, p, c, f, t)
    /\ regs' = Registered(regs, written, p, c, f, t, why)
    /\ written' = written + 1
    /\ UNCHANGED passVars

EndRegistration(p, c, d) ==
    /\ Addressed(p)
    /\ \E r \in Latest(regs, p, c) :
         /\ MayEnd(r, d)
         /\ regs' = Ended(regs, r, d)
    /\ UNCHANGED <<passState, revokedAt, written>>

EndStay(p, d) ==
    /\ Addressed(p)
    /\ \E r \in regs : InForceFrom(r, p, d)
    /\ regs' = CheckedOut(regs, p, d)
    /\ UNCHANGED <<passState, revokedAt, written>>

(* Every garage's day of the instant is derived before the first write.    *)
Revoke(p, i) ==
    /\ passState[p] # "absent"
    /\ "revoked" \in ALLOWED_TRANSITIONS[passState[p]]
    /\ GaragesOf[p] \subseteq Readable
    /\ passState' = [passState EXCEPT ![p] = "revoked"]
    /\ revokedAt' = [revokedAt EXCEPT ![p] = i]
    /\ regs' = EndedByRevocation(regs, p, i)
    /\ UNCHANGED written

ChangeState(p, to) ==
    /\ passState[p] # "absent"
    /\ Addressed(p)
    /\ to \in ALLOWED_TRANSITIONS[passState[p]] \ {"revoked"}
    /\ passState' = [passState EXCEPT ![p] = to]
    /\ UNCHANGED <<revokedAt, regs, written>>

Next ==
    \E p \in Passes :
        \/ \E s \in StatesStated : CreatePass(p, s)
        \/ \E c \in Cars, f \in Day, t \in EndDay,
              why \in {ENDED_BY_OWNER, ENDED_AFTER_LAST_DAY} : RegisterVehicle(p, c, f, t, why)
        \/ \E c \in Cars, d \in EndDay \ {Forever} : EndRegistration(p, c, d)
        \/ \E d \in Day : EndStay(p, d)
        \/ \E i \in Instants : Revoke(p, i)
        \/ \E to \in States : ChangeState(p, to)

Spec == Init /\ [][Next]_vars

-----------------------------------------------------------------------------
(* Properties *)

(* ONE CAR, ONE PASS PER GARAGE (G1): no two rows hold a car at a garage   *)
(* on a common day, by the module's own checks and without the EXCLUDE.    *)
OneCarOnePass ==
    \A r, s \in regs :
        r # s /\ r.garage = s.garage /\ r.car = s.car => ~Overlaps(r, s.from, s.to)

(* A revoked pass holds no car from the revocation's day, at each garage   *)
(* that garage's day of the instant (G5) -- whatever is written after it.  *)
RevokedHoldsNothing ==
    \A r \in regs : passState[r.pass] = "revoked" =>
        /\ revokedAt[r.pass] # NoInstant
        /\ r.to <= Greatest(DayAt[revokedAt[r.pass]][r.garage], r.from)

(* The register is a history: a row, once written, is never removed, never *)
(* re-dated at its start and never given a later end (there are no QRs     *)
(* here, whose registrations alone run on).                                *)
NoHoldGrowsStep == \A r \in regs : \E s \in regs' : Shortened(s, r)
NoHoldGrows == [][NoHoldGrowsStep]_vars

(* A write on one pass costs another pass nothing but the last day of its  *)
(* stay: the days a row loses while another pass registers are that row's  *)
(* last day (turnover) or days after its pass's valid_to (expiry release). *)
OnlyTheLastDayTurnsOverStep ==
    \A n \in regs' \ regs, r \in regs, s \in regs' :
        /\ n.reg = written /\ n.pass # r.pass
        /\ s.reg = r.reg /\ s.garage = r.garage
        => \A d \in Day : Covers(r, d) /\ ~Covers(s, d) =>
               d > ValidTo[r.pass] \/ d = LastDayOf(r)
OnlyTheLastDayTurnsOver == [][OnlyTheLastDayTurnsOverStep]_vars

(* The register implements the ledger of seats: a registration holds a    *)
(* seat while a row of its covers the day and the pass is not expired.     *)
NoHold == <<>>
HoldOn(g, c, d) ==
    LET on == { r \in regs : /\ r.garage = g /\ r.car = c
                             /\ Covers(r, d) /\ ~ExpiredOn(r.pass, d) }
    IN  IF on = {} THEN NoHold ELSE LET r == CHOOSE r \in on : TRUE IN <<r.pass, r.reg>>

Ledger == INSTANCE CarDays WITH
    Days <- Day,
    Numbers <- 0..(MaxRegistrations - 1),
    Free <- NoHold,
    hold <- [s \in Garages \X Cars \X Day |-> HoldOn(s[1], s[2], s[3])]

ImplementsCarDays == Ledger!CarDaysSpec

-----------------------------------------------------------------------------
(* What the documents say and the register does not hold. *)

(* Ending a registration on day D frees the identity from D, at every      *)
(* garage of the pass (README, "One car, one pass per garage"): no row of  *)
(* a registration outlives an end the owner wrote on it.  A row another    *)
(* pass's turnover had already ended, later than D, is not among the rows  *)
(* the end writes.                                                         *)
EndingFreesEveryGarage ==
    \A r, s \in regs : r.reg = s.reg /\ r.why = ENDED_BY_OWNER => s.to <= r.to

=============================================================================
