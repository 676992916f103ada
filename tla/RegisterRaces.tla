---------------------------- MODULE RegisterRaces ----------------------------
(***************************************************************************)
(* The register's writers again, now as the transactions they are: several *)
(* callers in READ COMMITTED at once, one SQL statement -- and within an   *)
(* UPDATE or at the EXCLUDE constraint one row -- at a time.  PassRegister *)
(* says what one writer alone does; this module says what is left of it    *)
(* when another pass's writer moves the rows in between.                   *)
(*                                                                         *)
(* PostgreSQL, modelled from how the store uses it (external):             *)
(*   - a statement reads what is committed when it starts, and the         *)
(*     transaction's own writes;                                           *)
(*   - an UPDATE waits for a row another transaction has written, and then *)
(*     judges its WHERE on the row as committed;                           *)
(*   - a row is placed first and the EXCLUDE looked up after: a clash with *)
(*     a row in progress waits for that transaction, a clash with a        *)
(*     committed row refuses, and a cycle of waits rolls one writer back.  *)
(*                                                                         *)
(* The states of a pass are left to PassRegister but for one: revoked.     *)
(***************************************************************************)
EXTENDS Register

CONSTANTS
    Txs,        \* the connections writing at once
    Calls,      \* the calls a caller may make
    Starts,     \* register states one writer at a time can leave
    MaxBegun,   \* BOUND: transactions ever begun
    Never       \* "not revoked"

VARIABLES
    regs,       \* vehicle_registrations, as committed
    revokedAt,  \* the instant of a pass's revocation, as committed
    begun,      \* how many transactions began
    written,    \* how many registrations were numbered: a row's id
    call,       \* the call each connection serves
    pc,         \* where it is in that call
    plan,       \* what it has read, and the writes it still has to make
    mine,       \* the row versions it has written and not committed
    placed      \* the one of them the EXCLUDE has not looked up yet

vars == <<regs, revokedAt, begun, written, call, pc, plan, mine, placed>>

(* "register" takes from, to and why; "hold" -- the registration under a   *)
(* QR being issued -- the stay [from, to); "end" and "end_stay" end on the *)
(* day to; "revoke" happens at the instant at.                             *)
Verbs == {"register", "hold", "end", "end_stay", "revoke"}
Call == [verb : Verbs, pass : Passes, car : Cars, from : Day, to : EndDay, why : Reasons,
         at : Instants \cup {Never}]
NoCall == [verb |-> "none"]

ASSUME NeverAssumption == Never \notin Instants
ASSUME BegunAssumption == MaxBegun \in Nat
ASSUME CallsAssumption ==
    /\ Calls \subseteq Call
    /\ \A c \in Calls : /\ c.verb = "revoke" => c.at \in Instants
                        /\ c.verb = "hold" => c.to # Forever
(* Enrolments' writers, one at a time, leave nothing else.                 *)
ASSUME StartsAssumption ==
    \A s \in Starts : /\ IsFiniteSet(s) /\ \A r \in s : r.reg < Cardinality(s)
                      /\ LeftByOneWriter(s)

(* One row write: an INSERT ("put"), or an UPDATE of the row's id to row's *)
(* end and reason -- where it still ends as it was read ("as_read"), while *)
(* it is open ("if_open"), where it ends later ("if_later"), or whatever   *)
(* it has become ("by_id").  step orders the statements.                   *)
Write == [step : 0..3, kind : {"put", "as_read", "if_open", "if_later", "by_id"},
          row : Row, was : EndDay]

Update(step, kind, r, to, why) ==
    [step |-> step, kind |-> kind, row |-> [r EXCEPT !.to = to, !.why = why], was |-> r.to]

(* own: the pass's rows of the car, as a hold read them.  gaps: the first  *)
(* days of its gaps still to fill.  leg: the range being registered.       *)
(* unread: the garages whose holders are not read yet.  seen: the holders. *)
Plan == [own : SUBSET Row, gaps : SUBSET Day, leg : Day \X EndDay,
         unread : SUBSET Garages, seen : SUBSET Row, todo : SUBSET Write]
NoPlan == [own |-> {}, gaps |-> {}, leg |-> <<1, 1>>, unread |-> {}, seen |-> {}, todo |-> {}]

TypeOK ==
    /\ regs \subseteq Row
    /\ \A r \in regs : r.from <= r.to /\ (r.to = Forever <=> r.why = OPEN)
    /\ revokedAt \in [Passes -> Instants \cup {Never}]
    /\ begun \in Nat /\ written \in Nat
    /\ call \in [Txs -> Calls \cup {NoCall}]
    /\ pc \in [Txs -> {"idle", "lock", "read", "holders", "write", "check"}]
    /\ \A t \in Txs : plan[t] \in Plan
    /\ mine \in [Txs -> SUBSET Row]
    /\ \A t \in Txs : placed[t] \subseteq mine[t] /\ (placed[t] # {} <=> pc[t] = "check")

Init ==
    /\ regs \in Starts
    /\ written = Cardinality(regs)
    /\ revokedAt = [p \in Passes |-> Never]
    /\ begun = 0
    /\ call = [t \in Txs |-> NoCall]
    /\ pc = [t \in Txs |-> "idle"]
    /\ plan = [t \in Txs |-> NoPlan]
    /\ mine = [t \in Txs |-> {}]
    /\ placed = [t \in Txs |-> {}]

-----------------------------------------------------------------------------
(* What a transaction sees, and what it waits for. *)

SameRow(r, s) == r.reg = s.reg /\ r.garage = s.garage

(* The committed rows t has written a later version of.                    *)
Superseded(t) == { r \in regs : \E s \in mine[t] : SameRow(r, s) }

(* What a statement of t reads: the committed rows, and its own writes.    *)
View(t) == (regs \ Superseded(t)) \cup mine[t]

(* Two rows the EXCLUDE constraint refuses together.                       *)
Clash(r, s) == r.garage = s.garage /\ r.car = s.car /\ Overlaps(r, s.from, s.to)

HasWritten(u, r) == \E s \in mine[u] : SameRow(r, s)

(* MUTANT: lock_clause is empty, so a pass's writers do not serialise.     *)
Unlocked(t) == TRUE

(* Nobody else holds the pass row t's call locks first.                    *)
PassFree(t) ==
    ~\E u \in Txs \ {t} : pc[u] \notin {"idle", "lock"} /\ call[u].pass = call[t].pass

(* The next row writes: statement by statement, garage by garage, and the  *)
(* rows of one UPDATE (step 0) in whatever order the database meets them.  *)
NextWrites(t) ==
    { w \in plan[t].todo : \A v \in plan[t].todo :
        w.step < v.step \/ (w.step = v.step /\ (w.step = 0 \/ w.row.garage <= v.row.garage)) }

(* Rows of other transactions the placed row clashes with: written and not *)
(* committed, or committed and being rewritten.                            *)
InProgress(t, u, x) ==
    \/ \E s \in mine[u] : Clash(x, s)
    \/ \E r \in View(t) \ {x} : Clash(x, r) /\ HasWritten(u, r)

Waits(t, u) ==
    /\ t # u
    /\ \/ pc[t] = "lock" /\ pc[u] \notin {"idle", "lock"} /\ call[u].pass = call[t].pass
       \/ pc[t] = "write" /\ \E w \in NextWrites(t) : w.kind # "put" /\ HasWritten(u, w.row)
       \/ pc[t] = "check" /\ \E x \in placed[t] : InProgress(t, u, x)

(* MUTANT: a cycle of waits is never broken.                               *)
NeverDeadlocked(t) == FALSE

(* t waits in a circle: everyone in it waits for somebody in it.           *)
Deadlocked(t) ==
    \E ring \in SUBSET Txs : t \in ring /\ \A u \in ring : \E v \in ring : Waits(u, v)

-----------------------------------------------------------------------------
(* Beginning and ending. *)

Go(t, to) == pc' = [pc EXCEPT ![t] = to]
Plans(t, p) == plan' = [plan EXCEPT ![t] = p]

Begin(t) ==
    /\ pc[t] = "idle"
    /\ begun < MaxBegun
    /\ begun' = begun + 1
    /\ \E c \in Calls : call' = [call EXCEPT ![t] = c]
    /\ Go(t, "lock")
    /\ UNCHANGED <<regs, revokedAt, written, plan, mine, placed>>

Closed(t) ==
    /\ call' = [call EXCEPT ![t] = NoCall]
    /\ Go(t, "idle")
    /\ Plans(t, NoPlan)
    /\ mine' = [mine EXCEPT ![t] = {}]
    /\ placed' = [placed EXCEPT ![t] = {}]
    /\ UNCHANGED <<begun, written>>

(* A refusal, the database's or the module's: every row goes back.         *)
Rollback(t) == Closed(t) /\ UNCHANGED <<regs, revokedAt>>

Commit(t) ==
    /\ pc[t] = "write" /\ plan[t].todo = {} /\ plan[t].gaps = {}
    /\ regs' = View(t)
    /\ revokedAt' = IF call[t].verb = "revoke"
                    THEN [revokedAt EXCEPT ![call[t].pass] = call[t].at] ELSE revokedAt
    /\ Closed(t)

(* The process or its connection dies: the database rolls back.            *)
Lost(t) == pc[t] # "idle" /\ Rollback(t)

-----------------------------------------------------------------------------
(* The statements. *)

(* The range a call registers is one its pass can take.                    *)
InTerms(c) ==
    /\ ~ExpiredOn(c.pass, c.from)
    /\ c.to # Forever => c.from < c.to /\ c.to <= ValidTo[c.pass] + 1

(* lock_pass_row, and the pass re-read under the lock: a register or a     *)
(* hold on a pass revoked meanwhile, or expired, is refused by name.       *)
LockPass(t) ==
    /\ pc[t] = "lock"
    /\ PassFree(t)
    /\ LET c == call[t] IN
         IF \/ c.verb \in {"register", "hold"} /\ (revokedAt[c.pass] # Never \/ ~InTerms(c))
            \/ c.verb = "revoke" /\ revokedAt[c.pass] # Never
         THEN Rollback(t)
         ELSE /\ IF c.verb = "register"
                 THEN /\ Go(t, "holders")
                      /\ Plans(t, [plan[t] EXCEPT !.leg = <<c.from, c.to>>,
                                                  !.unread = GaragesOf[c.pass]])
                 ELSE Go(t, "read") /\ UNCHANGED plan
              /\ UNCHANGED <<regs, revokedAt, begun, written, call, mine, placed>>

(* The writes are known: nothing was written before them.                  *)
WillWrite(t, writes) ==
    /\ Go(t, "write")
    /\ Plans(t, [plan[t] EXCEPT !.todo = writes])
    /\ UNCHANGED <<regs, revokedAt, begun, written, call, mine, placed>>

ReadToEnd(t) ==
    LET c == call[t]
        rows == View(t)
    IN  /\ pc[t] = "read" /\ c.verb = "end"
        /\ IF Latest(rows, c.pass, c.car) = {} THEN Rollback(t)
           ELSE \E r \in Latest(rows, c.pass, c.car) :
                  IF ~MayEnd(r, c.to) THEN Rollback(t)
                  ELSE WillWrite(t, { Update(0, "as_read", s, c.to, ENDED_BY_OWNER)
                                        : s \in { q \in rows : EndsWith(q, r) } })

ReadTheStay(t) ==
    LET c == call[t]
        inForce == { r \in View(t) : InForceFrom(r, c.pass, c.to) }
    IN  /\ pc[t] = "read" /\ c.verb = "end_stay"
        /\ IF inForce = {} THEN Rollback(t)
           ELSE WillWrite(t, { Update(0, "by_id", r, Greatest(c.to, r.from), ENDED_BY_CHECKOUT)
                                 : r \in inForce })

RevocationDay(c, r) == Greatest(DayAt[c.at][r.garage], r.from)

(* One UPDATE per garage, on that garage's day of the instant: only this   *)
(* pass's writers add rows to it, so the rows are those of the lock.       *)
ReadToRevoke(t) ==
    LET c == call[t] IN
    /\ pc[t] = "read" /\ c.verb = "revoke"
    /\ WillWrite(t, { Update(1, "if_later", r, RevocationDay(c, r), ENDED_BY_REVOCATION)
                        : r \in { q \in View(t) : q.pass = c.pass } })

(* _held_by_this_pass: the days the pass holds already are read once.      *)
ReadToHold(t) ==
    LET c == call[t]
        held == { r \in View(t) : /\ r.pass = c.pass /\ r.garage \in GaragesOf[c.pass]
                                  /\ r.car = c.car /\ Overlaps(r, c.from, c.to) }
    IN  /\ pc[t] = "read" /\ c.verb = "hold"
        /\ Go(t, "write")
        /\ Plans(t, [plan[t] EXCEPT !.own = held,
                                    !.gaps = GapStarts(held, c.pass, c.from, c.to)])
        /\ UNCHANGED <<regs, revokedAt, begun, written, call, mine, placed>>

(* The earliest gap left: the stay so far runs on, or the gap is           *)
(* registered like any other range.                                        *)
FillTheGap(t) ==
    LET c == call[t]
        held == plan[t].own
    IN  /\ pc[t] = "write" /\ plan[t].todo = {}
        /\ \E d \in plan[t].gaps :
             /\ \A e \in plan[t].gaps : d <= e
             /\ LET stop == GapEnd(held, c.pass, d, c.to)
                    rest == plan[t].gaps \ {d}
                IN  IF /\ stop = c.to /\ MayRunOn(held, c.pass, d)
                       /\ ~Stands(View(t), c.pass, c.car, d, stop)
                    THEN /\ Plans(t, [plan[t] EXCEPT !.gaps = rest,
                              !.todo = { Update(0, "as_read", r, stop, r.why)
                                           : r \in EndingOn(held, d) }])
                         /\ UNCHANGED pc
                    ELSE /\ Plans(t, [plan[t] EXCEPT !.gaps = rest, !.leg = <<d, stop>>,
                                                     !.unread = GaragesOf[c.pass], !.seen = {}])
                         /\ Go(t, "holders")
        /\ UNCHANGED <<regs, revokedAt, begun, written, call, mine, placed>>

(* _holders, one SELECT per garage, in the one order.                      *)
ReadHolders(t) ==
    LET c == call[t]
        p == plan[t]
    IN  /\ pc[t] = "holders"
        /\ \E g \in p.unread :
             /\ \A h \in p.unread : g <= h
             /\ Plans(t, [p EXCEPT !.unread = p.unread \ {g},
                    !.seen = p.seen \cup { r \in Holders(View(t), c.pass, c.car, p.leg[1], p.leg[2])
                                            : r.garage = g }])
        /\ UNCHANGED <<regs, revokedAt, begun, written, call, pc, mine, placed>>

(* MUTANT: a turnover writes the row whatever it has become.               *)
TurnoverById(r, f) == Update(1, "by_id", r, Greatest(f, r.from), ENDED_BY_NEXT_STAY)

(* A turnover writes another pass's row only as it was read here.          *)
Turnover(r, f) == Update(1, "as_read", r, Greatest(f, r.from), ENDED_BY_NEXT_STAY)

(* A release leaves an end written meanwhile as it stands.                 *)
Release(r) == Update(2, "if_open", r, Greatest(ValidTo[r.pass] + 1, r.from), ENDED_BY_EXPIRY)

Put(r) == [step |-> 3, kind |-> "put", row |-> r, was |-> r.to]

(* Every holder was read: refuse by name, or turn over, release and write  *)
(* one row per garage.                                                     *)
JudgeHolders(t) ==
    LET c == call[t]
        p == plan[t]
        f == p.leg[1]
        why == IF c.verb = "hold" THEN ENDED_AFTER_LAST_DAY ELSE c.why
    IN  /\ pc[t] = "holders" /\ p.unread = {}
        /\ IF \E r \in p.seen : ~Released(r, f) /\ ~TurnsOver(r, c.pass, f)
           THEN Rollback(t)
           ELSE /\ Plans(t, [p EXCEPT !.seen = {}, !.todo =
                     { Turnover(r, f) : r \in { q \in p.seen : ~Released(q, f) } }
                       \cup { Release(r) : r \in { q \in p.seen : Released(q, f) } }
                       \cup { Put(r) : r \in NewRows(written, c.pass, c.car, f, p.leg[2], why) }])
                /\ Go(t, "write")
                /\ written' = written + 1
                /\ UNCHANGED <<regs, revokedAt, begun, call, mine, placed>>

(* MUTANT: an UPDATE that matched no row is not noticed.                   *)
RowcountUnread(w, cur) == FALSE

(* The row moved since it was read: fewer rows than were to be written.    *)
FoundMoved(w, cur) == w.kind = "as_read" /\ cur.to # w.was

Matches(w, cur) ==
    CASE w.kind = "as_read"  -> cur.to = w.was
      [] w.kind = "if_open"  -> cur.to = Forever
      [] w.kind = "if_later" -> cur.to > w.row.to
      [] w.kind = "by_id"    -> TRUE

Place(t, w, r) ==
    /\ mine' = [mine EXCEPT ![t] = { s \in @ : ~SameRow(s, r) } \cup {r}]
    /\ placed' = [placed EXCEPT ![t] = {r}]
    /\ Go(t, "check")
    /\ Plans(t, [plan[t] EXCEPT !.todo = @ \ {w}])
    /\ UNCHANGED <<regs, revokedAt, begun, written, call>>

WriteRow(t) ==
    /\ pc[t] = "write"
    /\ \E w \in NextWrites(t) :
         IF w.kind = "put" THEN Place(t, w, w.row)
         ELSE /\ ~\E u \in Txs \ {t} : HasWritten(u, w.row)
              /\ \E cur \in View(t) :
                   /\ SameRow(cur, w.row)
                   /\ IF Matches(w, cur)
                      THEN Place(t, w, [cur EXCEPT !.to = w.row.to, !.why = w.row.why])
                      ELSE IF FoundMoved(w, cur) THEN Rollback(t)
                      ELSE /\ Plans(t, [plan[t] EXCEPT !.todo = @ \ {w}])
                           /\ UNCHANGED <<regs, revokedAt, begun, written, call, pc, mine, placed>>

(* MUTANT: the EXCLUDE looks at committed rows alone.                      *)
ClearOfCommitted(t, x) == \A r \in View(t) \ {x} : ~Clash(x, r)

(* Nothing the placed row clashes with is committed or in progress.        *)
Clear(t, x) ==
    \A r \in (View(t) \ {x}) \cup UNION { mine[u] : u \in Txs \ {t} } : ~Clash(x, r)

Settle(t) ==
    /\ pc[t] = "check"
    /\ \A x \in placed[t] : Clear(t, x)
    /\ placed' = [placed EXCEPT ![t] = {}]
    /\ Go(t, "write")
    /\ UNCHANGED <<regs, revokedAt, begun, written, call, plan, mine>>

(* The EXCLUDE fires on a committed row nobody is rewriting.               *)
ExclusionViolation(t) ==
    /\ pc[t] = "check"
    /\ \E x \in placed[t], r \in View(t) :
         r # x /\ Clash(x, r) /\ \A u \in Txs \ {t} : ~HasWritten(u, r)
    /\ Rollback(t)

DeadlockDetected(t) == Deadlocked(t) /\ Rollback(t)

Statement(t) ==
    \/ LockPass(t)
    \/ ReadToEnd(t) \/ ReadTheStay(t) \/ ReadToRevoke(t) \/ ReadToHold(t)
    \/ FillTheGap(t) \/ ReadHolders(t) \/ JudgeHolders(t)
    \/ WriteRow(t) \/ Settle(t) \/ ExclusionViolation(t) \/ DeadlockDetected(t)
    \/ Commit(t)

Next == \E t \in Txs : Begin(t) \/ Statement(t) \/ Lost(t)

(* A client runs its next statement, and PostgreSQL grants a free lock and *)
(* breaks a cycle of waits.  Nobody has to call, and nobody has to die.    *)
Fairness == \A t \in Txs : WF_vars(Statement(t))

Spec == Init /\ [][Next]_vars
FairSpec == Spec /\ Fairness

-----------------------------------------------------------------------------
(* Properties *)

(* ONE CAR, ONE PASS PER GARAGE (G1) when writers race: whatever a holder  *)
(* was read as, no two committed rows hold a car at a garage on one day.   *)
OneCarOnePass == \A r, s \in regs : r # s => ~Clash(r, s)

(* Revoking and registering race on the pass row: in either order nothing  *)
(* is left on a revoked pass from its day of the revocation (G1, G19).     *)
RevokedHoldsNothing ==
    \A r \in regs : revokedAt[r.pass] # Never =>
        r.to <= Greatest(DayAt[revokedAt[r.pass]][r.garage], r.from)

(* A register costs another pass nothing but the last day of its stay,     *)
(* judged on that stay as it stands when the register commits: "no write   *)
(* cuts a registration back over days another writer gave it" (G1).        *)
OnlyTheLastDayTurnsOverStep ==
    \A t \in Txs : Commit(t) => \A r \in regs, s \in regs' :
        r.pass # call[t].pass /\ SameRow(r, s) => \A d \in Day :
            Covers(r, d) /\ ~Covers(s, d) => d > ValidTo[r.pass] \/ d = LastDayOf(r)
OnlyTheLastDayTurnsOver == [][OnlyTheLastDayTurnsOverStep]_vars

(* What is committed is what ONE writer alone would have made of the rows  *)
(* committed before it, though it read them statements earlier: a register *)
(* turns over and releases exactly its holders, an end ends the latest     *)
(* registration at every garage it still stands at -- never reported for a *)
(* day or a garage it did not write -- and a revocation ends every row.    *)
CommitsAsIfAloneStep ==
    \A t \in Txs : Commit(t) =>
        LET c == call[t] IN
        CASE c.verb = "register" ->
               \E n \in 0..written : regs' = Registered(regs, n, c.pass, c.car, c.from, c.to, c.why)
          [] c.verb = "end" ->
               \E r \in Latest(regs, c.pass, c.car) : MayEnd(r, c.to) /\ regs' = Ended(regs, r, c.to)
          [] c.verb = "revoke" -> regs' = EndedByRevocation(regs, c.pass, c.at)
          [] OTHER -> TRUE
CommitsAsIfAlone == [][CommitsAsIfAloneStep]_vars

(* A stay is reported held only with the days it had to fill on the pass,  *)
(* at every garage, on the day the QR is committed: "a run-on is never     *)
(* reported for days the registration does not hold" (_run_on).            *)
AReportedStayIsHeldStep ==
    \A t \in Txs : Commit(t) /\ call[t].verb = "hold" =>
        \A d \in call[t].from..(call[t].to - 1), g \in GaragesOf[call[t].pass] :
            HeldOn(plan[t].own, call[t].pass, d) \/
            \E r \in regs' : /\ r.garage = g /\ r.pass = call[t].pass
                             /\ r.car = call[t].car /\ Covers(r, d)
AReportedStayIsHeld == [][AReportedStayIsHeldStep]_vars

(* Every writer finishes: none waits for ever for another's lock or row.   *)
EveryWriterFinishes == \A t \in Txs : pc[t] # "idle" ~> pc[t] = "idle"

-----------------------------------------------------------------------------
(* What the documents say and the statements do not keep. *)

(* "nothing already ended moves" (end_stay); "every write to a             *)
(* registration another writer can move writes the row only as it read it" *)
(* (G1): a row that ends on the checkout's day or before it stays as it is. *)
NothingAlreadyEndedMovesStep ==
    \A t \in Txs : Commit(t) /\ call[t].verb = "end_stay" =>
        \A r \in regs : r.to <= call[t].to => r \in regs'
NothingAlreadyEndedMoves == [][NothingAlreadyEndedMovesStep]_vars
=============================================================================
