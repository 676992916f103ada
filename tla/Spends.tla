------------------------------- MODULE Spends -------------------------------
(***************************************************************************)
(* The writers of one QR as the transactions they are (store/enrolments.py,*)
(* store/records.py, cli.py): lanes that redeem or confirm a match, desks  *)
(* that issue, replace, cancel and revoke, one statement at a time, with   *)
(* the row locks of LOCK_ORDER, the savepoints of the code and what every  *)
(* exception rolls back to.  Enrolments says what each verb does alone;    *)
(* this module says what is left of it when another runs in between, or    *)
(* when one of its steps fails.                                            *)
(*                                                                         *)
(* One day: a car is held by a pass at a garage, or not.  The days, the    *)
(* turnovers and the run-ons are Enrolments' and RegisterRaces', and so is *)
(* the moment between placing a row and its EXCLUDE: here one step.  The   *)
(* access answer of a lane reads and writes nothing, so it has no step.    *)
(*                                                                         *)
(* PostgreSQL, modelled from how the store uses it (external): FOR UPDATE  *)
(* waits for a row's lock and returns the row as committed; ROLLBACK TO    *)
(* goes back to the latest savepoint of that name, its locks included, and *)
(* fails where none of that name stands.                                   *)
(***************************************************************************)
EXTENDS Integers, FiniteSets, Sequences

CONSTANTS
    Passes, Garages, Cars,
    GaragesOf,  \* GaragesOf[p]: the garages pass p names
    Transient,  \* Transient[g]: "yes" or "no", where garage g has stated it
    EnrolsAt,   \* EnrolsAt[g]: the end garage g enrols at, where it has stated it
    Similar,    \* the pairs of cars whose plates pass for each other
    Codes,      \* ids of QRs
    NoCar,      \* no plate, nothing bound, nothing usable read
    Txs,        \* the connections at work at once
    Calls,      \* the calls they may serve
    StartCodes, \* the QRs there are at the start
    StartHeld,  \* what they hold
    StartState, \* StartState[p]: the state of pass p
    MaxBegun    \* BOUND: transactions ever begun

VARIABLES
    passState,  \* passes.state, as committed
    codes,      \* enrolments, as committed
    held,       \* vehicle_registrations in force today, as committed
    begun,      \* how many transactions began
    tx          \* each connection's transaction

vars == <<passState, codes, held, begun, tx>>
data == <<passState, codes, held>>

PassStates == {"draft", "active", "revoked"}
Directions == {"entry", "exit"}
Held == Garages \X Passes \X Cars

(* A QR; kept counts the records in enrolments.matches.                    *)
Code == [pass : Passes, state : {"issued", "redeemed", "cancelled"}, plate : Cars \cup {NoCar},
         car : Cars \cup {NoCar}, exitOnly : BOOLEAN, kept : Nat]
NoCode == [state |-> "absent"]

(* What redeems a QR or replaces its car has bound it.                     *)
BoundIfUsed(q) == q.state = "redeemed" \/ q.exitOnly => q.plate # NoCar \/ q.car # NoCar

(* read: the plate the lane read, or the desk states for the new QR.       *)
Verbs == {"redeem", "confirm", "cancel", "replace", "issue", "revoke"}
Call == [verb : Verbs, pass : Passes, garage : Garages, code : Codes, new : Codes,
         read : Cars \cup {NoCar}, lane : {"lane", ""}, dir : Directions, matched : BOOLEAN]

ASSUME CarsAssumption == NoCar \notin Cars
(* require_plate: a QR is made for a plate.                                *)
ASSUME CallsAssumption ==
    /\ Calls \subseteq Call
    /\ \A c \in Calls : c.verb \in {"issue", "replace"} => c.read # NoCar
ASSUME BoundAssumption == MaxBegun \in Nat
ASSUME GaragesAssumption ==
    /\ GaragesOf \in [Passes -> SUBSET Garages] /\ Garages \subseteq Nat
    /\ Transient \in [Garages -> {"yes", "no", "unstated"}]
    /\ EnrolsAt \in [Garages -> Directions \cup {"unstated"}]
ASSUME StartAssumption ==
    /\ StartCodes \in [Codes -> Code \cup {NoCode}]
    /\ \A q \in Codes : StartCodes[q] # NoCode => BoundIfUsed(StartCodes[q])
    /\ StartHeld \subseteq Held
    /\ StartState \in [Passes -> PassStates]

-----------------------------------------------------------------------------
(* A transaction: its call, where it is, the QR as it first read it, the   *)
(* rows it wrote and did not commit, the row locks it holds, the           *)
(* savepoints that stand, the garages it still registers, its answer.      *)

(* A row t has not written: NoCode of a QR, "unwritten" of a pass.         *)
NoWrites == [pass |-> [p \in Passes |-> "unwritten"], code |-> [q \in Codes |-> NoCode],
             put |-> {}, gone |-> {}]
Rows == ({"pass"} \X Passes) \cup ({"code"} \X Codes)

Writes == [pass : [Passes -> PassStates \cup {"unwritten"}],
           code : [Codes -> Code \cup {NoCode}], put : SUBSET Held, gone : SUBSET Held]
Save == [name : Verbs \cup {"passed"}, mine : Writes, locks : SUBSET Rows]

Idle == [pc |-> "idle", call |-> [verb |-> "none"], seen |-> NoCode, mine |-> NoWrites,
         locks |-> {}, saves |-> << >>, todo |-> {}, out |-> "none"]

Tx == [pc : {"idle", "glimpse", "lock", "judge", "mint", "insert", "spend", "keep",
             "done", "refused", "broken"},
       call : Calls \cup {Idle.call}, seen : Code \cup {NoCode}, mine : Writes,
       locks : SUBSET Rows, saves : Seq(Save), todo : SUBSET Garages,
       out : {"none", "refused", "match_required", "recognised", "redeemed", "done"}]

TypeOK ==
    /\ passState \in [Passes -> PassStates]
    /\ codes \in [Codes -> Code \cup {NoCode}]
    /\ \A q \in Codes : codes[q] # NoCode => BoundIfUsed(codes[q])
    /\ held \subseteq Held
    /\ begun \in 0..MaxBegun
    /\ tx \in [Txs -> Tx]

Init ==
    /\ passState = StartState
    /\ codes = StartCodes
    /\ held = StartHeld
    /\ begun = 0
    /\ tx = [t \in Txs |-> Idle]

-----------------------------------------------------------------------------
(* What a statement of t reads: the committed rows and its own writes.     *)

PassSeen(t, p) == IF tx[t].mine.pass[p] = "unwritten" THEN passState[p] ELSE tx[t].mine.pass[p]
CodeSeen(t, q) == IF tx[t].mine.code[q] = NoCode THEN codes[q] ELSE tx[t].mine.code[q]
HeldSeen(t) == (held \cup tx[t].mine.put) \ tx[t].mine.gone

WritesPass(m, p, s) == [m EXCEPT !.pass[p] = s]
WritesCode(m, q, row) == [m EXCEPT !.code[q] = row]

-----------------------------------------------------------------------------
(* Locks *)

PassOf(t) == IF tx[t].call.verb \in {"issue", "revoke"} THEN tx[t].call.pass ELSE tx[t].seen.pass

(* MUTANT: a desk locks the QR, then its pass.                             *)
DesksLockTheCodeFirst(t) ==
    CASE tx[t].call.verb \in {"redeem", "confirm"} ->
           <<<<"pass", PassOf(t)>>, <<"code", tx[t].call.code>>>>
      [] tx[t].call.verb \in {"cancel", "replace"} ->
           <<<<"code", tx[t].call.code>>, <<"pass", PassOf(t)>>>>
      [] OTHER -> <<<<"pass", PassOf(t)>>>>

(* LOCK_ORDER: the pass row, then the QR's.                                *)
LockOrder(t) ==
    IF tx[t].call.verb \in {"issue", "revoke"}
    THEN <<<<"pass", PassOf(t)>>>>
    ELSE <<<<"pass", PassOf(t)>>, <<"code", tx[t].call.code>>>>

NextLock(t) == LockOrder(t)[Cardinality(tx[t].locks) + 1]

(* MUTANT: lock_clause is empty.                                           *)
Unlocked(t, row) == TRUE

Free(t, row) == \A u \in Txs \ {t} : row \notin tx[u].locks

(* Rows of another transaction, not committed, that the registration h     *)
(* waits for at the EXCLUDE: one it clashes with, or one being ended.      *)
InTheWay(u, h) ==
    \E x \in tx[u].mine.put \cup tx[u].mine.gone : x[1] = h[1] /\ x[3] = h[3]

NextGarage(t) == CHOOSE g \in tx[t].todo : \A h \in tx[t].todo : g <= h
NextRow(t) == <<NextGarage(t), PassOf(t), tx[t].call.read>>

(* The QRs a revocation cancels.                                           *)
Outstanding(t, p) ==
    { q \in Codes : CodeSeen(t, q) # NoCode /\ CodeSeen(t, q).pass = p
                      /\ CodeSeen(t, q).state \in {"issued", "redeemed"} }

-----------------------------------------------------------------------------
(* Savepoints, and the exception a refusal is. *)

(* MUTANT: every write sits under one shared name.                         *)
OneName(which) == "write"

(* SAVEPOINTS: one name per write.                                         *)
NameOf(which) == which

Saving(x, which) ==
    [x EXCEPT !.saves = Append(@, [name |-> NameOf(which), mine |-> x.mine, locks |-> x.locks])]

Released(x) == [x EXCEPT !.saves = SubSeq(@, 1, Len(@) - 1)]

(* MUTANT: the savepoint takes nothing back.                               *)
NothingTakenBack(x, which) == x

(* ROLLBACK TO SAVEPOINT, or the error of a savepoint that is not there.   *)
RolledBackTo(x, which) ==
    LET there == { i \in DOMAIN x.saves : x.saves[i].name = NameOf(which) }
    IN  IF there = {} THEN [x EXCEPT !.pc = "broken"]
        ELSE LET i == CHOOSE j \in there : \A k \in there : k <= j
             IN  [x EXCEPT !.mine = x.saves[i].mine, !.locks = x.saves[i].locks,
                           !.saves = SubSeq(@, 1, i)]

(* A refusal leaves its try blocks, the innermost first.                   *)
Unwound(x) ==
    CASE x.pc = "keep"                    -> RolledBackTo(RolledBackTo(x, "passed"), "redeem")
      [] x.call.verb = "replace" /\ x.pc \in {"mint", "insert"}
                                          -> RolledBackTo(RolledBackTo(x, "issue"), "replace")
      [] x.call.verb = "revoke"           -> x
      [] OTHER                            -> RolledBackTo(x, x.call.verb)

(* A redemption carries the refusal in its answer; every other verb raises.*)
Refusing(x) ==
    IF Unwound(x).pc = "broken" THEN Unwound(x)
    ELSE [Unwound(x) EXCEPT !.out = "refused",
                            !.pc = IF x.call.verb = "redeem" THEN "done" ELSE "refused"]

Sets(t, x) == tx' = [tx EXCEPT ![t] = x] /\ UNCHANGED <<data, begun>>
Refuse(t) == Sets(t, Refusing(tx[t]))
At(t, pc) == tx[t].pc = pc

-----------------------------------------------------------------------------
(* A bound QR. *)

(* MUTANT: only a QR made for a plate is bound.                            *)
BoundByPlate(q) == q.plate

(* The car a QR answers for: its plate from issue, or the one it bound.    *)
Bound(q) == IF q.plate # NoCar THEN q.plate ELSE q.car

(* How a read passes for the QR's car; "no" asks for a picture match.      *)
PassedBy(q, read) ==
    CASE q.plate = NoCar -> IF read = NoCar THEN "no"
                            ELSE IF read = q.car THEN "same" ELSE "wrong car"
      [] read = NoCar    -> "nothing"
      [] read = q.plate  -> "same"
      [] OTHER           -> IF <<read, q.plate>> \in Similar THEN "near" ELSE "no"

(* Its stay holds the car here, and a replaced car only leaves.            *)
Usable(q, rows, c) ==
    /\ <<c.garage, q.pass, Bound(q)>> \in rows
    /\ c.dir = "entry" => ~q.exitOnly

(* _present_bound and its own stay.                                        *)
Verdict(q, rows, c) ==
    CASE q.state = "cancelled" \/ PassedBy(q, c.read) = "wrong car" \/ ~Usable(q, rows, c)
           -> "refused"
      [] PassedBy(q, c.read) = "no" -> "match_required"
      [] OTHER -> "recognised"

(* change_state to active, where the pass waits for its first car.         *)
Activating(t, m, p) == IF PassSeen(t, p) = "draft" THEN WritesPass(m, p, "active") ELSE m

-----------------------------------------------------------------------------
(* Statements *)

Begin(t) ==
    /\ At(t, "idle")
    /\ begun < MaxBegun
    /\ begun' = begun + 1
    /\ \E c \in Calls :
         LET x == [Idle EXCEPT !.pc = "glimpse", !.call = c]
         IN  tx' = [tx EXCEPT ![t] = IF c.verb = "revoke" THEN x ELSE Saving(x, c.verb)]
    /\ UNCHANGED data

(* With no transient parking a car enrols as it enters; otherwise where    *)
(* the garage says.                                                        *)
where_enrolment_happens(g) ==
    CASE Transient[g] = "no"  -> "entry"
      [] Transient[g] = "yes" -> EnrolsAt[g]
      [] OTHER                -> "unstated"

(* The QR whose digest matches the token presented, or none.               *)
ByToken(presented) == codes[presented]

IsBound(q) == q # NoCode /\ Bound(q) # NoCar

(* A redemption needs the end to be stated, whatever the QR; at the other  *)
(* end only a bound one answers.                                           *)
WrongEnd(c, q) ==
    LET end == where_enrolment_happens(c.garage)
    IN  c.verb = "redeem" /\ (end = "unstated" \/ (c.dir # end /\ ~IsBound(q)))

(* The QR read unlocked, only to learn its pass.                           *)
Glimpse(t) ==
    LET c == tx[t].call
        q == ByToken(c.code)
    IN  /\ At(t, "glimpse")
        /\ IF c.verb \in {"issue", "revoke"} THEN Sets(t, [tx[t] EXCEPT !.pc = "lock"])
           ELSE IF WrongEnd(c, q) \/ q = NoCode \/ c.garage \notin GaragesOf[q.pass]
           THEN Refuse(t)
           ELSE Sets(t, [tx[t] EXCEPT !.pc = "lock", !.seen = q])

Lock(t) ==
    /\ At(t, "lock")
    /\ Free(t, NextLock(t))
    /\ LET x == [tx[t] EXCEPT !.locks = @ \cup {NextLock(t)}]
       IN  Sets(t, [x EXCEPT !.pc = IF Cardinality(x.locks) < Len(LockOrder(t)) THEN "lock"
                                    ELSE IF x.call.verb = "issue" THEN "mint" ELSE "judge"])

(* MUTANT: the QR is judged as it was before the lock.                     *)
Glimpsed(t) == tx[t].seen

(* The QR is judged as RE-READ under the locks.                            *)
Judged(t) == CodeSeen(t, tx[t].call.code)

(* redeem_enrolment: a bound QR is answered, an unbound one begins to bind. *)
JudgeRedeem(t) ==
    LET c == tx[t].call
        q == Judged(t)
        verdict == Verdict(q, HeldSeen(t), c)
        released == [Released(tx[t]) EXCEPT !.out = verdict]
    IN  /\ At(t, "judge") /\ c.verb = "redeem"
        /\ IF Bound(q) # NoCar
           THEN CASE verdict = "refused" -> Refuse(t)
                  [] verdict = "match_required" -> Sets(t, [released EXCEPT !.pc = "done"])
                  [] OTHER -> Sets(t, [released EXCEPT
                        !.mine = Activating(t, @, q.pass),
                        !.pc = IF PassedBy(q, c.read) = "same" THEN "done" ELSE "keep"])
           ELSE IF \/ q.state # "issued" \/ PassSeen(t, q.pass) = "revoked"
                   \/ c.lane = "" \/ c.read = NoCar
                   \/ \E h \in HeldSeen(t) : h[3] = c.read /\ h[1] \in GaragesOf[q.pass]
           THEN Refuse(t)
           ELSE Sets(t, [tx[t] EXCEPT !.pc = "insert", !.todo = GaragesOf[q.pass]])

(* MUTANT: the record is added to the list as it stood before the lock.    *)
KeptAsGlimpsed(t, q) == [q EXCEPT !.kept = tx[t].seen.kept + 1]

(* matches = matches || record.                                            *)
Kept(t, q) == [q EXCEPT !.kept = @ + 1]

(* A pass that was not the plate's is kept on the QR's row, under its own  *)
(* savepoint -- the redemption's is released by now.                       *)
KeepThePass(t) ==
    LET c == tx[t].call
        saved == Saving(tx[t], "passed")
    IN  /\ At(t, "keep")
        /\ IF c.lane = "" THEN Sets(t, Refusing(saved))
           ELSE Sets(t, [tx[t] EXCEPT !.pc = "done",
                    !.mine = WritesCode(@, c.code, Kept(t, CodeSeen(t, c.code)))])

(* One registration of the fan-out: it waits for a row in progress, and a  *)
(* committed one refuses.                                                  *)
InsertRow(t) ==
    /\ At(t, "insert") /\ tx[t].todo # {}
    /\ \A u \in Txs \ {t} : ~InTheWay(u, NextRow(t))
    /\ IF \E h \in HeldSeen(t) : h[1] = NextRow(t)[1] /\ h[3] = NextRow(t)[3]
       THEN Refuse(t)
       ELSE LET x == [tx[t] EXCEPT !.mine.put = @ \cup {NextRow(t)},
                                   !.todo = @ \ {NextGarage(t)}]
            IN  Sets(t, IF x.todo # {} THEN x
                        ELSE IF x.call.verb = "redeem" THEN [x EXCEPT !.pc = "spend"]
                        ELSE [x EXCEPT !.pc = "done", !.out = "done"])

Spent(q, c) == [q EXCEPT !.state = "redeemed", !.car = c]

(* The pass to active, then the spend, with its predicate and rowcount.    *)
SpendTheCode(t) ==
    LET c == tx[t].call
        q == CodeSeen(t, c.code)
    IN  /\ At(t, "spend")
        /\ IF q.state # "issued" THEN Refuse(t)
           ELSE Sets(t, [Released(tx[t]) EXCEPT !.pc = "done", !.out = "redeemed",
                    !.mine = WritesCode(Activating(t, @, q.pass), c.code, Spent(q, c.read))])

(* confirm_match: a refusal to recognise is an answer, and kept as one.    *)
JudgeConfirm(t) ==
    LET c == tx[t].call
        q == Judged(t)
        yes == /\ c.matched
               /\ c.read # NoCar /\ q.plate = NoCar => c.read = q.car
               /\ Usable(q, HeldSeen(t), c)
        kept == WritesCode(tx[t].mine, c.code, Kept(t, q))
    IN  /\ At(t, "judge") /\ c.verb = "confirm"
        /\ IF c.lane = "" \/ Bound(q) = NoCar \/ q.state = "cancelled" THEN Refuse(t)
           ELSE Sets(t, [Released(tx[t]) EXCEPT !.pc = "done",
                    !.out = IF yes THEN "recognised" ELSE "refused",
                    !.mine = IF yes THEN Activating(t, kept, q.pass) ELSE kept])

(* MUTANT: the whole row is written back as first read.                    *)
CancelledAsGlimpsed(t, q) == [tx[t].seen EXCEPT !.state = "cancelled"]

Cancelled(t, q) == [q EXCEPT !.state = "cancelled"]

JudgeCancel(t) ==
    LET c == tx[t].call
        q == Judged(t)
    IN  /\ At(t, "judge") /\ c.verb = "cancel"
        /\ IF q.state = "cancelled" THEN Refuse(t)
           ELSE Sets(t, [Released(tx[t]) EXCEPT !.pc = "done", !.out = "done",
                    !.mine = WritesCode(@, c.code, Cancelled(t, q))])

(* replace_car: the old QR, then a new one under a savepoint of its own.   *)
JudgeReplace(t) ==
    LET c == tx[t].call
        q == Judged(t)
        old == IF Bound(q) # NoCar THEN [q EXCEPT !.exitOnly = TRUE] ELSE Cancelled(t, q)
    IN  /\ At(t, "judge") /\ c.verb = "replace"
        /\ IF q.state = "cancelled" \/ q.exitOnly THEN Refuse(t)
           ELSE Sets(t, Saving([tx[t] EXCEPT !.pc = "mint",
                                    !.mine = WritesCode(@, c.code, old)], "issue"))

(* issue_enrolment under the pass's lock: the QR, then its registration,   *)
(* unless this pass holds the car at every garage it names.                *)
Mint(t) ==
    LET c == tx[t].call
        p == PassOf(t)
        mine == { h \in HeldSeen(t) : h[3] = c.read /\ h[2] = p }
        others == { h \in HeldSeen(t) : h[3] = c.read /\ h[1] \in GaragesOf[p] }
        x == [tx[t] EXCEPT !.mine = WritesCode(@, c.new,
                [pass |-> p, state |-> "issued", plate |-> c.read, car |-> NoCar,
                 exitOnly |-> FALSE, kept |-> 0])]
    IN  /\ At(t, "mint")
        /\ \A u \in Txs \ {t} : tx[u].mine.code[c.new] = NoCode
        /\ IF PassSeen(t, p) = "revoked" \/ CodeSeen(t, c.new) # NoCode THEN Refuse(t)
           ELSE IF { h[1] : h \in mine } = GaragesOf[p]
           THEN Sets(t, [x EXCEPT !.pc = "done", !.out = "done"])
           ELSE IF others # {} THEN Refuse(t)
           ELSE Sets(t, [x EXCEPT !.pc = "insert", !.todo = GaragesOf[p]])

(* The revocation's cascade: the QRs, then the registrations.              *)
RevokePass(t) ==
    LET p == PassOf(t)
        gone == Outstanding(t, p)
        rows == [q \in Codes |-> IF q \in gone THEN [CodeSeen(t, q) EXCEPT !.state = "cancelled"]
                                 ELSE tx[t].mine.code[q]]
        ended == { h \in HeldSeen(t) : h[2] = p }
    IN  /\ At(t, "judge") /\ tx[t].call.verb = "revoke"
        /\ \A u \in Txs \ {t}, q \in gone : <<"code", q>> \notin tx[u].locks
        /\ IF PassSeen(t, p) = "revoked" THEN Refuse(t)
           ELSE Sets(t, [tx[t] EXCEPT !.pc = "done", !.out = "done",
                    !.mine = [WritesPass(@, p, "revoked") EXCEPT !.code = rows, !.gone = ended]])

-----------------------------------------------------------------------------
(* The end of a transaction. *)

Close(t) == tx' = [tx EXCEPT ![t] = Idle] /\ UNCHANGED begun

(* The answer is committed, then printed.  A refusal that was raised is    *)
(* rolled back by the command line; another caller may commit after it.    *)
Commit(t) ==
    /\ tx[t].pc \in {"done", "refused"}
    /\ passState' = [p \in Passes |-> PassSeen(t, p)]
    /\ codes' = [q \in Codes |-> CodeSeen(t, q)]
    /\ held' = HeldSeen(t)
    /\ Close(t)

Rollback(t) == tx[t].pc \in {"refused", "broken"} /\ Close(t) /\ UNCHANGED data

(* The process or its connection dies: the database rolls back.            *)
Lost(t) == ~At(t, "idle") /\ Close(t) /\ UNCHANGED data

Statement(t) ==
    \/ Glimpse(t) \/ Lock(t)
    \/ JudgeRedeem(t) \/ KeepThePass(t) \/ InsertRow(t) \/ SpendTheCode(t)
    \/ JudgeConfirm(t) \/ JudgeCancel(t) \/ JudgeReplace(t) \/ Mint(t) \/ RevokePass(t)
    \/ Commit(t) \/ Rollback(t)

Next == \E t \in Txs : Begin(t) \/ Statement(t) \/ Lost(t)

(* A client runs its next statement, and PostgreSQL grants a free lock.    *)
Fairness == \A t \in Txs : WF_vars(Statement(t))

Spec == Init /\ [][Next]_vars
FairSpec == Spec /\ Fairness

-----------------------------------------------------------------------------
(* Properties *)

Known(q) == codes[q] # NoCode

(* Of one pass: what holds a car is a QR bound to it, at every garage, and  *)
(* a live bound QR holds its car.                                          *)
HoldsAs(cs, hs, p) ==
    /\ \A h \in hs : h[2] = p =>
         /\ \E q \in Codes : cs[q] # NoCode /\ cs[q].pass = p /\ Bound(cs[q]) = h[3]
         /\ \A g \in GaragesOf[p] : <<g, p, h[3]>> \in hs
    /\ \A q \in Codes : /\ cs[q] # NoCode /\ cs[q].pass = p
                        /\ cs[q].state # "cancelled" /\ Bound(cs[q]) # NoCar
         => \A g \in GaragesOf[p] : <<g, p, Bound(cs[q])>> \in hs

(* Of one pass: once it is revoked nothing of it is live, nothing held.    *)
NothingLeftOn(ps, cs, hs, p) ==
    ps[p] = "revoked" =>
        /\ \A q \in Codes : cs[q] # NoCode /\ cs[q].pass = p => cs[q].state = "cancelled"
        /\ \A h \in hs : h[2] # p

(* The rows at the start are rows the verbs left.                          *)
ASSUME StartStands ==
    \A p \in Passes : /\ HoldsAs(StartCodes, StartHeld, p)
                      /\ NothingLeftOn(StartState, StartCodes, StartHeld, p)

(* ALL OF THE WRITES OR NONE: what holds a car is a QR of that pass bound  *)
(* to it, at every garage of the pass; and a live bound QR holds its car.  *)
(* A refusal at the second garage, a crash, a lost race leave no half.     *)
HeldByItsCode == \A p \in Passes : HoldsAs(codes, held, p)

(* A credential never outlives its pass, in either order of the race       *)
(* (R5, G19): nothing live, nothing held on a revoked pass.                *)
RevokedLeavesNothingLive == \A p \in Passes : NothingLeftOn(passState, codes, held, p)

(* ONE CREDENTIAL, ONE SPEND: whichever two lanes and desks meet on a QR,  *)
(* the car it bound stays the car it answers for, a cancelled QR stays     *)
(* cancelled and a replaced car never enters on it again.                  *)
AQRBindsOneCarStep ==
    \A q \in Codes : Known(q) =>
        /\ Bound(codes[q]) # NoCar => Bound(codes'[q]) = Bound(codes[q])
        /\ codes[q].state = "cancelled" => codes'[q].state = "cancelled"
        /\ codes'[q].state = "issued" => codes[q].state = "issued"
        /\ codes[q].exitOnly => codes'[q].exitOnly
AQRBindsOneCar == [][AQRBindsOneCarStep]_vars

(* "A refusal writes nothing even in a caller that commits afterwards"     *)
(* (X2), the nested ones too: a replacement whose new QR is refused leaves *)
(* the old QR as it was.                                                   *)
ARefusalWritesNothingStep ==
    \A t \in Txs : Commit(t) /\ tx[t].out = "refused" /\ tx[t].call.verb # "confirm"
        => UNCHANGED data
ARefusalWritesNothing == [][ARefusalWritesNothingStep]_vars

(* What a lane is told when it commits is true then: the QR that opened    *)
(* is not cancelled, its pass not revoked, its car not replaced at an      *)
(* entry -- whatever the desk did between its read and its answer.         *)
OpensOnlyWhatStandsStep ==
    \A t \in Txs : Commit(t) /\ tx[t].out \in {"recognised", "redeemed"} =>
        LET q == codes[tx[t].call.code] IN
        /\ q.state # "cancelled" /\ passState[q.pass] # "revoked"
        /\ tx[t].call.dir = "entry" => ~q.exitOnly
OpensOnlyWhatStands == [][OpensOnlyWhatStandsStep]_vars

(* EVERY ANSWER IS KEPT: a match decided and a pass that was not the       *)
(* plate's are each one more record on the QR, and nothing removes one.    *)
EveryAnswerIsKeptStep ==
    \A q \in Codes : Known(q) =>
        codes'[q].kept - codes[q].kept =
            Cardinality({ t \in Txs : Commit(t) /\ tx[t].call.code = q /\
                \/ tx[t].call.verb = "confirm" /\ tx[t].pc = "done"
                \/ tx[t].call.verb = "redeem" /\ tx[t].out = "recognised"
                     /\ PassedBy(codes[q], tx[t].call.read) \in {"near", "nothing"} })
EveryAnswerIsKept == [][EveryAnswerIsKeptStep]_vars

(* The answer is printed after the commit, so a lane may never hear it and *)
(* ask again: a QR that opened answers the same movement of the same car   *)
(* once more -- recognised, and never "already used".                      *)
ARetryIsRecognisedStep ==
    \A t \in Txs : Commit(t) /\ tx[t].call.verb = "redeem"
                     /\ tx[t].out \in {"recognised", "redeemed"} =>
        LET q == codes'[tx[t].call.code]
        IN  Bound(q) # NoCar /\ Verdict(q, held', tx[t].call) = "recognised"
ARetryIsRecognised == [][ARetryIsRecognisedStep]_vars

(* Every call ends, nobody killed: LOCK_ORDER is one order, so no two wait  *)
(* for each other's lock or row.                                           *)
EveryCallEnds == \A t \in Txs : ~At(t, "idle") ~> At(t, "idle")

-----------------------------------------------------------------------------
(* What the documents say and the statements do not keep. *)

(* "THE REDEMPTION CALL ALWAYS RETURNS AN ACCESS ANSWER FOR THE MOVEMENT,  *)
(* INCLUDING WHEN THE REDEMPTION ITSELF IS REFUSED" (G21): a redemption    *)
(* never dies of a savepoint that is not there.                            *)
EveryRedemptionIsAnswered ==
    \A t \in Txs : At(t, "broken") => tx[t].call.verb # "redeem"
=============================================================================
