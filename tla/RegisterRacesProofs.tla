------------------------- MODULE RegisterRacesProofs -------------------------
(***************************************************************************)
(* One car, one pass per garage, however many writers race: whatever was   *)
(* read, the row lookups of the EXCLUDE alone keep every committed register *)
(* free of clashes.  The strengthening speaks of the rows not committed    *)
(* yet: a version the constraint has looked up clashes with no committed   *)
(* row its writer does not replace, and with no other version looked up.   *)
(*                                                                         *)
(* Then, section by section, what else a commit may not do, each with an   *)
(* invariant of its own: leave a row on a revoked pass (RaceInv), take     *)
(* more than a last day (TakeInv), report a stay it does not hold          *)
(* (HeldInv), and, last, differ from what one writer alone makes of the    *)
(* committed rows (KeptInv, AloneInv).                                     *)
(***************************************************************************)
EXTENDS RegisterRaces, FiniteOrders, TLAPS

(* The versions of t the constraint has looked up.                         *)
Checked(t) == mine[t] \ placed[t]

(* The parts of the state the argument rests on.                           *)
Shape ==
    /\ pc = [t \in Txs |-> pc[t]]
    /\ mine = [t \in Txs |-> mine[t]]
    /\ placed = [t \in Txs |-> placed[t]]
    /\ \A t \in Txs : placed[t] \subseteq mine[t]
    /\ \A t \in Txs : pc[t] # "check" => placed[t] = {}

ClearOfTheCommitted ==
    \A t \in Txs : \A x \in Checked(t), r \in regs \ Superseded(t) : ~Clash(x, r)

ClearOfEachOther ==
    \A t, u \in Txs : \A x \in Checked(t), y \in Checked(u) :
        t # u \/ x # y => ~Clash(x, y)

IInv == Shape /\ OneCarOnePass /\ ClearOfTheCommitted /\ ClearOfEachOther

LEMMA ClashIsSymmetric == \A r, s : Clash(r, s) => Clash(s, r)
  BY DEF Clash, Overlaps

LEMMA SameRowIsEquivalence ==
    \A r, s, q : /\ SameRow(r, r)
                 /\ SameRow(r, s) => SameRow(s, r)
                 /\ SameRow(r, s) /\ SameRow(s, q) => SameRow(r, q)
  BY DEF SameRow

(* No version is written at the start, and the register given has no clash. *)
LEMMA InitIInv == Init => IInv
<1> SUFFICES ASSUME Init PROVE IInv
  OBVIOUS
<1>1. Shape
  BY DEF Init, Shape
<1>2. \A t \in Txs : Checked(t) = {}
  BY DEF Init, Checked
<1>3. OneCarOnePass
  BY StartsAssumption DEF Init, LeftByOneWriter, OneCarOnePass, Clash
<1>4. QED
  BY <1>1, <1>2, <1>3 DEF IInv, ClearOfTheCommitted, ClearOfEachOther

(* A transaction that goes back leaves the committed rows and the others'. *)
LEMMA RollbackKeepsIInv ==
    ASSUME IInv, NEW t \in Txs, Rollback(t) PROVE IInv'
<1>1. /\ mine' = [mine EXCEPT ![t] = {}] /\ placed' = [placed EXCEPT ![t] = {}]
      /\ pc' = [pc EXCEPT ![t] = "idle"] /\ regs' = regs
  BY DEF Rollback, Closed, Go
<1>2. Shape'
  BY <1>1 DEF IInv, Shape
<1>3. \A u \in Txs : Checked(u)' = IF u = t THEN {} ELSE Checked(u)
  BY <1>1 DEF IInv, Shape, Checked
<1>4. \A u \in Txs \ {t} : Superseded(u)' = Superseded(u)
  BY <1>1 DEF IInv, Shape, Superseded
<1>5. OneCarOnePass'
  BY <1>1 DEF IInv, OneCarOnePass, Clash, Overlaps
<1>6. ClearOfTheCommitted'
  BY <1>1, <1>3, <1>4 DEF IInv, ClearOfTheCommitted, Clash, Overlaps
<1>7. ClearOfEachOther'
  BY <1>3 DEF IInv, ClearOfEachOther, Clash, Overlaps
<1>8. QED
  BY <1>2, <1>5, <1>6, <1>7 DEF IInv

(* Everything it wrote was looked up: the rows it saw replace the others.  *)
LEMMA CommitKeepsIInv ==
    ASSUME IInv, NEW t \in Txs, Commit(t) PROVE IInv'
<1>1. /\ mine' = [mine EXCEPT ![t] = {}] /\ placed' = [placed EXCEPT ![t] = {}]
      /\ pc' = [pc EXCEPT ![t] = "idle"] /\ regs' = View(t)
  BY DEF Commit, Closed, Go
<1>2. Checked(t) = mine[t]
  BY DEF Commit, IInv, Shape, Checked
<1>3. regs' = (regs \ Superseded(t)) \cup Checked(t)
  BY <1>1, <1>2 DEF View
<1>4. Shape'
  BY <1>1 DEF IInv, Shape
<1>5. \A u \in Txs : Checked(u)' = IF u = t THEN {} ELSE Checked(u)
  BY <1>1 DEF IInv, Shape, Checked
<1>6. OneCarOnePass'
  BY <1>3, ClashIsSymmetric DEF IInv, OneCarOnePass, ClearOfTheCommitted, ClearOfEachOther,
     Clash, Overlaps
<1>7. ASSUME NEW u \in Txs, u # t, NEW r \in regs, r \in regs', r \notin Superseded(u)'
      PROVE  r \notin Superseded(u)
  BY <1>1, <1>7 DEF IInv, Shape, Superseded
<1>8. ClearOfTheCommitted'
  <2> SUFFICES ASSUME NEW u \in Txs, NEW x \in Checked(u)', NEW r \in regs', r \notin Superseded(u)'
               PROVE  ~Clash(x, r)
    BY DEF ClearOfTheCommitted, Clash, Overlaps
  <2>1. u # t /\ x \in Checked(u)
    BY <1>5
  <2>2. CASE r \in Checked(t)
    BY <2>1, <2>2 DEF IInv, ClearOfEachOther
  <2>3. CASE r \in regs
    BY <2>1, <2>3, <1>7 DEF IInv, ClearOfTheCommitted
  <2>4. QED
    BY <2>2, <2>3, <1>3
<1>9. ClearOfEachOther'
  BY <1>5 DEF IInv, ClearOfEachOther, Clash, Overlaps
<1>10. QED
  BY <1>4, <1>6, <1>8, <1>9 DEF IInv

(* A version placed is not looked up yet: what was looked up only shrinks. *)
LEMMA PlaceKeepsIInv ==
    ASSUME IInv, NEW t \in Txs, pc[t] = "write", NEW w, NEW r, Place(t, w, r)
    PROVE  IInv'
<1>1. /\ mine' = [mine EXCEPT ![t] = { s \in mine[t] : ~SameRow(s, r) } \cup {r}]
      /\ placed' = [placed EXCEPT ![t] = {r}]
      /\ pc' = [pc EXCEPT ![t] = "check"] /\ regs' = regs
  BY DEF Place, Go
<1>2. placed[t] = {}
  BY DEF IInv, Shape
<1>3. Shape'
  BY <1>1 DEF IInv, Shape
<1>4. \A u \in Txs : Checked(u)' \subseteq Checked(u)
  BY <1>1, <1>2 DEF IInv, Shape, Checked
<1>5. \A u \in Txs : Superseded(u) \subseteq Superseded(u)'
  <2> SUFFICES ASSUME NEW u \in Txs, NEW q \in regs, NEW s \in mine[u], SameRow(q, s)
               PROVE  \E z \in mine'[u] : SameRow(q, z)
    BY <1>1 DEF Superseded, SameRow
  <2>1. CASE u = t /\ SameRow(s, r)
    <3>1. SameRow(q, r)
      BY <2>1, SameRowIsEquivalence
    <3>2. r \in mine'[u]
      BY <1>1, <2>1 DEF IInv, Shape
    <3>3. QED
      BY <3>1, <3>2
  <2>2. CASE ~(u = t /\ SameRow(s, r))
    <3>1. s \in mine'[u]
      BY <1>1, <2>2 DEF IInv, Shape
    <3>2. QED
      BY <3>1
  <2>3. QED
    BY <2>1, <2>2
<1>6. OneCarOnePass'
  BY <1>1 DEF IInv, OneCarOnePass, Clash, Overlaps
<1>7. ClearOfTheCommitted'
  BY <1>1, <1>4, <1>5 DEF IInv, ClearOfTheCommitted, Clash, Overlaps
<1>8. ClearOfEachOther'
  BY <1>4 DEF IInv, ClearOfEachOther, Clash, Overlaps
<1>9. QED
  BY <1>3, <1>6, <1>7, <1>8 DEF IInv

(* The lookup found nothing, committed or in progress: the version joins.  *)
LEMMA SettleKeepsIInv ==
    ASSUME IInv, NEW t \in Txs, Settle(t) PROVE IInv'
<1>1. /\ placed' = [placed EXCEPT ![t] = {}] /\ mine' = mine /\ regs' = regs
      /\ pc' = [pc EXCEPT ![t] = "write"]
  BY DEF Settle, Go
<1>2. \A x \in placed[t] : Clear(t, x)
  BY DEF Settle
<1>3. Shape'
  BY <1>1 DEF IInv, Shape
<1>4. \A u \in Txs : Checked(u)' = IF u = t THEN Checked(t) \cup placed[t] ELSE Checked(u)
  BY <1>1 DEF IInv, Shape, Checked
<1>5. \A u \in Txs : Superseded(u)' = Superseded(u) /\ Checked(u) \subseteq mine[u]
  BY <1>1 DEF Superseded, Checked, SameRow
<1>6. ASSUME NEW x \in placed[t], NEW r \in regs \ Superseded(t) PROVE ~Clash(x, r)
  <2>1. r # x
    BY SameRowIsEquivalence DEF IInv, Shape, Superseded
  <2>2. QED
    BY <1>2, <2>1 DEF Clear, View
<1>7. ASSUME NEW x \in placed[t], NEW u \in Txs, NEW y \in mine[u], u # t \/ y # x
      PROVE  ~Clash(x, y) /\ ~Clash(y, x)
  BY <1>2, <1>7, ClashIsSymmetric DEF Clear, View
<1>8. OneCarOnePass'
  BY <1>1 DEF IInv, OneCarOnePass, Clash, Overlaps
<1>9. ClearOfTheCommitted'
  BY <1>1, <1>4, <1>5, <1>6 DEF IInv, ClearOfTheCommitted, Clash, Overlaps
<1>10. ClearOfEachOther'
  <2> SUFFICES ASSUME NEW u \in Txs, NEW v \in Txs, NEW x \in Checked(u)', NEW y \in Checked(v)',
                      u # v \/ x # y
               PROVE  ~Clash(x, y)
    BY DEF ClearOfEachOther, Clash, Overlaps
  <2>1. x \in mine[u] /\ y \in mine[v]
    BY <1>4, <1>5 DEF IInv, Shape
  <2>2. CASE u = t /\ x \in placed[t]
    BY <2>1, <2>2, <1>7
  <2>3. CASE v = t /\ y \in placed[t]
    BY <2>1, <2>3, <1>7
  <2>4. CASE x \in Checked(u) /\ y \in Checked(v)
    BY <2>4 DEF IInv, ClearOfEachOther
  <2>5. QED
    BY <2>2, <2>3, <2>4, <1>4
<1>11. QED
  BY <1>3, <1>8, <1>9, <1>10 DEF IInv

(* A step that writes no row and looks none up.                            *)
LEMMA ReadKeepsIInv ==
    ASSUME IInv, NEW t \in Txs, UNCHANGED <<regs, mine, placed>>, NEW to, to # "check",
           pc[t] # "check", pc' = pc \/ pc' = [pc EXCEPT ![t] = to]
    PROVE  IInv'
<1>1. Shape'
  BY DEF IInv, Shape
<1>2. QED
  BY <1>1 DEF IInv, OneCarOnePass, ClearOfTheCommitted, ClearOfEachOther, Checked, Superseded,
     SameRow, Clash, Overlaps

LEMMA NextKeepsIInv == IInv /\ [Next]_vars => IInv'
<1> SUFFICES ASSUME IInv, [Next]_vars PROVE IInv'
  OBVIOUS
<1>1. CASE UNCHANGED vars
  BY <1>1 DEF vars, IInv, Shape, OneCarOnePass, ClearOfTheCommitted, ClearOfEachOther, Checked,
     Superseded, SameRow, Clash, Overlaps
<1>2. ASSUME NEW t \in Txs, Begin(t) PROVE IInv'
  BY <1>2, ReadKeepsIInv DEF Begin, Go
<1>3. ASSUME NEW t \in Txs, LockPass(t) PROVE IInv'
  <2>1. CASE Rollback(t)
    BY <2>1, RollbackKeepsIInv
  <2>2. CASE Go(t, "holders") /\ UNCHANGED <<regs, mine, placed>>
    BY <1>3, <2>2, ReadKeepsIInv DEF LockPass, Go
  <2>3. CASE Go(t, "read") /\ UNCHANGED <<regs, mine, placed>>
    BY <1>3, <2>3, ReadKeepsIInv DEF LockPass, Go
  <2>4. QED
    BY <1>3, <2>1, <2>2, <2>3 DEF LockPass
<1>4. ASSUME NEW t \in Txs, NEW writes, pc[t] = "read", WillWrite(t, writes) PROVE IInv'
  BY <1>4, ReadKeepsIInv DEF WillWrite, Go
<1>5. ASSUME NEW t \in Txs, ReadToEnd(t) \/ ReadTheStay(t) \/ ReadToRevoke(t) PROVE IInv'
  <2>1. pc[t] = "read" /\ (Rollback(t) \/ \E writes : WillWrite(t, writes))
    BY <1>5 DEF ReadToEnd, ReadTheStay, ReadToRevoke
  <2>2. QED
    BY <2>1, <1>4, RollbackKeepsIInv
<1>6. ASSUME NEW t \in Txs, ReadToHold(t) PROVE IInv'
  BY <1>6, ReadKeepsIInv DEF ReadToHold, Go
<1>7. ASSUME NEW t \in Txs, FillTheGap(t) PROVE IInv'
  <2>1. /\ pc[t] = "write" /\ UNCHANGED <<regs, mine, placed>>
        /\ pc' = pc \/ pc' = [pc EXCEPT ![t] = "holders"]
    BY <1>7 DEF FillTheGap, Go
  <2>2. QED
    BY <2>1, ReadKeepsIInv
<1>8. ASSUME NEW t \in Txs, ReadHolders(t) PROVE IInv'
  BY <1>8, ReadKeepsIInv DEF ReadHolders
<1>9. ASSUME NEW t \in Txs, JudgeHolders(t) PROVE IInv'
  <2>1. CASE Rollback(t)
    BY <2>1, RollbackKeepsIInv
  <2>2. CASE ~Rollback(t)
    <3>1. pc[t] = "holders" /\ Go(t, "write") /\ UNCHANGED <<regs, mine, placed>>
      BY <1>9, <2>2 DEF JudgeHolders
    <3>2. QED
      BY <3>1, ReadKeepsIInv DEF Go
  <2>3. QED
    BY <2>1, <2>2
<1>10. ASSUME NEW t \in Txs, WriteRow(t) PROVE IInv'
  <2>1. pc[t] = "write"
    BY <1>10 DEF WriteRow
  <2>2. \/ \E w, r : Place(t, w, r)
        \/ Rollback(t)
        \/ UNCHANGED <<regs, mine, placed, pc>>
    BY <1>10 DEF WriteRow
  <2>3. CASE \E w, r : Place(t, w, r)
    BY <2>1, <2>3, PlaceKeepsIInv
  <2>4. CASE Rollback(t)
    BY <2>4, RollbackKeepsIInv
  <2>5. CASE UNCHANGED <<regs, mine, placed, pc>>
    BY <2>1, <2>5, ReadKeepsIInv
  <2>6. QED
    BY <2>2, <2>3, <2>4, <2>5
<1>11. ASSUME NEW t \in Txs, ExclusionViolation(t) \/ DeadlockDetected(t) \/ Lost(t) PROVE IInv'
  BY <1>11, RollbackKeepsIInv DEF ExclusionViolation, DeadlockDetected, Lost
<1>12. QED
  BY <1>1, <1>2, <1>3, <1>5, <1>6, <1>7, <1>8, <1>9, <1>10, <1>11, SettleKeepsIInv,
     CommitKeepsIInv DEF Next, Statement

(* ONE CAR, ONE PASS PER GARAGE under every interleaving of every number   *)
(* of writers: no two committed rows hold a car at a garage on a day.      *)
THEOREM RacesKeepOneCarOnePass == Spec => []OneCarOnePass
<1>1. IInv => OneCarOnePass
  BY DEF IInv
<1>2. QED
  BY InitIInv, NextKeepsIInv, <1>1, PTL DEF Spec

-----------------------------------------------------------------------------
(* What is revoked stays revoked: no interleaving of a revocation with the *)
(* writers that trim, run on or end the pass's rows leaves a day on them.  *)
(*                                                                         *)
(* Two writers never work for one pass (LocksApart), so while a revocation *)
(* runs no row joins its pass and the rows of the pass only get earlier    *)
(* ends: every version of every one of them is still to be visited by the  *)
(* revocation, or ends by its day already (Clearing).  After it, the only  *)
(* writes left are ends, and none of them is a later one (Barred, Trims).  *)

PastLock(t) == pc[t] \notin {"idle", "lock"}

(* The same row of the table: id, pass, car and effective day never change. *)
Like(a, b) == SameRow(a, b) /\ a.pass = b.pass /\ a.car = b.car /\ a.from = b.from

(* Every row t has in hand.                                                *)
Known(t) == mine[t] \cup plan[t].seen \cup plan[t].own \cup { w.row : w \in plan[t].todo }
IsKnown(a) == a \in regs \/ \E t \in Txs : a \in Known(t)

PlanTyped(P) ==
    /\ P = [own |-> P.own, gaps |-> P.gaps, leg |-> P.leg, unread |-> P.unread,
            seen |-> P.seen, todo |-> P.todo]
    /\ P.own \subseteq Row /\ P.seen \subseteq Row /\ P.todo \subseteq Write
    /\ P.gaps \subseteq Day
    /\ P.leg = <<P.leg[1], P.leg[2]>> /\ P.leg[1] \in Day /\ P.leg[2] \in EndDay

Typed ==
    /\ regs \subseteq Row
    /\ revokedAt \in [Passes -> Instants \cup {Never}]
    /\ written \in Nat
    /\ call \in [Txs -> Calls \cup {NoCall}]
    /\ pc \in [Txs -> {"idle", "lock", "read", "holders", "write", "check"}]
    /\ plan = [t \in Txs |-> plan[t]]
    /\ \A t \in Txs : PlanTyped(plan[t])
    /\ mine \in [Txs -> SUBSET Row]

UniqueIds(rows) == \A a, b \in rows : SameRow(a, b) => a = b
Identified == UniqueIds(regs) /\ \A t \in Txs : UniqueIds(mine[t])

Kin ==
    /\ \A a, b : IsKnown(a) /\ IsKnown(b) /\ SameRow(a, b) => Like(a, b)
    /\ \A a : IsKnown(a) => a.reg < written /\ a.garage \in GaragesOf[a.pass]

OnACall == \A t \in Txs : pc[t] # "idle" => call[t] \in Calls
LocksApart ==
    \A t, u \in Txs : PastLock(t) /\ PastLock(u) /\ t # u => call[t].pass # call[u].pass
Quiet ==
    \A t \in Txs : pc[t] \in {"idle", "lock", "read"} => mine[t] = {} /\ plan[t] = NoPlan

LastDayIs(p, to) == IF to = Forever THEN ValidTo[p] ELSE to - 1

(* A write on another pass's row takes its last day or its days past the   *)
(* pass's valid_to, and gives it none.                                     *)
Trims(w) ==
    \/ w.kind = "as_read" /\ w.row.to <= w.was /\ LastDayIs(w.row.pass, w.was) <= w.row.to
    \/ w.kind = "if_open" /\ ValidTo[w.row.pass] < w.row.to

(* What a call may have planned: c the call, P the plan, at where it is.   *)
MayPlan(c, P, at) ==
    /\ c.verb # "hold" => P.gaps = {}
    /\ \A d \in P.gaps : d < c.to
    /\ at = "holders" => /\ c.verb \in {"register", "hold"} /\ P.todo = {}
                         /\ \A r \in P.seen : P.leg[1] < r.to
    /\ \A r \in P.own : r.pass = c.pass
    /\ \A w \in P.todo :
         /\ w.kind = "put" => w.row.pass = c.pass
         /\ w.row.pass # c.pass => Trims(w)
         /\ c.verb \notin {"register", "hold"} => w.row.pass = c.pass /\ w.kind # "put"
         /\ c.verb = "revoke" => w.kind = "if_later" /\ w.row.to = RevocationDay(c, w.row)
Intents == \A t \in Txs : pc[t] # "idle" => MayPlan(call[t], plan[t], pc[t])

(* The last day a revoked pass's row may end by.                           *)
EndBy(r) == Greatest(DayAt[revokedAt[r.pass]][r.garage], r.from)

Barred ==
    \A t \in Txs : PastLock(t) /\ revokedAt[call[t].pass] # Never =>
        /\ call[t].verb \in {"end", "end_stay"}
        /\ \A w \in plan[t].todo : w.row.to <= EndBy(w.row)

Owned ==
    \A t \in Txs : \A s \in mine[t] : s.pass # call[t].pass => \E r \in regs : SameRow(r, s)

(* The versions of rows that t could commit over or others could commit.   *)
Alive(t, a) == a \in View(t) \/ \E u \in Txs \ {t} : a \in mine[u]
Pending(t, a) == \E w \in plan[t].todo : SameRow(w.row, a)
Clearing ==
    \A t \in Txs : pc[t] \in {"write", "check"} /\ call[t].verb = "revoke" =>
        \A a : Alive(t, a) /\ a.pass = call[t].pass =>
            Pending(t, a) \/ a.to <= RevocationDay(call[t], a)

InFlight ==
    \A t \in Txs : \A s \in mine[t] : revokedAt[s.pass] # Never => s.to <= EndBy(s)

RaceInv ==
    /\ Typed /\ Identified /\ Kin /\ OnACall /\ LocksApart /\ Quiet /\ Intents
    /\ Barred /\ Owned /\ Clearing /\ InFlight /\ RevokedHoldsNothing

(* A step of t that commits nothing: c, P, to, m and n are t's call, plan, *)
(* place and row versions after it, and the next number.                   *)
Moves(t, c, P, to, m, n) ==
    /\ regs' = regs /\ revokedAt' = revokedAt /\ written' = n
    /\ call' = [call EXCEPT ![t] = c]
    /\ plan' = [plan EXCEPT ![t] = P]
    /\ pc' = [pc EXCEPT ![t] = to]
    /\ mine' = [mine EXCEPT ![t] = m]

(* The rows in hand after it: seen before, or numbered by it.              *)
InHand(P, m) == m \cup P.seen \cup P.own \cup { w.row : w \in P.todo }
Numbers(c, P, b, n) ==
    /\ b.reg = written /\ written < n /\ b.pass = c.pass /\ b.garage \in GaragesOf[c.pass]
    /\ b.car = c.car /\ b.from = P.leg[1]
NothingUnheard(c, P, m, n) ==
    \A b \in InHand(P, m) : (\E a : IsKnown(a) /\ Like(b, a)) \/ Numbers(c, P, b, n)

(* What such a step has to keep for the invariant to hold after it.        *)
ClearedBy(t, c, P, to, m) ==
    to \in {"write", "check"} /\ c.verb = "revoke" =>
        \A a : /\ \/ a \in m \/ (a \in regs /\ ~\E s \in m : SameRow(a, s))
                  \/ \E u \in Txs \ {t} : a \in mine[u]
               /\ a.pass = c.pass
               => (\E w \in P.todo : SameRow(w.row, a)) \/ a.to <= RevocationDay(c, a)

LeavesClearing(t, m) ==
    \A u \in Txs \ {t} : pc[u] \in {"write", "check"} /\ call[u].verb = "revoke" =>
        \A s \in m : s.pass = call[u].pass =>
            Pending(u, s) \/ s.to <= RevocationDay(call[u], s)

Places == {"idle", "lock", "read", "holders", "write", "check"}

Fits(t, c, P, to, m, n) ==
    /\ c \in Calls \cup {NoCall} /\ to \in Places /\ PlanTyped(P) /\ m \subseteq Row
    /\ n \in Nat /\ written <= n
    /\ UniqueIds(m)
    /\ NothingUnheard(c, P, m, n)
    /\ to # "idle" => c \in Calls
    /\ to \notin {"idle", "lock"} =>
         \A u \in Txs \ {t} : PastLock(u) => call[u].pass # c.pass
    /\ to \in {"idle", "lock", "read"} => m = {} /\ P = NoPlan
    /\ to # "idle" => MayPlan(c, P, to)
    /\ to \notin {"idle", "lock"} /\ revokedAt[c.pass] # Never =>
         c.verb \in {"end", "end_stay"} /\ \A w \in P.todo : w.row.to <= EndBy(w.row)
    /\ \A s \in m : s.pass # c.pass => \E r \in regs : SameRow(r, s)
    /\ \A s \in m : revokedAt[s.pass] # Never => s.to <= EndBy(s)
    /\ ClearedBy(t, c, P, to, m)
    /\ LeavesClearing(t, m)

LEMMA RowFields ==
    ASSUME NEW r \in Row
    PROVE  /\ r.reg \in Nat /\ r.garage \in Garages /\ r.pass \in Passes /\ r.car \in Cars
           /\ r.from \in Day /\ r.to \in EndDay /\ r.why \in Reasons
           /\ r.from \in Int /\ r.to \in Int
           /\ Forever \in EndDay /\ Forever \in Int /\ MaxDay \in Nat
BY MaxDayAssumption DEF Row, Day, EndDay, Forever

LEMMA WriteFields ==
    ASSUME NEW w \in Write
    PROVE  w.row \in Row /\ w.was \in EndDay /\ w.was \in Int
BY MaxDayAssumption DEF Write, Day, EndDay, Forever

(* What is known of rows after a step was known of them before it.         *)
LEMMA KnownAreRows == Typed => \A a : IsKnown(a) => a \in Row
  BY WriteFields DEF Typed, PlanTyped, IsKnown, Known

LEMMA LikeIsEquivalence ==
    \A a, b, c : /\ Like(a, a)
                 /\ Like(a, b) => Like(b, a)
                 /\ Like(a, b) /\ Like(b, c) => Like(a, c)
  BY DEF Like, SameRow

LEMMA KinKept ==
    ASSUME Typed, Kin, written' \in Nat, written <= written', NEW c, NEW P, NEW n, n = written',
           \A b : IsKnown(b)' =>
             (\E a : IsKnown(a) /\ Like(b, a)) \/ Numbers(c, P, b, n)
    PROVE  Kin'
  <1> USE DEF Typed, Numbers
  <1>0. ASSUME NEW b, IsKnown(b)' PROVE b.garage \in GaragesOf[b.pass]
    BY <1>0 DEF Kin, Like, SameRow
  <1>1. ASSUME NEW b, IsKnown(b)' PROVE b.reg < written'
    <2>1. CASE \E a : IsKnown(a) /\ Like(b, a)
      <3>1. PICK a : IsKnown(a) /\ Like(b, a) BY <2>1
      <3>2. a.reg < written /\ a.reg \in Nat BY <3>1, KnownAreRows, RowFields DEF Kin
      <3>3. b.reg = a.reg BY <3>1 DEF Like, SameRow
      <3> QED BY <3>2, <3>3
    <2> QED BY <1>1, <2>1
  <1>2. ASSUME NEW a, NEW b, IsKnown(a)', IsKnown(b)', SameRow(a, b) PROVE Like(a, b)
    <2>1. CASE \E x : IsKnown(x) /\ Like(a, x)
      <3>1. PICK x : IsKnown(x) /\ Like(a, x) BY <2>1
      <3>2. CASE \E y : IsKnown(y) /\ Like(b, y)
        <4>1. PICK y : IsKnown(y) /\ Like(b, y) BY <3>2
        <4>2. SameRow(x, y) BY <1>2, <3>1, <4>1 DEF Like, SameRow
        <4>3. Like(x, y) BY <3>1, <4>1, <4>2 DEF Kin
        <4> QED BY <3>1, <4>1, <4>3 DEF Like, SameRow
      <3>3. CASE b.reg = written
        <4>1. x.reg = written /\ x.reg < written BY <1>2, <3>1, <3>3 DEF Like, SameRow, Kin
        <4> QED BY <4>1
      <3> QED BY <1>2, <3>2, <3>3
    <2>2. CASE Numbers(c, P, a, n)
      <3>1. CASE \E y : IsKnown(y) /\ Like(b, y)
        <4>1. PICK y : IsKnown(y) /\ Like(b, y) BY <3>1
        <4>2. y.reg = written /\ y.reg < written BY <1>2, <2>2, <4>1 DEF Like, SameRow, Kin
        <4> QED BY <4>2
      <3>2. CASE Numbers(c, P, b, n)
        BY <1>2, <2>2, <3>2 DEF Like
      <3> QED BY <1>2, <3>1, <3>2
    <2> QED BY <1>2, <2>1, <2>2
  <1> QED BY <1>0, <1>1, <1>2 DEF Kin, Like, SameRow

(* A step that fits keeps the invariant.                                   *)
LEMMA AFittingStep ==
    ASSUME RaceInv, NEW t \in Txs, NEW c, NEW P, NEW to, NEW m, NEW n,
           Fits(t, c, P, to, m, n), Moves(t, c, P, to, m, n)
    PROVE  RaceInv'
  <1>0. Typed BY DEF RaceInv
  <1>1. /\ regs' = regs /\ revokedAt' = revokedAt /\ written' = n
        /\ \A u \in Txs : /\ call'[u] = IF u = t THEN c ELSE call[u]
                          /\ plan'[u] = IF u = t THEN P ELSE plan[u]
                          /\ pc'[u] = IF u = t THEN to ELSE pc[u]
                          /\ mine'[u] = IF u = t THEN m ELSE mine[u]
    BY <1>0 DEF Moves, Typed
  <1>2. Typed'
    <2>1. call' \in [Txs -> Calls \cup {NoCall}] /\ pc' \in [Txs -> Places]
          /\ mine' \in [Txs -> SUBSET Row]
      BY <1>0 DEF Moves, Fits, Typed, Places
    <2>2. plan' = [u \in Txs |-> plan'[u]] BY <1>0 DEF Moves, Typed
    <2>3. \A u \in Txs : PlanTyped(plan'[u]) BY <1>0, <1>1 DEF Fits, Typed
    <2>4. written' \in Nat BY <1>1 DEF Fits
    <2> QED BY <1>0, <1>1, <2>1, <2>2, <2>3, <2>4 DEF Typed, Places
  <1>3. Identified'
    BY <1>1 DEF RaceInv, Identified, UniqueIds, SameRow, Fits
  <1>4. Kin'
    <2>1. ASSUME NEW b, IsKnown(b)'
          PROVE (\E a : IsKnown(a) /\ Like(b, a)) \/ Numbers(c, P, b, n)
      <3>1. CASE b \in regs \/ \E u \in Txs \ {t} : b \in Known(u)
        BY <3>1, LikeIsEquivalence DEF IsKnown
      <3>2. CASE b \in InHand(P, m)
        BY <3>2 DEF Fits, NothingUnheard
      <3>3. \A u \in Txs : b \in Known(u)' => IF u = t THEN b \in InHand(P, m) ELSE b \in Known(u)
        BY <1>1 DEF Known, InHand
      <3> QED BY <1>1, <2>1, <3>1, <3>2, <3>3 DEF IsKnown
    <2>2. Kin /\ written' \in Nat /\ written <= written' /\ n = written'
      BY <1>1 DEF RaceInv, Fits
    <2> QED BY <1>0, <2>1, <2>2, KinKept
  <1>5. OnACall' BY <1>1 DEF RaceInv, OnACall, Fits
  <1>6. LocksApart'
    BY <1>1 DEF RaceInv, LocksApart, PastLock, Fits
  <1>7. Quiet' BY <1>1 DEF RaceInv, Quiet, Fits
  <1>8. Intents'
    <2>1. \A u \in Txs : pc'[u] # "idle" => MayPlan(call'[u], plan'[u], pc'[u])
      BY <1>1 DEF RaceInv, Intents, Fits
    <2> QED BY <2>1 DEF Intents, MayPlan, Trims, RevocationDay, LastDayIs
  <1>9. Barred'
    <2>1. \A r : EndBy(r)' = EndBy(r) BY <1>1 DEF EndBy
    <2> QED BY <1>1, <2>1 DEF RaceInv, Barred, PastLock, Fits
  <1>10. Owned' BY <1>1 DEF RaceInv, Owned, SameRow, Fits
  <1>11. Clearing'
    <2> SUFFICES ASSUME NEW u \in Txs, pc'[u] \in {"write", "check"}, call'[u].verb = "revoke",
                        NEW a, Alive(u, a)', a.pass = call'[u].pass
                 PROVE  (\E w \in plan'[u].todo : SameRow(w.row, a))
                        \/ a.to <= RevocationDay(call'[u], a)
      BY DEF Clearing, Pending, RevocationDay, SameRow
    <2>1. CASE u = t
      <3>1. \/ a \in m \/ (a \in regs /\ ~\E s \in m : SameRow(a, s))
            \/ \E v \in Txs \ {t} : a \in mine[v]
        BY <1>1, <2>1 DEF Alive, View, Superseded, SameRow
      <3>2. ClearedBy(t, c, P, to, m) BY DEF Fits
      <3> QED BY <1>1, <2>1, <3>1, <3>2 DEF ClearedBy
    <2>2. CASE u # t
      <3>1. pc[u] \in {"write", "check"} /\ call[u].verb = "revoke" /\ a.pass = call[u].pass
            /\ plan'[u] = plan[u] /\ call'[u] = call[u]
        BY <1>1, <2>2
      <3>2. Alive(u, a) \/ a \in m
        BY <1>1, <2>2 DEF Alive, View, Superseded, SameRow
      <3>3. CASE Alive(u, a)
        BY <3>1, <3>3 DEF RaceInv, Clearing, Pending
      <3>4. CASE a \in m
        BY <2>2, <3>1, <3>4 DEF Fits, LeavesClearing, Pending
      <3> QED BY <3>2, <3>3, <3>4
    <2> QED BY <2>1, <2>2
  <1>12. InFlight'
    <2>1. \A r : EndBy(r)' = EndBy(r) BY <1>1 DEF EndBy
    <2> QED BY <1>1, <2>1 DEF RaceInv, InFlight, Fits
  <1>13. RevokedHoldsNothing' BY <1>1 DEF RaceInv, RevokedHoldsNothing, Greatest
  <1> QED BY <1>2, <1>3, <1>4, <1>5, <1>6, <1>7, <1>8, <1>9, <1>10, <1>11, <1>12, <1>13
         DEF RaceInv

(* A step that reads and plans, and writes no row.                         *)
LEMMA APlanFits ==
    ASSUME RaceInv, NEW t \in Txs, pc[t] \notin {"idle", "lock"}, NEW P,
           NEW to \in Places \ {"idle", "lock", "read"}, NEW n \in Nat, written <= n,
           PlanTyped(P), MayPlan(call[t], P, to),
           \A b \in P.seen \cup P.own \cup { w.row : w \in P.todo } :
               (\E a : IsKnown(a) /\ Like(b, a)) \/ Numbers(call[t], P, b, n),
           revokedAt[call[t].pass] # Never =>
               \A w \in P.todo : w.row.to <= EndBy(w.row),
           to \in {"write", "check"} /\ call[t].verb = "revoke" =>
               \A a : Alive(t, a) /\ a.pass = call[t].pass =>
                   (\E w \in P.todo : SameRow(w.row, a)) \/ a.to <= RevocationDay(call[t], a)
    PROVE  Fits(t, call[t], P, to, mine[t], n)
  <1> USE DEF RaceInv
  <1>1. call[t] \in Calls /\ mine[t] \subseteq Row /\ UniqueIds(mine[t])
    BY DEF OnACall, Typed, Identified
  <1>2. NothingUnheard(call[t], P, mine[t], n)
    <2>1. \A b \in mine[t] : IsKnown(b) /\ Like(b, b)
      BY LikeIsEquivalence DEF IsKnown, Known
    <2> QED BY <2>1 DEF NothingUnheard, InHand
  <1>3. \A u \in Txs \ {t} : PastLock(u) => call[u].pass # call[t].pass
    BY DEF LocksApart, PastLock
  <1>4. revokedAt[call[t].pass] # Never => call[t].verb \in {"end", "end_stay"}
    BY DEF Barred, PastLock
  <1>5. \A s \in mine[t] : s.pass # call[t].pass => \E r \in regs : SameRow(r, s)
    BY DEF Owned
  <1>6. \A s \in mine[t] : revokedAt[s.pass] # Never => s.to <= EndBy(s)
    BY DEF InFlight
  <1>7. ClearedBy(t, call[t], P, to, mine[t])
    BY DEF ClearedBy, Alive, View, Superseded
  <1>8. LeavesClearing(t, mine[t])
    BY DEF LeavesClearing, Clearing, Alive
  <1> QED BY <1>1, <1>2, <1>3, <1>4, <1>5, <1>6, <1>7, <1>8 DEF Fits

LEMMA RollbackFits ==
    ASSUME RaceInv, NEW t \in Txs, Rollback(t)
    PROVE  Fits(t, NoCall, NoPlan, "idle", {}, written) /\ Moves(t, NoCall, NoPlan, "idle", {}, written)
  <1>1. Moves(t, NoCall, NoPlan, "idle", {}, written)
    BY DEF Rollback, Closed, Go, Plans, Moves
  <1>2. PlanTyped(NoPlan)
    BY MaxDayAssumption DEF PlanTyped, NoPlan, Day, EndDay
  <1>3. written \in Nat /\ written <= written BY DEF RaceInv, Typed
  <1>4. NothingUnheard(NoCall, NoPlan, {}, written)
    BY DEF NothingUnheard, InHand, NoPlan
  <1> QED
    BY <1>1, <1>2, <1>3, <1>4 DEF Fits, Places, UniqueIds, ClearedBy, LeavesClearing

LEMMA RollbackKeeps ==
    ASSUME RaceInv, NEW t \in Txs, Rollback(t) PROVE RaceInv'
  <1>1. Fits(t, NoCall, NoPlan, "idle", {}, written) /\ Moves(t, NoCall, NoPlan, "idle", {}, written)
    BY RollbackFits
  <1> QED BY <1>1, AFittingStep

LEMMA NoPlanFields ==
    /\ NoPlan.own = {} /\ NoPlan.gaps = {} /\ NoPlan.seen = {} /\ NoPlan.todo = {}
    /\ NoPlan.unread = {} /\ NoPlan.leg = <<1, 1>> /\ PlanTyped(NoPlan)
  BY MaxDayAssumption DEF PlanTyped, NoPlan, Day, EndDay

LEMMA BeginKeeps ==
    ASSUME RaceInv, NEW t \in Txs, Begin(t) PROVE RaceInv'
  <1> USE DEF RaceInv
  <1>1. PICK c \in Calls : call' = [call EXCEPT ![t] = c] BY DEF Begin
  <1>2. plan[t] = NoPlan /\ mine[t] = {} BY DEF Begin, Quiet
  <1>3. Moves(t, c, NoPlan, "lock", {}, written)
    BY <1>1, <1>2 DEF Begin, Go, Moves, Typed
  <1>4. written \in Nat /\ written <= written BY DEF Typed
  <1>5. MayPlan(c, NoPlan, "lock") BY NoPlanFields DEF MayPlan
  <1>6. NothingUnheard(c, NoPlan, {}, written) BY NoPlanFields DEF NothingUnheard, InHand
  <1>7. Fits(t, c, NoPlan, "lock", {}, written)
    BY <1>4, <1>5, <1>6, NoPlanFields DEF Fits, Places, UniqueIds, ClearedBy, LeavesClearing
  <1> QED BY <1>3, <1>7, AFittingStep

(* The pass row locked, and the call not refused.                          *)
LEMMA Locked ==
    ASSUME RaceInv, NEW t \in Txs, LockPass(t), ~Rollback(t)
    PROVE  LET c == call[t] IN
           /\ PassFree(t) /\ c \in Calls
           /\ c.verb \in {"register", "hold", "revoke"} => revokedAt[c.pass] = Never
           /\ c.verb \in {"register", "hold"} => InTerms(c)
           /\ c.verb \in Verbs
           /\ \E P, to : /\ Moves(t, c, P, to, {}, written)
                         /\ P.own = {} /\ P.gaps = {} /\ P.seen = {} /\ P.todo = {} /\ PlanTyped(P)
                         /\ \/ to = "read" /\ P = NoPlan
                            \/ /\ to = "holders" /\ c.verb = "register"
                               /\ P.leg = <<c.from, c.to>> /\ P.unread = GaragesOf[c.pass]
  <1> USE DEF RaceInv
  <1> DEFINE c == call[t]
  <1>0. pc[t] = "lock" /\ PassFree(t) BY DEF LockPass
  <1>1. c \in Calls /\ plan[t] = NoPlan /\ mine[t] = {} /\ c.pass \in Passes /\ c.from \in Day
        /\ c.to \in EndDay /\ c.verb \in Verbs
    BY <1>0, CallsAssumption DEF OnACall, Quiet, Call
  <1>2. /\ c.verb \in {"register", "hold", "revoke"} => revokedAt[c.pass] = Never
        /\ c.verb \in {"register", "hold"} => InTerms(c)
    BY DEF LockPass
  <1>3. UNCHANGED <<regs, revokedAt, written, call, mine>>
    BY DEF LockPass
  <1>4. PICK P, to : /\ plan' = [plan EXCEPT ![t] = P] /\ pc' = [pc EXCEPT ![t] = to]
                     /\ \/ to = "read" /\ P = NoPlan
                        \/ /\ to = "holders" /\ c.verb = "register"
                           /\ P = [NoPlan EXCEPT !.leg = <<c.from, c.to>>,
                                                 !.unread = GaragesOf[c.pass]]
    <2>1. plan = [plan EXCEPT ![t] = NoPlan] BY <1>1 DEF Typed
    <2>2. \/ Go(t, "read") /\ plan' = plan
          \/ /\ Go(t, "holders") /\ c.verb = "register"
             /\ Plans(t, [plan[t] EXCEPT !.leg = <<c.from, c.to>>,
                                         !.unread = GaragesOf[c.pass]])
      BY DEF LockPass
    <2> QED BY <1>1, <2>1, <2>2 DEF Go, Plans
  <1>5. /\ P.own = {} /\ P.gaps = {} /\ P.seen = {} /\ P.todo = {} /\ PlanTyped(P)
        /\ \/ to = "read" /\ P = NoPlan
           \/ /\ to = "holders" /\ c.verb = "register"
              /\ P.leg = <<c.from, c.to>> /\ P.unread = GaragesOf[c.pass]
    <2>1. CASE to = "read" /\ P = NoPlan BY <2>1, NoPlanFields
    <2>2. CASE /\ to = "holders" /\ c.verb = "register"
               /\ P = [NoPlan EXCEPT !.leg = <<c.from, c.to>>, !.unread = GaragesOf[c.pass]]
      <3>1. P = [own |-> {}, gaps |-> {}, leg |-> <<c.from, c.to>>, unread |-> GaragesOf[c.pass],
                 seen |-> {}, todo |-> {}]
        BY <2>2 DEF NoPlan
      <3>2. P.own = {} /\ P.gaps = {} /\ P.seen = {} /\ P.todo = {} /\ PlanTyped(P)
        BY <1>1, <3>1 DEF PlanTyped
      <3>3. P.leg = <<c.from, c.to>> /\ P.unread = GaragesOf[c.pass] BY <3>1
      <3> QED BY <2>2, <3>2, <3>3
    <2> QED BY <1>4, <2>1, <2>2
  <1>6. Moves(t, c, P, to, {}, written)
    BY <1>1, <1>3, <1>4 DEF Moves, Typed
  <1> QED BY <1>0, <1>1, <1>2, <1>4, <1>5, <1>6

LEMMA LockPassKeeps ==
    ASSUME RaceInv, NEW t \in Txs, LockPass(t) PROVE RaceInv'
  <1> USE DEF RaceInv
  <1> DEFINE c == call[t]
  <1>1. CASE Rollback(t) BY <1>1, RollbackKeeps
  <1>2. CASE ~Rollback(t)
    <2>1. PassFree(t) /\ c \in Calls /\ c.verb \in Verbs
          /\ (c.verb \in {"register", "hold", "revoke"} => revokedAt[c.pass] = Never)
      BY <1>2, Locked
    <2>2. PICK P, to : /\ Moves(t, c, P, to, {}, written)
                       /\ P.own = {} /\ P.gaps = {} /\ P.seen = {} /\ P.todo = {} /\ PlanTyped(P)
                       /\ \/ to = "read" /\ P = NoPlan
                          \/ to = "holders" /\ c.verb = "register"
      BY <1>2, Locked
    <2>3. MayPlan(c, P, to) BY <2>2 DEF MayPlan
    <2>4. \A u \in Txs \ {t} : PastLock(u) => call[u].pass # c.pass
      BY <2>1 DEF PassFree, PastLock
    <2>5. NothingUnheard(c, P, {}, written) BY <2>2 DEF NothingUnheard, InHand
    <2>6. revokedAt[c.pass] # Never => c.verb \in {"end", "end_stay"}
      BY <2>1 DEF Verbs
    <2>7. written \in Nat /\ written <= written BY DEF Typed
    <2>8. to \in Places \ {"idle", "lock", "write", "check"} /\ (to = "read" => P = NoPlan)
      BY <2>2 DEF Places
    <2>9. Fits(t, c, P, to, {}, written)
      BY <2>1, <2>2, <2>3, <2>4, <2>5, <2>6, <2>7, <2>8
         DEF Fits, Places, UniqueIds, ClearedBy, LeavesClearing
    <2> QED BY <2>2, <2>9, AFittingStep
  <1> QED BY <1>1, <1>2

LEMMA WhatIsSeen ==
    ASSUME RaceInv, NEW t \in Txs, NEW r \in View(t)
    PROVE  /\ r \in Row /\ IsKnown(r) /\ Alive(t, r)
           /\ revokedAt[r.pass] # Never => r.to <= EndBy(r)
  <1>1. r \in regs \/ r \in mine[t] BY DEF View
  <1> QED BY <1>1 DEF RaceInv, Typed, IsKnown, Known, Alive, RevokedHoldsNothing, InFlight, EndBy

LEMMA UpdateFields ==
    ASSUME NEW step \in 0..3, NEW kind \in {"as_read", "if_open", "if_later", "by_id"},
           NEW r \in Row, NEW to \in EndDay, NEW why \in Reasons
    PROVE  LET w == Update(step, kind, r, to, why) IN
           /\ w \in Write /\ w.kind = kind /\ w.was = r.to /\ w.step = step
           /\ w.row.to = to /\ w.row.pass = r.pass /\ w.row.from = r.from
           /\ w.row.garage = r.garage /\ w.row.car = r.car /\ w.row.reg = r.reg
           /\ Like(w.row, r) /\ Like(r, w.row)
  <1> DEFINE q == [r EXCEPT !.to = to, !.why = why]
  <1>1. q \in Row /\ q.to = to /\ q.pass = r.pass /\ q.from = r.from
        /\ q.garage = r.garage /\ q.car = r.car /\ q.reg = r.reg
    BY DEF Row
  <1>2. r.to \in EndDay BY RowFields
  <1> HIDE DEF q
  <1>3. Update(step, kind, r, to, why) = [step |-> step, kind |-> kind, row |-> q, was |-> r.to]
    BY DEF Update, q
  <1> QED BY <1>1, <1>2, <1>3 DEF Write, Like, SameRow

(* The plan with its writes known.                                         *)
LEMMA PlannedWrites ==
    ASSUME NEW P, PlanTyped(P), NEW W \in SUBSET Write
    PROVE  LET Q == [P EXCEPT !.todo = W] IN
           /\ PlanTyped(Q) /\ Q.todo = W /\ Q.own = P.own /\ Q.seen = P.seen /\ Q.gaps = P.gaps
           /\ Q.leg = P.leg /\ Q.unread = P.unread
  <1> DEFINE Q == [P EXCEPT !.todo = W]
  <1>1. Q = [own |-> P.own, gaps |-> P.gaps, leg |-> P.leg, unread |-> P.unread,
             seen |-> P.seen, todo |-> W]
    BY DEF PlanTyped
  <1> HIDE DEF Q
  <1>2. PlanTyped(Q) /\ Q.todo = W /\ Q.own = P.own /\ Q.seen = P.seen /\ Q.gaps = P.gaps
        /\ Q.leg = P.leg /\ Q.unread = P.unread
    BY <1>1 DEF PlanTyped
  <1> QED BY <1>2 DEF Q

(* The other statements' new plans, field by field.                        *)
LEMMA PlanOfAHold ==
    ASSUME NEW P, PlanTyped(P), NEW O, NEW G
    PROVE  [P EXCEPT !.own = O, !.gaps = G] =
             [own |-> O, gaps |-> G, leg |-> P.leg, unread |-> P.unread, seen |-> P.seen,
              todo |-> P.todo]
  <1>0. P = [own |-> P.own, gaps |-> P.gaps, leg |-> P.leg, unread |-> P.unread, seen |-> P.seen,
             todo |-> P.todo]
    BY DEF PlanTyped
  <1> DEFINE Q1 == [P EXCEPT !.own = O]
             Q2 == [Q1 EXCEPT !.gaps = G]
  <1>1. [P EXCEPT !.own = O, !.gaps = G] = Q2
    OBVIOUS
  <1>2. Q1 = [own |-> O, gaps |-> P.gaps, leg |-> P.leg, unread |-> P.unread, seen |-> P.seen,
              todo |-> P.todo]
    BY <1>0
  <1> HIDE DEF Q1
  <1>3. Q2 = [own |-> O, gaps |-> G, leg |-> P.leg, unread |-> P.unread, seen |-> P.seen,
              todo |-> P.todo]
    BY <1>2
  <1> HIDE DEF Q2
  <1> QED BY <1>1, <1>3

LEMMA PlanOfAReader ==
    ASSUME NEW P, PlanTyped(P), NEW U, NEW S
    PROVE  [P EXCEPT !.unread = U, !.seen = S] =
             [own |-> P.own, gaps |-> P.gaps, leg |-> P.leg, unread |-> U, seen |-> S,
              todo |-> P.todo]
  <1>0. P = [own |-> P.own, gaps |-> P.gaps, leg |-> P.leg, unread |-> P.unread, seen |-> P.seen,
             todo |-> P.todo]
    BY DEF PlanTyped
  <1> DEFINE Q1 == [P EXCEPT !.unread = U]
             Q2 == [Q1 EXCEPT !.seen = S]
  <1>1. [P EXCEPT !.unread = U, !.seen = S] = Q2
    OBVIOUS
  <1>2. Q1 = [own |-> P.own, gaps |-> P.gaps, leg |-> P.leg, unread |-> U, seen |-> P.seen,
              todo |-> P.todo]
    BY <1>0
  <1> HIDE DEF Q1
  <1>3. Q2 = [own |-> P.own, gaps |-> P.gaps, leg |-> P.leg, unread |-> U, seen |-> S,
              todo |-> P.todo]
    BY <1>2
  <1> HIDE DEF Q2
  <1> QED BY <1>1, <1>3

LEMMA PlanOfARunOn ==
    ASSUME NEW P, PlanTyped(P), NEW G, NEW W
    PROVE  [P EXCEPT !.gaps = G, !.todo = W] =
             [own |-> P.own, gaps |-> G, leg |-> P.leg, unread |-> P.unread, seen |-> P.seen,
              todo |-> W]
  <1>0. P = [own |-> P.own, gaps |-> P.gaps, leg |-> P.leg, unread |-> P.unread, seen |-> P.seen,
             todo |-> P.todo]
    BY DEF PlanTyped
  <1> DEFINE Q1 == [P EXCEPT !.gaps = G]
             Q2 == [Q1 EXCEPT !.todo = W]
  <1>1. [P EXCEPT !.gaps = G, !.todo = W] = Q2
    OBVIOUS
  <1>2. Q1 = [own |-> P.own, gaps |-> G, leg |-> P.leg, unread |-> P.unread, seen |-> P.seen,
              todo |-> P.todo]
    BY <1>0
  <1> HIDE DEF Q1
  <1>3. Q2 = [own |-> P.own, gaps |-> G, leg |-> P.leg, unread |-> P.unread, seen |-> P.seen,
              todo |-> W]
    BY <1>2
  <1> HIDE DEF Q2
  <1> QED BY <1>1, <1>3

LEMMA PlanOfAGap ==
    ASSUME NEW P, PlanTyped(P), NEW G, NEW L, NEW U
    PROVE  [P EXCEPT !.gaps = G, !.leg = L, !.unread = U, !.seen = {}] =
             [own |-> P.own, gaps |-> G, leg |-> L, unread |-> U, seen |-> {},
              todo |-> P.todo]
  <1>0. P = [own |-> P.own, gaps |-> P.gaps, leg |-> P.leg, unread |-> P.unread, seen |-> P.seen,
             todo |-> P.todo]
    BY DEF PlanTyped
  <1> DEFINE Q1 == [P EXCEPT !.gaps = G]
             Q2 == [Q1 EXCEPT !.leg = L]
             Q3 == [Q2 EXCEPT !.unread = U]
             Q4 == [Q3 EXCEPT !.seen = {}]
  <1>1. [P EXCEPT !.gaps = G, !.leg = L, !.unread = U, !.seen = {}] = Q4
    OBVIOUS
  <1>2. Q1 = [own |-> P.own, gaps |-> G, leg |-> P.leg, unread |-> P.unread, seen |-> P.seen,
              todo |-> P.todo]
    BY <1>0
  <1> HIDE DEF Q1
  <1>3. Q2 = [own |-> P.own, gaps |-> G, leg |-> L, unread |-> P.unread, seen |-> P.seen,
              todo |-> P.todo]
    BY <1>2
  <1> HIDE DEF Q2
  <1>4. Q3 = [own |-> P.own, gaps |-> G, leg |-> L, unread |-> U, seen |-> P.seen,
              todo |-> P.todo]
    BY <1>3
  <1> HIDE DEF Q3
  <1>5. Q4 = [own |-> P.own, gaps |-> G, leg |-> L, unread |-> U, seen |-> {},
              todo |-> P.todo]
    BY <1>4
  <1> HIDE DEF Q4
  <1> QED BY <1>1, <1>5

LEMMA PlanOfAJudge ==
    ASSUME NEW P, PlanTyped(P), NEW S, NEW W
    PROVE  [P EXCEPT !.seen = S, !.todo = W] =
             [own |-> P.own, gaps |-> P.gaps, leg |-> P.leg, unread |-> P.unread, seen |-> S,
              todo |-> W]
  <1>0. P = [own |-> P.own, gaps |-> P.gaps, leg |-> P.leg, unread |-> P.unread, seen |-> P.seen,
             todo |-> P.todo]
    BY DEF PlanTyped
  <1> DEFINE Q1 == [P EXCEPT !.seen = S]
             Q2 == [Q1 EXCEPT !.todo = W]
  <1>1. [P EXCEPT !.seen = S, !.todo = W] = Q2
    OBVIOUS
  <1>2. Q1 = [own |-> P.own, gaps |-> P.gaps, leg |-> P.leg, unread |-> P.unread, seen |-> S,
              todo |-> P.todo]
    BY <1>0
  <1> HIDE DEF Q1
  <1>3. Q2 = [own |-> P.own, gaps |-> P.gaps, leg |-> P.leg, unread |-> P.unread, seen |-> S,
              todo |-> W]
    BY <1>2
  <1> HIDE DEF Q2
  <1> QED BY <1>1, <1>3

(* A verb that ends its own pass's rows plans to write them and no others. *)
LEMMA WillWriteKeeps ==
    ASSUME RaceInv, NEW t \in Txs, pc[t] = "read", NEW W \in SUBSET Write, WillWrite(t, W),
           call[t].verb \in {"end", "end_stay", "revoke"},
           \A w \in W : /\ w.kind # "put"
                        /\ \E r \in View(t) : r.pass = call[t].pass /\ Like(w.row, r),
           revokedAt[call[t].pass] # Never => \A w \in W : w.row.to <= EndBy(w.row),
           call[t].verb = "revoke" =>
               /\ \A w \in W : w.kind = "if_later" /\ w.row.to = RevocationDay(call[t], w.row)
               /\ \A r \in View(t) : r.pass = call[t].pass => \E w \in W : Like(w.row, r)
    PROVE  RaceInv'
  <1> USE DEF RaceInv
  <1> DEFINE Q == [plan[t] EXCEPT !.todo = W]
  <1>1. /\ PlanTyped(Q) /\ Q.todo = W /\ Q.own = {} /\ Q.seen = {} /\ Q.gaps = {}
    <2>1. plan[t] = NoPlan /\ PlanTyped(plan[t]) BY DEF Quiet, Typed
    <2> QED BY <2>1, PlannedWrites, NoPlanFields
  <1>2. Moves(t, call[t], Q, "write", mine[t], written)
    BY DEF WillWrite, Go, Plans, Moves, Typed
  <1> HIDE DEF Q
  <1>3. MayPlan(call[t], Q, "write")
    BY <1>1 DEF MayPlan, Like
  <1>4. \A b \in Q.seen \cup Q.own \cup { w.row : w \in Q.todo } :
          (\E a : IsKnown(a) /\ Like(b, a)) \/ Numbers(call[t], Q, b, written)
    BY <1>1, WhatIsSeen
  <1>5. call[t].verb = "revoke" =>
          \A a : Alive(t, a) /\ a.pass = call[t].pass =>
            (\E w \in Q.todo : SameRow(w.row, a)) \/ a.to <= RevocationDay(call[t], a)
    <2> SUFFICES ASSUME call[t].verb = "revoke", NEW a, Alive(t, a), a.pass = call[t].pass
                 PROVE  \E w \in Q.todo : SameRow(w.row, a)
      OBVIOUS
    <2>1. CASE a \in View(t) BY <1>1, <2>1 DEF Like
    <2>2. CASE \E u \in Txs \ {t} : a \in mine[u]
      <3>1. PICK u \in Txs \ {t} : a \in mine[u] BY <2>2
      <3>2. PastLock(t) /\ PastLock(u) BY <3>1 DEF Quiet, PastLock, Typed
      <3>3. a.pass # call[u].pass BY <3>2 DEF LocksApart
      <3>4. PICK r \in regs : SameRow(r, a) BY <3>1, <3>3 DEF Owned
      <3>5. IsKnown(r) /\ IsKnown(a) BY <3>1, <3>4 DEF IsKnown, Known
      <3>6. r.pass = call[t].pass BY <3>4, <3>5 DEF Kin, Like
      <3>7. r \in View(t) BY <3>4 DEF View, Superseded, Quiet
      <3>8. PICK w \in W : Like(w.row, r) BY <3>6, <3>7
      <3> QED BY <1>1, <3>4, <3>8 DEF Like, SameRow
    <2> QED BY <2>1, <2>2 DEF Alive
  <1>6. written \in Nat /\ written <= written BY DEF Typed
  <1>7. Fits(t, call[t], Q, "write", mine[t], written)
    BY <1>1, <1>3, <1>4, <1>5, <1>6, APlanFits DEF Places
  <1> QED BY <1>2, <1>7, AFittingStep

LEMMA ReadToEndKeeps ==
    ASSUME RaceInv, NEW t \in Txs, ReadToEnd(t) PROVE RaceInv'
  <1> USE DEF RaceInv
  <1>1. CASE Rollback(t) BY <1>1, RollbackKeeps
  <1>2. CASE ~Rollback(t)
    <2> DEFINE c == call[t]
    <2>1. c \in Calls /\ c.to \in EndDay /\ c.to \in Int /\ pc[t] = "read" /\ c.verb = "end"
      BY CallsAssumption, MaxDayAssumption DEF ReadToEnd, OnACall, Call, EndDay, Forever
    <2>2. PICK r \in Latest(View(t), c.pass, c.car) :
            /\ MayEnd(r, c.to)
            /\ WillWrite(t, { Update(0, "as_read", s, c.to, ENDED_BY_OWNER)
                                : s \in { q \in View(t) : EndsWith(q, r) } })
      BY <1>2 DEF ReadToEnd
    <2>3. r \in View(t) /\ r.pass = c.pass BY DEF Latest
    <2> DEFINE W == { Update(0, "as_read", s, c.to, ENDED_BY_OWNER)
                        : s \in { q \in View(t) : EndsWith(q, r) } }
    <2>4. \A w \in W : \E s \in View(t) : s.pass = c.pass /\ s.to = r.to
                                          /\ w = Update(0, "as_read", s, c.to, ENDED_BY_OWNER)
      BY <2>3 DEF EndsWith
    <2> HIDE DEF W
    <2>5. \A w \in W : w \in Write /\ w.kind # "put" /\ w.row.to = c.to
                       /\ \E s \in View(t) : s.pass = c.pass /\ s.to = r.to /\ Like(w.row, s)
      <3> SUFFICES ASSUME NEW w \in W
                   PROVE  w \in Write /\ w.kind # "put" /\ w.row.to = c.to
                          /\ \E s \in View(t) : s.pass = c.pass /\ s.to = r.to /\ Like(w.row, s)
        OBVIOUS
      <3>1. PICK s \in View(t) : s.pass = c.pass /\ s.to = r.to
                                 /\ w = Update(0, "as_read", s, c.to, ENDED_BY_OWNER)
        BY <2>4
      <3>2. s \in Row BY WhatIsSeen
      <3>3. ENDED_BY_OWNER \in Reasons BY DEF Reasons
      <3>4. w \in Write /\ w.kind = "as_read" /\ w.row.to = c.to /\ Like(w.row, s)
        BY <2>1, <3>1, <3>2, <3>3, UpdateFields
      <3> QED BY <3>1, <3>4
    <2>6. ASSUME revokedAt[c.pass] # Never, NEW w \in W PROVE w.row.to <= EndBy(w.row)
      <3>1. PICK s \in View(t) : s.pass = c.pass /\ s.to = r.to /\ Like(w.row, s) BY <2>5
      <3>2. s \in Row /\ r \in Row /\ s.to <= EndBy(s) BY <2>3, <2>6, <3>1, WhatIsSeen
      <3>3. s.garage \in Garages /\ s.from \in Day /\ s.from \in Int /\ s.to \in Int /\ s.pass \in Passes
        BY <3>2, RowFields
      <3>4. EndBy(s) \in Day
        <4>1. DayAt[revokedAt[s.pass]][s.garage] \in Day
          BY <2>6, <3>1, <3>3, ClockAssumption DEF Typed
        <4> QED BY <3>3, <4>1 DEF EndBy, Greatest
      <3>5. r.to # Forever BY <3>1, <3>2, <3>4, MaxDayAssumption DEF Day, Forever
      <3>6. c.to < r.to BY <2>2, <3>5 DEF MayEnd
      <3>7. EndBy(w.row) = EndBy(s) BY <3>1 DEF EndBy, Like, SameRow
      <3> QED BY <2>1, <2>5, <3>1, <3>2, <3>3, <3>4, <3>6, <3>7 DEF Day
    <2>7. WillWrite(t, W) BY <2>2 DEF W
    <2> QED BY <2>1, <2>5, <2>6, <2>7, WillWriteKeeps
  <1> QED BY <1>1, <1>2

LEMMA ReadTheStayKeeps ==
    ASSUME RaceInv, NEW t \in Txs, ReadTheStay(t) PROVE RaceInv'
  <1> USE DEF RaceInv
  <1>1. CASE Rollback(t) BY <1>1, RollbackKeeps
  <1>2. CASE ~Rollback(t)
    <2> DEFINE c == call[t]
               W == { Update(0, "by_id", r, Greatest(c.to, r.from), ENDED_BY_CHECKOUT)
                        : r \in { q \in View(t) : InForceFrom(q, c.pass, c.to) } }
    <2>1. c \in Calls /\ c.to \in EndDay /\ c.to \in Int /\ pc[t] = "read" /\ c.verb = "end_stay"
      BY CallsAssumption, MaxDayAssumption DEF ReadTheStay, OnACall, Call, EndDay, Forever
    <2>2. WillWrite(t, W) BY <1>2 DEF ReadTheStay
    <2>3. \A w \in W : \E r \in View(t) :
            InForceFrom(r, c.pass, c.to)
            /\ w = Update(0, "by_id", r, Greatest(c.to, r.from), ENDED_BY_CHECKOUT)
      OBVIOUS
    <2> HIDE DEF W
    <2>4. ASSUME NEW w \in W
          PROVE  /\ w \in Write /\ w.kind # "put"
                 /\ \E r \in View(t) : r.pass = c.pass /\ Like(w.row, r)
                 /\ revokedAt[c.pass] # Never => w.row.to <= EndBy(w.row)
      <3>1. PICK r \in View(t) :
              InForceFrom(r, c.pass, c.to)
              /\ w = Update(0, "by_id", r, Greatest(c.to, r.from), ENDED_BY_CHECKOUT)
        BY <2>3
      <3>2. r \in Row /\ r.pass = c.pass /\ r.to > c.to /\ r.to > r.from
            /\ (revokedAt[r.pass] # Never => r.to <= EndBy(r))
        BY <3>1, WhatIsSeen DEF InForceFrom
      <3>3. Greatest(c.to, r.from) \in EndDay /\ Greatest(c.to, r.from) < r.to
        BY <2>1, <3>2, RowFields DEF Greatest, Day, EndDay, Forever
      <3>4. ENDED_BY_CHECKOUT \in Reasons BY DEF Reasons
      <3>5. w \in Write /\ w.kind = "by_id" /\ w.row.to = Greatest(c.to, r.from) /\ Like(w.row, r)
        BY <3>1, <3>2, <3>3, <3>4, UpdateFields
      <3>6. ASSUME revokedAt[c.pass] # Never PROVE w.row.to <= EndBy(w.row)
        <4>1. EndBy(w.row) = EndBy(r) BY <3>5 DEF EndBy, Like, SameRow
        <4>2. EndBy(r) \in Day
          <5>1. r.garage \in Garages /\ r.from \in Day /\ r.from \in Int /\ r.pass \in Passes
            BY <3>2, RowFields
          <5>2. DayAt[revokedAt[r.pass]][r.garage] \in Day
            BY <3>2, <3>6, <5>1, ClockAssumption DEF Typed
          <5> QED BY <5>1, <5>2 DEF EndBy, Greatest
        <4> QED BY <2>1, <3>2, <3>3, <3>5, <3>6, <4>1, <4>2, RowFields DEF Day, Greatest
      <3> QED BY <3>2, <3>5, <3>6
    <2> QED BY <2>1, <2>2, <2>4, WillWriteKeeps
  <1> QED BY <1>1, <1>2

LEMMA ReadToRevokeKeeps ==
    ASSUME RaceInv, NEW t \in Txs, ReadToRevoke(t) PROVE RaceInv'
  <1> USE DEF RaceInv
  <1> DEFINE c == call[t]
             mineToEnd == { q \in View(t) : q.pass = c.pass }
             W == { Update(1, "if_later", r, RevocationDay(c, r), ENDED_BY_REVOCATION)
                      : r \in mineToEnd }
  <1>1. c \in Calls /\ c.at \in Instants /\ pc[t] = "read" /\ c.verb = "revoke"
    BY CallsAssumption DEF ReadToRevoke, OnACall
  <1>2. WillWrite(t, W) BY DEF ReadToRevoke
  <1>3. \A w \in W : \E r \in View(t) :
          r.pass = c.pass /\ w = Update(1, "if_later", r, RevocationDay(c, r), ENDED_BY_REVOCATION)
    OBVIOUS
  <1>4. \A r \in View(t) : r.pass = c.pass =>
          Update(1, "if_later", r, RevocationDay(c, r), ENDED_BY_REVOCATION) \in W
    OBVIOUS
  <1> HIDE DEF W
  <1>5. ASSUME NEW r \in View(t), r.pass = c.pass
        PROVE  LET w == Update(1, "if_later", r, RevocationDay(c, r), ENDED_BY_REVOCATION) IN
               /\ w \in Write /\ w.kind = "if_later" /\ Like(w.row, r)
               /\ w.row.to = RevocationDay(c, w.row)
    <2>1. r \in Row /\ r.garage \in Garages /\ r.from \in Day BY WhatIsSeen, RowFields
    <2>2. RevocationDay(c, r) \in EndDay
      <3>1. DayAt[c.at][r.garage] \in Day BY <1>1, <2>1, ClockAssumption
      <3> QED BY <2>1, <3>1, MaxDayAssumption DEF RevocationDay, Greatest, Day, EndDay
    <2>3. ENDED_BY_REVOCATION \in Reasons /\ 1 \in 0..3 BY DEF Reasons
    <2> QED BY <2>1, <2>2, <2>3, UpdateFields DEF RevocationDay
  <1>6. \A w \in W : /\ w \in Write /\ w.kind = "if_later"
                     /\ \E r \in View(t) : r.pass = c.pass /\ Like(w.row, r)
                     /\ w.row.to = RevocationDay(c, w.row)
    BY <1>3, <1>5
  <1>7. \A r \in View(t) : r.pass = c.pass => \E w \in W : Like(w.row, r)
    BY <1>4, <1>5
  <1>8. revokedAt[c.pass] = Never
    BY <1>1 DEF Barred, PastLock
  <1> QED BY <1>1, <1>2, <1>6, <1>7, <1>8, WillWriteKeeps

LEMMA GapsAreDays ==
    ASSUME NEW c \in Calls, c.verb = "hold", NEW own
    PROVE  /\ GapStarts(own, c.pass, c.from, c.to) \subseteq Day
           /\ \A d \in GapStarts(own, c.pass, c.from, c.to) : d < c.to
  <1>1. c.from \in Day /\ c.to \in EndDay /\ c.to # Forever
    BY CallsAssumption DEF Call
  <1> QED BY <1>1, MaxDayAssumption DEF GapStarts, Day, EndDay, Forever

(* A gap ends after its first day and by the end of the stay.              *)
LEMMA GapEnds ==
    ASSUME NEW own, NEW p, NEW d \in Day, NEW t \in EndDay, d < t
    PROVE  LET e == GapEnd(own, p, d, t) IN e \in (d + 1)..t /\ (e = t \/ HeldOn(own, p, e))
  <1> DEFINE Ends == { e \in (d + 1)..t : e = t \/ HeldOn(own, p, e) }
  <1>1. d \in Nat /\ t \in Nat BY MaxDayAssumption DEF Day, EndDay, Forever
  <1>2. Ends \subseteq Nat /\ t \in Ends BY <1>1
  <1>3. PICK e \in Ends : \A y \in Ends : e <= y BY <1>2, LeastNatural
  <1>4. ASSUME NEW x \in (d + 1)..(e - 1), HeldOn(own, p, x) PROVE FALSE
    <2>1. x \in Ends BY <1>1, <1>4
    <2> QED BY <1>1, <1>3, <2>1
  <1>5. e \in (d + 1)..t /\ (e = t \/ HeldOn(own, p, e))
        /\ \A x \in (d + 1)..(e - 1) : ~HeldOn(own, p, x)
    BY <1>4
  <1> QED BY <1>5 DEF GapEnd

(* What a hold reads first: the days its pass holds already.               *)
LEMMA HeldRead ==
    ASSUME RaceInv, NEW t \in Txs, ReadToHold(t)
    PROVE  LET c == call[t] IN
           /\ c \in Calls /\ pc[t] = "read" /\ c.verb = "hold"
           /\ \E Q : /\ Moves(t, c, Q, "write", mine[t], written)
                     /\ PlanTyped(Q) /\ Q.seen = {} /\ Q.todo = {} /\ Q.leg = <<1, 1>>
                     /\ \A r \in Q.own : r \in View(t) /\ r.pass = c.pass /\ r.car = c.car
                     /\ \A d \in Q.gaps : d < c.to
                     /\ Q.gaps = GapStarts(Q.own, c.pass, c.from, c.to)
                     /\ Q.own = { r \in View(t) : /\ r.pass = c.pass /\ r.garage \in GaragesOf[c.pass]
                                                  /\ r.car = c.car /\ Overlaps(r, c.from, c.to) }
  <1> USE DEF RaceInv
  <1> DEFINE c == call[t]
             held == { r \in View(t) : /\ r.pass = c.pass /\ r.garage \in GaragesOf[c.pass]
                                       /\ r.car = c.car /\ Overlaps(r, c.from, c.to) }
             G == GapStarts(held, c.pass, c.from, c.to)
             Q == [plan[t] EXCEPT !.own = held, !.gaps = G]
  <1>1. c \in Calls /\ pc[t] = "read" /\ c.verb = "hold"
    BY DEF ReadToHold, OnACall
  <1>2. G \subseteq Day /\ \A d \in G : d < c.to BY <1>1, GapsAreDays
  <1>3. \A r \in held : r \in Row /\ r \in View(t) /\ r.pass = c.pass /\ r.car = c.car
    BY WhatIsSeen
  <1>4. Moves(t, c, Q, "write", mine[t], written)
    BY DEF ReadToHold, Go, Plans, Moves, Typed
  <1>5. plan[t] = NoPlan BY <1>1 DEF Quiet
  <1>8. G = GapStarts(held, c.pass, c.from, c.to) OBVIOUS
  <1> HIDE DEF held, G
  <1>6. Q = [own |-> held, gaps |-> G, leg |-> <<1, 1>>, unread |-> {}, seen |-> {}, todo |-> {}]
    <2>1. PlanTyped(plan[t]) BY DEF Typed
    <2>2. Q = [own |-> held, gaps |-> G, leg |-> plan[t].leg, unread |-> plan[t].unread,
               seen |-> plan[t].seen, todo |-> plan[t].todo]
      BY <2>1, PlanOfAHold
    <2> HIDE DEF Q
    <2> QED BY <1>5, <2>2, NoPlanFields
  <1> HIDE DEF Q
  <1>7. Q.own = held /\ Q.gaps = G /\ Q.seen = {} /\ Q.todo = {} /\ Q.leg = <<1, 1>> /\ PlanTyped(Q)
    BY <1>2, <1>3, <1>6, MaxDayAssumption DEF PlanTyped, Day, EndDay
  <1> QED BY <1>1, <1>2, <1>3, <1>4, <1>7, <1>8 DEF held

LEMMA ReadToHoldKeeps ==
    ASSUME RaceInv, NEW t \in Txs, ReadToHold(t) PROVE RaceInv'
  <1> USE DEF RaceInv
  <1> DEFINE c == call[t]
  <1>1. c \in Calls /\ pc[t] = "read" /\ c.verb = "hold" BY HeldRead
  <1>2. PICK Q : /\ Moves(t, c, Q, "write", mine[t], written)
                 /\ PlanTyped(Q) /\ Q.seen = {} /\ Q.todo = {}
                 /\ \A r \in Q.own : r \in View(t) /\ r.pass = c.pass
                 /\ \A d \in Q.gaps : d < c.to
    BY HeldRead
  <1>3. MayPlan(c, Q, "write") BY <1>1, <1>2 DEF MayPlan
  <1>4. written \in Nat /\ written <= written BY DEF Typed
  <1>5. \A b \in Q.seen \cup Q.own \cup { w.row : w \in Q.todo } : \E a : IsKnown(a) /\ Like(b, a)
    BY <1>2, WhatIsSeen, LikeIsEquivalence
  <1>6. Fits(t, c, Q, "write", mine[t], written)
    BY <1>1, <1>2, <1>3, <1>4, <1>5, APlanFits DEF Places
  <1> QED BY <1>2, <1>6, AFittingStep

(* One garage's holders read.                                              *)
LEMMA HoldersRead ==
    ASSUME RaceInv, NEW t \in Txs, ReadHolders(t)
    PROVE  LET c == call[t]
               p == plan[t] IN
           /\ c \in Calls /\ pc[t] = "holders"
           /\ \E g, Q :
                /\ g \in p.unread
                /\ Moves(t, c, Q, "holders", mine[t], written)
                /\ PlanTyped(Q) /\ Q.own = p.own /\ Q.gaps = p.gaps /\ Q.todo = p.todo
                /\ Q.leg = p.leg /\ Q.unread = p.unread \ {g}
                /\ Q.seen = p.seen \cup
                     { r \in Holders(View(t), c.pass, c.car, p.leg[1], p.leg[2]) : r.garage = g }
  <1> USE DEF RaceInv
  <1> DEFINE c == call[t]
             p == plan[t]
  <1>1. c \in Calls /\ pc[t] = "holders" /\ PlanTyped(p)
    BY DEF ReadHolders, OnACall, Typed
  <1>2. PICK g \in p.unread :
          Plans(t, [p EXCEPT !.unread = p.unread \ {g},
                    !.seen = p.seen \cup { r \in Holders(View(t), c.pass, c.car, p.leg[1], p.leg[2])
                                            : r.garage = g }])
    BY DEF ReadHolders
  <1> DEFINE more == { r \in Holders(View(t), c.pass, c.car, p.leg[1], p.leg[2]) : r.garage = g }
             Q == [p EXCEPT !.unread = p.unread \ {g}, !.seen = p.seen \cup more]
  <1>3. \A r \in more : r \in Row
    BY WhatIsSeen DEF Holders
  <1>4. Moves(t, c, Q, "holders", mine[t], written)
    BY <1>1, <1>2 DEF ReadHolders, Plans, Moves, Typed
  <1> HIDE DEF more
  <1>5. Q = [own |-> p.own, gaps |-> p.gaps, leg |-> p.leg, unread |-> p.unread \ {g},
             seen |-> p.seen \cup more, todo |-> p.todo]
    BY <1>1, PlanOfAReader
  <1> HIDE DEF Q
  <1>6. Q.own = p.own /\ Q.gaps = p.gaps /\ Q.seen = p.seen \cup more /\ Q.todo = p.todo
        /\ Q.leg = p.leg /\ Q.unread = p.unread \ {g} /\ PlanTyped(Q)
    BY <1>1, <1>3, <1>5 DEF PlanTyped
  <1> QED BY <1>1, <1>4, <1>6 DEF more

LEMMA ReadHoldersKeeps ==
    ASSUME RaceInv, NEW t \in Txs, ReadHolders(t) PROVE RaceInv'
  <1> USE DEF RaceInv
  <1> DEFINE c == call[t]
             p == plan[t]
  <1>1. c \in Calls /\ pc[t] = "holders" /\ MayPlan(c, p, "holders")
    BY HoldersRead DEF Intents
  <1>2. PICK g, Q :
          /\ g \in p.unread
          /\ Moves(t, c, Q, "holders", mine[t], written)
          /\ PlanTyped(Q) /\ Q.own = p.own /\ Q.gaps = p.gaps /\ Q.todo = p.todo /\ Q.leg = p.leg
          /\ Q.seen = p.seen \cup
               { r \in Holders(View(t), c.pass, c.car, p.leg[1], p.leg[2]) : r.garage = g }
    BY HoldersRead
  <1>3. \A r \in Q.seen \ p.seen : r \in Row /\ IsKnown(r) /\ p.leg[1] < r.to
    BY <1>2, WhatIsSeen DEF Holders, Overlaps
  <1>7. MayPlan(c, Q, "holders") BY <1>1, <1>2, <1>3 DEF MayPlan
  <1>8. written \in Nat /\ written <= written BY DEF Typed
  <1>9. \A b \in Q.seen \cup Q.own \cup { w.row : w \in Q.todo } : \E a : IsKnown(a) /\ Like(b, a)
    <2>1. \A b \in p.seen \cup p.own : IsKnown(b) BY DEF IsKnown, Known
    <2>2. Q.todo = {} BY <1>1, <1>2 DEF MayPlan
    <2> QED BY <1>2, <1>3, <2>1, <2>2, LikeIsEquivalence
  <1>10. p.todo = {} BY <1>1 DEF MayPlan
  <1>11. Fits(t, c, Q, "holders", mine[t], written)
    BY <1>1, <1>2, <1>7, <1>8, <1>9, <1>10, APlanFits DEF Places
  <1> QED BY <1>2, <1>11, AFittingStep

(* A call still writing days onto its pass: the pass is not revoked.       *)
LEMMA AnAddersPassStands ==
    ASSUME RaceInv, NEW t \in Txs, pc[t] \notin {"idle", "lock"},
           call[t].verb \in {"register", "hold"}
    PROVE  revokedAt[call[t].pass] = Never
  BY DEF RaceInv, Barred, PastLock

(* The next gap begun: the stay runs on over it, or its holders are read.  *)
RunOnPlanned(c, P, Q) ==
    /\ Q.leg = P.leg /\ Q.unread = P.unread /\ Q.seen = P.seen
    /\ \E stop : \A w \in Q.todo :
         /\ w.kind = "as_read" /\ w.row.pass = c.pass
         /\ \E r \in P.own : w = Update(0, "as_read", r, stop, r.why) /\ Like(w.row, r)

RunsOn(c, P, Q, d) ==
    /\ GapEnd(P.own, c.pass, d, c.to) = c.to
    /\ MayRunOn(P.own, c.pass, d)
    /\ Q.todo = { Update(0, "as_read", r, c.to, r.why) : r \in EndingOn(P.own, d) }

LEMMA GapBegun ==
    ASSUME RaceInv, NEW t \in Txs, FillTheGap(t)
    PROVE  LET c == call[t]
               p == plan[t] IN
           /\ c \in Calls /\ pc[t] = "write" /\ c.verb = "hold" /\ p.todo = {}
           /\ \E d, Q, to :
                /\ d \in p.gaps
                /\ Moves(t, c, Q, to, mine[t], written)
                /\ PlanTyped(Q) /\ Q.own = p.own /\ Q.gaps = p.gaps \ {d}
                /\ \A e \in p.gaps : d <= e
                /\ \/ to = "write" /\ RunOnPlanned(c, p, Q) /\ RunsOn(c, p, Q, d)
                   \/ /\ to = "holders" /\ Q.leg[1] = d /\ Q.todo = {} /\ Q.seen = {}
                      /\ Q.leg = <<d, GapEnd(p.own, c.pass, d, c.to)>>
                      /\ Q.unread = GaragesOf[c.pass]
  <1> USE DEF RaceInv
  <1> DEFINE c == call[t]
             p == plan[t]
  <1>1. c \in Calls /\ pc[t] = "write" /\ PlanTyped(p) /\ MayPlan(c, p, "write") /\ p.todo = {}
    BY DEF FillTheGap, OnACall, Intents, Typed
  <1>2. PICK d \in p.gaps :
          LET stop == GapEnd(p.own, c.pass, d, c.to)
              rest == p.gaps \ {d} IN
          /\ \A e \in p.gaps : d <= e
          /\ \/ /\ stop = c.to /\ MayRunOn(p.own, c.pass, d)
                /\ Plans(t, [p EXCEPT !.gaps = rest,
                     !.todo = { Update(0, "as_read", r, stop, r.why) : r \in EndingOn(p.own, d) }])
                /\ UNCHANGED pc
             \/ /\ Plans(t, [p EXCEPT !.gaps = rest, !.leg = <<d, stop>>,
                                      !.unread = GaragesOf[c.pass], !.seen = {}])
                /\ Go(t, "holders")
    BY DEF FillTheGap
  <1> DEFINE stop == GapEnd(p.own, c.pass, d, c.to)
             rest == p.gaps \ {d}
             W == { Update(0, "as_read", r, stop, r.why) : r \in EndingOn(p.own, d) }
  <1>3. c.verb = "hold" /\ d \in Day /\ c.to \in EndDay /\ d < c.to
    BY <1>1, CallsAssumption DEF MayPlan, PlanTyped, Call
  <1>4. stop \in EndDay
    <2>1. stop \in (d + 1)..c.to BY <1>3, GapEnds
    <2>2. c.to # Forever BY <1>1, <1>3, CallsAssumption
    <2> QED BY <1>3, <2>1, <2>2, MaxDayAssumption DEF Day, EndDay, Forever
  <1>5. \A r \in p.own : r \in Row /\ r.pass = c.pass
    BY <1>1 DEF PlanTyped, MayPlan
  <1>6. \A w \in W : \E r \in p.own : w = Update(0, "as_read", r, stop, r.why)
    BY DEF EndingOn
  <1> HIDE DEF stop, W
  <1>7. \A w \in W : w \in Write /\ w.kind = "as_read" /\ w.row.pass = c.pass
                     /\ \E r \in p.own : w = Update(0, "as_read", r, stop, r.why) /\ Like(w.row, r)
    <2> SUFFICES ASSUME NEW w \in W
                 PROVE  w \in Write /\ w.kind = "as_read" /\ w.row.pass = c.pass
                        /\ \E r \in p.own : w = Update(0, "as_read", r, stop, r.why) /\ Like(w.row, r)
      OBVIOUS
    <2>1. PICK r \in p.own : w = Update(0, "as_read", r, stop, r.why) BY <1>6
    <2>2. r \in Row /\ r.why \in Reasons BY <1>5, RowFields
    <2> QED BY <1>4, <1>5, <2>1, <2>2, UpdateFields
  <1>8. CASE /\ stop = c.to /\ MayRunOn(p.own, c.pass, d)
             /\ Plans(t, [p EXCEPT !.gaps = rest, !.todo = W]) /\ UNCHANGED pc
    <2> DEFINE Q == [p EXCEPT !.gaps = rest, !.todo = W]
    <2>1. Moves(t, c, Q, "write", mine[t], written)
      BY <1>1, <1>8 DEF FillTheGap, Plans, Moves, Typed
    <2>2. Q = [own |-> p.own, gaps |-> rest, leg |-> p.leg, unread |-> p.unread,
               seen |-> p.seen, todo |-> W]
      BY <1>1, PlanOfARunOn
    <2> HIDE DEF Q
    <2>3. Q.own = p.own /\ Q.gaps = rest /\ Q.seen = p.seen /\ Q.todo = W /\ PlanTyped(Q)
          /\ Q.leg = p.leg /\ Q.unread = p.unread
      BY <1>1, <1>7, <2>2 DEF PlanTyped
    <2>4. RunOnPlanned(c, p, Q) BY <1>7, <2>3 DEF RunOnPlanned
    <2>5. RunsOn(c, p, Q, d) BY <1>8, <2>3 DEF RunsOn, W, stop
    <2> QED BY <1>1, <1>2, <1>3, <2>1, <2>3, <2>4, <2>5
  <1>9. CASE /\ Plans(t, [p EXCEPT !.gaps = rest, !.leg = <<d, stop>>,
                                   !.unread = GaragesOf[c.pass], !.seen = {}])
             /\ Go(t, "holders")
    <2> DEFINE leg == <<d, stop>>
               everywhere == GaragesOf[c.pass]
               Q == [p EXCEPT !.gaps = rest, !.leg = leg, !.unread = everywhere, !.seen = {}]
    <2>1. Moves(t, c, Q, "holders", mine[t], written)
      BY <1>1, <1>9 DEF FillTheGap, Plans, Go, Moves, Typed
    <2> HIDE DEF leg, everywhere
    <2>2. Q = [own |-> p.own, gaps |-> rest, leg |-> leg, unread |-> everywhere,
               seen |-> {}, todo |-> p.todo]
      <3>1. PlanTyped(p) BY <1>1
      <3> HIDE DEF p, rest
      <3>2. \A G, L, U : [p EXCEPT !.gaps = G, !.leg = L, !.unread = U, !.seen = {}] =
                           [own |-> p.own, gaps |-> G, leg |-> L, unread |-> U, seen |-> {},
                            todo |-> p.todo]
        BY ONLY <3>1, PlanOfAGap
      <3> QED BY ONLY <3>2
    <2> HIDE DEF Q
    <2>3. Q.own = p.own /\ Q.gaps = rest /\ Q.seen = {} /\ Q.todo = {} /\ PlanTyped(Q)
          /\ Q.leg[1] = d /\ Q.leg = <<d, stop>> /\ Q.unread = everywhere
      BY <1>1, <1>3, <1>4, <2>2 DEF PlanTyped, leg
    <2> QED BY <1>1, <1>2, <1>3, <2>1, <2>3 DEF stop, everywhere
  <1> QED BY <1>2, <1>8, <1>9 DEF W, stop

LEMMA FillTheGapKeeps ==
    ASSUME RaceInv, NEW t \in Txs, FillTheGap(t) PROVE RaceInv'
  <1> USE DEF RaceInv
  <1> DEFINE c == call[t]
             p == plan[t]
  <1>1. c \in Calls /\ pc[t] = "write" /\ c.verb = "hold" /\ p.todo = {} /\ MayPlan(c, p, "write")
    BY GapBegun DEF Intents
  <1>2. PICK Q, to : /\ Moves(t, c, Q, to, mine[t], written)
                     /\ PlanTyped(Q) /\ Q.own = p.own /\ Q.gaps \subseteq p.gaps
                     /\ \/ /\ to = "write" /\ Q.seen = p.seen
                           /\ \A w \in Q.todo : /\ w.kind = "as_read" /\ w.row.pass = c.pass
                                                /\ \E r \in p.own : Like(w.row, r)
                        \/ to = "holders" /\ Q.todo = {} /\ Q.seen = {}
    <2>1. PICK d, Q, to :
            /\ d \in p.gaps
            /\ Moves(t, c, Q, to, mine[t], written)
            /\ PlanTyped(Q) /\ Q.own = p.own /\ Q.gaps = p.gaps \ {d}
            /\ \A e \in p.gaps : d <= e
            /\ \/ to = "write" /\ RunOnPlanned(c, p, Q) /\ RunsOn(c, p, Q, d)
               \/ /\ to = "holders" /\ Q.leg[1] = d /\ Q.todo = {} /\ Q.seen = {}
                  /\ Q.leg = <<d, GapEnd(p.own, c.pass, d, c.to)>>
                  /\ Q.unread = GaragesOf[c.pass]
      BY GapBegun
    <2> QED BY <2>1 DEF RunOnPlanned
  <1>3. revokedAt[c.pass] = Never BY <1>1, AnAddersPassStands
  <1>4. written \in Nat /\ written <= written BY DEF Typed
  <1>5. MayPlan(c, Q, to) BY <1>1, <1>2 DEF MayPlan
  <1>6. \A b \in Q.seen \cup Q.own \cup { w.row : w \in Q.todo } : \E a : IsKnown(a) /\ Like(b, a)
    <2>1. \A b \in p.seen \cup p.own : IsKnown(b) BY DEF IsKnown, Known
    <2> QED BY <1>2, <2>1, LikeIsEquivalence
  <1>7. Fits(t, c, Q, to, mine[t], written)
    BY <1>1, <1>2, <1>3, <1>4, <1>5, <1>6, APlanFits DEF Places
  <1> QED BY <1>2, <1>7, AFittingStep

(* What a judgement of the holders writes: each holder turned over or      *)
(* released, and the new rows.                                             *)
GiveWay(r, f) == IF Released(r, f) THEN Release(r) ELSE Turnover(r, f)

LEMMA AHolderGivesWay ==
    ASSUME NEW r \in Row, NEW f \in Day, NEW p, f < r.to,
           Released(r, f) \/ TurnsOver(r, p, f)
    PROVE  LET w == GiveWay(r, f) IN
           /\ w \in Write /\ w.kind # "put" /\ Like(w.row, r) /\ Trims(w)
           /\ w.row.to <= f \/ w.row.to <= w.row.from
  <1>1. r.pass \in Passes /\ r.from \in Day /\ r.to \in EndDay /\ r.to \in Int
        /\ ValidTo[r.pass] \in Day \cup {Forever}
    BY RowFields, PassAssumption
  <1>2. f \in Int /\ r.from \in Int /\ ValidTo[r.pass] \in Int /\ MaxDay \in Nat
    BY <1>1, MaxDayAssumption DEF Day, Forever
  <1>3. ENDED_BY_EXPIRY \in Reasons /\ ENDED_BY_NEXT_STAY \in Reasons BY DEF Reasons
  <1>4. CASE Released(r, f)
    <2> DEFINE to == Greatest(ValidTo[r.pass] + 1, r.from)
               w == Update(2, "if_open", r, to, ENDED_BY_EXPIRY)
    <2>1. ValidTo[r.pass] < f BY <1>4 DEF Released, ExpiredOn
    <2>2. to \in EndDay /\ ValidTo[r.pass] < to /\ (to <= f \/ to <= r.from)
      BY <1>1, <1>2, <2>1 DEF Greatest, Day, EndDay, Forever
    <2>3. w = GiveWay(r, f) BY <1>4 DEF GiveWay, Release
    <2> HIDE DEF w, to
    <2>4. /\ w \in Write /\ w.kind = "if_open" /\ w.row.to = to /\ w.row.pass = r.pass
          /\ w.row.from = r.from /\ Like(w.row, r)
      BY <1>3, <2>2, UpdateFields DEF w
    <2> QED BY <2>2, <2>3, <2>4 DEF Trims
  <1>5. CASE ~Released(r, f)
    <2> DEFINE to == Greatest(f, r.from)
               w == Update(1, "as_read", r, to, ENDED_BY_NEXT_STAY)
    <2>1. r.from <= f /\ LastDayOf(r) <= f BY <1>5 DEF TurnsOver
    <2>2. to = f /\ to \in EndDay BY <1>2, <2>1 DEF Greatest, Day, EndDay
    <2>3. w = GiveWay(r, f) BY <1>5 DEF GiveWay, Turnover
    <2> HIDE DEF w, to
    <2>4. /\ w \in Write /\ w.kind = "as_read" /\ w.row.to = to /\ w.row.pass = r.pass
          /\ w.row.from = r.from /\ Like(w.row, r) /\ w.was = r.to
      BY <1>3, <2>2, UpdateFields DEF w
    <2>5. LastDayIs(w.row.pass, w.was) <= w.row.to
      BY <2>1, <2>2, <2>4 DEF LastDayIs, LastDayOf
    <2> QED BY <1>1, <1>2, <2>2, <2>3, <2>4, <2>5 DEF Trims
  <1> QED BY <1>4, <1>5

LEMMA ANewRowIsPut ==
    ASSUME NEW k \in Nat, NEW p \in Passes, NEW c \in Cars, NEW f \in Day, NEW e \in EndDay,
           NEW why \in Reasons, NEW r \in NewRows(k, p, c, f, e, why)
    PROVE  /\ r \in Row /\ r.reg = k /\ r.pass = p /\ r.car = c /\ r.from = f
           /\ r.garage \in GaragesOf[p] /\ r.to = e
           /\ Put(r) \in Write /\ Put(r).kind = "put" /\ Put(r).row = r
  <1>1. OPEN \in Reasons BY DEF Reasons
  <1>2. PICK g \in GaragesOf[p] :
          r = [reg |-> k, garage |-> g, pass |-> p, car |-> c, from |-> f, to |-> e,
               why |-> IF e = Forever THEN OPEN ELSE why]
    BY DEF NewRows
  <1>3. g \in Garages BY PassAssumption
  <1>4. r \in Row /\ r.reg = k /\ r.pass = p /\ r.car = c /\ r.from = f /\ r.to = e
        /\ r.garage \in GaragesOf[p]
    BY <1>1, <1>2, <1>3 DEF Row
  <1> QED BY <1>4 DEF Put, Write

LEMMA Judged ==
    ASSUME RaceInv, NEW t \in Txs, JudgeHolders(t), ~Rollback(t)
    PROVE  LET c == call[t]
               p == plan[t]
               f == p.leg[1]
               why == IF c.verb = "hold" THEN ENDED_AFTER_LAST_DAY ELSE c.why IN
           /\ pc[t] = "holders" /\ c \in Calls /\ c.verb \in {"register", "hold"} /\ p.todo = {}
           /\ \A r \in p.seen : Released(r, f) \/ TurnsOver(r, c.pass, f)
           /\ \E Q : /\ Moves(t, c, Q, "write", mine[t], written + 1)
                     /\ PlanTyped(Q) /\ Q.own = p.own /\ Q.gaps = p.gaps /\ Q.leg = p.leg
                     /\ Q.unread = p.unread /\ Q.seen = {}
                     /\ \A r \in p.seen : GiveWay(r, f) \in Q.todo
                     /\ \A r \in NewRows(written, c.pass, c.car, f, p.leg[2], why) : Put(r) \in Q.todo
                     /\ \A w \in Q.todo :
                          \/ /\ \E r \in p.seen : w = GiveWay(r, f) /\ Like(w.row, r)
                             /\ w.kind # "put" /\ Trims(w)
                             /\ w.row.to <= f \/ w.row.to <= w.row.from
                          \/ /\ \E r \in NewRows(written, c.pass, c.car, f, p.leg[2], why) :
                                  w = Put(r)
                             /\ w.kind = "put" /\ w.row.reg = written
                             /\ w.row.pass = c.pass /\ w.row.car = c.car /\ w.row.from = f
                             /\ w.row.garage \in GaragesOf[c.pass]
  <1> USE DEF RaceInv
  <1> DEFINE c == call[t]
             p == plan[t]
             f == p.leg[1]
             why == IF c.verb = "hold" THEN ENDED_AFTER_LAST_DAY ELSE c.why
             N == NewRows(written, c.pass, c.car, f, p.leg[2], why)
             W == { Turnover(r, f) : r \in { q \in p.seen : ~Released(q, f) } }
                       \cup { Release(r) : r \in { q \in p.seen : Released(q, f) } }
                       \cup { Put(r) : r \in N }
             Q == [p EXCEPT !.seen = {}, !.todo = W]
  <1>1. c \in Calls /\ pc[t] = "holders" /\ PlanTyped(p) /\ MayPlan(c, p, "holders")
    BY DEF JudgeHolders, OnACall, Intents, Typed
  <1>2. c.verb \in {"register", "hold"} /\ p.todo = {} BY <1>1 DEF MayPlan
  <1>3. \A r \in p.seen : Released(r, f) \/ TurnsOver(r, c.pass, f) BY DEF JudgeHolders
  <1>4. Moves(t, c, Q, "write", mine[t], written + 1)
    BY DEF JudgeHolders, Plans, Go, Moves, Typed
  <1>5. \A r \in p.seen : r \in Row /\ f < r.to BY <1>1 DEF PlanTyped, MayPlan
  <1>6. /\ \A w \in W : (\E r \in p.seen : w = GiveWay(r, f)) \/ (\E r \in N : w = Put(r))
        /\ \A r \in p.seen : GiveWay(r, f) \in W
        /\ \A r \in N : Put(r) \in W
    BY DEF GiveWay
  <1>7. why \in Reasons /\ c.pass \in Passes /\ c.car \in Cars /\ written \in Nat
        /\ f \in Day /\ p.leg[2] \in EndDay
    BY <1>1, CallsAssumption DEF Call, Reasons, Typed, PlanTyped
  <1> HIDE DEF W, N, why
  <1>8. \A w \in W :
          /\ w \in Write
          /\ \/ /\ \E r \in p.seen : w = GiveWay(r, f) /\ Like(w.row, r)
                /\ w.kind # "put" /\ Trims(w)
                /\ w.row.to <= f \/ w.row.to <= w.row.from
             \/ /\ \E r \in N : w = Put(r)
                /\ w.kind = "put" /\ w.row.reg = written
                /\ w.row.pass = c.pass /\ w.row.car = c.car /\ w.row.from = f
                /\ w.row.garage \in GaragesOf[c.pass]
    <2> SUFFICES ASSUME NEW w \in W
                 PROVE  /\ w \in Write
                        /\ \/ /\ \E r \in p.seen : w = GiveWay(r, f) /\ Like(w.row, r)
                              /\ w.kind # "put" /\ Trims(w)
                              /\ w.row.to <= f \/ w.row.to <= w.row.from
                           \/ /\ \E r \in N : w = Put(r)
                              /\ w.kind = "put" /\ w.row.reg = written
                              /\ w.row.pass = c.pass /\ w.row.car = c.car /\ w.row.from = f
                              /\ w.row.garage \in GaragesOf[c.pass]
      OBVIOUS
    <2>1. CASE \E r \in p.seen : w = GiveWay(r, f)
      BY <1>3, <1>5, <1>7, <2>1, AHolderGivesWay
    <2>2. CASE \E r \in N : w = Put(r)
      BY <1>7, <2>2, ANewRowIsPut DEF N
    <2> QED BY <1>6, <2>1, <2>2
  <1>9. Q = [own |-> p.own, gaps |-> p.gaps, leg |-> p.leg, unread |-> p.unread, seen |-> {},
             todo |-> W]
    BY <1>1, PlanOfAJudge
  <1> HIDE DEF Q
  <1>10. PlanTyped(Q) /\ Q.own = p.own /\ Q.gaps = p.gaps /\ Q.leg = p.leg
         /\ Q.unread = p.unread /\ Q.seen = {} /\ Q.todo = W
    BY <1>1, <1>8, <1>9 DEF PlanTyped
  <1> QED BY <1>1, <1>2, <1>3, <1>4, <1>6, <1>8, <1>10 DEF N, why

LEMMA JudgeHoldersKeeps ==
    ASSUME RaceInv, NEW t \in Txs, JudgeHolders(t) PROVE RaceInv'
  <1> USE DEF RaceInv
  <1>1. CASE Rollback(t) BY <1>1, RollbackKeeps
  <1>2. CASE ~Rollback(t)
    <2> DEFINE c == call[t]
               p == plan[t]
    <2>1. pc[t] = "holders" /\ c \in Calls /\ c.verb \in {"register", "hold"} /\ p.todo = {}
      BY <1>2, Judged
    <2>2. PICK Q : /\ Moves(t, c, Q, "write", mine[t], written + 1)
                   /\ PlanTyped(Q) /\ Q.own = p.own /\ Q.gaps = p.gaps /\ Q.leg = p.leg
                   /\ Q.seen = {}
                   /\ \A w \in Q.todo :
                        \/ /\ \E r \in p.seen : Like(w.row, r)
                           /\ w.kind # "put" /\ Trims(w)
                        \/ /\ w.kind = "put" /\ w.row.reg = written
                           /\ w.row.pass = c.pass /\ w.row.car = c.car
                           /\ w.row.garage \in GaragesOf[c.pass] /\ w.row.from = p.leg[1]
      BY <1>2, Judged
    <2>3. written \in Nat /\ written + 1 \in Nat /\ written <= written + 1 /\ written < written + 1
      BY DEF Typed
    <2>4. MayPlan(c, p, "holders") BY <2>1 DEF Intents
    <2>5. MayPlan(c, Q, "write") BY <2>1, <2>2, <2>4 DEF MayPlan
    <2>6. \A b \in Q.seen \cup Q.own \cup { w.row : w \in Q.todo } :
            (\E a : IsKnown(a) /\ Like(b, a)) \/ Numbers(c, Q, b, written + 1)
      <3>1. \A b \in p.seen \cup p.own : IsKnown(b) BY DEF IsKnown, Known
      <3> QED BY <2>2, <2>3, <3>1, LikeIsEquivalence DEF Numbers
    <2>7. revokedAt[c.pass] = Never BY <2>1, AnAddersPassStands
    <2>8. Fits(t, c, Q, "write", mine[t], written + 1)
      BY <2>1, <2>2, <2>3, <2>5, <2>6, <2>7, APlanFits DEF Places
    <2> QED BY <2>2, <2>8, AFittingStep
  <1> QED BY <1>1, <1>2

LEMMA SettleKeeps ==
    ASSUME RaceInv, NEW t \in Txs, Settle(t) PROVE RaceInv'
  <1> USE DEF RaceInv
  <1> DEFINE c == call[t]
             p == plan[t]
  <1>1. pc[t] = "check" /\ PlanTyped(p) /\ MayPlan(c, p, "check")
    BY DEF Settle, Intents, Typed
  <1>2. Moves(t, c, p, "write", mine[t], written)
    BY DEF Settle, Go, Moves, Typed
  <1>3. MayPlan(c, p, "write") BY <1>1 DEF MayPlan
  <1>4. \A b \in p.seen \cup p.own \cup { w.row : w \in p.todo } : IsKnown(b) /\ Like(b, b)
    BY LikeIsEquivalence DEF IsKnown, Known
  <1>5. revokedAt[c.pass] # Never => \A w \in p.todo : w.row.to <= EndBy(w.row)
    BY <1>1 DEF Barred, PastLock
  <1>6. c.verb = "revoke" => \A a : Alive(t, a) /\ a.pass = c.pass =>
          (\E w \in p.todo : SameRow(w.row, a)) \/ a.to <= RevocationDay(c, a)
    BY <1>1 DEF Clearing, Pending
  <1>7. written \in Nat /\ written <= written BY DEF Typed
  <1>8. Fits(t, c, p, "write", mine[t], written)
    BY <1>1, <1>3, <1>4, <1>5, <1>6, <1>7, APlanFits DEF Places
  <1> QED BY <1>2, <1>8, AFittingStep

LEMMA ViewHasOneVersion == ASSUME RaceInv, NEW t \in Txs PROVE UniqueIds(View(t))
  BY DEF RaceInv, Identified, UniqueIds, View, Superseded, SameRow

(* The version of a row that an UPDATE of another call's own writes makes. *)
Versions(t, r) == { s \in mine[t] : ~SameRow(s, r) } \cup {r}

LEMMA PlacingMoves ==
    ASSUME RaceInv, NEW t \in Txs, NEW w \in plan[t].todo, NEW r, Place(t, w, r)
    PROVE  \E Q : /\ Moves(t, call[t], Q, "check", Versions(t, r), written)
                  /\ PlanTyped(Q) /\ Q.todo = plan[t].todo \ {w} /\ Q.own = plan[t].own
                  /\ Q.seen = plan[t].seen /\ Q.gaps = plan[t].gaps /\ Q.leg = plan[t].leg
                  /\ Q.unread = plan[t].unread
  <1> DEFINE W == plan[t].todo \ {w}
             Q == [plan[t] EXCEPT !.todo = W]
  <1>1. Typed /\ PlanTyped(plan[t]) BY DEF RaceInv, Typed
  <1>2. /\ plan' = [plan EXCEPT ![t] = Q] /\ pc' = [pc EXCEPT ![t] = "check"]
        /\ mine' = [mine EXCEPT ![t] = Versions(t, r)]
        /\ UNCHANGED <<regs, revokedAt, written, call>>
    BY DEF Place, Go, Plans, Versions
  <1>3. Moves(t, call[t], Q, "check", Versions(t, r), written)
    BY <1>1, <1>2 DEF Moves, Typed
  <1>4. W \in SUBSET Write BY <1>1 DEF PlanTyped
  <1>5. /\ PlanTyped(Q) /\ Q.todo = W /\ Q.own = plan[t].own /\ Q.seen = plan[t].seen
        /\ Q.gaps = plan[t].gaps /\ Q.leg = plan[t].leg /\ Q.unread = plan[t].unread
    BY <1>1, <1>4, PlannedWrites
  <1> QED BY <1>3, <1>5

(* A version placed: a row of the pass being registered, or a later        *)
(* version of one that is seen and that nobody else has written.           *)
LEMMA PlacingFits ==
    ASSUME RaceInv, NEW t \in Txs, pc[t] = "write", NEW w \in plan[t].todo, NEW r \in Row,
           NEW Q, PlanTyped(Q), Q.todo = plan[t].todo \ {w}, Q.own = plan[t].own,
           Q.seen = plan[t].seen, Q.gaps = plan[t].gaps, Q.leg = plan[t].leg,
           Like(r, w.row), r.to = w.row.to,
           \/ w.kind = "put"
           \/ /\ \A u \in Txs \ {t} : ~HasWritten(u, w.row)
              /\ \E cur \in View(t) : /\ SameRow(cur, w.row)
                                      /\ r.pass # call[t].pass => r.to <= cur.to
    PROVE  Fits(t, call[t], Q, "check", Versions(t, r), written)
  <1> USE DEF RaceInv
  <1> DEFINE c == call[t]
             p == plan[t]
             m == Versions(t, r)
  <1>1. c \in Calls /\ MayPlan(c, p, "write") /\ m \subseteq Row /\ written \in Nat
        /\ written <= written /\ w \in Write
    BY DEF OnACall, Intents, Versions, Typed, PlanTyped
  <1>2. UniqueIds(m) BY DEF UniqueIds, Versions, Identified, SameRow
  <1>3. MayPlan(c, Q, "check") BY <1>1 DEF MayPlan
  <1>4. NothingUnheard(c, Q, m, written)
    <2>1. \A b \in mine[t] \cup p.seen \cup p.own \cup { v.row : v \in p.todo } :
            IsKnown(b) /\ Like(b, b)
      BY LikeIsEquivalence DEF IsKnown, Known
    <2>2. \A b \in InHand(Q, m) :
            b = r \/ b \in mine[t] \cup p.seen \cup p.own \cup { v.row : v \in p.todo }
      BY DEF InHand, Versions
    <2> QED BY <2>1, <2>2 DEF NothingUnheard
  <1>5. \A u \in Txs \ {t} : PastLock(u) => call[u].pass # c.pass
    BY DEF LocksApart, PastLock
  <1>6. revokedAt[c.pass] # Never =>
          c.verb \in {"end", "end_stay"} /\ \A v \in Q.todo : v.row.to <= EndBy(v.row)
    BY DEF Barred, PastLock
  <1>7. r.pass # c.pass => w.kind # "put" BY <1>1 DEF MayPlan, Like
  <1>8. ASSUME r.pass # c.pass
        PROVE  \E cur \in View(t) : Like(cur, r) /\ r.to <= cur.to /\ cur \in Row
    <2>1. PICK cur \in View(t) : SameRow(cur, w.row) /\ r.to <= cur.to BY <1>7, <1>8
    <2>2. IsKnown(cur) /\ IsKnown(w.row) /\ cur \in Row BY <2>1, WhatIsSeen DEF IsKnown, Known
    <2>3. Like(cur, w.row) BY <2>1, <2>2 DEF Kin
    <2> QED BY <2>1, <2>2, <2>3, LikeIsEquivalence
  <1>9. \A s \in m : s.pass # c.pass => \E q \in regs : SameRow(q, s)
    <2>1. \A s \in mine[t] : s.pass # c.pass => \E q \in regs : SameRow(q, s) BY DEF Owned
    <2>2. ASSUME r.pass # c.pass PROVE \E q \in regs : SameRow(q, r)
      <3>1. PICK cur \in View(t) : Like(cur, r) BY <1>8, <2>2
      <3>2. CASE cur \in regs BY <3>1, <3>2 DEF Like
      <3>3. CASE cur \in mine[t]
        <4>1. PICK q \in regs : SameRow(q, cur) BY <2>1, <2>2, <3>1, <3>3 DEF Like
        <4> QED BY <3>1, <4>1 DEF Like, SameRow
      <3> QED BY <3>2, <3>3 DEF View
    <2> QED BY <2>1, <2>2 DEF Versions
  <1>10. \A s \in m : revokedAt[s.pass] # Never => s.to <= EndBy(s)
    <2>1. \A s \in mine[t] : revokedAt[s.pass] # Never => s.to <= EndBy(s) BY DEF InFlight
    <2>2. ASSUME revokedAt[r.pass] # Never PROVE r.to <= EndBy(r)
      <3>1. CASE r.pass = c.pass
        <4>1. w.row.to <= EndBy(w.row) BY <2>2, <3>1 DEF Barred, PastLock
        <4> QED BY <4>1 DEF EndBy, Like, SameRow
      <3>2. CASE r.pass # c.pass
        <4>1. PICK cur \in View(t) : Like(cur, r) /\ r.to <= cur.to /\ cur \in Row BY <1>8, <3>2
        <4>2. cur.to <= EndBy(cur) BY <2>2, <4>1, WhatIsSeen DEF Like
        <4>3. EndBy(cur) = EndBy(r) BY <4>1 DEF EndBy, Like, SameRow
        <4>4. EndBy(r) \in Day
          <5>1. r.garage \in Garages /\ r.from \in Day /\ r.pass \in Passes BY RowFields
          <5>2. DayAt[revokedAt[r.pass]][r.garage] \in Day
            BY <2>2, <5>1, ClockAssumption DEF Typed
          <5> QED BY <5>1, <5>2 DEF EndBy, Greatest
        <4> QED BY <4>1, <4>2, <4>3, <4>4, RowFields DEF Day
      <3> QED BY <3>1, <3>2
    <2> QED BY <2>1, <2>2 DEF Versions
  <1>11. LeavesClearing(t, m)
    <2> SUFFICES ASSUME NEW u \in Txs \ {t}, pc[u] \in {"write", "check"},
                        call[u].verb = "revoke", NEW s \in m, s.pass = call[u].pass
                 PROVE  Pending(u, s) \/ s.to <= RevocationDay(call[u], s)
      BY DEF LeavesClearing
    <2>1. CASE s \in mine[t]
      <3>1. Alive(u, s) BY <2>1 DEF Alive
      <3> QED BY <3>1 DEF Clearing
    <2>2. CASE s = r
      <3>1. r.pass # c.pass BY <1>5, <2>2 DEF PastLock
      <3>2. PICK cur \in View(t) : Like(cur, r) /\ r.to <= cur.to /\ cur \in Row BY <1>8, <3>1
      <3>3. ~HasWritten(u, w.row) BY <1>7, <3>1
      <3>4. Alive(u, cur)
        BY <3>2, <3>3 DEF Alive, View, Superseded, HasWritten, Like, SameRow
      <3>5. Pending(u, cur) \/ cur.to <= RevocationDay(call[u], cur)
        BY <2>2, <3>2, <3>4 DEF Clearing, Like
      <3>6. CASE Pending(u, cur) BY <2>2, <3>2, <3>6 DEF Pending, Like, SameRow
      <3>7. CASE cur.to <= RevocationDay(call[u], cur)
        <4>1. RevocationDay(call[u], cur) = RevocationDay(call[u], r)
          BY <3>2 DEF RevocationDay, Like, SameRow
        <4>2. RevocationDay(call[u], r) \in Int
          <5>1. call[u].at \in Instants BY CallsAssumption DEF OnACall
          <5>2. r.garage \in Garages /\ r.from \in Int BY RowFields
          <5>3. DayAt[call[u].at][r.garage] \in Day BY <5>1, <5>2, ClockAssumption
          <5> QED BY <5>2, <5>3 DEF RevocationDay, Greatest, Day
        <4> QED BY <2>2, <3>2, <3>7, <4>1, <4>2, RowFields
      <3> QED BY <3>5, <3>6, <3>7
    <2> QED BY <2>1, <2>2 DEF Versions
  <1>12. ClearedBy(t, c, Q, "check", m)
    <2> SUFFICES ASSUME c.verb = "revoke", NEW a, a.pass = c.pass,
                        \/ a \in m \/ (a \in regs /\ ~\E s \in m : SameRow(a, s))
                        \/ \E u \in Txs \ {t} : a \in mine[u]
                 PROVE  (\E v \in Q.todo : SameRow(v.row, a)) \/ a.to <= RevocationDay(c, a)
      BY DEF ClearedBy
    <2>1. w.kind = "if_later" /\ w.row.to = RevocationDay(c, w.row) BY <1>1 DEF MayPlan
    <2>2. CASE a = r
      <3>1. a.to = RevocationDay(c, a) BY <2>1, <2>2 DEF RevocationDay, Like, SameRow
      <3> QED BY <2>2, <3>1, RowFields
    <2>3. CASE a # r
      <3>1. Alive(t, a) /\ ~SameRow(w.row, a)
        BY <2>1, <2>3 DEF Alive, View, Superseded, HasWritten, Versions, Like, SameRow
      <3>2. Pending(t, a) \/ a.to <= RevocationDay(c, a) BY <3>1 DEF Clearing
      <3> QED BY <3>1, <3>2 DEF Pending
    <2> QED BY <2>2, <2>3
  <1>13. c \in Calls \cup {NoCall} /\ "check" \in Places BY <1>1 DEF Places
  <1> HIDE DEF m
  <1> QED BY <1>1, <1>2, <1>3, <1>4, <1>5, <1>6, <1>9, <1>10, <1>11, <1>12, <1>13 DEF Fits, m

(* What the statement that writes one row does.                            *)
LEMMA Writing ==
    ASSUME RaceInv, NEW t \in Txs, WriteRow(t), ~Rollback(t)
    PROVE  /\ pc[t] = "write"
           /\ \E w \in plan[t].todo :
                \/ w.kind = "put" /\ Place(t, w, w.row)
                \/ /\ w.kind # "put" /\ \A u \in Txs \ {t} : ~HasWritten(u, w.row)
                   /\ \E cur \in View(t) :
                        /\ Like(cur, w.row)
                        /\ \/ /\ Matches(w, cur)
                              /\ \E r \in Row : /\ Like(r, w.row) /\ r.to = w.row.to
                                                /\ r.why = w.row.why
                                                /\ Trims(w) => r.to <= cur.to
                                                /\ Place(t, w, r)
                           \/ /\ ~Matches(w, cur) /\ ~FoundMoved(w, cur)
                              /\ \E Q : /\ Moves(t, call[t], Q, "write", mine[t], written)
                                        /\ PlanTyped(Q) /\ Q.todo = plan[t].todo \ {w}
                                        /\ Q.own = plan[t].own /\ Q.seen = plan[t].seen
                                        /\ Q.gaps = plan[t].gaps /\ Q.leg = plan[t].leg
                                        /\ Q.unread = plan[t].unread
  <1> USE DEF RaceInv
  <1>1. PICK w \in NextWrites(t) :
          \/ w.kind = "put" /\ Place(t, w, w.row)
          \/ /\ w.kind # "put" /\ \A u \in Txs \ {t} : ~HasWritten(u, w.row)
             /\ \E cur \in View(t) :
                  /\ SameRow(cur, w.row)
                  /\ \/ /\ Matches(w, cur)
                        /\ Place(t, w, [cur EXCEPT !.to = w.row.to, !.why = w.row.why])
                     \/ /\ ~Matches(w, cur) /\ ~FoundMoved(w, cur)
                        /\ Plans(t, [plan[t] EXCEPT !.todo = plan[t].todo \ {w}])
                        /\ UNCHANGED <<regs, revokedAt, begun, written, call, pc, mine, placed>>
    BY DEF WriteRow
  <1>2. pc[t] = "write" BY DEF WriteRow
  <1>3. w \in plan[t].todo /\ PlanTyped(plan[t]) BY DEF NextWrites, Typed
  <1>4. w \in Write /\ w.row \in Row /\ w.was \in Int /\ IsKnown(w.row)
    BY <1>3, WriteFields DEF PlanTyped, IsKnown, Known
  <1>5. CASE w.kind = "put" /\ Place(t, w, w.row) BY <1>2, <1>3, <1>5
  <1>6. ASSUME w.kind # "put", \A u \in Txs \ {t} : ~HasWritten(u, w.row), NEW cur \in View(t),
               SameRow(cur, w.row),
               Matches(w, cur), Place(t, w, [cur EXCEPT !.to = w.row.to, !.why = w.row.why])
        PROVE  \E r \in Row : /\ Like(r, w.row) /\ r.to = w.row.to /\ r.why = w.row.why
                              /\ Trims(w) => r.to <= cur.to
                              /\ Place(t, w, r)
    <2> DEFINE r == [cur EXCEPT !.to = w.row.to, !.why = w.row.why]
    <2>1. cur \in Row /\ Like(cur, w.row) BY <1>4, <1>6, WhatIsSeen DEF Kin
    <2>2. w.row.to \in EndDay /\ w.row.why \in Reasons BY <1>4, RowFields
    <2>3. r \in Row /\ r.to = w.row.to /\ r.why = w.row.why /\ r.reg = cur.reg /\ r.garage = cur.garage
          /\ r.pass = cur.pass /\ r.car = cur.car /\ r.from = cur.from
      BY <2>1, <2>2 DEF Row
    <2> HIDE DEF r
    <2>4. Like(r, w.row) BY <2>1, <2>3 DEF Like, SameRow
    <2>5. Trims(w) => r.to <= cur.to
      <3>1. w.row.to <= Forever BY <2>2, MaxDayAssumption DEF EndDay, Forever
      <3> QED BY <1>6, <2>3, <3>1 DEF Trims, Matches
    <2>6. Place(t, w, r) BY <1>6 DEF r
    <2> QED BY <2>3, <2>4, <2>5, <2>6
  <1>7. ASSUME Plans(t, [plan[t] EXCEPT !.todo = plan[t].todo \ {w}]),
               UNCHANGED <<regs, revokedAt, begun, written, call, pc, mine, placed>>
        PROVE  \E Q : /\ Moves(t, call[t], Q, "write", mine[t], written)
                      /\ PlanTyped(Q) /\ Q.todo = plan[t].todo \ {w}
                      /\ Q.own = plan[t].own /\ Q.seen = plan[t].seen
                      /\ Q.gaps = plan[t].gaps /\ Q.leg = plan[t].leg
                      /\ Q.unread = plan[t].unread
    <2> DEFINE W == plan[t].todo \ {w}
               Q == [plan[t] EXCEPT !.todo = W]
    <2>1. Moves(t, call[t], Q, "write", mine[t], written)
      BY <1>2, <1>7 DEF Plans, Moves, Typed
    <2>2. W \in SUBSET Write BY <1>3 DEF PlanTyped
    <2>3. /\ PlanTyped(Q) /\ Q.todo = W /\ Q.own = plan[t].own /\ Q.seen = plan[t].seen
          /\ Q.gaps = plan[t].gaps /\ Q.leg = plan[t].leg /\ Q.unread = plan[t].unread
      BY <1>3, <2>2, PlannedWrites
    <2> QED BY <2>1, <2>3
  <1>8. \A cur \in View(t) : SameRow(cur, w.row) => Like(cur, w.row)
    BY <1>4, WhatIsSeen DEF Kin
  <1>9. CASE w.kind # "put"
    <2>1. PICK cur \in View(t) :
                  /\ SameRow(cur, w.row)
                  /\ \/ /\ Matches(w, cur)
                        /\ Place(t, w, [cur EXCEPT !.to = w.row.to, !.why = w.row.why])
                     \/ /\ ~Matches(w, cur) /\ ~FoundMoved(w, cur)
                        /\ Plans(t, [plan[t] EXCEPT !.todo = plan[t].todo \ {w}])
                        /\ UNCHANGED <<regs, revokedAt, begun, written, call, pc, mine, placed>>
      BY <1>1, <1>9
    <2>2. \A u \in Txs \ {t} : ~HasWritten(u, w.row) BY <1>1, <1>9
    <2>3. CASE /\ Matches(w, cur)
               /\ Place(t, w, [cur EXCEPT !.to = w.row.to, !.why = w.row.why])
      <3>1. \E r \in Row : /\ Like(r, w.row) /\ r.to = w.row.to /\ r.why = w.row.why
                           /\ Trims(w) => r.to <= cur.to
                           /\ Place(t, w, r)
        BY <1>6, <1>9, <2>1, <2>2, <2>3
      <3> QED BY <1>2, <1>3, <1>8, <1>9, <2>1, <2>2, <2>3, <3>1
    <2>4. CASE /\ ~Matches(w, cur) /\ ~FoundMoved(w, cur)
               /\ Plans(t, [plan[t] EXCEPT !.todo = plan[t].todo \ {w}])
               /\ UNCHANGED <<regs, revokedAt, begun, written, call, pc, mine, placed>>
      BY <1>2, <1>3, <1>7, <1>8, <1>9, <2>1, <2>2, <2>4
    <2> QED BY <2>1, <2>3, <2>4
  <1> QED BY <1>1, <1>5, <1>9

LEMMA WriteRowKeeps ==
    ASSUME RaceInv, NEW t \in Txs, WriteRow(t) PROVE RaceInv'
  <1> USE DEF RaceInv
  <1>1. CASE Rollback(t) BY <1>1, RollbackKeeps
  <1>2. CASE ~Rollback(t)
    <2> DEFINE c == call[t]
               p == plan[t]
    <2>1. pc[t] = "write" /\ MayPlan(c, p, "write") BY <1>2, Writing DEF Intents
    <2>2. PICK w \in p.todo :
                \/ w.kind = "put" /\ Place(t, w, w.row)
                \/ /\ w.kind # "put" /\ \A u \in Txs \ {t} : ~HasWritten(u, w.row)
                   /\ \E cur \in View(t) :
                        /\ Like(cur, w.row)
                        /\ \/ \E r \in Row : /\ Like(r, w.row) /\ r.to = w.row.to
                                             /\ Trims(w) => r.to <= cur.to
                                             /\ Place(t, w, r)
                           \/ /\ ~Matches(w, cur) /\ ~FoundMoved(w, cur)
                              /\ \E Q : /\ Moves(t, c, Q, "write", mine[t], written)
                                        /\ PlanTyped(Q) /\ Q.todo = p.todo \ {w}
                                        /\ Q.own = p.own /\ Q.seen = p.seen
                                        /\ Q.gaps = p.gaps /\ Q.leg = p.leg
      BY <1>2, Writing
    <2>3. w \in Write /\ w.row \in Row BY WriteFields DEF Typed, PlanTyped
    <2>4. ASSUME NEW r \in Row, Place(t, w, r), Like(r, w.row), r.to = w.row.to,
                 \/ w.kind = "put"
                 \/ /\ \A u \in Txs \ {t} : ~HasWritten(u, w.row)
                    /\ \E cur \in View(t) : /\ SameRow(cur, w.row)
                                            /\ r.pass # c.pass => r.to <= cur.to
          PROVE  RaceInv'
      <3>1. PICK Q : /\ Moves(t, c, Q, "check", Versions(t, r), written)
                     /\ PlanTyped(Q) /\ Q.todo = p.todo \ {w} /\ Q.own = p.own
                     /\ Q.seen = p.seen /\ Q.gaps = p.gaps /\ Q.leg = p.leg
        BY <2>4, PlacingMoves
      <3>2. Fits(t, c, Q, "check", Versions(t, r), written)
        BY <2>1, <2>4, <3>1, PlacingFits
      <3> QED BY <3>1, <3>2, AFittingStep
    <2>5. CASE w.kind = "put" /\ Place(t, w, w.row)
      BY <2>3, <2>4, <2>5, LikeIsEquivalence
    <2>6. CASE /\ w.kind # "put" /\ \A u \in Txs \ {t} : ~HasWritten(u, w.row)
               /\ \E cur \in View(t) : /\ Like(cur, w.row)
                    /\ \E r \in Row : /\ Like(r, w.row) /\ r.to = w.row.to
                                      /\ Trims(w) => r.to <= cur.to
                                      /\ Place(t, w, r)
      <3>1. PICK cur \in View(t), r \in Row :
              /\ Like(cur, w.row) /\ Like(r, w.row) /\ r.to = w.row.to
              /\ Trims(w) => r.to <= cur.to
              /\ Place(t, w, r)
        BY <2>6
      <3>2. r.pass # c.pass => r.to <= cur.to BY <2>1, <3>1 DEF MayPlan, Like
      <3>3. SameRow(cur, w.row) BY <3>1 DEF Like
      <3> QED BY <2>4, <2>6, <3>1, <3>2, <3>3
    <2>7. ASSUME w.kind # "put", \A u \in Txs \ {t} : ~HasWritten(u, w.row),
                 NEW cur \in View(t), Like(cur, w.row), ~Matches(w, cur),
                 NEW Q, Moves(t, c, Q, "write", mine[t], written),
                 PlanTyped(Q), Q.todo = p.todo \ {w},
                 Q.own = p.own, Q.seen = p.seen, Q.gaps = p.gaps, Q.leg = p.leg
          PROVE  RaceInv'
      <3>1. MayPlan(c, Q, "write") BY <2>1, <2>7 DEF MayPlan
      <3>2. \A b \in Q.seen \cup Q.own \cup { v.row : v \in Q.todo } : IsKnown(b) /\ Like(b, b)
        BY <2>7, LikeIsEquivalence DEF IsKnown, Known
      <3>3. revokedAt[c.pass] # Never => \A v \in Q.todo : v.row.to <= EndBy(v.row)
        BY <2>1, <2>7 DEF Barred, PastLock
      <3>4. ASSUME c.verb = "revoke", NEW a, Alive(t, a), a.pass = c.pass
            PROVE  (\E v \in Q.todo : SameRow(v.row, a)) \/ a.to <= RevocationDay(c, a)
        <4>1. Pending(t, a) \/ a.to <= RevocationDay(c, a) BY <2>1, <3>4 DEF Clearing
        <4>2. CASE ~SameRow(w.row, a) BY <2>7, <4>1, <4>2 DEF Pending
        <4>3. CASE SameRow(w.row, a)
          <5>1. a \in View(t) BY <2>7, <3>4, <4>3 DEF Alive, HasWritten, SameRow
          <5>2. SameRow(a, cur) BY <2>7, <4>3 DEF Like, SameRow
          <5>3. a = cur BY <5>1, <5>2, ViewHasOneVersion DEF UniqueIds
          <5>4. ~(cur.to > w.row.to) /\ w.row.to = RevocationDay(c, w.row)
            BY <2>1, <2>7, <3>4 DEF MayPlan, Matches
          <5>5. RevocationDay(c, w.row) = RevocationDay(c, a)
            BY <2>7, <5>3 DEF RevocationDay, Like, SameRow
          <5> QED BY <2>3, <5>3, <5>4, <5>5, WhatIsSeen, RowFields
        <4> QED BY <4>2, <4>3
      <3>5. written \in Nat /\ written <= written BY DEF Typed
      <3>6. Fits(t, c, Q, "write", mine[t], written)
        BY <2>1, <2>7, <3>1, <3>2, <3>3, <3>4, <3>5, APlanFits DEF Places
      <3> QED BY <2>7, <3>6, AFittingStep
    <2> QED BY <2>2, <2>5, <2>6, <2>7
  <1> QED BY <1>1, <1>2

(* A commit: what t saw is what stands.                                    *)
LEMMA CommitKeeps ==
    ASSUME RaceInv, NEW t \in Txs, Commit(t) PROVE RaceInv'
  <1> USE DEF RaceInv
  <1> DEFINE c == call[t]
  <1>1. /\ regs' = View(t) /\ written' = written
        /\ \A u \in Txs : /\ call'[u] = IF u = t THEN NoCall ELSE call[u]
                          /\ plan'[u] = IF u = t THEN NoPlan ELSE plan[u]
                          /\ pc'[u] = IF u = t THEN "idle" ELSE pc[u]
                          /\ mine'[u] = IF u = t THEN {} ELSE mine[u]
    BY DEF Commit, Closed, Go, Plans, Typed
  <1>2. pc[t] = "write" /\ plan[t].todo = {} /\ c \in Calls /\ c.pass \in Passes
    BY CallsAssumption DEF Commit, OnACall, Call
  <1>3. /\ revokedAt' \in [Passes -> Instants \cup {Never}]
        /\ \A p \in Passes : p # c.pass => revokedAt'[p] = revokedAt[p]
        /\ c.verb # "revoke" => revokedAt' = revokedAt
        /\ c.verb = "revoke" => revokedAt'[c.pass] = c.at
    <2>1. CASE c.verb = "revoke"
      <3>1. revokedAt' = [revokedAt EXCEPT ![c.pass] = c.at] /\ c.at \in Instants
        BY <1>2, <2>1, CallsAssumption DEF Commit
      <3> QED BY <1>2, <2>1, <3>1 DEF Typed
    <2>2. CASE c.verb # "revoke" BY <2>2 DEF Commit, Typed
    <2> QED BY <2>1, <2>2
  <1>4. Typed'
    <2>1. View(t) \subseteq Row BY DEF View, Typed
    <2>2. /\ call' = [call EXCEPT ![t] = NoCall] /\ plan' = [plan EXCEPT ![t] = NoPlan]
          /\ pc' = [pc EXCEPT ![t] = "idle"] /\ mine' = [mine EXCEPT ![t] = {}]
      BY DEF Commit, Closed, Go, Plans
    <2>3. call' \in [Txs -> Calls \cup {NoCall}] /\ mine' \in [Txs -> SUBSET Row]
          /\ pc' \in [Txs -> {"idle", "lock", "read", "holders", "write", "check"}]
      BY <2>2 DEF Typed
    <2>4. plan' = [u \in Txs |-> plan'[u]] BY <2>2 DEF Typed
    <2>5. \A u \in Txs : PlanTyped(plan'[u]) BY <1>1, NoPlanFields DEF Typed
    <2>6. written' \in Nat BY <1>1 DEF Typed
    <2> QED BY <1>1, <1>3, <2>1, <2>3, <2>4, <2>5, <2>6 DEF Typed
  <1>5. Identified'
    BY <1>1, ViewHasOneVersion DEF Identified, UniqueIds, SameRow
  <1>6. Kin'
    <2>1. ASSUME NEW b, IsKnown(b)' PROVE IsKnown(b)
      <3>1. CASE b \in regs' BY <1>1, <3>1, WhatIsSeen
      <3>2. CASE \E u \in Txs : b \in Known(u)'
        <4>1. PICK u \in Txs : b \in Known(u)' BY <3>2
        <4>2. u # t BY <1>1, <4>1, NoPlanFields DEF Known
        <4> QED BY <1>1, <4>1, <4>2 DEF Known, IsKnown
      <3> QED BY <2>1, <3>1, <3>2 DEF IsKnown
    <2> QED BY <1>1, <2>1 DEF Kin, Like, SameRow
  <1>7. OnACall' BY <1>1 DEF OnACall
  <1>8. LocksApart' BY <1>1 DEF LocksApart, PastLock
  <1>9. Quiet' BY <1>1 DEF Quiet
  <1>10. Intents'
    <2>1. \A u \in Txs : pc'[u] # "idle" => MayPlan(call'[u], plan'[u], pc'[u])
      BY <1>1 DEF Intents
    <2> QED BY <2>1 DEF Intents, MayPlan, Trims, RevocationDay, LastDayIs
  <1>11. Barred'
    <2> SUFFICES ASSUME NEW u \in Txs, PastLock(u)', revokedAt'[call'[u].pass] # Never
                 PROVE  /\ call'[u].verb \in {"end", "end_stay"}
                        /\ \A w \in plan'[u].todo : w.row.to <= EndBy(w.row)'
      BY DEF Barred
    <2>1. u # t /\ PastLock(u) /\ call'[u] = call[u] /\ plan'[u] = plan[u] BY <1>1 DEF PastLock
    <2>2. call[u].pass # c.pass BY <1>2, <2>1 DEF LocksApart, PastLock
    <2>3. call[u].pass \in Passes /\ call[u] \in Calls
      BY <2>1, CallsAssumption DEF OnACall, PastLock, Call
    <2>4. revokedAt'[call[u].pass] = revokedAt[call[u].pass] BY <1>3, <2>2, <2>3
    <2>5. call[u].verb \in {"end", "end_stay"} /\ \A w \in plan[u].todo : w.row.to <= EndBy(w.row)
      BY <2>1, <2>4 DEF Barred
    <2>6. \A w \in plan[u].todo : w.row.pass = call[u].pass
      BY <2>1, <2>5 DEF Intents, MayPlan, PastLock
    <2> QED BY <2>1, <2>4, <2>5, <2>6 DEF EndBy
  <1>12. Owned'
    <2> SUFFICES ASSUME NEW u \in Txs, NEW s \in mine'[u], s.pass # call'[u].pass
                 PROVE  \E r \in regs' : SameRow(r, s)
      BY DEF Owned, SameRow
    <2>1. s \in mine[u] /\ s.pass # call[u].pass BY <1>1
    <2>2. PICK r \in regs : SameRow(r, s) BY <2>1 DEF Owned
    <2> QED BY <1>1, <2>2 DEF View, Superseded, SameRow
  <1>13. Clearing'
    <2> SUFFICES ASSUME NEW u \in Txs, pc'[u] \in {"write", "check"}, call'[u].verb = "revoke",
                        NEW a, Alive(u, a)', a.pass = call'[u].pass
                 PROVE  (\E w \in plan'[u].todo : SameRow(w.row, a))
                        \/ a.to <= RevocationDay(call'[u], a)
      BY DEF Clearing, Pending, RevocationDay, SameRow
    <2>1. u # t /\ pc[u] \in {"write", "check"} /\ call'[u] = call[u] /\ plan'[u] = plan[u]
      BY <1>1
    <2>2. Alive(u, a) BY <1>1, <2>1 DEF Alive, View, Superseded, SameRow
    <2> QED BY <2>1, <2>2 DEF Clearing, Pending
  <1>14. ASSUME NEW a, Alive(t, a), a \in Row, revokedAt'[a.pass] # Never,
                revokedAt[a.pass] # Never => a.to <= EndBy(a)
         PROVE  a.to <= EndBy(a)'
    <2>1. CASE c.verb = "revoke" /\ a.pass = c.pass
      <3>1. a.to <= RevocationDay(c, a) BY <1>2, <1>14, <2>1 DEF Clearing, Pending
      <3> QED BY <1>3, <2>1, <3>1 DEF EndBy, RevocationDay
    <2>2. CASE ~(c.verb = "revoke" /\ a.pass = c.pass)
      <3>1. a.pass \in Passes BY <1>14, RowFields
      <3>2. revokedAt'[a.pass] = revokedAt[a.pass] BY <1>3, <2>2, <3>1
      <3> QED BY <1>14, <3>2 DEF EndBy
    <2> QED BY <2>1, <2>2
  <1>15. InFlight'
    <2> SUFFICES ASSUME NEW u \in Txs, NEW s \in mine'[u], revokedAt'[s.pass] # Never
                 PROVE  s.to <= EndBy(s)'
      BY DEF InFlight
    <2>1. u # t /\ s \in mine[u] BY <1>1
    <2>2. Alive(t, s) /\ s \in Row BY <2>1 DEF Alive, Typed
    <2>3. revokedAt[s.pass] # Never => s.to <= EndBy(s) BY <2>1 DEF InFlight
    <2> QED BY <1>14, <2>2, <2>3
  <1>16. RevokedHoldsNothing'
    <2> SUFFICES ASSUME NEW r \in regs', revokedAt'[r.pass] # Never PROVE r.to <= EndBy(r)'
      BY DEF RevokedHoldsNothing, EndBy
    <2> QED BY <1>1, <1>14, WhatIsSeen
  <1> QED BY <1>4, <1>5, <1>6, <1>7, <1>8, <1>9, <1>10, <1>11, <1>12, <1>13, <1>15, <1>16

LEMMA InitRaceInv == Init => RaceInv
  <1> SUFFICES ASSUME Init PROVE RaceInv OBVIOUS
  <1>1. /\ regs \subseteq Row /\ IsFiniteSet(regs) /\ \A r \in regs : r.reg < Cardinality(regs)
        /\ \A r \in regs : r.garage \in GaragesOf[r.pass]
        /\ UniqueIds(regs)
    BY StartsAssumption DEF Init, LeftByOneWriter, UniqueIds, SameRow
  <1>2. written \in Nat BY <1>1, FS_CardinalityType DEF Init
  <1>3. \A t \in Txs : plan[t] = NoPlan /\ mine[t] = {} /\ pc[t] = "idle" BY DEF Init
  <1>4. Typed BY <1>1, <1>2, NoPlanFields DEF Init, Typed
  <1>5. Identified BY <1>1, <1>3 DEF Identified, UniqueIds
  <1>6. Kin
    <2>1. \A a : IsKnown(a) => a \in regs BY <1>3, NoPlanFields DEF IsKnown, Known
    <2> QED BY <1>1, <2>1 DEF Init, Kin, Like, UniqueIds
  <1>7. OnACall /\ LocksApart /\ Quiet /\ Intents /\ Barred /\ Owned /\ Clearing /\ InFlight
    BY <1>3 DEF OnACall, LocksApart, Quiet, Intents, Barred, PastLock, Owned, Clearing, InFlight
  <1>8. RevokedHoldsNothing
    BY <1>1, RowFields DEF Init, RevokedHoldsNothing
  <1> QED BY <1>4, <1>5, <1>6, <1>7, <1>8 DEF RaceInv

LEMMA NextKeepsRaceInv == RaceInv /\ [Next]_vars => RaceInv'
  <1> SUFFICES ASSUME RaceInv, [Next]_vars PROVE RaceInv' OBVIOUS
  <1>1. CASE UNCHANGED vars
    BY <1>1 DEF vars, RaceInv, Typed, Identified, UniqueIds, Kin, IsKnown, Known, OnACall,
       LocksApart, PastLock, Quiet, Intents, MayPlan, Barred, EndBy, Owned, Clearing, Alive, View,
       Superseded, Pending, InFlight, RevokedHoldsNothing
  <1>2. ASSUME NEW t \in Txs, ExclusionViolation(t) \/ DeadlockDetected(t) \/ Lost(t)
        PROVE  RaceInv'
    BY <1>2, RollbackKeeps DEF ExclusionViolation, DeadlockDetected, Lost
  <1> QED BY <1>1, <1>2, BeginKeeps, LockPassKeeps, ReadToEndKeeps, ReadTheStayKeeps,
       ReadToRevokeKeeps, ReadToHoldKeeps, FillTheGapKeeps, ReadHoldersKeeps, JudgeHoldersKeeps,
       WriteRowKeeps, SettleKeeps, CommitKeeps DEF Next, Statement

(* A revoked pass holds no car from its day of the revocation, however the *)
(* revocation races the writers that register, trim, run on and end the    *)
(* pass's rows.                                                            *)
THEOREM RacesLeaveARevokedPassEmpty == Spec => []RevokedHoldsNothing
  <1>1. RaceInv => RevokedHoldsNothing BY DEF RaceInv
  <1> QED BY <1>1, InitRaceInv, NextKeepsRaceInv, PTL DEF Spec

-----------------------------------------------------------------------------
(* What a commit takes from other passes.                                  *)
(*                                                                         *)
(* A call writes another pass's row at most once (OneWrite) and until it   *)
(* ends nobody else writes that row (MineApart), so what it took of the    *)
(* row when it wrote it is what it takes of it when it commits (Taken).    *)

TakesTheLastDay(r, s) ==
    \A d \in Day : Covers(r, d) /\ ~Covers(s, d) => d > ValidTo[r.pass] \/ d = LastDayOf(r)

(* A row to be inserted is nobody's yet.                                   *)
Others(t, w, a) ==
    \/ a \in regs
    \/ \E u \in Txs : \/ a \in mine[u] \cup plan[u].seen \cup plan[u].own
                      \/ \E v \in plan[u].todo : a = v.row /\ ~(u = t /\ v = w)
FreshPuts ==
    \A t \in Txs : \A w \in plan[t].todo : w.kind = "put" =>
        \A a : Others(t, w, a) => ~SameRow(w.row, a)

MineApart ==
    \A t, u \in Txs : t # u => \A s \in mine[t], a \in mine[u] : ~SameRow(s, a)

Foreign(c, r) == r.pass # c.pass

(* Over by the range being registered: it is nobody's holder again.        *)
OverBy(r, f) == r.to <= f \/ r.to <= r.from

(* The rows in the hands of a call c, by what it is doing with them: read, *)
(* to be written, written.                                                 *)
Apart(c, P, m, at) ==
    /\ UniqueIds(P.seen) /\ UniqueIds(P.own)
    /\ at # "holders" => P.seen = {}
    /\ \A r \in P.seen : r.garage \notin P.unread
    /\ \A r \in P.seen, s \in m : Foreign(c, s) => ~SameRow(r, s)
    /\ \A w, v \in P.todo : SameRow(w.row, v.row) => w = v
    /\ \A w \in P.todo : Foreign(c, w.row) =>
         OverBy(w.row, P.leg[1]) /\ \A s \in m : ~SameRow(w.row, s)
    /\ \A s \in m : Foreign(c, s) => OverBy(s, P.leg[1])
    /\ \A d \in P.gaps : P.leg[1] <= d
OneWrite == \A t \in Txs : pc[t] # "idle" => Apart(call[t], plan[t], mine[t], pc[t])

Taken ==
    \A t \in Txs : \A s \in mine[t], r \in regs :
        SameRow(r, s) /\ Foreign(call[t], s) => TakesTheLastDay(r, s)

TakeInv == FreshPuts /\ MineApart /\ OneWrite /\ Taken

(* What a step of t that commits nothing has to keep of it.                *)
OldOrNew(t, b) == (\E a \in regs \cup Known(t) : SameRow(a, b)) \/ b.reg = written
PutsAreNew(t, P, m) ==
    \A w \in P.todo : w.kind = "put" =>
        \A a : \/ a \in regs \cup m \cup P.seen \cup P.own
               \/ \E u \in Txs \ {t} : a \in Known(u)
               \/ \E v \in P.todo \ {w} : a = v.row
               => ~SameRow(w.row, a)
ApartFromOthers(t, m) == \A u \in Txs \ {t} : \A s \in m, a \in mine[u] : ~SameRow(s, a)
TakesLastDays(c, m) ==
    \A s \in m, r \in regs : SameRow(r, s) /\ Foreign(c, s) => TakesTheLastDay(r, s)

Leaves(t, c, P, to, m) ==
    /\ \A b \in InHand(P, m) : OldOrNew(t, b)
    /\ PutsAreNew(t, P, m) /\ ApartFromOthers(t, m) /\ TakesLastDays(c, m)
    /\ to # "idle" => Apart(c, P, m, to)

LEMMA AStepLeaves ==
    ASSUME RaceInv, TakeInv, NEW t \in Txs, NEW c, NEW P, NEW to, NEW m, NEW n,
           Leaves(t, c, P, to, m), Moves(t, c, P, to, m, n)
    PROVE  TakeInv'
  <1>0. Typed BY DEF RaceInv
  <1>1. /\ regs' = regs
        /\ \A u \in Txs : /\ call'[u] = IF u = t THEN c ELSE call[u]
                          /\ plan'[u] = IF u = t THEN P ELSE plan[u]
                          /\ pc'[u] = IF u = t THEN to ELSE pc[u]
                          /\ mine'[u] = IF u = t THEN m ELSE mine[u]
    BY <1>0 DEF Moves, Typed
  <1>2. FreshPuts'
    <2> SUFFICES ASSUME NEW u \in Txs, NEW w \in plan'[u].todo, w.kind = "put",
                        NEW a, Others(u, w, a)'
                 PROVE  ~SameRow(w.row, a)
      BY DEF FreshPuts, SameRow
    <2>1. \/ a \in regs
          \/ \E x \in Txs \ {t} : \/ a \in mine[x] \cup plan[x].seen \cup plan[x].own
                                  \/ \E v \in plan[x].todo : a = v.row /\ ~(x = u /\ v = w)
          \/ a \in m \cup P.seen \cup P.own
          \/ \E v \in P.todo : a = v.row /\ ~(t = u /\ v = w)
      BY <1>1 DEF Others
    <2>2. CASE u = t
      <3>1. w \in P.todo BY <1>1, <2>2
      <3>2. PutsAreNew(t, P, m) BY DEF Leaves
      <3>3. \/ a \in regs \cup m \cup P.seen \cup P.own
            \/ \E x \in Txs \ {t} : a \in Known(x)
            \/ \E v \in P.todo \ {w} : a = v.row
        BY <2>1, <2>2 DEF Known
      <3> QED BY <3>1, <3>2, <3>3 DEF PutsAreNew
    <2>3. CASE u # t
      <3>1. w \in plan[u].todo BY <1>1, <2>3
      <3>2. \A b : Others(u, w, b) => ~SameRow(w.row, b) BY <3>1 DEF TakeInv, FreshPuts
      <3>3. CASE Others(u, w, a) BY <3>2, <3>3
      <3>4. CASE a \in InHand(P, m)
        <4>1. OldOrNew(t, a) BY <3>4 DEF Leaves
        <4>2. CASE a.reg = written
          <5>1. w.row.reg < written BY <3>1 DEF RaceInv, Kin, IsKnown, Known
          <5>2. w.row.reg # written
            <6>1. w.row \in Row /\ written \in Nat
              BY <1>0, <3>1, WriteFields DEF Typed, PlanTyped
            <6> QED BY <5>1, <6>1, RowFields
          <5> QED BY <4>2, <5>2 DEF SameRow
        <4>3. CASE \E b \in regs \cup Known(t) : SameRow(b, a)
          <5>1. PICK b \in regs \cup Known(t) : SameRow(b, a) BY <4>3
          <5>2. Others(u, w, b) BY <2>3, <5>1 DEF Others, Known
          <5> QED BY <3>2, <5>1, <5>2 DEF SameRow
        <4> QED BY <4>1, <4>2, <4>3 DEF OldOrNew
      <3> QED BY <2>1, <2>3, <3>3, <3>4 DEF Others, InHand
    <2> QED BY <2>2, <2>3
  <1>3. MineApart'
    <2>1. ApartFromOthers(t, m) BY DEF Leaves
    <2> QED BY <1>1, <2>1 DEF TakeInv, MineApart, ApartFromOthers, SameRow
  <1>4. OneWrite'
    <2>1. \A u \in Txs : pc'[u] # "idle" => Apart(call'[u], plan'[u], mine'[u], pc'[u])
      BY <1>1 DEF TakeInv, OneWrite, Leaves
    <2> QED BY <2>1 DEF OneWrite, Apart, UniqueIds, SameRow, Foreign, OverBy
  <1>5. Taken'
    <2>1. TakesLastDays(c, m) BY DEF Leaves
    <2>2. \A u \in Txs : \A s \in mine'[u], r \in regs :
            SameRow(r, s) /\ Foreign(call'[u], s) => TakesTheLastDay(r, s)
      BY <1>1, <2>1 DEF TakeInv, Taken, TakesLastDays
    <2> QED BY <1>1, <2>2 DEF Taken, SameRow, Foreign, TakesTheLastDay, Covers, LastDayOf
  <1> QED BY <1>2, <1>3, <1>4, <1>5 DEF TakeInv

(* A step that writes no row version, and plans no insert.                 *)
LEMMA AReaderLeaves ==
    ASSUME RaceInv, TakeInv, NEW t \in Txs, pc[t] # "idle", NEW P, NEW to,
           \A w \in P.todo : w.kind # "put",
           \A b \in P.seen \cup P.own \cup { w.row : w \in P.todo } : OldOrNew(t, b),
           Apart(call[t], P, mine[t], to)
    PROVE  Leaves(t, call[t], P, to, mine[t])
  <1>1. ApartFromOthers(t, mine[t]) BY DEF TakeInv, MineApart, ApartFromOthers
  <1>2. TakesLastDays(call[t], mine[t]) BY DEF TakeInv, Taken, TakesLastDays
  <1>3. \A b \in mine[t] : OldOrNew(t, b) BY DEF OldOrNew, Known, SameRow
  <1>4. PutsAreNew(t, P, mine[t]) BY DEF PutsAreNew
  <1> QED BY <1>1, <1>2, <1>3, <1>4 DEF Leaves, InHand

LEMMA InHandIsOld ==
    ASSUME NEW t \in Txs
    PROVE  /\ \A b \in View(t) : OldOrNew(t, b)
           /\ \A b \in mine[t] \cup plan[t].seen \cup plan[t].own : OldOrNew(t, b)
           /\ \A w \in plan[t].todo : OldOrNew(t, w.row)
           /\ \A a, b : OldOrNew(t, a) /\ SameRow(a, b) => OldOrNew(t, b)
  BY DEF OldOrNew, View, Known, SameRow

LEMMA RollbackLeaves ==
    ASSUME RaceInv, TakeInv, NEW t \in Txs, Rollback(t) PROVE TakeInv'
  <1>1. Moves(t, NoCall, NoPlan, "idle", {}, written) BY RollbackFits
  <1>2. Leaves(t, NoCall, NoPlan, "idle", {})
    BY NoPlanFields DEF Leaves, InHand, PutsAreNew, ApartFromOthers, TakesLastDays
  <1> QED BY <1>1, <1>2, AStepLeaves

(* A plan that has read nothing and wrote nothing.                         *)
LEMMA NothingReadLeaves ==
    ASSUME NEW t \in Txs, NEW c, NEW P, NEW to,
           P.own = {}, P.seen = {}, P.todo = {}, P.gaps = {}
    PROVE  Leaves(t, c, P, to, {})
  BY DEF Leaves, InHand, PutsAreNew, ApartFromOthers, TakesLastDays, Apart, UniqueIds

LEMMA BeginLeaves ==
    ASSUME RaceInv, TakeInv, NEW t \in Txs, Begin(t) PROVE TakeInv'
  <1>1. PICK c \in Calls : call' = [call EXCEPT ![t] = c] BY DEF Begin
  <1>2. plan[t] = NoPlan /\ mine[t] = {} BY DEF Begin, RaceInv, Quiet
  <1>3. Moves(t, c, NoPlan, "lock", {}, written)
    BY <1>1, <1>2 DEF Begin, Go, Moves, RaceInv, Typed
  <1>4. Leaves(t, c, NoPlan, "lock", {}) BY NoPlanFields, NothingReadLeaves
  <1> QED BY <1>3, <1>4, AStepLeaves

LEMMA LockPassLeaves ==
    ASSUME RaceInv, TakeInv, NEW t \in Txs, LockPass(t) PROVE TakeInv'
  <1>1. CASE Rollback(t) BY <1>1, RollbackLeaves
  <1>2. CASE ~Rollback(t)
    <2>1. PICK P, to : /\ Moves(t, call[t], P, to, {}, written)
                       /\ P.own = {} /\ P.gaps = {} /\ P.seen = {} /\ P.todo = {}
      BY <1>2, Locked
    <2>2. Leaves(t, call[t], P, to, {}) BY <2>1, NothingReadLeaves
    <2> QED BY <2>1, <2>2, AStepLeaves
  <1> QED BY <1>1, <1>2

(* An UPDATE writes a version of the row it was planned for, and two       *)
(* UPDATEs of one statement are of two rows.                               *)
LEMMA UpdateIsOf ==
    ASSUME NEW r \in Row, NEW step, NEW kind, NEW to, NEW why
    PROVE  LET w == Update(step, kind, r, to, why) IN
           w.kind = kind /\ SameRow(r, w.row) /\ w.row.pass = r.pass
  BY DEF Update, SameRow, Row

OwnUpdates(t, W, step, kind, to, why) ==
    \A w \in W : \E r \in View(t) :
        r.pass = call[t].pass /\ w = Update(step, kind, r, to[r], why)

LEMMA ItsOwnRowsLeave ==
    ASSUME RaceInv, TakeInv, NEW t \in Txs, pc[t] = "read", NEW W, WillWrite(t, W),
           NEW step, NEW kind, kind # "put", NEW to, NEW why,
           OwnUpdates(t, W, step, kind, to, why)
    PROVE  TakeInv'
  <1> DEFINE Q == [NoPlan EXCEPT !.todo = W]
  <1>1. plan[t] = NoPlan /\ mine[t] = {} BY DEF RaceInv, Quiet
  <1>2. Moves(t, call[t], Q, "write", {}, written)
    BY <1>1 DEF WillWrite, Go, Plans, Moves, RaceInv, Typed
  <1>3. Q.own = {} /\ Q.gaps = {} /\ Q.seen = {} /\ Q.todo = W BY DEF NoPlan
  <1> HIDE DEF Q
  <1>4. \A w \in W : \E r \in View(t) : /\ w = Update(step, kind, r, to[r], why)
                                        /\ w.kind = kind /\ SameRow(r, w.row)
                                        /\ w.row.pass = call[t].pass
    BY WhatIsSeen, UpdateIsOf DEF OwnUpdates
  <1>5. ASSUME NEW w \in W, NEW v \in W, SameRow(w.row, v.row) PROVE w = v
    <2>1. PICK r \in View(t) : w = Update(step, kind, r, to[r], why) /\ SameRow(r, w.row) BY <1>4
    <2>2. PICK s \in View(t) : v = Update(step, kind, s, to[s], why) /\ SameRow(s, v.row) BY <1>4
    <2>3. SameRow(r, s) BY <1>5, <2>1, <2>2 DEF SameRow
    <2>4. r = s BY <2>3, ViewHasOneVersion DEF UniqueIds
    <2> QED BY <2>1, <2>2, <2>4
  <1>6. Apart(call[t], Q, {}, "write")
    BY <1>3, <1>4, <1>5 DEF Apart, UniqueIds, Foreign
  <1>7. \A w \in Q.todo : OldOrNew(t, w.row)
    BY <1>3, <1>4, InHandIsOld
  <1>8. Leaves(t, call[t], Q, "write", {})
    BY <1>1, <1>3, <1>4, <1>6, <1>7, AReaderLeaves
  <1> QED BY <1>2, <1>8, AStepLeaves

LEMMA ReadToEndLeaves ==
    ASSUME RaceInv, TakeInv, NEW t \in Txs, ReadToEnd(t) PROVE TakeInv'
  <1>1. CASE Rollback(t) BY <1>1, RollbackLeaves
  <1>2. CASE ~Rollback(t)
    <2> DEFINE c == call[t]
               to == [r \in View(t) |-> c.to]
    <2>1. PICK r \in Latest(View(t), c.pass, c.car) :
            WillWrite(t, { Update(0, "as_read", s, c.to, ENDED_BY_OWNER)
                             : s \in { q \in View(t) : EndsWith(q, r) } })
      BY <1>2 DEF ReadToEnd
    <2> DEFINE W == { Update(0, "as_read", s, c.to, ENDED_BY_OWNER)
                        : s \in { q \in View(t) : EndsWith(q, r) } }
    <2>2. r.pass = c.pass /\ pc[t] = "read" BY DEF Latest, ReadToEnd
    <2>3. OwnUpdates(t, W, 0, "as_read", to, ENDED_BY_OWNER)
      BY <2>2 DEF EndsWith, OwnUpdates
    <2>4. WillWrite(t, W) BY <2>1
    <2> HIDE DEF W, to
    <2> QED BY <2>2, <2>3, <2>4, ItsOwnRowsLeave
  <1> QED BY <1>1, <1>2

LEMMA ReadTheStayLeaves ==
    ASSUME RaceInv, TakeInv, NEW t \in Txs, ReadTheStay(t) PROVE TakeInv'
  <1>1. CASE Rollback(t) BY <1>1, RollbackLeaves
  <1>2. CASE ~Rollback(t)
    <2> DEFINE c == call[t]
               to == [r \in View(t) |-> Greatest(c.to, r.from)]
               W == { Update(0, "by_id", r, Greatest(c.to, r.from), ENDED_BY_CHECKOUT)
                        : r \in { q \in View(t) : InForceFrom(q, c.pass, c.to) } }
    <2>1. WillWrite(t, W) /\ pc[t] = "read" BY <1>2 DEF ReadTheStay
    <2>2. OwnUpdates(t, W, 0, "by_id", to, ENDED_BY_CHECKOUT)
      BY DEF InForceFrom, OwnUpdates
    <2> HIDE DEF W, to
    <2> QED BY <2>1, <2>2, ItsOwnRowsLeave
  <1> QED BY <1>1, <1>2

LEMMA ReadToRevokeLeaves ==
    ASSUME RaceInv, TakeInv, NEW t \in Txs, ReadToRevoke(t) PROVE TakeInv'
  <1> DEFINE c == call[t]
             to == [r \in View(t) |-> RevocationDay(c, r)]
             W == { Update(1, "if_later", r, RevocationDay(c, r), ENDED_BY_REVOCATION)
                      : r \in { q \in View(t) : q.pass = c.pass } }
  <1>1. WillWrite(t, W) /\ pc[t] = "read" BY DEF ReadToRevoke
  <1>2. OwnUpdates(t, W, 1, "if_later", to, ENDED_BY_REVOCATION)
    BY DEF OwnUpdates
  <1> HIDE DEF W, to
  <1> QED BY <1>1, <1>2, ItsOwnRowsLeave

LEMMA ReadToHoldLeaves ==
    ASSUME RaceInv, TakeInv, NEW t \in Txs, ReadToHold(t) PROVE TakeInv'
  <1>1. pc[t] = "read" BY HeldRead
  <1>2. PICK Q : /\ Moves(t, call[t], Q, "write", mine[t], written)
                 /\ PlanTyped(Q) /\ Q.seen = {} /\ Q.todo = {} /\ Q.leg = <<1, 1>>
                 /\ \A r \in Q.own : r \in View(t) /\ r.pass = call[t].pass
    BY HeldRead
  <1>3. mine[t] = {} BY <1>1 DEF RaceInv, Quiet
  <1>4. UniqueIds(Q.own) BY <1>2, ViewHasOneVersion DEF UniqueIds
  <1>5. \A d \in Q.gaps : Q.leg[1] <= d
    BY <1>2, MaxDayAssumption DEF PlanTyped, Day
  <1>6. Apart(call[t], Q, mine[t], "write") BY <1>2, <1>3, <1>4, <1>5 DEF Apart, UniqueIds
  <1>7. \A b \in Q.own : OldOrNew(t, b) BY <1>2, InHandIsOld
  <1>8. Leaves(t, call[t], Q, "write", mine[t])
    BY <1>1, <1>2, <1>6, <1>7, AReaderLeaves
  <1> QED BY <1>2, <1>8, AStepLeaves

LEMMA FillTheGapLeaves ==
    ASSUME RaceInv, TakeInv, NEW t \in Txs, FillTheGap(t) PROVE TakeInv'
  <1> DEFINE c == call[t]
             p == plan[t]
  <1>1. c \in Calls /\ pc[t] = "write" /\ p.todo = {} BY GapBegun
  <1>2. Apart(c, p, mine[t], "write") /\ PlanTyped(p) /\ mine[t] \subseteq Row
    BY <1>1 DEF TakeInv, OneWrite, RaceInv, Typed
  <1>3. PICK d, Q, to :
          /\ d \in p.gaps
          /\ Moves(t, c, Q, to, mine[t], written)
          /\ PlanTyped(Q) /\ Q.own = p.own /\ Q.gaps = p.gaps \ {d}
          /\ \A e \in p.gaps : d <= e
          /\ \/ to = "write" /\ RunOnPlanned(c, p, Q)
             \/ to = "holders" /\ Q.leg[1] = d /\ Q.todo = {} /\ Q.seen = {}
    BY GapBegun
  <1>4. d \in Int /\ p.leg[1] \in Int /\ p.leg[1] <= d /\ \A r \in Row : r.to \in Int
    BY <1>2, <1>3, RowFields DEF PlanTyped, Day, Apart
  <1>5. CASE to = "holders" /\ Q.leg[1] = d /\ Q.todo = {} /\ Q.seen = {}
    <2>1. \A s \in mine[t] : Foreign(c, s) => OverBy(s, d)
      BY <1>2, <1>4 DEF Apart, OverBy
    <2>2. Apart(c, Q, mine[t], to)
      BY <1>2, <1>3, <1>5, <2>1 DEF Apart, UniqueIds
    <2>3. Leaves(t, c, Q, to, mine[t])
      BY <1>1, <1>3, <1>5, <2>2, InHandIsOld, AReaderLeaves
    <2> QED BY <1>3, <2>3, AStepLeaves
  <1>6. CASE to = "write" /\ RunOnPlanned(c, p, Q)
    <2>1. PICK stop : \A w \in Q.todo :
                  /\ w.kind = "as_read" /\ w.row.pass = c.pass
                  /\ \E r \in p.own : /\ w = Update(0, "as_read", r, stop, r.why)
                                      /\ Like(w.row, r)
      BY <1>6 DEF RunOnPlanned
    <2>2. ASSUME NEW w \in Q.todo, NEW v \in Q.todo, SameRow(w.row, v.row) PROVE w = v
      <3>1. PICK r \in p.own : w = Update(0, "as_read", r, stop, r.why) /\ Like(w.row, r) BY <2>1
      <3>2. PICK s \in p.own : v = Update(0, "as_read", s, stop, s.why) /\ Like(v.row, s) BY <2>1
      <3>3. SameRow(r, s) BY <2>2, <3>1, <3>2 DEF Like, SameRow
      <3>4. r = s BY <1>2, <3>3 DEF Apart, UniqueIds
      <3> QED BY <3>1, <3>2, <3>4
    <2>3. Apart(c, Q, mine[t], to)
      BY <1>2, <1>3, <1>6, <2>1, <2>2 DEF Apart, Foreign, RunOnPlanned
    <2>4. \A w \in Q.todo : OldOrNew(t, w.row)
      BY <2>1, InHandIsOld DEF Like, SameRow
    <2>5. \A b \in Q.seen \cup Q.own \cup { w.row : w \in Q.todo } : OldOrNew(t, b)
      BY <1>3, <1>6, <2>4, InHandIsOld DEF RunOnPlanned
    <2>6. \A w \in Q.todo : w.kind # "put" BY <2>1
    <2>7. Leaves(t, c, Q, to, mine[t])
      BY <1>1, <2>3, <2>5, <2>6, AReaderLeaves
    <2> QED BY <1>3, <2>7, AStepLeaves
  <1> QED BY <1>3, <1>5, <1>6

LEMMA ReadHoldersLeaves ==
    ASSUME RaceInv, TakeInv, NEW t \in Txs, ReadHolders(t) PROVE TakeInv'
  <1> DEFINE c == call[t]
             p == plan[t]
  <1>1. c \in Calls /\ pc[t] = "holders" BY HoldersRead
  <1>2. /\ Apart(c, p, mine[t], "holders") /\ PlanTyped(p) /\ MayPlan(c, p, "holders")
        /\ mine[t] \subseteq Row
    BY <1>1 DEF TakeInv, OneWrite, RaceInv, Typed, Intents
  <1>3. PICK g, Q :
          /\ g \in p.unread
          /\ Moves(t, c, Q, "holders", mine[t], written)
          /\ Q.own = p.own /\ Q.gaps = p.gaps /\ Q.todo = p.todo
          /\ Q.leg = p.leg /\ Q.unread = p.unread \ {g}
          /\ Q.seen = p.seen \cup
               { r \in Holders(View(t), c.pass, c.car, p.leg[1], p.leg[2]) : r.garage = g }
    BY HoldersRead
  <1>4. \A r \in Q.seen : r \in p.seen \/ (r \in View(t) /\ r.garage = g
                                           /\ r.from < r.to /\ p.leg[1] < r.to /\ r \in Row)
    BY <1>3, WhatIsSeen DEF Holders, Overlaps
  <1>5. UniqueIds(Q.seen)
    <2> SUFFICES ASSUME NEW a \in Q.seen, NEW b \in Q.seen, SameRow(a, b) PROVE a = b
      BY DEF UniqueIds
    <2>1. CASE a \in p.seen /\ b \in p.seen BY <1>2, <2>1 DEF Apart, UniqueIds
    <2>2. CASE a \in View(t) /\ b \in View(t) BY <2>2, ViewHasOneVersion DEF UniqueIds
    <2>3. ~(a \in p.seen /\ b.garage = g) /\ ~(b \in p.seen /\ a.garage = g)
      BY <1>2, <1>3 DEF Apart, SameRow
    <2> QED BY <1>4, <2>1, <2>2, <2>3
  <1>6. ASSUME NEW r \in Q.seen, NEW s \in mine[t], Foreign(c, s) PROVE ~SameRow(r, s)
    <2>1. CASE r \in p.seen BY <1>2, <1>6, <2>1 DEF Apart
    <2>2. CASE r \in View(t) /\ r.from < r.to /\ p.leg[1] < r.to /\ r \in Row
      <3>1. OverBy(s, p.leg[1]) BY <1>2, <1>6 DEF Apart
      <3>2. r # s
        <4>1. p.leg[1] \in Int /\ r.from \in Int /\ r.to \in Int
          BY <1>2, <2>2, RowFields DEF PlanTyped, Day
        <4> QED BY <2>2, <3>1, <4>1 DEF OverBy
      <3>3. s \in View(t) BY DEF View
      <3> QED BY <2>2, <3>2, <3>3, ViewHasOneVersion DEF UniqueIds
    <2> QED BY <1>4, <2>1, <2>2
  <1>7. \A r \in Q.seen : r.garage \notin Q.unread
    BY <1>2, <1>3, <1>4 DEF Apart
  <1>8. p.todo = {} BY <1>2 DEF MayPlan
  <1>9. Apart(c, Q, mine[t], "holders")
    BY <1>2, <1>3, <1>5, <1>6, <1>7 DEF Apart
  <1>10. \A b \in Q.seen \cup Q.own : OldOrNew(t, b)
    BY <1>3, <1>4, InHandIsOld
  <1>11. Leaves(t, c, Q, "holders", mine[t])
    BY <1>1, <1>3, <1>8, <1>9, <1>10, AReaderLeaves
  <1> QED BY <1>3, <1>11, AStepLeaves

(* What the judgement of the holders is to write: a holder turned over or  *)
(* released once, and one new row per garage.                              *)
LEMMA JudgeHoldersLeaves ==
    ASSUME RaceInv, TakeInv, NEW t \in Txs, JudgeHolders(t) PROVE TakeInv'
  <1>1. CASE Rollback(t) BY <1>1, RollbackLeaves
  <1>2. CASE ~Rollback(t)
    <2> DEFINE c == call[t]
               p == plan[t]
               f == p.leg[1]
               why == IF c.verb = "hold" THEN ENDED_AFTER_LAST_DAY ELSE c.why
               N == NewRows(written, c.pass, c.car, f, p.leg[2], why)
    <2>1. pc[t] = "holders" /\ p.todo = {} BY <1>2, Judged
    <2>2. PICK Q : /\ Moves(t, c, Q, "write", mine[t], written + 1)
                   /\ Q.own = p.own /\ Q.gaps = p.gaps /\ Q.leg = p.leg /\ Q.seen = {}
                   /\ \A w \in Q.todo :
                        \/ /\ \E r \in p.seen : w = GiveWay(r, f) /\ Like(w.row, r)
                           /\ w.kind # "put" /\ OverBy(w.row, f)
                        \/ /\ \E r \in N : w = Put(r)
                           /\ w.kind = "put" /\ w.row.reg = written /\ w.row.pass = c.pass
      BY <1>2, Judged DEF OverBy
    <2>3. Apart(c, p, mine[t], "holders") BY <2>1 DEF TakeInv, OneWrite
    <2>4. \A a : IsKnown(a) => a.reg # written
      <3>1. \A a : IsKnown(a) => a.reg \in Nat /\ a.reg < written /\ written \in Nat
        BY KnownAreRows, RowFields DEF RaceInv, Kin, Typed
      <3> QED BY <3>1
    <2>5. \A r \in p.seen \cup p.own \cup mine[t] : IsKnown(r) BY DEF IsKnown, Known
    <2>6. \A r, s \in N : r.garage = s.garage => r = s BY DEF NewRows
    <2>7. \A r \in N : Put(r).row = r BY DEF Put
    <2> HIDE DEF N, f
    <2>8. ASSUME NEW w \in Q.todo, NEW v \in Q.todo, SameRow(w.row, v.row) PROVE w = v
      <3>1. CASE w.kind = "put" /\ v.kind = "put"
        <4>1. PICK r \in N : w = Put(r) BY <2>2, <3>1
        <4>2. PICK s \in N : v = Put(s) BY <2>2, <3>1
        <4>3. r.garage = s.garage BY <2>7, <2>8, <4>1, <4>2 DEF SameRow
        <4> QED BY <2>6, <4>1, <4>2, <4>3
      <3>2. CASE w.kind # "put" /\ v.kind # "put"
        <4>1. PICK r \in p.seen : w = GiveWay(r, f) /\ Like(w.row, r) BY <2>2, <3>2
        <4>2. PICK s \in p.seen : v = GiveWay(s, f) /\ Like(v.row, s) BY <2>2, <3>2
        <4>3. SameRow(r, s) BY <2>8, <4>1, <4>2 DEF Like, SameRow
        <4>4. r = s BY <2>3, <4>3 DEF Apart, UniqueIds
        <4> QED BY <4>1, <4>2, <4>4
      <3>3. \A x \in Q.todo : x.kind # "put" => x.row.reg # written
        BY <2>2, <2>4, <2>5 DEF Like, SameRow
      <3>4. \A x \in Q.todo : x.kind = "put" => x.row.reg = written BY <2>2
      <3> QED BY <2>8, <3>1, <3>2, <3>3, <3>4 DEF SameRow
    <2>9. ASSUME NEW w \in Q.todo, Foreign(c, w.row), NEW s \in mine[t] PROVE ~SameRow(w.row, s)
      <3>1. PICK r \in p.seen : Like(w.row, r) BY <2>2, <2>9 DEF Foreign
      <3>2. SUFFICES ASSUME SameRow(w.row, s) PROVE FALSE OBVIOUS
      <3>3. SameRow(r, s) BY <3>1, <3>2 DEF Like, SameRow
      <3>4. Like(r, s) BY <2>5, <3>3 DEF RaceInv, Kin
      <3>5. Foreign(c, s) BY <2>9, <3>1, <3>4 DEF Foreign, Like
      <3> QED BY <2>3, <3>3, <3>5 DEF Apart
    <2>10. \A w \in Q.todo : Foreign(c, w.row) => OverBy(w.row, Q.leg[1])
      BY <2>2 DEF Foreign, f
    <2>11. Apart(c, Q, mine[t], "write")
      BY <2>2, <2>3, <2>8, <2>9, <2>10 DEF Apart, UniqueIds
    <2>12. PutsAreNew(t, Q, mine[t])
      <3> SUFFICES ASSUME NEW w \in Q.todo, w.kind = "put", NEW a,
                          \/ a \in regs \cup mine[t] \cup Q.seen \cup Q.own
                          \/ \E u \in Txs \ {t} : a \in Known(u)
                          \/ \E v \in Q.todo \ {w} : a = v.row
                   PROVE  ~SameRow(w.row, a)
        BY DEF PutsAreNew
      <3>1. CASE \E v \in Q.todo \ {w} : a = v.row BY <2>8, <3>1
      <3>2. CASE IsKnown(a)
        <4>1. w.row.reg = written BY <2>2
        <4> QED BY <2>4, <3>2, <4>1 DEF SameRow
      <3>3. IsKnown(a) \/ \E v \in Q.todo \ {w} : a = v.row
        BY <2>2, <2>5 DEF IsKnown
      <3> QED BY <3>1, <3>2, <3>3
    <2>13. \A b \in InHand(Q, mine[t]) : OldOrNew(t, b)
      <3>1. \A b \in mine[t] \cup p.own : OldOrNew(t, b) BY InHandIsOld
      <3>2. ASSUME NEW w \in Q.todo PROVE OldOrNew(t, w.row)
        <4>1. CASE w.row.reg = written BY <4>1 DEF OldOrNew
        <4>2. CASE \E r \in p.seen : Like(w.row, r)
          BY <4>2, InHandIsOld DEF Like, SameRow
        <4> QED BY <2>2, <4>1, <4>2
      <3> QED BY <2>2, <3>1, <3>2 DEF InHand
    <2>14. ApartFromOthers(t, mine[t]) /\ TakesLastDays(c, mine[t])
      BY DEF TakeInv, MineApart, ApartFromOthers, Taken, TakesLastDays
    <2>15. Leaves(t, c, Q, "write", mine[t])
      BY <2>11, <2>12, <2>13, <2>14 DEF Leaves
    <2> QED BY <2>2, <2>15, AStepLeaves
  <1> QED BY <1>1, <1>2

(* A step that goes on with what is planned.                               *)
LEMMA AWriterLeaves ==
    ASSUME RaceInv, TakeInv, NEW t \in Txs, pc[t] \in {"write", "check"}, NEW P,
           P.todo \subseteq plan[t].todo, P.own = plan[t].own, P.seen = plan[t].seen,
           P.gaps = plan[t].gaps, P.leg = plan[t].leg
    PROVE  Leaves(t, call[t], P, "write", mine[t])
  <1>1. Apart(call[t], plan[t], mine[t], pc[t]) /\ pc[t] # "holders" BY DEF TakeInv, OneWrite
  <1>2. Apart(call[t], P, mine[t], "write") BY <1>1 DEF Apart
  <1>3. ApartFromOthers(t, mine[t]) /\ TakesLastDays(call[t], mine[t])
    BY DEF TakeInv, MineApart, ApartFromOthers, Taken, TakesLastDays
  <1>4. \A b \in InHand(P, mine[t]) : OldOrNew(t, b) BY InHandIsOld DEF InHand
  <1>5. PutsAreNew(t, P, mine[t])
    <2> SUFFICES ASSUME NEW w \in P.todo, w.kind = "put", NEW a,
                        \/ a \in regs \cup mine[t] \cup P.seen \cup P.own
                        \/ \E u \in Txs \ {t} : a \in Known(u)
                        \/ \E v \in P.todo \ {w} : a = v.row
                 PROVE  ~SameRow(w.row, a)
      BY DEF PutsAreNew
    <2>1. w \in plan[t].todo OBVIOUS
    <2>2. \A b : Others(t, w, b) => ~SameRow(w.row, b) BY <2>1 DEF TakeInv, FreshPuts
    <2>3. Others(t, w, a) BY DEF Others, Known
    <2> QED BY <2>2, <2>3
  <1> QED BY <1>2, <1>3, <1>4, <1>5 DEF Leaves

LEMMA SettleLeaves ==
    ASSUME RaceInv, TakeInv, NEW t \in Txs, Settle(t) PROVE TakeInv'
  <1>1. Moves(t, call[t], plan[t], "write", mine[t], written) /\ pc[t] = "check"
    BY DEF Settle, Go, Moves, RaceInv, Typed
  <1>2. Leaves(t, call[t], plan[t], "write", mine[t]) BY <1>1, AWriterLeaves
  <1> QED BY <1>1, <1>2, AStepLeaves

(* A write that matched takes of the row it matched no more than that      *)
(* row's last day, or days past its pass's.                                *)
LEMMA ATrimTakesTheLastDay ==
    ASSUME NEW w \in Write, NEW cur \in Row, NEW r \in Row, Trims(w), Matches(w, cur),
           Like(cur, w.row), Like(r, w.row), r.to = w.row.to
    PROVE  TakesTheLastDay(cur, r)
  <1>1. cur.pass = w.row.pass /\ r.from = cur.from BY DEF Like
  <1>2. /\ cur.from \in Int /\ cur.to \in Int /\ r.to \in Int /\ ValidTo[cur.pass] \in Int
        /\ Forever \in Int
    <2>1. cur.pass \in Passes /\ ValidTo[cur.pass] \in Day \cup {Forever}
      BY RowFields, PassAssumption
    <2> QED BY <2>1, RowFields, MaxDayAssumption DEF Day, Forever
  <1> SUFFICES ASSUME NEW d \in Day, Covers(cur, d), ~Covers(r, d)
               PROVE  d > ValidTo[cur.pass] \/ d = LastDayOf(cur)
    BY DEF TakesTheLastDay
  <1>3. d \in Int /\ d < cur.to /\ r.to <= d
    BY <1>1, <1>2, MaxDayAssumption DEF Day, Covers
  <1>4. CASE w.kind = "as_read"
    <2>1. cur.to = w.was BY <1>4 DEF Matches
    <2>2. LastDayIs(cur.pass, cur.to) <= r.to BY <1>1, <1>4, <2>1 DEF Trims
    <2>3. CASE cur.to = Forever BY <1>2, <1>3, <2>2, <2>3 DEF LastDayIs, LastDayOf
    <2>4. CASE cur.to # Forever BY <1>2, <1>3, <2>2, <2>4 DEF LastDayIs, LastDayOf
    <2> QED BY <2>3, <2>4
  <1>5. CASE w.kind = "if_open"
    <2>1. ValidTo[cur.pass] < r.to BY <1>1, <1>5 DEF Trims
    <2> QED BY <1>2, <1>3, <2>1
  <1> QED BY <1>4, <1>5 DEF Trims

(* A version placed: nobody else's row, and of another pass's row the      *)
(* first version this call writes.                                         *)
LEMMA PlacingLeaves ==
    ASSUME RaceInv, TakeInv, NEW t \in Txs, pc[t] = "write", NEW w \in plan[t].todo,
           NEW r, Like(r, w.row), r.to = w.row.to, Place(t, w, r),
           \A u \in Txs \ {t} : \A a \in mine[u] : ~SameRow(w.row, a),
           Foreign(call[t], w.row) => \A s \in regs : SameRow(s, r) => TakesTheLastDay(s, r)
    PROVE  TakeInv'
  <1> DEFINE c == call[t]
             p == plan[t]
             m == Versions(t, r)
  <1>1. PICK Q : /\ Moves(t, c, Q, "check", m, written)
                 /\ Q.todo = p.todo \ {w} /\ Q.own = p.own /\ Q.seen = p.seen
                 /\ Q.gaps = p.gaps /\ Q.leg = p.leg
    BY PlacingMoves
  <1>2. Apart(c, p, mine[t], "write") BY DEF TakeInv, OneWrite
  <1>3. \A s \in m : s \in mine[t] \/ s = r BY DEF Versions
  <1>4. SameRow(r, w.row) /\ SameRow(w.row, r) /\ (Foreign(c, r) <=> Foreign(c, w.row))
        /\ \A n : OverBy(w.row, n) => OverBy(r, n)
    BY DEF Like, SameRow, Foreign, OverBy
  <1> HIDE DEF m
  <1>5. \A b \in InHand(Q, m) : OldOrNew(t, b)
    <2>1. OldOrNew(t, r) BY <1>4, InHandIsOld
    <2> QED BY <1>1, <1>3, <2>1, InHandIsOld DEF InHand
  <1>6. PutsAreNew(t, Q, m)
    <2> SUFFICES ASSUME NEW v \in Q.todo, v.kind = "put", NEW a,
                        \/ a \in regs \cup m \cup Q.seen \cup Q.own
                        \/ \E u \in Txs \ {t} : a \in Known(u)
                        \/ \E x \in Q.todo \ {v} : a = x.row
                 PROVE  ~SameRow(v.row, a)
      BY DEF PutsAreNew
    <2>1. v \in p.todo /\ v # w BY <1>1
    <2>2. \A b : Others(t, v, b) => ~SameRow(v.row, b) BY <2>1 DEF TakeInv, FreshPuts
    <2>3. CASE a = r
      <3>1. Others(t, v, w.row) BY <2>1 DEF Others
      <3> QED BY <1>4, <2>2, <2>3, <3>1 DEF SameRow
    <2>4. CASE a # r
      <3>1. Others(t, v, a) BY <1>1, <1>3, <2>4 DEF Others, Known
      <3> QED BY <2>2, <3>1
    <2> QED BY <2>3, <2>4
  <1>7. ApartFromOthers(t, m)
    <2>1. \A u \in Txs \ {t} : \A a \in mine[u] : ~SameRow(r, a) BY <1>4 DEF SameRow
    <2> QED BY <1>3, <2>1 DEF TakeInv, MineApart, ApartFromOthers
  <1>8. TakesLastDays(c, m)
    BY <1>3, <1>4 DEF TakeInv, Taken, TakesLastDays
  <1>9. ASSUME NEW v \in Q.todo, Foreign(c, v.row), NEW s \in m PROVE ~SameRow(v.row, s)
    <2>1. CASE s \in mine[t] BY <1>1, <1>2, <1>9, <2>1 DEF Apart
    <2>2. CASE s = r
      <3>1. v \in p.todo /\ v # w BY <1>1
      <3>2. ~SameRow(v.row, w.row) BY <1>2, <3>1 DEF Apart
      <3> QED BY <1>4, <2>2, <3>2 DEF SameRow
    <2> QED BY <1>3, <2>1, <2>2
  <1>10. \A s \in m : Foreign(c, s) => OverBy(s, p.leg[1])
    BY <1>2, <1>3, <1>4 DEF Apart
  <1>11. Apart(c, Q, m, "check")
    BY <1>1, <1>2, <1>9, <1>10 DEF Apart
  <1>12. Leaves(t, c, Q, "check", m)
    BY <1>5, <1>6, <1>7, <1>8, <1>11 DEF Leaves
  <1> QED BY <1>1, <1>12, AStepLeaves

LEMMA WriteRowLeaves ==
    ASSUME RaceInv, TakeInv, NEW t \in Txs, WriteRow(t) PROVE TakeInv'
  <1>1. CASE Rollback(t) BY <1>1, RollbackLeaves
  <1>2. CASE ~Rollback(t)
    <2> DEFINE c == call[t]
               p == plan[t]
    <2>1. pc[t] = "write" /\ MayPlan(c, p, "write") BY <1>2, Writing DEF RaceInv, Intents
    <2>2. PICK w \in p.todo :
                \/ w.kind = "put" /\ Place(t, w, w.row)
                \/ /\ w.kind # "put" /\ \A u \in Txs \ {t} : ~HasWritten(u, w.row)
                   /\ \E cur \in View(t) :
                        /\ Like(cur, w.row)
                        /\ \/ /\ Matches(w, cur)
                              /\ \E r \in Row : /\ Like(r, w.row) /\ r.to = w.row.to
                                                /\ Place(t, w, r)
                           \/ \E Q : /\ Moves(t, c, Q, "write", mine[t], written)
                                     /\ Q.todo = p.todo \ {w} /\ Q.own = p.own
                                     /\ Q.seen = p.seen /\ Q.gaps = p.gaps /\ Q.leg = p.leg
      BY <1>2, Writing
    <2>3. w \in Write BY DEF RaceInv, Typed, PlanTyped
    <2>4. CASE w.kind = "put" /\ Place(t, w, w.row)
      <3>1. \A a : Others(t, w, a) => ~SameRow(w.row, a) BY <2>4 DEF TakeInv, FreshPuts
      <3>2. \A u \in Txs \ {t} : \A a \in mine[u] : ~SameRow(w.row, a)
        BY <3>1 DEF Others
      <3>3. ~Foreign(c, w.row) BY <2>1, <2>4 DEF MayPlan, Foreign
      <3> QED BY <2>1, <2>4, <3>2, <3>3, LikeIsEquivalence, PlacingLeaves
    <2>5. ASSUME w.kind # "put", \A u \in Txs \ {t} : ~HasWritten(u, w.row),
                 NEW cur \in View(t), Like(cur, w.row), Matches(w, cur),
                 NEW r \in Row, Like(r, w.row), r.to = w.row.to, Place(t, w, r)
          PROVE  TakeInv'
      <3>1. \A u \in Txs \ {t} : \A a \in mine[u] : ~SameRow(w.row, a)
        BY <2>5 DEF HasWritten, SameRow
      <3>2. ASSUME Foreign(c, w.row), NEW s \in regs, SameRow(s, r) PROVE TakesTheLastDay(s, r)
        <4>1. \A a \in mine[t] : ~SameRow(w.row, a)
          BY <2>1, <3>2 DEF TakeInv, OneWrite, Apart
        <4>2. cur \in regs BY <2>5, <4>1 DEF View, Like, SameRow
        <4>3. SameRow(s, cur) BY <2>5, <3>2 DEF Like, SameRow
        <4>4. s = cur BY <4>2, <4>3 DEF RaceInv, Identified, UniqueIds
        <4>5. Trims(w) BY <2>1, <3>2 DEF MayPlan, Foreign
        <4>6. cur \in Row BY WhatIsSeen
        <4> QED BY <2>3, <2>5, <4>4, <4>5, <4>6, ATrimTakesTheLastDay
      <3> QED BY <2>1, <2>5, <3>1, <3>2, PlacingLeaves
    <2>6. ASSUME NEW Q, Moves(t, c, Q, "write", mine[t], written),
                 Q.todo = p.todo \ {w}, Q.own = p.own, Q.seen = p.seen, Q.gaps = p.gaps,
                 Q.leg = p.leg
          PROVE  TakeInv'
      <3>1. Leaves(t, c, Q, "write", mine[t]) BY <2>1, <2>6, AWriterLeaves
      <3> QED BY <2>6, <3>1, AStepLeaves
    <2> QED BY <2>2, <2>4, <2>5, <2>6
  <1> QED BY <1>1, <1>2

LEMMA CommitLeaves ==
    ASSUME RaceInv, TakeInv, NEW t \in Txs, Commit(t) PROVE TakeInv'
  <1>1. /\ regs' = View(t)
        /\ \A u \in Txs : /\ call'[u] = IF u = t THEN NoCall ELSE call[u]
                          /\ plan'[u] = IF u = t THEN NoPlan ELSE plan[u]
                          /\ pc'[u] = IF u = t THEN "idle" ELSE pc[u]
                          /\ mine'[u] = IF u = t THEN {} ELSE mine[u]
    BY DEF Commit, Closed, Go, Plans, RaceInv, Typed
  <1>2. \A r \in View(t) : r \in regs \/ r \in mine[t] BY DEF View
  <1>3. FreshPuts'
    <2> SUFFICES ASSUME NEW u \in Txs, NEW w \in plan'[u].todo, w.kind = "put",
                        NEW a, Others(u, w, a)'
                 PROVE  ~SameRow(w.row, a)
      BY DEF FreshPuts, SameRow
    <2>1. u # t /\ w \in plan[u].todo BY <1>1, NoPlanFields
    <2>2. \A b : Others(u, w, b) => ~SameRow(w.row, b) BY <2>1 DEF TakeInv, FreshPuts
    <2>3. \/ a \in regs'
          \/ \E x \in Txs : \/ a \in mine'[x] \cup plan'[x].seen \cup plan'[x].own
                            \/ \E v \in plan'[x].todo : a = v.row /\ ~(x = u /\ v = w)
      BY DEF Others
    <2>4. Others(u, w, a) BY <1>1, <1>2, <2>3, NoPlanFields DEF Others
    <2> QED BY <2>2, <2>4
  <1>4. MineApart' BY <1>1 DEF TakeInv, MineApart, SameRow
  <1>5. OneWrite'
    <2>1. \A u \in Txs : pc'[u] # "idle" => Apart(call'[u], plan'[u], mine'[u], pc'[u])
      BY <1>1 DEF TakeInv, OneWrite
    <2> QED BY <2>1 DEF OneWrite, Apart, UniqueIds, SameRow, Foreign, OverBy
  <1>6. Taken'
    <2> SUFFICES ASSUME NEW u \in Txs, NEW s \in mine'[u], NEW r \in regs', SameRow(r, s),
                        Foreign(call'[u], s)
                 PROVE  TakesTheLastDay(r, s)
      BY DEF Taken, SameRow, Foreign, TakesTheLastDay, Covers, LastDayOf
    <2>1. u # t /\ s \in mine[u] /\ call'[u] = call[u] BY <1>1
    <2>2. r \notin mine[t] BY <2>1 DEF TakeInv, MineApart
    <2> QED BY <1>1, <1>2, <2>1, <2>2 DEF TakeInv, Taken
  <1> QED BY <1>3, <1>4, <1>5, <1>6 DEF TakeInv

LEMMA InitTakeInv == Init => TakeInv
  <1> SUFFICES ASSUME Init PROVE TakeInv OBVIOUS
  <1>1. \A t \in Txs : plan[t] = NoPlan /\ mine[t] = {} /\ pc[t] = "idle" BY DEF Init
  <1> QED BY <1>1, NoPlanFields DEF TakeInv, FreshPuts, MineApart, OneWrite, Taken

LEMMA NextKeepsTakeInv == RaceInv /\ TakeInv /\ [Next]_vars => TakeInv'
  <1> SUFFICES ASSUME RaceInv, TakeInv, [Next]_vars PROVE TakeInv' OBVIOUS
  <1>1. CASE UNCHANGED vars
    <2>1. FreshPuts' BY <1>1 DEF TakeInv, FreshPuts, Others, vars, SameRow
    <2>2. MineApart' /\ Taken'
      BY <1>1 DEF TakeInv, MineApart, Taken, vars, SameRow, Foreign, TakesTheLastDay, Covers,
                  LastDayOf
    <2>3. OneWrite'
      BY <1>1 DEF TakeInv, OneWrite, Apart, UniqueIds, SameRow, Foreign, OverBy, vars
    <2> QED BY <2>1, <2>2, <2>3 DEF TakeInv
  <1>2. ASSUME NEW t \in Txs, ExclusionViolation(t) \/ DeadlockDetected(t) \/ Lost(t)
        PROVE  TakeInv'
    BY <1>2, RollbackLeaves DEF ExclusionViolation, DeadlockDetected, Lost
  <1> QED BY <1>1, <1>2, BeginLeaves, LockPassLeaves, ReadToEndLeaves, ReadTheStayLeaves,
       ReadToRevokeLeaves, ReadToHoldLeaves, FillTheGapLeaves, ReadHoldersLeaves,
       JudgeHoldersLeaves, WriteRowLeaves, SettleLeaves, CommitLeaves DEF Next, Statement

LEMMA ACommitTakesTheLastDay ==
    ASSUME RaceInv, TakeInv, NEW t \in Txs, Commit(t), NEW r \in regs, NEW s \in regs',
           r.pass # call[t].pass, SameRow(r, s)
    PROVE  TakesTheLastDay(r, s)
  <1>1. s \in View(t) BY DEF Commit
  <1>2. CASE s \in regs
    <2>1. r = s BY <1>2 DEF RaceInv, Identified, UniqueIds
    <2> QED BY <2>1 DEF TakesTheLastDay
  <1>3. CASE s \in mine[t]
    <2>1. IsKnown(r) /\ IsKnown(s) BY <1>3 DEF IsKnown, Known
    <2>2. Like(r, s) BY <2>1 DEF RaceInv, Kin
    <2>3. Foreign(call[t], s) BY <2>2 DEF Foreign, Like
    <2> QED BY <1>3, <2>3 DEF TakeInv, Taken
  <1> QED BY <1>1, <1>2, <1>3 DEF View

(* No commit cuts another pass's registration back over a day but its last *)
(* one or one past its pass's valid_to, as the registration stands when    *)
(* the commit comes and not as some statement read it.                     *)
THEOREM RacesTakeTheLastDayOnly == Spec => OnlyTheLastDayTurnsOver
  <1>1. RaceInv /\ TakeInv /\ [Next]_vars => [OnlyTheLastDayTurnsOverStep]_vars
    <2> SUFFICES ASSUME RaceInv, TakeInv PROVE OnlyTheLastDayTurnsOverStep OBVIOUS
    <2> QED BY ACommitTakesTheLastDay DEF OnlyTheLastDayTurnsOverStep, TakesTheLastDay
  <1>2. Init => RaceInv /\ TakeInv BY InitRaceInv, InitTakeInv
  <1>3. RaceInv /\ TakeInv /\ [Next]_vars => (RaceInv /\ TakeInv)'
    BY NextKeepsRaceInv, NextKeepsTakeInv
  <1> QED BY <1>1, <1>2, <1>3, PTL DEF Spec, OnlyTheLastDayTurnsOver

-----------------------------------------------------------------------------
(* What a hold reports.                                                    *)
(*                                                                         *)
(* From the moment it has read what its pass holds, every day a hold had   *)
(* to fill is in a gap it has still to begin, in the range whose holders   *)
(* it is reading, or at every garage in a row it has written or is to      *)
(* write (Served): a run-on that finds its row moved rolls back, and       *)
(* nothing it writes takes a day from its own pass (Extends).              *)

(* A step of t, as the others see it.                                      *)
StepsOf(t, c, P, to, m) ==
    \A u \in Txs : /\ call'[u] = IF u = t THEN c ELSE call[u]
                   /\ plan'[u] = IF u = t THEN P ELSE plan[u]
                   /\ pc'[u] = IF u = t THEN to ELSE pc[u]
                   /\ mine'[u] = IF u = t THEN m ELSE mine[u]

Holds(c, r, g, d) == r.garage = g /\ r.pass = c.pass /\ r.car = c.car /\ Covers(r, d)
StillAGap(c, P, d) == \E e \in P.gaps : e <= d /\ d < GapEnd(P.own, c.pass, e, c.to)
BeingRead(P, at, d) == at = "holders" /\ P.leg[1] <= d /\ d < P.leg[2]
Written(c, P, m, d) ==
    \A g \in GaragesOf[c.pass] : \/ \E r \in m : Holds(c, r, g, d)
                                 \/ \E w \in P.todo : Holds(c, w.row, g, d)

(* A write on a row of the holding pass: it takes no day from it.          *)
Extends(w) == w.kind = "put" \/ (w.kind = "as_read" /\ w.was <= w.row.to)

Served(c, P, m, at) ==
    /\ \A r \in P.own : r.car = c.car
    /\ \A w \in P.todo : w.row.pass = c.pass => Extends(w)
    /\ at = "holders" => P.leg[1] < c.to
    /\ \A d \in c.from..(c.to - 1) :
         HeldOn(P.own, c.pass, d) \/ StillAGap(c, P, d) \/ BeingRead(P, at, d) \/ Written(c, P, m, d)

Serving(c, P, m, at) ==
    /\ at \notin {"idle", "lock"} /\ c.verb \in {"register", "hold"} => InTerms(c)
    /\ at \in {"holders", "write", "check"} /\ c.verb = "register" => P.leg = <<c.from, c.to>>
    /\ at \in {"holders", "write", "check"} /\ c.verb = "hold" => Served(c, P, m, at)
HeldInv == \A t \in Txs : Serving(call[t], plan[t], mine[t], pc[t])

LEMMA MovesAreSteps ==
    ASSUME RaceInv, NEW t \in Txs, NEW c, NEW P, NEW to, NEW m, NEW n, Moves(t, c, P, to, m, n)
    PROVE  StepsOf(t, c, P, to, m)
  BY DEF Moves, StepsOf, RaceInv, Typed

LEMMA AStepServes ==
    ASSUME HeldInv, NEW t \in Txs, NEW c, NEW P, NEW to, NEW m,
           StepsOf(t, c, P, to, m), Serving(c, P, m, to)
    PROVE  HeldInv'
  <1>1. \A u \in Txs : Serving(call'[u], plan'[u], mine'[u], pc'[u])
    BY DEF HeldInv, StepsOf
  <1> QED
    BY <1>1 DEF HeldInv, Serving, Served, InTerms, ExpiredOn, Extends, StillAGap, BeingRead,
                Written, Holds, Covers, HeldOn, GapEnd

LEMMA RollbackServes ==
    ASSUME RaceInv, HeldInv, NEW t \in Txs, Rollback(t) PROVE HeldInv'
  <1>1. StepsOf(t, NoCall, NoPlan, "idle", {}) BY RollbackFits, MovesAreSteps
  <1>2. Serving(NoCall, NoPlan, {}, "idle") BY DEF Serving
  <1> QED BY <1>1, <1>2, AStepServes

LEMMA BeginServes ==
    ASSUME RaceInv, HeldInv, NEW t \in Txs, Begin(t) PROVE HeldInv'
  <1>1. PICK c : StepsOf(t, c, plan[t], "lock", mine[t])
    BY DEF Begin, Go, StepsOf, RaceInv, Typed
  <1>2. Serving(c, plan[t], mine[t], "lock") BY DEF Serving
  <1> QED BY <1>1, <1>2, AStepServes

LEMMA LockPassServes ==
    ASSUME RaceInv, HeldInv, NEW t \in Txs, LockPass(t) PROVE HeldInv'
  <1>1. CASE Rollback(t) BY <1>1, RollbackServes
  <1>2. CASE ~Rollback(t)
    <2>1. PICK P, to : /\ Moves(t, call[t], P, to, {}, written)
                       /\ \/ to = "read"
                          \/ /\ to = "holders" /\ call[t].verb = "register"
                             /\ P.leg = <<call[t].from, call[t].to>>
      BY <1>2, Locked
    <2>2. call[t].verb \in {"register", "hold"} => InTerms(call[t]) BY <1>2, Locked
    <2>3. Serving(call[t], P, {}, to) BY <2>1, <2>2 DEF Serving
    <2> QED BY <2>1, <2>3, MovesAreSteps, AStepServes
  <1> QED BY <1>1, <1>2

LEMMA OthersReadServes ==
    ASSUME RaceInv, HeldInv, NEW t \in Txs, call[t].verb \notin {"register", "hold"},
           NEW W, WillWrite(t, W)
    PROVE  HeldInv'
  <1>1. PICK P : StepsOf(t, call[t], P, "write", mine[t])
    BY DEF WillWrite, Go, Plans, StepsOf, RaceInv, Typed
  <1>2. Serving(call[t], P, mine[t], "write") BY DEF Serving
  <1> QED BY <1>1, <1>2, AStepServes

(* A day not held is in a gap: from the last held day before it, or the    *)
(* stay's first, to the next held day, or the stay's last.                 *)
LEMMA EveryDayNotHeldIsInAGap ==
    ASSUME NEW c \in Calls, c.verb = "hold", NEW own, NEW d \in c.from..(c.to - 1),
           ~HeldOn(own, c.pass, d)
    PROVE  \E e \in GapStarts(own, c.pass, c.from, c.to) :
               e <= d /\ d < GapEnd(own, c.pass, e, c.to)
  <1> DEFINE Free(e) == \A x \in e..d : ~HeldOn(own, c.pass, x)
             S == { e \in c.from..d : Free(e) }
  <1>1. c.from \in Day /\ c.to \in EndDay /\ c.to # Forever BY CallsAssumption DEF Call
  <1>2. c.from \in Nat /\ c.to \in Nat /\ d \in Nat /\ c.from <= d /\ d < c.to /\ d \in Day
    BY <1>1, MaxDayAssumption DEF Day, EndDay, Forever
  <1>3. S \subseteq Nat BY <1>2
  <1>4. d \in S BY <1>2
  <1>5. PICK e \in S : \A y \in S : e <= y BY <1>3, <1>4, LeastNatural
  <1>6. e \in Nat /\ c.from <= e /\ e <= d /\ Free(e) /\ e \in Day
    BY <1>1, <1>2, <1>5, MaxDayAssumption DEF Day
  <1>7. e = c.from \/ HeldOn(own, c.pass, e - 1)
    <2> SUFFICES ASSUME e # c.from, ~HeldOn(own, c.pass, e - 1) PROVE FALSE OBVIOUS
    <2>1. Free(e - 1) BY <1>2, <1>6
    <2>2. e - 1 \in S BY <1>2, <1>6, <2>1
    <2> QED BY <1>5, <1>6, <2>2
  <1>8. e \in GapStarts(own, c.pass, c.from, c.to) BY <1>2, <1>6, <1>7 DEF GapStarts
  <1> DEFINE s == GapEnd(own, c.pass, e, c.to)
  <1>9. s \in (e + 1)..c.to /\ (s = c.to \/ HeldOn(own, c.pass, s))
    BY <1>1, <1>2, <1>6, GapEnds
  <1> HIDE DEF s
  <1>10. d < s BY <1>2, <1>6, <1>9
  <1> QED BY <1>6, <1>8, <1>10 DEF s

LEMMA ReadToHoldServes ==
    ASSUME RaceInv, HeldInv, NEW t \in Txs, ReadToHold(t) PROVE HeldInv'
  <1> DEFINE c == call[t]
  <1>1. c \in Calls /\ pc[t] = "read" /\ c.verb = "hold" BY HeldRead
  <1>2. PICK Q : /\ Moves(t, c, Q, "write", mine[t], written)
                 /\ PlanTyped(Q) /\ Q.seen = {} /\ Q.todo = {} /\ Q.leg = <<1, 1>>
                 /\ \A r \in Q.own : r \in View(t) /\ r.pass = c.pass /\ r.car = c.car
                 /\ \A d \in Q.gaps : d < c.to
                 /\ Q.gaps = GapStarts(Q.own, c.pass, c.from, c.to)
    BY HeldRead
  <1>3. InTerms(c) BY <1>1 DEF HeldInv, Serving
  <1>4. \A d \in c.from..(c.to - 1) : HeldOn(Q.own, c.pass, d) \/ StillAGap(c, Q, d)
    BY <1>1, <1>2, EveryDayNotHeldIsInAGap DEF StillAGap
  <1>5. Served(c, Q, mine[t], "write") BY <1>2, <1>4 DEF Served
  <1>6. Serving(c, Q, mine[t], "write") BY <1>1, <1>3, <1>5 DEF Serving
  <1> QED BY <1>2, <1>6, MovesAreSteps, AStepServes

(* A gap begun is a range whose holders are being read, or is run over at  *)
(* every garage.                                                           *)
LEMMA FillTheGapServes ==
    ASSUME RaceInv, HeldInv, NEW t \in Txs, FillTheGap(t) PROVE HeldInv'
  <1> DEFINE c == call[t]
             p == plan[t]
             m == mine[t]
  <1>1. c \in Calls /\ pc[t] = "write" /\ c.verb = "hold" /\ p.todo = {} BY GapBegun
  <1>2. PICK d, Q, to :
            /\ d \in p.gaps
            /\ Moves(t, c, Q, to, mine[t], written)
            /\ PlanTyped(Q) /\ Q.own = p.own /\ Q.gaps = p.gaps \ {d}
            /\ \A e \in p.gaps : d <= e
            /\ \/ to = "write" /\ RunOnPlanned(c, p, Q) /\ RunsOn(c, p, Q, d)
               \/ /\ to = "holders" /\ Q.leg[1] = d /\ Q.todo = {} /\ Q.seen = {}
                  /\ Q.leg = <<d, GapEnd(p.own, c.pass, d, c.to)>>
                  /\ Q.unread = GaragesOf[c.pass]
      BY GapBegun
  <1>3. InTerms(c) /\ Served(c, p, m, "write") BY <1>1 DEF HeldInv, Serving
  <1>4. MayPlan(c, p, "write") /\ PlanTyped(p) BY <1>1 DEF RaceInv, Intents, Typed
  <1>5. d \in Day /\ d < c.to /\ c.to \in EndDay /\ c.to \in Int /\ d \in Int /\ c.from \in Int
    BY <1>1, <1>2, <1>4, CallsAssumption, MaxDayAssumption
       DEF MayPlan, PlanTyped, Call, Day, EndDay, Forever
  <1> DEFINE stop == GapEnd(p.own, c.pass, d, c.to)
  <1>6. ASSUME NEW x \in c.from..(c.to - 1)
        PROVE  \/ HeldOn(Q.own, c.pass, x) \/ StillAGap(c, Q, x)
               \/ (d <= x /\ x < stop) \/ Written(c, Q, m, x)
    <2>1. HeldOn(p.own, c.pass, x) \/ StillAGap(c, p, x) \/ Written(c, p, m, x)
      BY <1>3, <1>6 DEF Served, BeingRead
    <2>2. CASE Written(c, p, m, x) BY <1>1, <2>2 DEF Written
    <2>3. CASE StillAGap(c, p, x)
      <3>1. PICK e \in p.gaps : e <= x /\ x < GapEnd(p.own, c.pass, e, c.to)
        BY <2>3 DEF StillAGap
      <3> QED BY <1>2, <3>1 DEF StillAGap
    <2> QED BY <1>2, <2>1, <2>2, <2>3
  <1>7. CASE to = "holders" /\ Q.leg = <<d, stop>> /\ Q.todo = {}
    <2>1. Q.leg[1] = d /\ Q.leg[2] = stop BY <1>7
    <2>2. \A x \in c.from..(c.to - 1) :
            HeldOn(Q.own, c.pass, x) \/ StillAGap(c, Q, x) \/ BeingRead(Q, to, x)
            \/ Written(c, Q, m, x)
      BY <1>6, <1>7, <2>1 DEF BeingRead
    <2>3. Served(c, Q, m, to) BY <1>2, <1>3, <1>5, <1>7, <2>1, <2>2 DEF Served
    <2>4. Serving(c, Q, m, to) BY <1>1, <1>3, <2>3 DEF Serving
    <2> QED BY <1>2, <2>4, MovesAreSteps, AStepServes
  <1>8. CASE to = "write" /\ RunsOn(c, p, Q, d)
    <2>1. stop = c.to /\ Q.todo = { Update(0, "as_read", r, c.to, r.why) : r \in EndingOn(p.own, d) }
      BY <1>8 DEF RunsOn
    <2>2. \A r \in p.own : r \in Row /\ r.pass = c.pass /\ r.car = c.car /\ r.why \in Reasons
      BY <1>3, <1>4, RowFields DEF PlanTyped, MayPlan, Served
    <2>3. ASSUME NEW x \in c.from..(c.to - 1), d <= x, x < stop PROVE Written(c, Q, m, x)
      <3> SUFFICES ASSUME NEW g \in GaragesOf[c.pass]
                   PROVE  \E w \in Q.todo : Holds(c, w.row, g, x)
        BY DEF Written
      <3>1. { r \in EndingOn(p.own, d) : r.garage = g } # {}
        <4>1. Cardinality({ r \in EndingOn(p.own, d) : r.garage = g }) = 1
          BY <1>8 DEF RunsOn, MayRunOn
        <4>2. \A S : S = {} => Cardinality(S) = 0 BY FS_EmptySet
        <4> QED BY <4>1, <4>2
      <3>2. PICK r \in EndingOn(p.own, d) : r.garage = g BY <3>1
      <3>3. r \in p.own /\ r.from < d BY <3>2 DEF EndingOn
      <3> DEFINE w == Update(0, "as_read", r, c.to, r.why)
      <3>4. w \in Q.todo BY <2>1, <3>2
      <3>5. r \in Row /\ r.why \in Reasons /\ r.pass = c.pass /\ r.car = c.car BY <2>2, <3>3
      <3>6. w.row.to = c.to /\ w.row.pass = r.pass /\ w.row.car = r.car
            /\ w.row.garage = r.garage /\ w.row.from = r.from
        BY <1>5, <3>5, UpdateFields
      <3> HIDE DEF w
      <3>7. r.from \in Int BY <3>5, RowFields
      <3>8. Covers(w.row, x) BY <1>5, <2>3, <3>3, <3>6, <3>7 DEF Covers
      <3> QED BY <3>2, <3>4, <3>5, <3>6, <3>8 DEF Holds
    <2>4. ASSUME NEW w \in Q.todo PROVE Extends(w)
      <3>1. PICK r \in EndingOn(p.own, d) : w = Update(0, "as_read", r, c.to, r.why) BY <2>1
      <3>2. r \in Row /\ r.why \in Reasons /\ r.to = d BY <2>2, <3>1 DEF EndingOn
      <3>3. w.kind = "as_read" /\ w.was = d /\ w.row.to = c.to
        BY <1>5, <3>1, <3>2, UpdateFields
      <3> QED BY <1>5, <3>3 DEF Extends
    <2>5. \A x \in c.from..(c.to - 1) :
            HeldOn(Q.own, c.pass, x) \/ StillAGap(c, Q, x) \/ BeingRead(Q, to, x)
            \/ Written(c, Q, m, x)
      BY <1>6, <2>3
    <2>6. Served(c, Q, m, to) BY <1>2, <1>3, <1>8, <2>4, <2>5 DEF Served
    <2>7. Serving(c, Q, m, to) BY <1>1, <1>3, <2>6 DEF Serving
    <2> QED BY <1>2, <2>7, MovesAreSteps, AStepServes
  <1> QED BY <1>2, <1>7, <1>8

LEMMA ReadHoldersServes ==
    ASSUME RaceInv, HeldInv, NEW t \in Txs, ReadHolders(t) PROVE HeldInv'
  <1> DEFINE c == call[t]
             p == plan[t]
  <1>1. pc[t] = "holders" /\ Serving(c, p, mine[t], "holders") BY HoldersRead DEF HeldInv
  <1>2. PICK Q : /\ Moves(t, c, Q, "holders", mine[t], written)
                 /\ Q.own = p.own /\ Q.gaps = p.gaps /\ Q.todo = p.todo /\ Q.leg = p.leg
    BY HoldersRead
  <1>3. Serving(c, Q, mine[t], "holders")
    BY <1>1, <1>2 DEF Serving, Served, StillAGap, BeingRead, Written
  <1> QED BY <1>2, <1>3, MovesAreSteps, AStepServes

(* The range judged: a row to be put at every garage, and nothing taken    *)
(* from the pass itself, which has not expired by the range's first day.   *)
LEMMA JudgeHoldersServes ==
    ASSUME RaceInv, HeldInv, NEW t \in Txs, JudgeHolders(t) PROVE HeldInv'
  <1> DEFINE c == call[t]
             p == plan[t]
             f == p.leg[1]
             m == mine[t]
  <1>1. CASE Rollback(t) BY <1>1, RollbackServes
  <1>2. CASE ~Rollback(t)
    <2>1. /\ pc[t] = "holders" /\ c \in Calls /\ c.verb \in {"register", "hold"} /\ p.todo = {}
          /\ \A r \in p.seen : Released(r, f) \/ TurnsOver(r, c.pass, f)
      BY <1>2, Judged
    <2> DEFINE why == IF c.verb = "hold" THEN ENDED_AFTER_LAST_DAY ELSE c.why
               N == NewRows(written, c.pass, c.car, f, p.leg[2], why)
    <2>2. PICK Q : /\ Moves(t, c, Q, "write", mine[t], written + 1)
                   /\ Q.own = p.own /\ Q.gaps = p.gaps /\ Q.leg = p.leg
                   /\ \A r \in N : Put(r) \in Q.todo
                   /\ \A w \in Q.todo :
                        \/ \E r \in p.seen : w = GiveWay(r, f) /\ Like(w.row, r)
                        \/ w.kind = "put"
      BY <1>2, Judged
    <2>3. Serving(c, p, m, "holders") BY <2>1 DEF HeldInv
    <2>4. InTerms(c) BY <2>1, <2>3 DEF Serving
    <2>5. CASE c.verb # "hold"
      <3>1. Serving(c, Q, m, "write") BY <2>2, <2>3, <2>4, <2>5 DEF Serving
      <3> QED BY <2>2, <3>1, MovesAreSteps, AStepServes
    <2>6. CASE c.verb = "hold"
      <3>1. Served(c, p, m, "holders") BY <2>3, <2>6 DEF Serving
      <3>2. f < c.to /\ c.to <= ValidTo[c.pass] + 1
        BY <2>1, <2>4, <2>6, <3>1, CallsAssumption DEF Served, InTerms
      <3>3. f \in Int /\ c.to \in Int /\ c.pass \in Passes /\ c.from \in Int
        BY <2>1, CallsAssumption, MaxDayAssumption
           DEF RaceInv, Typed, PlanTyped, Call, Day, EndDay, Forever
      <3>4. ValidTo[c.pass] \in Int
        BY <3>3, PassAssumption, MaxDayAssumption DEF Day, Forever
      <3>5. ASSUME NEW w \in Q.todo, w.row.pass = c.pass PROVE Extends(w)
        <4>1. CASE w.kind = "put" BY <4>1 DEF Extends
        <4>2. ASSUME NEW r \in p.seen, Like(w.row, r) PROVE FALSE
          <5>1. r.pass = c.pass BY <3>5, <4>2 DEF Like
          <5>2. Released(r, f) BY <2>1, <5>1 DEF TurnsOver
          <5> QED BY <3>2, <3>3, <3>4, <5>1, <5>2 DEF Released, ExpiredOn
        <4> QED BY <2>2, <4>1, <4>2
      <3>6. ASSUME NEW x \in c.from..(c.to - 1), f <= x, x < p.leg[2], NEW g \in GaragesOf[c.pass]
            PROVE  \E w \in Q.todo : Holds(c, w.row, g, x)
        <4> DEFINE r == [reg |-> written, garage |-> g, pass |-> c.pass, car |-> c.car,
                         from |-> f, to |-> p.leg[2],
                         why |-> IF p.leg[2] = Forever THEN OPEN ELSE why]
        <4>1. r \in N BY DEF NewRows
        <4>2. Put(r) \in Q.todo BY <2>2, <4>1
        <4>3. Put(r).row = r BY DEF Put
        <4>4. r.garage = g /\ r.pass = c.pass /\ r.car = c.car /\ r.from = f /\ r.to = p.leg[2]
          OBVIOUS
        <4> HIDE DEF r
        <4> QED BY <3>6, <4>2, <4>3, <4>4 DEF Holds, Covers
      <3>7. \A x \in c.from..(c.to - 1) :
              HeldOn(Q.own, c.pass, x) \/ StillAGap(c, Q, x) \/ Written(c, Q, m, x)
        <4> SUFFICES ASSUME NEW x \in c.from..(c.to - 1)
                     PROVE  HeldOn(Q.own, c.pass, x) \/ StillAGap(c, Q, x) \/ Written(c, Q, m, x)
          OBVIOUS
        <4>1. CASE BeingRead(p, "holders", x)
          BY <3>6, <4>1 DEF BeingRead, Written
        <4>2. CASE Written(c, p, m, x) BY <2>1, <4>2 DEF Written
        <4>3. CASE StillAGap(c, p, x) BY <2>2, <4>3 DEF StillAGap
        <4> QED BY <2>2, <3>1, <4>1, <4>2, <4>3 DEF Served
      <3>8. Served(c, Q, m, "write") BY <2>2, <3>1, <3>5, <3>7 DEF Served
      <3>9. Serving(c, Q, m, "write") BY <2>4, <2>6, <3>8 DEF Serving
      <3> QED BY <2>2, <3>9, MovesAreSteps, AStepServes
    <2> QED BY <2>5, <2>6
  <1> QED BY <1>1, <1>2

(* A version placed covers what it was planned to, and what the version it *)
(* takes the place of did.                                                 *)
LEMMA PlacingServes ==
    ASSUME RaceInv, TakeInv, HeldInv, NEW t \in Txs, pc[t] = "write", NEW w \in plan[t].todo,
           NEW r, Like(r, w.row), r.to = w.row.to, Place(t, w, r),
           w.kind # "put" => \E cur \in View(t) : Like(cur, w.row) /\ Matches(w, cur)
    PROVE  HeldInv'
  <1> DEFINE c == call[t]
             p == plan[t]
             m == mine[t]
             M == Versions(t, r)
  <1>1. PICK Q : /\ Moves(t, c, Q, "check", M, written)
                 /\ Q.todo = p.todo \ {w} /\ Q.own = p.own /\ Q.gaps = p.gaps
                 /\ Q.leg = p.leg
    BY PlacingMoves
  <1>2. Serving(c, p, m, "write") BY DEF HeldInv
  <1>3. CASE c.verb # "hold"
    <2>1. Serving(c, Q, M, "check") BY <1>1, <1>2, <1>3 DEF Serving
    <2> QED BY <1>1, <2>1, MovesAreSteps, AStepServes
  <1>4. CASE c.verb = "hold"
    <2>1. Served(c, p, m, "write") /\ InTerms(c) BY <1>2, <1>4 DEF Serving
    <2>2. w \in Write /\ w.row \in Row /\ IsKnown(w.row) /\ w.was \in Int /\ w.row.to \in Int
      BY WriteFields, RowFields DEF RaceInv, Typed, PlanTyped, IsKnown, Known
    <2>3. ASSUME NEW g, NEW x \in Int, NEW s \in m, Holds(c, s, g, x)
          PROVE  \E q \in M : Holds(c, q, g, x)
      <3>1. CASE ~SameRow(s, r) BY <2>3, <3>1 DEF Versions
      <3>2. CASE SameRow(s, r)
        <4>1. SameRow(s, w.row) BY <3>2 DEF Like, SameRow
        <4>2. IsKnown(s) /\ s \in Row BY DEF IsKnown, Known, RaceInv, Typed
        <4>3. Like(s, w.row) BY <2>2, <4>1, <4>2 DEF RaceInv, Kin
        <4>4. Extends(w) BY <2>1, <2>3, <4>3 DEF Served, Holds, Like
        <4>5. w.kind # "put"
          <5>1. Others(t, w, s) BY DEF Others
          <5> QED BY <4>1, <5>1 DEF TakeInv, FreshPuts, SameRow
        <4>6. PICK cur \in View(t) : Like(cur, w.row) /\ Matches(w, cur) BY <4>5
        <4>7. s \in View(t) BY DEF View
        <4>8. cur = s BY <4>1, <4>6, <4>7, ViewHasOneVersion DEF UniqueIds, Like, SameRow
        <4>9. s.to <= r.to BY <4>4, <4>5, <4>6, <4>8 DEF Extends, Matches
        <4>10. Covers(r, x)
          <5>1. s.to \in Int /\ r.to \in Int BY <2>2, <4>2, RowFields
          <5>2. s.from = r.from BY <4>3 DEF Like
          <5> QED BY <2>3, <4>9, <5>1, <5>2 DEF Holds, Covers
        <4>11. Holds(c, r, g, x) BY <2>3, <4>3, <4>10 DEF Holds, Like, SameRow
        <4> QED BY <4>11 DEF Versions
      <3> QED BY <3>1, <3>2
    <2>4. ASSUME NEW g, NEW x, NEW v \in p.todo, Holds(c, v.row, g, x)
          PROVE  (\E q \in M : Holds(c, q, g, x)) \/ \E q \in Q.todo : Holds(c, q.row, g, x)
      <3>1. CASE v # w BY <1>1, <2>4, <3>1
      <3>2. CASE v = w
        <4>1. Holds(c, r, g, x) BY <2>4, <3>2 DEF Holds, Covers, Like, SameRow
        <4> QED BY <4>1 DEF Versions
      <3> QED BY <3>1, <3>2
    <2>5. ASSUME NEW x \in Int, Written(c, p, m, x) PROVE Written(c, Q, M, x)
      BY <2>3, <2>4, <2>5 DEF Written
    <2>6. ASSUME NEW x \in c.from..(c.to - 1)
          PROVE  HeldOn(Q.own, c.pass, x) \/ StillAGap(c, Q, x) \/ Written(c, Q, M, x)
      BY <1>1, <2>1, <2>5 DEF Served, StillAGap, BeingRead
    <2>7. Served(c, Q, M, "check") BY <1>1, <2>1, <2>6 DEF Served
    <2>8. Serving(c, Q, M, "check") BY <1>4, <2>1, <2>7 DEF Serving
    <2> QED BY <1>1, <2>8, MovesAreSteps, AStepServes
  <1> QED BY <1>3, <1>4

LEMMA WriteRowServes ==
    ASSUME RaceInv, TakeInv, HeldInv, NEW t \in Txs, WriteRow(t) PROVE HeldInv'
  <1>1. CASE Rollback(t) BY <1>1, RollbackServes
  <1>2. CASE ~Rollback(t)
    <2> DEFINE c == call[t]
               p == plan[t]
    <2>1. pc[t] = "write" BY <1>2, Writing
    <2>2. PICK w \in p.todo :
                \/ w.kind = "put" /\ Place(t, w, w.row)
                \/ /\ w.kind # "put"
                   /\ \E cur \in View(t) :
                        /\ Like(cur, w.row)
                        /\ \/ /\ Matches(w, cur)
                              /\ \E r \in Row : /\ Like(r, w.row) /\ r.to = w.row.to
                                                /\ Place(t, w, r)
                           \/ /\ ~Matches(w, cur) /\ ~FoundMoved(w, cur)
                              /\ \E Q : /\ Moves(t, c, Q, "write", mine[t], written)
                                        /\ Q.todo = p.todo \ {w} /\ Q.own = p.own
                                        /\ Q.gaps = p.gaps /\ Q.leg = p.leg
      BY <1>2, Writing
    <2>3. CASE w.kind = "put" /\ Place(t, w, w.row)
      BY <2>1, <2>3, LikeIsEquivalence, PlacingServes
    <2>4. ASSUME NEW cur \in View(t), Like(cur, w.row), Matches(w, cur),
                 NEW r \in Row, Like(r, w.row), r.to = w.row.to, Place(t, w, r)
          PROVE  HeldInv'
      BY <2>1, <2>4, PlacingServes
    <2>5. ASSUME w.kind # "put", NEW cur \in View(t), ~Matches(w, cur), ~FoundMoved(w, cur),
                 NEW Q, Moves(t, c, Q, "write", mine[t], written),
                 Q.todo = p.todo \ {w}, Q.own = p.own, Q.gaps = p.gaps, Q.leg = p.leg
          PROVE  HeldInv'
      <3>1. Serving(c, p, mine[t], "write") BY <2>1 DEF HeldInv
      <3>2. ASSUME Served(c, p, mine[t], "write") PROVE Served(c, Q, mine[t], "write")
        <4>1. w.row.pass # c.pass
          <5> SUFFICES ASSUME w.row.pass = c.pass PROVE FALSE OBVIOUS
          <5>1. Extends(w) BY <3>2 DEF Served
          <5> QED BY <2>5, <5>1 DEF Extends, Matches, FoundMoved
        <4>2. \A g, x : ~Holds(c, w.row, g, x) BY <4>1 DEF Holds
        <4> QED BY <2>5, <3>2, <4>2 DEF Served, StillAGap, BeingRead, Written
      <3>3. Serving(c, Q, mine[t], "write") BY <2>5, <3>1, <3>2 DEF Serving
      <3> QED BY <2>5, <3>3, MovesAreSteps, AStepServes
    <2> QED BY <2>2, <2>3, <2>4, <2>5
  <1> QED BY <1>1, <1>2

LEMMA SettleServes ==
    ASSUME RaceInv, HeldInv, NEW t \in Txs, Settle(t) PROVE HeldInv'
  <1>1. StepsOf(t, call[t], plan[t], "write", mine[t]) /\ pc[t] = "check"
    BY DEF Settle, Go, StepsOf, RaceInv, Typed
  <1>2. Serving(call[t], plan[t], mine[t], "write")
    BY <1>1 DEF HeldInv, Serving, Served, BeingRead
  <1> QED BY <1>1, <1>2, AStepServes

LEMMA CommitServes ==
    ASSUME RaceInv, HeldInv, NEW t \in Txs, Commit(t) PROVE HeldInv'
  <1>1. StepsOf(t, NoCall, NoPlan, "idle", {})
    BY DEF Commit, Closed, Go, Plans, StepsOf, RaceInv, Typed
  <1>2. Serving(NoCall, NoPlan, {}, "idle") BY DEF Serving
  <1> QED BY <1>1, <1>2, AStepServes

LEMMA InitHeldInv == Init => HeldInv
  BY DEF Init, HeldInv, Serving

LEMMA NextKeepsHeldInv == RaceInv /\ TakeInv /\ HeldInv /\ [Next]_vars => HeldInv'
  <1> SUFFICES ASSUME RaceInv, TakeInv, HeldInv, [Next]_vars PROVE HeldInv' OBVIOUS
  <1>1. CASE UNCHANGED vars
    <2>1. \A t \in Txs : Serving(call'[t], plan'[t], mine'[t], pc'[t])
      BY <1>1 DEF vars, HeldInv
    <2> QED
      BY <2>1 DEF HeldInv, Serving, Served, InTerms, ExpiredOn, Extends, StillAGap, BeingRead,
                  Written, Holds, Covers, HeldOn, GapEnd
  <1>2. ASSUME NEW t \in Txs, ExclusionViolation(t) \/ DeadlockDetected(t) \/ Lost(t)
        PROVE  HeldInv'
    BY <1>2, RollbackServes DEF ExclusionViolation, DeadlockDetected, Lost
  <1>3. ASSUME NEW t \in Txs, ReadToEnd(t) \/ ReadTheStay(t) \/ ReadToRevoke(t) PROVE HeldInv'
    <2>1. call[t].verb \notin {"register", "hold"}
      BY <1>3 DEF ReadToEnd, ReadTheStay, ReadToRevoke
    <2>2. Rollback(t) \/ \E W : WillWrite(t, W)
      BY <1>3 DEF ReadToEnd, ReadTheStay, ReadToRevoke
    <2> QED BY <2>1, <2>2, RollbackServes, OthersReadServes
  <1> QED BY <1>1, <1>2, <1>3, BeginServes, LockPassServes, ReadToHoldServes, FillTheGapServes,
       ReadHoldersServes, JudgeHoldersServes, WriteRowServes, SettleServes, CommitServes
       DEF Next, Statement

(* A QR committed with its stay reported held: every day it had to fill is *)
(* on the pass at every garage, in the rows the commit leaves.             *)
THEOREM AReportedStayIsCommitted == Spec => AReportedStayIsHeld
  <1>1. RaceInv /\ HeldInv /\ [Next]_vars => [AReportedStayIsHeldStep]_vars
    <2> SUFFICES ASSUME RaceInv, HeldInv, NEW t \in Txs, Commit(t), call[t].verb = "hold",
                        NEW d \in call[t].from..(call[t].to - 1),
                        NEW g \in GaragesOf[call[t].pass], ~HeldOn(plan[t].own, call[t].pass, d)
                 PROVE  \E r \in regs' : /\ r.garage = g /\ r.pass = call[t].pass
                                         /\ r.car = call[t].car /\ Covers(r, d)
      BY DEF AReportedStayIsHeldStep
    <2>1. pc[t] = "write" /\ plan[t].todo = {} /\ plan[t].gaps = {} /\ regs' = View(t)
      BY DEF Commit
    <2>2. Served(call[t], plan[t], mine[t], "write") BY <2>1 DEF HeldInv, Serving
    <2>3. Written(call[t], plan[t], mine[t], d)
      BY <2>1, <2>2 DEF Served, StillAGap, BeingRead
    <2>4. PICK r \in mine[t] : Holds(call[t], r, g, d) BY <2>1, <2>3 DEF Written
    <2> QED BY <2>1, <2>4 DEF Holds, View
  <1>2. Init => RaceInv /\ TakeInv /\ HeldInv BY InitRaceInv, InitTakeInv, InitHeldInv
  <1>3. RaceInv /\ TakeInv /\ HeldInv /\ [Next]_vars => (RaceInv /\ TakeInv /\ HeldInv)'
    BY NextKeepsRaceInv, NextKeepsTakeInv, NextKeepsHeldInv
  <1> QED BY <1>1, <1>2, <1>3, PTL DEF Spec, AReportedStayIsHeld

-----------------------------------------------------------------------------
(* What stands of a registration.                                          *)
(*                                                                         *)
(* The rows of one registration agree on pass, car and first day (Mates).  *)
(* A row that still ends with its stay is ended by none of its mates later *)
(* (StayEnds): a call that gives a row a later end -- a run-on, and a      *)
(* checkout of a row written meanwhile -- writes every mate that still ends*)
(* with the stay along with it (Abreast), a row it adds has one like it at *)
(* every garage of its pass (Whole), and every other write only shortens   *)
(* the row it matches and takes the stay's reason off it (Shrinks).        *)

InRegs(R, a) == \E b \in R : SameRow(b, a)
Mates(a, b) == a.pass = b.pass /\ a.car = b.car /\ a.from = b.from
Stay(r) == r.why = ENDED_AFTER_LAST_DAY /\ r.from < r.to
StayEnds(R) == \A r, q \in R : Mates(r, q) /\ Stay(r) => q.to <= r.to

(* No mate of x ends after it; every mate of x that is a stay's row is     *)
(* written with it.                                                        *)
Bounded(R, x) == \A q \in R : Mates(q, x) => q.to <= x.to
Abreast(R, x, P, m) ==
    \A r \in R : Mates(r, x) /\ Stay(r) =>
        (\E w \in P.todo : SameRow(w.row, r)) \/ \E s \in m : SameRow(s, r)

(* A row the call adds, with one like it at every garage of the pass.      *)
ToPut(P, y) == \E v \in P.todo : v.kind = "put" /\ y = v.row
Whole(R, c, P, m, s) ==
    \A g \in GaragesOf[c.pass] : \E y :
        /\ y \in m \/ ToPut(P, y)
        /\ ~InRegs(R, y) /\ y.garage = g /\ Mates(y, s) /\ y.to = s.to

(* A hold's run-on and a checkout may give a row of their pass a later end *)
(* than it has; every other UPDATE shortens the row it matches.            *)
MovesStays(c) == c.verb \in {"hold", "end_stay"}
Moved(R, c, P, m, x) ==
    /\ MovesStays(c) /\ x.pass = c.pass /\ InRegs(R, x)
    /\ Abreast(R, x, P, m)
    /\ x.why = ENDED_AFTER_LAST_DAY => Bounded(R, x)
    /\ c.verb = "hold" => x.to = c.to
    /\ c.verb # "hold" => x.why # ENDED_AFTER_LAST_DAY
Shrunk(R, c, s) ==
    /\ s.why # ENDED_AFTER_LAST_DAY
    /\ \E a \in R : SameRow(a, s) /\ s.to <= a.to /\ (Foreign(c, s) => s.to < a.to)
    /\ s.pass = c.pass => ~MovesStays(c)
Shrinks(R, c, w) ==
    /\ InRegs(R, w.row) /\ w.row.why # ENDED_AFTER_LAST_DAY
    /\ \/ w.kind = "as_read" /\ w.row.to <= w.was /\ (Foreign(c, w.row) => w.row.to < w.was)
       \/ w.kind = "if_open" /\ w.row.to < Forever /\ Foreign(c, w.row)
       \/ w.kind = "if_later" /\ w.row.pass = c.pass
    /\ w.row.pass = c.pass => ~MovesStays(c)

KeptRow(R, c, P, m, s) ==
    \/ s.pass = c.pass /\ ~InRegs(R, s) /\ Whole(R, c, P, m, s)
    \/ Shrunk(R, c, s)
    \/ Moved(R, c, P, m, s)
KeptWrite(R, c, P, m, w) ==
    \/ w.kind = "put" /\ w.row.pass = c.pass /\ Whole(R, c, P, m, w.row)
    \/ w.kind # "put" /\ Shrinks(R, c, w)
    \/ w.kind \in {"as_read", "by_id"} /\ Moved(R, c, P, m, w.row)
KeptOwn(R, c, P, x) ==
    /\ InRegs(R, x) /\ x.pass = c.pass
    /\ Stay(x) => /\ Bounded(R, x)
                  /\ \A r \in R : Mates(r, x) /\ Stay(r) =>
                        \E y \in P.own : SameRow(y, r) /\ y.to = x.to
Kept(R, c, P, m) ==
    /\ \A s \in m : KeptRow(R, c, P, m, s)
    /\ \A w \in P.todo : KeptWrite(R, c, P, m, w)
    /\ \A r \in P.seen : r.pass # c.pass => InRegs(R, r)
    /\ \A x \in P.own : KeptOwn(R, c, P, x)
KeptInv == StayEnds(regs) /\ \A t \in Txs : pc[t] # "idle" => Kept(regs, call[t], plan[t], mine[t])

LEMMA AStepKeepsStays ==
    ASSUME RaceInv, KeptInv, NEW t \in Txs, NEW c, NEW P, NEW to, NEW m, NEW n,
           Moves(t, c, P, to, m, n), to # "idle" => Kept(regs, c, P, m)
    PROVE  KeptInv'
  <1>1. StepsOf(t, c, P, to, m) /\ regs' = regs BY MovesAreSteps DEF Moves
  <1>2. \A u \in Txs : pc'[u] # "idle" => Kept(regs, call'[u], plan'[u], mine'[u])
    BY <1>1 DEF KeptInv, StepsOf
  <1>3. StayEnds(regs') BY <1>1 DEF KeptInv
  <1> QED BY <1>1, <1>2, <1>3 DEF KeptInv

LEMMA NothingKept ==
    ASSUME NEW c, NEW P, P.own = {}, P.seen = {}, P.todo = {} PROVE \A R : Kept(R, c, P, {})
  BY DEF Kept

LEMMA RollbackKeepsStays ==
    ASSUME RaceInv, KeptInv, NEW t \in Txs, Rollback(t) PROVE KeptInv'
  BY RollbackFits, AStepKeepsStays

LEMMA BeginKeepsStays ==
    ASSUME RaceInv, KeptInv, NEW t \in Txs, Begin(t) PROVE KeptInv'
  <1>1. PICK c \in Calls : call' = [call EXCEPT ![t] = c] BY DEF Begin
  <1>2. plan[t] = NoPlan /\ mine[t] = {} BY DEF Begin, RaceInv, Quiet
  <1>3. Moves(t, c, NoPlan, "lock", {}, written)
    BY <1>1, <1>2 DEF Begin, Go, Moves, RaceInv, Typed
  <1>4. Kept(regs, c, NoPlan, {}) BY NoPlanFields, NothingKept
  <1> QED BY <1>3, <1>4, AStepKeepsStays

LEMMA LockPassKeepsStays ==
    ASSUME RaceInv, KeptInv, NEW t \in Txs, LockPass(t) PROVE KeptInv'
  <1>1. CASE Rollback(t) BY <1>1, RollbackKeepsStays
  <1>2. CASE ~Rollback(t)
    <2>1. PICK P, to : /\ Moves(t, call[t], P, to, {}, written)
                       /\ P.own = {} /\ P.gaps = {} /\ P.seen = {} /\ P.todo = {}
      BY <1>2, Locked
    <2>2. Kept(regs, call[t], P, {}) BY <2>1, NothingKept
    <2> QED BY <2>1, <2>2, AStepKeepsStays
  <1> QED BY <1>1, <1>2

(* The first read of a call sees the committed rows.                       *)
LEMMA TheFirstReadIsCommitted ==
    ASSUME RaceInv, NEW t \in Txs, pc[t] = "read"
    PROVE  mine[t] = {} /\ plan[t] = NoPlan /\ View(t) = regs
  BY DEF RaceInv, Quiet, View, Superseded

LEMMA FirstWritesKeepStays ==
    ASSUME RaceInv, KeptInv, NEW t \in Txs, pc[t] = "read", NEW W, WillWrite(t, W),
           \A w \in W : KeptWrite(regs, call[t], [NoPlan EXCEPT !.todo = W], {}, w)
    PROVE  KeptInv'
  <1> DEFINE Q == [NoPlan EXCEPT !.todo = W]
  <1>1. plan[t] = NoPlan /\ mine[t] = {} BY DEF RaceInv, Quiet
  <1>2. Moves(t, call[t], Q, "write", {}, written)
    BY <1>1 DEF WillWrite, Go, Plans, Moves, RaceInv, Typed
  <1>3. Q.own = {} /\ Q.gaps = {} /\ Q.seen = {} /\ Q.todo = W BY DEF NoPlan
  <1>4. \A w \in W : KeptWrite(regs, call[t], Q, {}, w) OBVIOUS
  <1> HIDE DEF Q
  <1>5. Kept(regs, call[t], Q, {}) BY <1>3, <1>4 DEF Kept
  <1> QED BY <1>2, <1>5, AStepKeepsStays

LEMMA ReadToEndKeepsStays ==
    ASSUME RaceInv, KeptInv, NEW t \in Txs, ReadToEnd(t) PROVE KeptInv'
  <1>1. CASE Rollback(t) BY <1>1, RollbackKeepsStays
  <1>2. CASE ~Rollback(t)
    <2> DEFINE c == call[t]
    <2>1. PICK r \in Latest(View(t), c.pass, c.car) :
            /\ MayEnd(r, c.to)
            /\ WillWrite(t, { Update(0, "as_read", s, c.to, ENDED_BY_OWNER)
                                : s \in { q \in View(t) : EndsWith(q, r) } })
      BY <1>2 DEF ReadToEnd
    <2> DEFINE W == { Update(0, "as_read", s, c.to, ENDED_BY_OWNER)
                        : s \in { q \in View(t) : EndsWith(q, r) } }
    <2>2. pc[t] = "read" /\ c.verb = "end" /\ c \in Calls BY DEF ReadToEnd, RaceInv, OnACall
    <2>3. c.to \in EndDay /\ c.to \in Int /\ c.to <= Forever
      BY <2>2, CallsAssumption, MaxDayAssumption DEF Call, Day, EndDay, Forever
    <2>4. ASSUME NEW w \in W PROVE KeptWrite(regs, c, [NoPlan EXCEPT !.todo = W], {}, w)
      <3>1. PICK s \in View(t) : EndsWith(s, r) /\ w = Update(0, "as_read", s, c.to, ENDED_BY_OWNER)
        OBVIOUS
      <3>2. s \in Row /\ s \in regs BY <2>2, WhatIsSeen, TheFirstReadIsCommitted
      <3>3. s.to \in Int /\ s.to = r.to /\ s.pass = c.pass
        BY <2>1, <3>1, <3>2, RowFields DEF EndsWith, Latest
      <3>4. c.to <= s.to BY <2>1, <2>3, <3>3 DEF MayEnd
      <3>5. /\ w.kind = "as_read" /\ w.was = s.to /\ w.row.to = c.to /\ w.row.pass = s.pass
            /\ SameRow(s, w.row) /\ w.row.why = ENDED_BY_OWNER
        BY <2>3, <3>1, <3>2 DEF Update, Row, SameRow
      <3>6. Shrinks(regs, c, w)
        BY <2>2, <3>2, <3>3, <3>4, <3>5
           DEF Shrinks, InRegs, Foreign, MovesStays, ENDED_BY_OWNER, ENDED_AFTER_LAST_DAY
      <3> QED BY <3>5, <3>6 DEF KeptWrite
    <2>5. WillWrite(t, W) BY <2>1
    <2> HIDE DEF W
    <2> QED BY <2>2, <2>4, <2>5, FirstWritesKeepStays
  <1> QED BY <1>1, <1>2

(* Every stay's row still in force is cut by a checkout, so none is left   *)
(* beside a row it gives a later end.                                      *)
LEMMA ReadTheStayKeepsStays ==
    ASSUME RaceInv, KeptInv, NEW t \in Txs, ReadTheStay(t) PROVE KeptInv'
  <1>1. CASE Rollback(t) BY <1>1, RollbackKeepsStays
  <1>2. CASE ~Rollback(t)
    <2> DEFINE c == call[t]
               W == { Update(0, "by_id", r, Greatest(c.to, r.from), ENDED_BY_CHECKOUT)
                        : r \in { q \in View(t) : InForceFrom(q, c.pass, c.to) } }
               Q == [NoPlan EXCEPT !.todo = W]
    <2>1. WillWrite(t, W) /\ pc[t] = "read" /\ c.verb = "end_stay" /\ c \in Calls
      BY <1>2 DEF ReadTheStay, RaceInv, OnACall
    <2>2. c.to \in Int
      BY <2>1, CallsAssumption, MaxDayAssumption DEF Call, Day, EndDay, Forever
    <2>3. Q.todo = W BY DEF NoPlan
    <2>4. ASSUME NEW r \in regs, InForceFrom(r, c.pass, c.to)
          PROVE  \E w \in W : /\ w = Update(0, "by_id", r, Greatest(c.to, r.from), ENDED_BY_CHECKOUT)
                              /\ SameRow(w.row, r)
      <3>1. r \in View(t) /\ r \in Row BY <2>1, TheFirstReadIsCommitted DEF RaceInv, Typed
      <3>2. Update(0, "by_id", r, Greatest(c.to, r.from), ENDED_BY_CHECKOUT) \in W BY <2>4, <3>1
      <3>3. SameRow(Update(0, "by_id", r, Greatest(c.to, r.from), ENDED_BY_CHECKOUT).row, r)
        BY <3>1 DEF Update, SameRow, Row
      <3> QED BY <3>2, <3>3
    <2>5. ASSUME NEW w \in W PROVE KeptWrite(regs, c, Q, {}, w)
      <3>1. PICK x \in View(t) :
              /\ InForceFrom(x, c.pass, c.to)
              /\ w = Update(0, "by_id", x, Greatest(c.to, x.from), ENDED_BY_CHECKOUT)
        OBVIOUS
      <3>2. x \in Row /\ x \in regs BY <2>1, WhatIsSeen, TheFirstReadIsCommitted
      <3>3. /\ w.kind = "by_id" /\ w.row.pass = x.pass /\ w.row.why = ENDED_BY_CHECKOUT
            /\ SameRow(x, w.row) /\ Mates(w.row, x)
        BY <3>1, <3>2 DEF Update, Row, SameRow, Mates
      <3>4. Abreast(regs, w.row, Q, {})
        <4> SUFFICES ASSUME NEW r \in regs, Mates(r, w.row), Stay(r)
                     PROVE  \E v \in W : SameRow(v.row, r)
          BY <2>3 DEF Abreast
        <4>1. Mates(r, x) BY <3>3 DEF Mates
        <4>2. x.to <= r.to BY <3>2, <4>1 DEF KeptInv, StayEnds
        <4>3. r.to \in Int /\ x.to \in Int /\ r.from \in Int
          BY <3>2, RowFields DEF RaceInv, Typed
        <4>4. InForceFrom(r, c.pass, c.to)
          BY <2>2, <3>1, <4>1, <4>2, <4>3 DEF InForceFrom, Mates, Stay
        <4> QED BY <2>4, <4>4
      <3>5. Moved(regs, c, Q, {}, w.row)
        BY <2>1, <3>1, <3>2, <3>3, <3>4
           DEF Moved, MovesStays, InRegs, InForceFrom, ENDED_BY_CHECKOUT, ENDED_AFTER_LAST_DAY
      <3> QED BY <3>3, <3>5 DEF KeptWrite
    <2> HIDE DEF W
    <2> QED BY <2>1, <2>5, FirstWritesKeepStays
  <1> QED BY <1>1, <1>2

LEMMA ReadToRevokeKeepsStays ==
    ASSUME RaceInv, KeptInv, NEW t \in Txs, ReadToRevoke(t) PROVE KeptInv'
  <1> DEFINE c == call[t]
             W == { Update(1, "if_later", r, RevocationDay(c, r), ENDED_BY_REVOCATION)
                      : r \in { q \in View(t) : q.pass = c.pass } }
  <1>1. WillWrite(t, W) /\ pc[t] = "read" /\ c.verb = "revoke" BY DEF ReadToRevoke
  <1>2. ASSUME NEW w \in W PROVE KeptWrite(regs, c, [NoPlan EXCEPT !.todo = W], {}, w)
    <2>1. PICK x \in View(t) :
            /\ x.pass = c.pass
            /\ w = Update(1, "if_later", x, RevocationDay(c, x), ENDED_BY_REVOCATION)
      OBVIOUS
    <2>2. x \in Row /\ x \in regs BY <1>1, WhatIsSeen, TheFirstReadIsCommitted
    <2>3. /\ w.kind = "if_later" /\ w.row.pass = x.pass /\ w.row.why = ENDED_BY_REVOCATION
          /\ SameRow(x, w.row)
      BY <2>1, <2>2 DEF Update, Row, SameRow
    <2>4. Shrinks(regs, c, w)
      BY <1>1, <2>1, <2>2, <2>3
         DEF Shrinks, InRegs, Foreign, MovesStays, ENDED_BY_REVOCATION, ENDED_AFTER_LAST_DAY
    <2> QED BY <2>3, <2>4 DEF KeptWrite
  <1> HIDE DEF W
  <1> QED BY <1>1, <1>2, FirstWritesKeepStays

(* The rows a hold reads: the mates of a stay's row that are a stay's too  *)
(* end with it, so they are read with it.                                  *)
LEMMA ReadToHoldKeepsStays ==
    ASSUME RaceInv, KeptInv, NEW t \in Txs, ReadToHold(t) PROVE KeptInv'
  <1> DEFINE c == call[t]
  <1>1. c \in Calls /\ pc[t] = "read" /\ c.verb = "hold" BY HeldRead
  <1>2. PICK Q : /\ Moves(t, c, Q, "write", mine[t], written)
                 /\ PlanTyped(Q) /\ Q.seen = {} /\ Q.todo = {}
                 /\ Q.own = { r \in View(t) : /\ r.pass = c.pass /\ r.garage \in GaragesOf[c.pass]
                                              /\ r.car = c.car /\ Overlaps(r, c.from, c.to) }
    BY HeldRead
  <1>3. mine[t] = {} /\ View(t) = regs BY <1>1, TheFirstReadIsCommitted
  <1>4. ASSUME NEW x \in Q.own PROVE KeptOwn(regs, c, Q, x)
    <2>1. x \in regs /\ x.pass = c.pass /\ x.car = c.car /\ Overlaps(x, c.from, c.to)
      BY <1>2, <1>3
    <2>2. InRegs(regs, x) BY <2>1 DEF InRegs, SameRow
    <2>3. ASSUME Stay(x), NEW q \in regs, Mates(q, x) PROVE q.to <= x.to
      BY <2>1, <2>3 DEF KeptInv, StayEnds, Mates
    <2>4. ASSUME Stay(x), NEW r \in regs, Mates(r, x), Stay(r)
          PROVE  \E y \in Q.own : SameRow(y, r) /\ y.to = x.to
      <3>1. x.to \in Int /\ r.to \in Int /\ IsKnown(r)
        BY <2>1, RowFields DEF RaceInv, Typed, IsKnown
      <3>2. r.to = x.to BY <2>1, <2>4, <3>1 DEF KeptInv, StayEnds, Mates
      <3>3. r.garage \in GaragesOf[c.pass] BY <2>1, <2>4, <3>1 DEF RaceInv, Kin, Mates
      <3>4. Overlaps(r, c.from, c.to) BY <2>1, <2>4, <3>2 DEF Overlaps, Mates
      <3>5. r \in Q.own BY <1>2, <1>3, <2>1, <2>4, <3>3, <3>4 DEF Mates
      <3> QED BY <3>2, <3>5 DEF SameRow
    <2> QED BY <2>1, <2>2, <2>3, <2>4 DEF KeptOwn, Bounded
  <1>5. Kept(regs, c, Q, mine[t]) BY <1>2, <1>3, <1>4 DEF Kept
  <1> QED BY <1>2, <1>5, AStepKeepsStays

(* More to write, or more written, costs no row its place.                 *)
LEMMA MoreIsKept ==
    ASSUME NEW R, NEW c, NEW P, NEW Q, NEW m, NEW n, P.todo \subseteq Q.todo, m \subseteq n
    PROVE  /\ \A s : KeptRow(R, c, P, m, s) => KeptRow(R, c, Q, n, s)
           /\ \A w : KeptWrite(R, c, P, m, w) => KeptWrite(R, c, Q, n, w)
  <1>1. ASSUME NEW s, Whole(R, c, P, m, s) PROVE Whole(R, c, Q, n, s)
    BY <1>1 DEF Whole, ToPut
  <1>2. ASSUME NEW x, Abreast(R, x, P, m) PROVE Abreast(R, x, Q, n)
    BY <1>2 DEF Abreast
  <1>3. ASSUME NEW x, Moved(R, c, P, m, x) PROVE Moved(R, c, Q, n, x)
    BY <1>2, <1>3 DEF Moved
  <1> QED BY <1>1, <1>3 DEF KeptRow, KeptWrite

(* A run-on gives every one of the stay's rows the same later end.         *)
LEMMA FillTheGapKeepsStays ==
    ASSUME RaceInv, KeptInv, NEW t \in Txs, FillTheGap(t) PROVE KeptInv'
  <1> DEFINE c == call[t]
             p == plan[t]
             m == mine[t]
  <1>1. c \in Calls /\ pc[t] = "write" /\ c.verb = "hold" /\ p.todo = {} BY GapBegun
  <1>2. PICK d, Q, to :
          /\ d \in p.gaps
          /\ Moves(t, c, Q, to, mine[t], written)
          /\ PlanTyped(Q) /\ Q.own = p.own
          /\ \/ to = "write" /\ RunOnPlanned(c, p, Q) /\ RunsOn(c, p, Q, d)
             \/ to = "holders" /\ Q.todo = {} /\ Q.seen = {}
    BY GapBegun
  <1>3. Kept(regs, c, p, m) BY <1>1 DEF KeptInv
  <1>4. MayPlan(c, p, "write") /\ PlanTyped(p) BY <1>1 DEF RaceInv, Intents, Typed
  <1>5. d < c.to /\ d \in Int /\ c.to \in Int
    BY <1>1, <1>2, <1>4, CallsAssumption, MaxDayAssumption
       DEF MayPlan, PlanTyped, Call, Day, EndDay, Forever
  <1>6. \A x \in p.own : x \in Row /\ IsKnown(x) /\ KeptOwn(regs, c, p, x) /\ KeptOwn(regs, c, Q, x)
    BY <1>2, <1>3, <1>4 DEF Kept, KeptOwn, PlanTyped, IsKnown, Known
  <1>7. \A s \in m : KeptRow(regs, c, Q, m, s) BY <1>1, <1>3, MoreIsKept DEF Kept
  <1>8. CASE to = "holders"
    <2>1. Kept(regs, c, Q, m) BY <1>2, <1>6, <1>7, <1>8 DEF Kept
    <2> QED BY <1>2, <2>1, AStepKeepsStays
  <1>9. CASE /\ RunOnPlanned(c, p, Q) /\ RunsOn(c, p, Q, d)
    <2>1. ASSUME NEW x \in EndingOn(p.own, d)
          PROVE  LET w == Update(0, "as_read", x, c.to, x.why) IN
                 /\ x \in p.own /\ Stay(x) /\ x.to = d /\ Like(w.row, x)
                 /\ w.kind = "as_read" /\ w.row.to = c.to
                 /\ w \in Q.todo
      <3>1. x \in p.own /\ x.from < d /\ x.to = d /\ x.why = ENDED_AFTER_LAST_DAY
        BY <1>9, <2>1 DEF RunsOn, MayRunOn, EndingOn
      <3>2. x \in Row BY <1>6, <3>1
      <3> QED BY <1>9, <3>1, <3>2 DEF RunsOn, Stay, Update, Row, Like, SameRow
    <2>2. ASSUME NEW w \in Q.todo PROVE KeptWrite(regs, c, Q, m, w)
      <3>1. PICK x \in EndingOn(p.own, d) : w = Update(0, "as_read", x, c.to, x.why)
        BY <1>9 DEF RunsOn
      <3>2. /\ x \in p.own /\ Stay(x) /\ x.to = d /\ Like(w.row, x)
            /\ w.kind = "as_read" /\ w.row.to = c.to
        BY <2>1, <3>1
      <3>3. InRegs(regs, w.row) /\ w.row.pass = c.pass
        BY <1>6, <3>2 DEF KeptOwn, InRegs, Like, SameRow
      <3>4. \A q : Mates(q, w.row) <=> Mates(q, x) BY <3>2 DEF Mates, Like
      <3>5. Abreast(regs, w.row, Q, m)
        <4> SUFFICES ASSUME NEW r \in regs, Mates(r, x), Stay(r)
                     PROVE  \E v \in Q.todo : SameRow(v.row, r)
          BY <3>4 DEF Abreast
        <4>1. PICK y \in p.own : SameRow(y, r) /\ y.to = d
          BY <1>6, <3>2 DEF KeptOwn
        <4>2. Like(y, r) BY <1>6, <4>1 DEF RaceInv, Kin, IsKnown
        <4>3. y \in EndingOn(p.own, d) BY <3>2, <4>1, <4>2 DEF EndingOn, Like, Mates, Stay
        <4>4. LET v == Update(0, "as_read", y, c.to, y.why) IN v \in Q.todo /\ Like(v.row, y)
          BY <2>1, <4>3
        <4> QED BY <4>1, <4>4 DEF Like, SameRow
      <3>6. Bounded(regs, w.row)
        <4> SUFFICES ASSUME NEW q \in regs, Mates(q, x) PROVE q.to <= c.to
          BY <3>2, <3>4 DEF Bounded
        <4>1. q.to <= d BY <1>6, <3>2 DEF KeptOwn, Bounded
        <4>2. q.to \in Int BY RowFields DEF RaceInv, Typed
        <4> QED BY <1>5, <4>1, <4>2
      <3>7. Moved(regs, c, Q, m, w.row) BY <1>1, <3>2, <3>3, <3>5, <3>6 DEF Moved, MovesStays
      <3> QED BY <3>2, <3>7 DEF KeptWrite
    <2>3. \A r \in Q.seen : r.pass # c.pass => InRegs(regs, r)
      BY <1>3, <1>9 DEF RunOnPlanned, Kept
    <2>4. Kept(regs, c, Q, m) BY <1>2, <1>6, <1>7, <2>2, <2>3 DEF Kept
    <2> QED BY <1>2, <2>4, AStepKeepsStays
  <1> QED BY <1>2, <1>8, <1>9

LEMMA ReadHoldersKeepsStays ==
    ASSUME RaceInv, KeptInv, NEW t \in Txs, ReadHolders(t) PROVE KeptInv'
  <1> DEFINE c == call[t]
             p == plan[t]
             m == mine[t]
  <1>1. c \in Calls /\ pc[t] = "holders" BY HoldersRead
  <1>2. PICK g, Q :
          /\ g \in p.unread
          /\ Moves(t, c, Q, "holders", m, written)
          /\ PlanTyped(Q) /\ Q.own = p.own /\ Q.gaps = p.gaps /\ Q.todo = p.todo
          /\ Q.leg = p.leg /\ Q.unread = p.unread \ {g}
          /\ Q.seen = p.seen \cup
               { r \in Holders(View(t), c.pass, c.car, p.leg[1], p.leg[2]) : r.garage = g }
    BY HoldersRead
  <1>3. Kept(regs, c, p, m) BY <1>1 DEF KeptInv
  <1>4. ASSUME NEW r \in Q.seen, r.pass # c.pass PROVE InRegs(regs, r)
    <2>1. r \in p.seen \/ r \in regs \/ r \in mine[t] BY <1>2 DEF Holders, View
    <2>2. r \in mine[t] => InRegs(regs, r) BY <1>4 DEF RaceInv, Owned, InRegs
    <2> QED BY <1>3, <1>4, <2>1, <2>2 DEF Kept, InRegs, SameRow
  <1>5. /\ \A s \in m : KeptRow(regs, c, Q, m, s)
        /\ \A w \in Q.todo : KeptWrite(regs, c, Q, m, w)
    BY <1>2, <1>3, MoreIsKept DEF Kept
  <1>6. \A x \in Q.own : KeptOwn(regs, c, Q, x) BY <1>2, <1>3 DEF Kept, KeptOwn
  <1>7. Kept(regs, c, Q, m) BY <1>4, <1>5, <1>6 DEF Kept
  <1> QED BY <1>2, <1>7, AStepKeepsStays

(* A call of its pass's own terms releases nobody of its own pass.         *)
LEMMA AHolderGivingWayIsForeign ==
    ASSUME RaceInv, HeldInv, NEW t \in Txs, pc[t] = "holders", NEW r \in Row,
           call[t].verb \in {"register", "hold"},
           Released(r, plan[t].leg[1]) \/ TurnsOver(r, call[t].pass, plan[t].leg[1])
    PROVE  r.pass # call[t].pass
  <1> DEFINE c == call[t]
             f == plan[t].leg[1]
  <1>1. CASE TurnsOver(r, c.pass, f) BY <1>1 DEF TurnsOver
  <1>2. CASE Released(r, f)
    <2> SUFFICES ASSUME r.pass = c.pass PROVE FALSE OBVIOUS
    <2>1. c \in Calls /\ PlanTyped(plan[t]) BY DEF RaceInv, OnACall, Typed
    <2>2. /\ c.pass \in Passes /\ c.from \in Int /\ c.to \in Int /\ f \in Int
          /\ ValidTo[c.pass] \in Int
      BY <2>1, CallsAssumption, MaxDayAssumption, PassAssumption
         DEF Call, Day, EndDay, Forever, PlanTyped
    <2>3. ValidTo[c.pass] < f BY <1>2 DEF Released, ExpiredOn
    <2>4. InTerms(c) BY DEF HeldInv, Serving
    <2>5. CASE c.verb = "register"
      <3>1. f = c.from BY <2>5 DEF HeldInv, Serving
      <3> QED BY <2>2, <2>3, <2>4, <3>1 DEF InTerms, ExpiredOn
    <2>6. CASE c.verb = "hold"
      <3>1. f < c.to BY <2>6 DEF HeldInv, Serving, Served
      <3>2. c.to # Forever BY <2>1, <2>6, CallsAssumption
      <3>3. c.to <= ValidTo[c.pass] + 1 BY <2>4, <3>2 DEF InTerms
      <3> QED BY <2>2, <2>3, <3>1, <3>3
    <2> QED BY <2>5, <2>6
  <1> QED BY <1>1, <1>2

(* What a holder is made to give is some of its days, and no stay of it.   *)
LEMMA GivingWayShrinks ==
    ASSUME NEW R, NEW c, NEW r \in Row, NEW f \in Day, f < r.to, r.pass # c.pass, InRegs(R, r),
           Released(r, f) \/ TurnsOver(r, c.pass, f)
    PROVE  Shrinks(R, c, GiveWay(r, f))
  <1> DEFINE w == GiveWay(r, f)
  <1>1. /\ r.from \in Int /\ r.to \in Int /\ f \in Int /\ ValidTo[r.pass] \in Int /\ Forever \in Int
        /\ r.from < Forever /\ f < Forever
    BY RowFields, PassAssumption, MaxDayAssumption DEF Day, Forever
  <1>2. Like(w.row, r) /\ (w.row.to <= f \/ w.row.to <= w.row.from)
    BY AHolderGivesWay
  <1>3. InRegs(R, w.row) /\ w.row.pass = r.pass /\ w.row.from = r.from
    BY <1>2 DEF InRegs, Like, SameRow
  <1>4. CASE Released(r, f)
    <2>1. w.kind = "if_open" /\ w.row.why = ENDED_BY_EXPIRY
          /\ w.row.to = Greatest(ValidTo[r.pass] + 1, r.from)
      BY <1>4 DEF GiveWay, Release, Update, Row
    <2>2. w.row.to \in Int BY <1>1, <2>1 DEF Greatest
    <2>3. w.row.to < Forever BY <1>1, <1>2, <1>3, <2>2
    <2> QED BY <1>3, <2>1, <2>3 DEF Shrinks, Foreign, ENDED_BY_EXPIRY, ENDED_AFTER_LAST_DAY
  <1>5. CASE ~Released(r, f)
    <2>1. w.kind = "as_read" /\ w.row.why = ENDED_BY_NEXT_STAY /\ w.was = r.to
          /\ w.row.to = Greatest(f, r.from)
      BY <1>5 DEF GiveWay, Turnover, Update, Row
    <2>2. r.from <= f BY <1>5 DEF TurnsOver
    <2>3. w.row.to = f BY <1>1, <2>1, <2>2 DEF Greatest
    <2>4. w.row.to <= w.was /\ w.row.to < w.was BY <1>1, <2>1, <2>3
    <2> HIDE DEF w
    <2>5. Shrinks(R, c, w)
      BY <1>3, <2>1, <2>4 DEF Shrinks, Foreign, ENDED_BY_NEXT_STAY, ENDED_AFTER_LAST_DAY
    <2> QED BY <2>5 DEF w
  <1> QED BY <1>4, <1>5

(* The rows a call adds are numbered by it, and it adds one per garage.    *)
LEMMA TheNewRowsAreWhole ==
    ASSUME RaceInv, NEW c, NEW P, NEW m, NEW n \in Nat,
           c.pass \in Passes, c.car \in Cars, NEW f \in Day, NEW e \in EndDay, NEW why \in Reasons,
           \A a \in regs : a.reg # n,
           \A y \in NewRows(n, c.pass, c.car, f, e, why) : y \in m \/ ToPut(P, y),
           NEW s \in NewRows(n, c.pass, c.car, f, e, why)
    PROVE  ~InRegs(regs, s) /\ Whole(regs, c, P, m, s)
  <1> DEFINE N == NewRows(n, c.pass, c.car, f, e, why)
  <1>1. ASSUME NEW y \in N
        PROVE  y.reg = n /\ y.pass = c.pass /\ y.car = c.car /\ y.from = f /\ y.to = e
    BY ANewRowIsPut
  <1>2. ASSUME NEW g \in GaragesOf[c.pass] PROVE \E y \in N : y.garage = g
    <2> DEFINE y == [reg |-> n, garage |-> g, pass |-> c.pass, car |-> c.car, from |-> f, to |-> e,
                     why |-> IF e = Forever THEN OPEN ELSE why]
    <2>1. y \in N BY DEF NewRows
    <2>2. y.garage = g OBVIOUS
    <2> QED BY <2>1, <2>2
  <1> HIDE DEF N
  <1>3. \A y \in N : ~InRegs(regs, y) BY <1>1 DEF InRegs, SameRow
  <1>4. \A y \in N : Mates(y, s) /\ y.to = s.to BY <1>1 DEF Mates, N
  <1>5. \A y \in N : y \in m \/ ToPut(P, y) BY DEF N
  <1> QED BY <1>2, <1>3, <1>4, <1>5 DEF Whole, N

LEMMA JudgeHoldersKeepsStays ==
    ASSUME RaceInv, HeldInv, KeptInv, NEW t \in Txs, JudgeHolders(t) PROVE KeptInv'
  <1>1. CASE Rollback(t) BY <1>1, RollbackKeepsStays
  <1>2. CASE ~Rollback(t)
    <2> DEFINE c == call[t]
               p == plan[t]
               m == mine[t]
               f == p.leg[1]
               why == IF c.verb = "hold" THEN ENDED_AFTER_LAST_DAY ELSE c.why
               N == NewRows(written, c.pass, c.car, f, p.leg[2], why)
    <2>1. /\ pc[t] = "holders" /\ c \in Calls /\ c.verb \in {"register", "hold"} /\ p.todo = {}
          /\ \A r \in p.seen : Released(r, f) \/ TurnsOver(r, c.pass, f)
      BY <1>2, Judged
    <2>2. PICK Q : /\ Moves(t, c, Q, "write", m, written + 1)
                   /\ PlanTyped(Q) /\ Q.own = p.own /\ Q.gaps = p.gaps /\ Q.leg = p.leg
                   /\ Q.unread = p.unread /\ Q.seen = {}
                   /\ \A r \in p.seen : GiveWay(r, f) \in Q.todo
                   /\ \A r \in N : Put(r) \in Q.todo
                   /\ \A w \in Q.todo :
                        \/ /\ \E r \in p.seen : w = GiveWay(r, f) /\ Like(w.row, r)
                           /\ w.kind # "put" /\ Trims(w)
                           /\ w.row.to <= f \/ w.row.to <= w.row.from
                        \/ /\ \E r \in N : w = Put(r)
                           /\ w.kind = "put" /\ w.row.reg = written
                           /\ w.row.pass = c.pass /\ w.row.car = c.car /\ w.row.from = f
                           /\ w.row.garage \in GaragesOf[c.pass]
      BY <1>2, Judged
    <2>3. Kept(regs, c, p, m) BY <2>1 DEF KeptInv
    <2>4. MayPlan(c, p, "holders") /\ PlanTyped(p) BY <2>1 DEF RaceInv, Intents, Typed
    <2>5. why \in Reasons /\ c.pass \in Passes /\ c.car \in Cars /\ written \in Nat
          /\ f \in Day /\ p.leg[2] \in EndDay
      BY <2>1, <2>4, CallsAssumption DEF Call, Reasons, RaceInv, Typed, PlanTyped
    <2>6. \A a \in regs : a.reg # written
      <3> SUFFICES ASSUME NEW a \in regs PROVE a.reg # written OBVIOUS
      <3>1. a.reg < written /\ a.reg \in Nat BY RowFields DEF RaceInv, Typed, Kin, IsKnown
      <3> QED BY <2>5, <3>1
    <2> HIDE DEF why
    <2>7. \A r \in N : Put(r).row = r /\ Put(r).kind = "put" BY DEF Put
    <2>8. \A r \in N : ToPut(Q, r) BY <2>2, <2>7 DEF ToPut
    <2>9. \A r \in N : Whole(regs, c, Q, m, r) BY <2>5, <2>6, <2>8, TheNewRowsAreWhole
    <2> HIDE DEF N
    <2>10. ASSUME NEW w \in Q.todo PROVE KeptWrite(regs, c, Q, m, w)
      <3>1. CASE \E r \in p.seen : w = GiveWay(r, f)
        <4>1. PICK r \in p.seen : w = GiveWay(r, f) BY <3>1
        <4>2. r \in Row /\ f < r.to BY <2>1, <2>4 DEF MayPlan, PlanTyped
        <4>3. r.pass # c.pass BY <2>1, <4>2, AHolderGivingWayIsForeign
        <4>4. InRegs(regs, r) BY <2>3, <4>3 DEF Kept
        <4>5. Shrinks(regs, c, w) BY <2>1, <2>5, <4>1, <4>2, <4>3, <4>4, GivingWayShrinks
        <4>6. w.kind # "put" BY <2>1, <2>5, <4>1, <4>2, AHolderGivesWay
        <4> QED BY <4>5, <4>6 DEF KeptWrite
      <3>2. CASE \E r \in N : w = Put(r) /\ w.kind = "put" /\ w.row.pass = c.pass
        BY <2>7, <2>9, <3>2 DEF KeptWrite
      <3> QED BY <2>2, <3>1, <3>2
    <2>11. \A s \in m : KeptRow(regs, c, Q, m, s) BY <2>1, <2>3, MoreIsKept DEF Kept
    <2>12. \A x \in Q.own : KeptOwn(regs, c, Q, x) BY <2>2, <2>3 DEF Kept, KeptOwn
    <2>13. Kept(regs, c, Q, m) BY <2>2, <2>10, <2>11, <2>12 DEF Kept
    <2> QED BY <2>2, <2>13, AStepKeepsStays
  <1> QED BY <1>1, <1>2

(* A version placed stands for the write it came from, and for the version *)
(* of that row written before.                                             *)
LEMMA APlacedRowIsKept ==
    ASSUME RaceInv, TakeInv, KeptInv, NEW t \in Txs, pc[t] = "write", NEW w \in plan[t].todo,
           NEW x, Like(x, w.row), NEW Q, Q.todo = plan[t].todo \ {w},
           w.kind = "put" => x = w.row,
           w.kind # "put" => InRegs(regs, w.row)
    PROVE  /\ \A a : Abreast(regs, a, plan[t], mine[t]) => Abreast(regs, a, Q, Versions(t, x))
           /\ \A a : Whole(regs, call[t], plan[t], mine[t], a)
                       => Whole(regs, call[t], Q, Versions(t, x), a)
  <1> DEFINE c == call[t]
             p == plan[t]
             m == mine[t]
             n == Versions(t, x)
  <1>1. x \in n /\ \A s \in m : s \in n \/ SameRow(s, x) BY DEF Versions
  <1>2. ASSUME NEW a, Abreast(regs, a, p, m) PROVE Abreast(regs, a, Q, n)
    <2> SUFFICES ASSUME NEW r \in regs, Mates(r, a), Stay(r)
                 PROVE  (\E v \in Q.todo : SameRow(v.row, r)) \/ \E s \in n : SameRow(s, r)
      BY DEF Abreast
    <2>1. (\E v \in p.todo : SameRow(v.row, r)) \/ \E s \in m : SameRow(s, r)
      BY <1>2 DEF Abreast
    <2>2. ASSUME NEW v \in p.todo, SameRow(v.row, r), v \notin Q.todo PROVE SameRow(x, r)
      BY <2>2 DEF Like, SameRow
    <2>3. ASSUME NEW s \in m, SameRow(s, r), s \notin n PROVE SameRow(x, r)
      BY <1>1, <2>3 DEF SameRow
    <2> QED BY <1>1, <2>1, <2>2, <2>3
  <1>3. ASSUME NEW y, y \in m, ~InRegs(regs, y) PROVE y \in n
    <2>1. w.kind = "put" => ~SameRow(w.row, y)
      BY <1>3 DEF TakeInv, FreshPuts, Others
    <2>2. w.kind # "put" => ~SameRow(w.row, y) BY <1>3 DEF InRegs, SameRow
    <2>3. ~SameRow(y, x) BY <2>1, <2>2 DEF Like, SameRow
    <2> QED BY <1>1, <1>3, <2>3
  <1>4. ASSUME NEW y, ToPut(p, y) PROVE y \in n \/ ToPut(Q, y)
    <2>1. PICK v \in p.todo : v.kind = "put" /\ y = v.row BY <1>4 DEF ToPut
    <2> QED BY <1>1, <2>1 DEF ToPut
  <1>5. ASSUME NEW a, Whole(regs, c, p, m, a) PROVE Whole(regs, c, Q, n, a)
    BY <1>3, <1>4, <1>5 DEF Whole
  <1> QED BY <1>2, <1>5

LEMMA PlacingKeepsStays ==
    ASSUME RaceInv, TakeInv, KeptInv, NEW t \in Txs, pc[t] = "write", NEW w \in plan[t].todo,
           NEW x, Like(x, w.row), Place(t, w, x),
           w.kind = "put" => x = w.row,
           w.kind # "put" => InRegs(regs, w.row),
           \/ ~InRegs(regs, x) /\ x.pass = call[t].pass
              /\ Whole(regs, call[t], plan[t], mine[t], x)
           \/ Shrunk(regs, call[t], x)
           \/ Moved(regs, call[t], plan[t], mine[t], x)
    PROVE  KeptInv'
  <1> DEFINE c == call[t]
             p == plan[t]
             m == mine[t]
             n == Versions(t, x)
  <1>1. PICK Q : /\ Moves(t, c, Q, "check", n, written)
                 /\ PlanTyped(Q) /\ Q.todo = p.todo \ {w} /\ Q.own = p.own
                 /\ Q.seen = p.seen /\ Q.gaps = p.gaps /\ Q.leg = p.leg
                 /\ Q.unread = p.unread
    BY PlacingMoves
  <1>2. Kept(regs, c, p, m) BY DEF KeptInv
  <1> HIDE DEF n
  <1>3. /\ \A a : Abreast(regs, a, p, m) => Abreast(regs, a, Q, n)
        /\ \A a : Whole(regs, c, p, m, a) => Whole(regs, c, Q, n, a)
    BY <1>1, APlacedRowIsKept DEF n
  <1>4. \A a : Moved(regs, c, p, m, a) => Moved(regs, c, Q, n, a) BY <1>3 DEF Moved
  <1>5. \A s : KeptRow(regs, c, p, m, s) => KeptRow(regs, c, Q, n, s)
    BY <1>3, <1>4 DEF KeptRow
  <1>6. \A v : KeptWrite(regs, c, p, m, v) => KeptWrite(regs, c, Q, n, v)
    BY <1>3, <1>4 DEF KeptWrite
  <1>7. KeptRow(regs, c, p, m, x) BY DEF KeptRow
  <1>8. \A s \in n : s \in m \/ s = x BY DEF n, Versions
  <1>9. \A s \in n : KeptRow(regs, c, Q, n, s) BY <1>2, <1>5, <1>7, <1>8 DEF Kept
  <1>10. \A v \in Q.todo : KeptWrite(regs, c, Q, n, v) BY <1>1, <1>2, <1>6 DEF Kept
  <1>11. \A a \in Q.own : KeptOwn(regs, c, Q, a) BY <1>1, <1>2 DEF Kept, KeptOwn
  <1>12. Kept(regs, c, Q, n) BY <1>1, <1>2, <1>9, <1>10, <1>11 DEF Kept
  <1> QED BY <1>1, <1>12, AStepKeepsStays

(* An UPDATE that shortens the row it matches shortens what is committed.  *)
LEMMA AShrinkingWriteShrinks ==
    ASSUME RaceInv, KeptInv, NEW t \in Txs, pc[t] = "write", NEW w \in plan[t].todo,
           NEW cur \in View(t), Like(cur, w.row), Matches(w, cur), Shrinks(regs, call[t], w),
           NEW x, Like(x, w.row), x.to = w.row.to, x.why = w.row.why
    PROVE  Shrunk(regs, call[t], x)
  <1> DEFINE c == call[t]
  <1>1. cur.to \in Int /\ cur \in Row BY WhatIsSeen, RowFields
  <1>2. w.was \in Int /\ w.row.to \in Int
    BY WriteFields, RowFields DEF RaceInv, Typed, PlanTyped
  <1>3. x.pass = w.row.pass /\ cur.pass = w.row.pass /\ SameRow(cur, x) BY DEF Like, SameRow
  <1>4. w.row.to <= cur.to /\ (w.row.pass # c.pass => w.row.to < cur.to)
    <2>1. CASE w.kind = "as_read"
      BY <1>1, <1>2, <2>1 DEF Shrinks, Matches, Foreign
    <2>2. CASE w.kind = "if_open"
      BY <1>1, <1>2, <2>2 DEF Shrinks, Matches
    <2>3. CASE w.kind = "if_later"
      BY <1>1, <1>2, <2>3 DEF Shrinks, Matches
    <2> QED BY <2>1, <2>2, <2>3 DEF Shrinks
  <1>5. x.why # ENDED_AFTER_LAST_DAY /\ (x.pass = c.pass => ~MovesStays(c))
    BY <1>3 DEF Shrinks
  <1>6. CASE cur \in regs BY <1>3, <1>4, <1>5, <1>6 DEF Shrunk, Foreign
  <1>7. CASE cur \in mine[t]
    <2>1. KeptRow(regs, c, plan[t], mine[t], cur) BY <1>7 DEF KeptInv, Kept
    <2>2. InRegs(regs, cur) BY DEF Shrinks, InRegs, Like, SameRow
    <2>3. Shrunk(regs, c, cur) BY <1>3, <1>5, <2>1, <2>2 DEF KeptRow, Moved
    <2>4. PICK a \in regs : SameRow(a, cur) /\ cur.to <= a.to
      BY <2>3 DEF Shrunk
    <2>5. a.to \in Int BY RowFields DEF RaceInv, Typed
    <2>6. SameRow(a, x) BY <1>3, <2>4 DEF SameRow
    <2>7. x.to <= a.to /\ (Foreign(c, x) => x.to < a.to)
      BY <1>1, <1>2, <1>3, <1>4, <2>4, <2>5 DEF Foreign
    <2> QED BY <1>5, <2>6, <2>7 DEF Shrunk
  <1> QED BY <1>6, <1>7 DEF View

LEMMA WriteRowKeepsStays ==
    ASSUME RaceInv, TakeInv, KeptInv, NEW t \in Txs, WriteRow(t) PROVE KeptInv'
  <1>1. CASE Rollback(t) BY <1>1, RollbackKeepsStays
  <1>2. CASE ~Rollback(t)
    <2> DEFINE c == call[t]
               p == plan[t]
               m == mine[t]
    <2>1. pc[t] = "write" BY <1>2, Writing
    <2>2. PICK w \in p.todo :
                \/ w.kind = "put" /\ Place(t, w, w.row)
                \/ /\ w.kind # "put" /\ \A u \in Txs \ {t} : ~HasWritten(u, w.row)
                   /\ \E cur \in View(t) :
                        /\ Like(cur, w.row)
                        /\ \/ /\ Matches(w, cur)
                              /\ \E r \in Row : /\ Like(r, w.row) /\ r.to = w.row.to
                                                /\ r.why = w.row.why
                                                /\ Trims(w) => r.to <= cur.to
                                                /\ Place(t, w, r)
                           \/ /\ ~Matches(w, cur) /\ ~FoundMoved(w, cur)
                              /\ \E Q : /\ Moves(t, c, Q, "write", m, written)
                                        /\ PlanTyped(Q) /\ Q.todo = p.todo \ {w}
                                        /\ Q.own = p.own /\ Q.seen = p.seen
                                        /\ Q.gaps = p.gaps /\ Q.leg = p.leg
                                        /\ Q.unread = p.unread
      BY <1>2, Writing
    <2>3. Kept(regs, c, p, m) /\ KeptWrite(regs, c, p, m, w) BY <2>1 DEF KeptInv, Kept
    <2>4. CASE w.kind = "put" /\ Place(t, w, w.row)
      <3>1. w.row.pass = c.pass /\ Whole(regs, c, p, m, w.row)
        BY <2>3, <2>4 DEF KeptWrite
      <3>2. ~InRegs(regs, w.row)
        <4>1. \A a \in regs : ~SameRow(w.row, a) BY <2>4 DEF TakeInv, FreshPuts, Others
        <4> QED BY <4>1 DEF InRegs, SameRow
      <3>3. Like(w.row, w.row) BY LikeIsEquivalence
      <3> QED BY <2>1, <2>4, <3>1, <3>2, <3>3, PlacingKeepsStays
    <2>5. ASSUME w.kind # "put", NEW cur \in View(t), Like(cur, w.row), Matches(w, cur),
                 NEW x \in Row, Like(x, w.row), x.to = w.row.to, x.why = w.row.why, Place(t, w, x)
          PROVE  KeptInv'
      <3>1. Shrinks(regs, c, w) \/ Moved(regs, c, p, m, w.row) BY <2>3, <2>5 DEF KeptWrite
      <3>2. InRegs(regs, w.row) BY <3>1 DEF Shrinks, Moved
      <3>3. CASE Shrinks(regs, c, w)
        <4>1. Shrunk(regs, c, x) BY <2>1, <2>5, <3>3, AShrinkingWriteShrinks
        <4> QED BY <2>1, <2>5, <3>2, <4>1, PlacingKeepsStays
      <3>4. CASE Moved(regs, c, p, m, w.row)
        <4>1. Moved(regs, c, p, m, x)
          BY <2>5, <3>4 DEF Moved, InRegs, Abreast, Bounded, Mates, Like, SameRow
        <4> QED BY <2>1, <2>5, <3>2, <4>1, PlacingKeepsStays
      <3> QED BY <3>1, <3>3, <3>4
    <2>6. ASSUME w.kind # "put", NEW cur, ~Matches(w, cur), ~FoundMoved(w, cur), NEW Q,
                 Moves(t, c, Q, "write", m, written), Q.todo = p.todo \ {w},
                 Q.own = p.own, Q.seen = p.seen
          PROVE  KeptInv'
      <3>1. w.kind \notin {"as_read", "by_id"} BY <2>6 DEF Matches, FoundMoved
      <3>2. Shrinks(regs, c, w) BY <2>3, <2>6, <3>1 DEF KeptWrite
      <3>3. IsKnown(w.row) BY DEF IsKnown, Known
      <3>4. ASSUME NEW a, Moved(regs, c, p, m, a) PROVE Moved(regs, c, Q, m, a)
        <4> SUFFICES ASSUME NEW r \in regs, Mates(r, a), Stay(r)
                     PROVE  (\E v \in Q.todo : SameRow(v.row, r)) \/ \E s \in m : SameRow(s, r)
          BY <3>4 DEF Moved, Abreast
        <4>1. (\E v \in p.todo : SameRow(v.row, r)) \/ \E s \in m : SameRow(s, r)
          BY <3>4 DEF Moved, Abreast
        <4>2. ASSUME SameRow(w.row, r) PROVE FALSE
          <5>1. Like(w.row, r) BY <3>3, <4>2 DEF RaceInv, Kin, IsKnown
          <5> QED BY <3>2, <3>4, <5>1 DEF Moved, Mates, Like, Shrinks
        <4> QED BY <2>6, <4>1, <4>2
      <3>5. \A a : Whole(regs, c, p, m, a) => Whole(regs, c, Q, m, a)
        BY <2>6 DEF Whole, ToPut
      <3>6. \A s \in m : KeptRow(regs, c, Q, m, s) BY <2>3, <3>4, <3>5 DEF Kept, KeptRow
      <3>7. \A v \in Q.todo : KeptWrite(regs, c, Q, m, v)
        BY <2>3, <2>6, <3>4, <3>5 DEF Kept, KeptWrite
      <3>8. \A x \in Q.own : KeptOwn(regs, c, Q, x) BY <2>3, <2>6 DEF Kept, KeptOwn
      <3>9. Kept(regs, c, Q, m) BY <2>3, <2>6, <3>6, <3>7, <3>8 DEF Kept
      <3> QED BY <2>6, <3>9, AStepKeepsStays
    <2> QED BY <2>2, <2>4, <2>5, <2>6
  <1> QED BY <1>1, <1>2

LEMMA SettleKeepsStays ==
    ASSUME RaceInv, KeptInv, NEW t \in Txs, Settle(t) PROVE KeptInv'
  <1>1. Moves(t, call[t], plan[t], "write", mine[t], written)
    BY DEF Settle, Go, Moves, RaceInv, Typed
  <1>2. Kept(regs, call[t], plan[t], mine[t]) BY DEF Settle, KeptInv
  <1> QED BY <1>1, <1>2, AStepKeepsStays

(* What a commit leaves: the rows nobody wrote, and those its call wrote.  *)
LEMMA WhatACommitLeaves ==
    ASSUME RaceInv, TakeInv, KeptInv, NEW t \in Txs, Commit(t)
    PROVE  /\ regs' = View(t) /\ pc[t] = "write" /\ plan[t].todo = {}
           /\ \A q \in regs' : q \in mine[t] \/ (q \in regs /\ \A s \in mine[t] : ~SameRow(s, q))
           /\ \A s \in mine[t] : s \in regs' /\ KeptRow(regs, call[t], plan[t], mine[t], s)
           /\ \A q \in regs' : q.pass # call[t].pass =>
                \E a \in regs : /\ Like(a, q) /\ q.to <= a.to /\ (q \in regs \/ q.to < a.to)
                                /\ q.why = ENDED_AFTER_LAST_DAY => q \in regs
           /\ \A u \in Txs : /\ call'[u] = IF u = t THEN NoCall ELSE call[u]
                             /\ plan'[u] = IF u = t THEN NoPlan ELSE plan[u]
                             /\ pc'[u] = IF u = t THEN "idle" ELSE pc[u]
                             /\ mine'[u] = IF u = t THEN {} ELSE mine[u]
  <1>1. /\ regs' = View(t) /\ pc[t] = "write" /\ plan[t].todo = {}
        /\ \A u \in Txs : /\ call'[u] = IF u = t THEN NoCall ELSE call[u]
                          /\ plan'[u] = IF u = t THEN NoPlan ELSE plan[u]
                          /\ pc'[u] = IF u = t THEN "idle" ELSE pc[u]
                          /\ mine'[u] = IF u = t THEN {} ELSE mine[u]
    BY DEF Commit, Closed, Go, Plans, RaceInv, Typed
  <1>2. \A q \in regs' : q \in mine[t] \/ (q \in regs /\ \A s \in mine[t] : ~SameRow(s, q))
    BY <1>1 DEF View, Superseded, SameRow
  <1>3. \A s \in mine[t] : s \in regs' /\ KeptRow(regs, call[t], plan[t], mine[t], s)
    BY <1>1 DEF View, KeptInv, Kept
  <1>4. ASSUME NEW q \in regs', q.pass # call[t].pass
        PROVE  \E a \in regs : /\ Like(a, q) /\ q.to <= a.to /\ (q \in regs \/ q.to < a.to)
                               /\ q.why = ENDED_AFTER_LAST_DAY => q \in regs
    <2>1. CASE q \in regs
      <3>1. q.to <= q.to BY <2>1, RowFields DEF RaceInv, Typed
      <3> QED BY <2>1, <3>1, LikeIsEquivalence
    <2>2. CASE q \in mine[t]
      <3>1. Shrunk(regs, call[t], q) BY <1>3, <1>4, <2>2 DEF KeptRow, Moved
      <3>2. PICK a \in regs : SameRow(a, q) /\ q.to <= a.to /\ q.to < a.to
        BY <1>4, <3>1 DEF Shrunk, Foreign
      <3>3. Like(a, q) BY <2>2, <3>2 DEF RaceInv, Kin, IsKnown, Known
      <3> QED BY <3>1, <3>2, <3>3 DEF Shrunk
    <2> QED BY <1>2, <2>1, <2>2
  <1> QED BY <1>1, <1>2, <1>3, <1>4

(* A row the call adds beside a row of its pass: both are at one garage,   *)
(* so one of the two is empty.                                             *)
LEMMA AnAddedRowIsBesideNone ==
    ASSUME RaceInv, TakeInv, KeptInv, NEW t \in Txs, Commit(t), OneCarOnePass', Typed', Kin',
           NEW s \in mine[t], ~InRegs(regs, s), Whole(regs, call[t], plan[t], mine[t], s),
           NEW q \in regs', Mates(q, s), q.pass = call[t].pass
    PROVE  q.to = s.to \/ q.to <= q.from \/ s.to <= s.from
  <1>1. q \in Row /\ s \in Row /\ q.from \in Int /\ q.to \in Int /\ s.from \in Int /\ s.to \in Int
    BY RowFields DEF RaceInv, Typed
  <1>2. q.garage \in GaragesOf[call[t].pass] BY DEF Kin, IsKnown
  <1>3. PICK y : /\ y \in mine[t] \/ ToPut(plan[t], y)
                 /\ y.garage = q.garage /\ Mates(y, s) /\ y.to = s.to
    BY <1>2 DEF Whole
  <1>4. y \in regs' BY <1>3, WhatACommitLeaves DEF ToPut
  <1>5. CASE y = q BY <1>3, <1>5
  <1>6. CASE y # q
    <2>1. ~Clash(y, q) BY <1>4, <1>6 DEF OneCarOnePass, Clash, Overlaps
    <2> QED BY <1>1, <1>3, <2>1 DEF Clash, Overlaps, Mates
  <1> QED BY <1>5, <1>6

(* The rows a commit leaves: no mate of a stay's row ends after it.        *)
LEMMA CommitKeepsStayEnds ==
    ASSUME RaceInv, TakeInv, KeptInv, NEW t \in Txs, Commit(t), OneCarOnePass', Typed', Kin'
    PROVE  StayEnds(regs')
  <1> DEFINE c == call[t]
             p == plan[t]
             m == mine[t]
  <1> SUFFICES ASSUME NEW r \in regs', NEW q \in regs', Mates(r, q), Stay(r) PROVE q.to <= r.to
    BY DEF StayEnds
  <1>1. /\ r \in Row /\ q \in Row /\ r.from \in Int /\ r.to \in Int /\ q.from \in Int /\ q.to \in Int
        /\ r.pass = q.pass /\ r.car = q.car /\ r.from = q.from /\ r.from < r.to
        /\ Mates(q, r)
    BY RowFields DEF Typed, Mates, Stay
  <1>2. /\ p.todo = {}
        /\ \A s \in regs' : s \in m \/ (s \in regs /\ \A a \in m : ~SameRow(a, s))
        /\ \A s \in m : KeptRow(regs, c, p, m, s)
    BY WhatACommitLeaves
  <1>3. StayEnds(regs) BY DEF KeptInv
  <1>4. CASE r.pass # c.pass
    <2>1. r \in regs BY <1>4, WhatACommitLeaves DEF Stay
    <2>2. PICK a \in regs : Like(a, q) /\ q.to <= a.to BY <1>1, <1>4, WhatACommitLeaves
    <2>3. a.to <= r.to BY <1>3, <2>1, <2>2 DEF StayEnds, Mates, Like
    <2>4. a.to \in Int BY RowFields DEF RaceInv, Typed
    <2> QED BY <1>1, <2>2, <2>3, <2>4
  <1>5. CASE r.pass = c.pass
    <2>1. ASSUME NEW s \in m, ~InRegs(regs, s), Whole(regs, c, p, m, s), s \in {r, q}
          PROVE  q.to <= r.to
      <3>1. CASE s = r
        <4>1. q.to = r.to \/ q.to <= q.from \/ r.to <= r.from
          BY <1>1, <1>5, <2>1, <3>1, AnAddedRowIsBesideNone
        <4> QED BY <1>1, <4>1
      <3>2. CASE s = q
        <4>1. r.to = q.to \/ r.to <= r.from \/ q.to <= q.from
          BY <1>1, <1>5, <2>1, <3>2, AnAddedRowIsBesideNone
        <4> QED BY <1>1, <4>1
      <3> QED BY <2>1, <3>1, <3>2
    <2>2. ASSUME Shrunk(regs, c, r) PROVE FALSE BY <2>2 DEF Shrunk, Stay
    <2>3. ASSUME r \in regs, Shrunk(regs, c, q), q \in m PROVE q.to <= r.to
      <3>1. PICK a \in regs : SameRow(a, q) /\ q.to <= a.to BY <2>3 DEF Shrunk
      <3>2. Like(a, q) BY <2>3, <3>1 DEF RaceInv, Kin, IsKnown, Known
      <3>3. a.to <= r.to BY <1>3, <2>3, <3>2 DEF StayEnds, Mates, Like
      <3>4. a.to \in Int BY RowFields DEF RaceInv, Typed
      <3> QED BY <1>1, <3>1, <3>3, <3>4
    <2>4. ASSUME r \in regs, \A a \in m : ~SameRow(a, r), Moved(regs, c, p, m, q) PROVE FALSE
      BY <1>2, <2>4 DEF Moved, Abreast
    <2>5. ASSUME Moved(regs, c, p, m, r), q \in regs PROVE q.to <= r.to
      BY <1>1, <2>5 DEF Moved, Bounded, Stay
    <2>6. ASSUME Moved(regs, c, p, m, r), Shrunk(regs, c, q) PROVE FALSE
      BY <1>1, <1>5, <2>6 DEF Moved, Shrunk
    <2>7. ASSUME Moved(regs, c, p, m, r), Moved(regs, c, p, m, q) PROVE q.to <= r.to
      BY <1>1, <2>7 DEF Moved, Stay
    <2>8. CASE r \in m
      <3>1. \/ ~InRegs(regs, r) /\ Whole(regs, c, p, m, r)
            \/ Moved(regs, c, p, m, r)
        BY <1>2, <2>2, <2>8 DEF KeptRow
      <3>2. \/ q \in regs
            \/ q \in m /\ ~InRegs(regs, q) /\ Whole(regs, c, p, m, q)
            \/ Shrunk(regs, c, q)
            \/ Moved(regs, c, p, m, q)
        BY <1>2 DEF KeptRow
      <3> QED BY <2>1, <2>5, <2>6, <2>7, <2>8, <3>1, <3>2
    <2>9. CASE r \in regs /\ \A a \in m : ~SameRow(a, r)
      <3>1. CASE q \in regs BY <1>3, <2>9, <3>1 DEF StayEnds
      <3>2. CASE q \in m
        <4>1. \/ ~InRegs(regs, q) /\ Whole(regs, c, p, m, q)
              \/ Shrunk(regs, c, q)
              \/ Moved(regs, c, p, m, q)
          BY <1>2, <3>2 DEF KeptRow
        <4> QED BY <2>1, <2>3, <2>4, <2>9, <3>2, <4>1
      <3> QED BY <1>2, <3>1, <3>2
    <2> QED BY <1>2, <2>8, <2>9
  <1> QED BY <1>4, <1>5

(* What another call has in hand stands as it did: the rows of its pass    *)
(* only lost days, and none of them is a stay's that was not.              *)
LEMMA CommitKeepsOthers ==
    ASSUME RaceInv, TakeInv, KeptInv, NEW t \in Txs, Commit(t), NEW u \in Txs, u # t,
           PastLock(u), pc[u] # "idle"
    PROVE  Kept(regs', call[u], plan[u], mine[u])
  <1> DEFINE c == call[u]
             P == plan[u]
             m == mine[u]
  <1>1. PastLock(t) BY DEF Commit, PastLock
  <1>2. c.pass # call[t].pass BY <1>1 DEF RaceInv, LocksApart
  <1>3. Kept(regs, c, P, m) BY DEF KeptInv
  <1>4. regs' = View(t) BY WhatACommitLeaves
  <1>5. \A q \in regs' : q.pass = c.pass =>
          \E a \in regs : /\ Like(a, q) /\ q.to <= a.to
                          /\ q.why = ENDED_AFTER_LAST_DAY => q \in regs
    BY <1>2, WhatACommitLeaves
  <1>6. \A q \in regs' : q \in mine[t] \/ q \in regs BY <1>4 DEF View
  <1>7. \A a : InRegs(regs, a) => InRegs(regs', a)
    BY <1>4 DEF InRegs, View, Superseded, SameRow
  <1>8. ASSUME NEW y, y \in m \/ ToPut(P, y), ~InRegs(regs, y) PROVE ~InRegs(regs', y)
    <2> SUFFICES ASSUME NEW b \in mine[t], SameRow(b, y) PROVE FALSE
      BY <1>6, <1>8 DEF InRegs
    <2>1. CASE y \in m BY <2>1 DEF TakeInv, MineApart
    <2>2. CASE ToPut(P, y)
      <3>1. PICK v \in P.todo : v.kind = "put" /\ y = v.row BY <2>2 DEF ToPut
      <3>2. ~SameRow(v.row, b) BY <3>1 DEF TakeInv, FreshPuts, Others
      <3> QED BY <3>1, <3>2 DEF SameRow
    <2> QED BY <1>8, <2>1, <2>2
  <1>9. ASSUME NEW s, Whole(regs, c, P, m, s) PROVE Whole(regs', c, P, m, s)
    BY <1>8, <1>9 DEF Whole
  <1>10. ASSUME NEW x, x.pass = c.pass, Bounded(regs, x), x.to \in Int PROVE Bounded(regs', x)
    <2> SUFFICES ASSUME NEW q \in regs', Mates(q, x) PROVE q.to <= x.to BY DEF Bounded
    <2>1. PICK a \in regs : Like(a, q) /\ q.to <= a.to BY <1>5, <1>10 DEF Mates
    <2>2. a.to <= x.to BY <1>10, <2>1 DEF Bounded, Mates, Like
    <2>3. a.to \in Int /\ q.to \in Int
      BY <1>6, RowFields DEF RaceInv, Typed
    <2> QED BY <1>10, <2>1, <2>2, <2>3
  <1>11. ASSUME NEW x, x.pass = c.pass, NEW r \in regs', Mates(r, x), Stay(r) PROVE r \in regs
    BY <1>5, <1>11 DEF Mates, Stay
  <1>12. ASSUME NEW x, x.to \in Int, Moved(regs, c, P, m, x) PROVE Moved(regs', c, P, m, x)
    <2>1. x.pass = c.pass BY <1>12 DEF Moved
    <2>2. Abreast(regs', x, P, m) BY <1>11, <1>12, <2>1 DEF Moved, Abreast
    <2> QED BY <1>7, <1>10, <1>12, <2>1, <2>2 DEF Moved
  <1>13. ASSUME NEW s \in m, Shrunk(regs, c, s) PROVE Shrunk(regs', c, s)
    <2>1. PICK a \in regs : SameRow(a, s) /\ s.to <= a.to /\ (Foreign(c, s) => s.to < a.to)
      BY <1>13 DEF Shrunk
    <2>2. \A b \in mine[t] : ~SameRow(a, b) BY <2>1 DEF TakeInv, MineApart, SameRow
    <2>3. a \in regs' BY <1>4, <2>2 DEF View, Superseded
    <2> QED BY <1>13, <2>1, <2>3 DEF Shrunk
  <1>14. \A s \in m : s \in Row /\ s.to \in Int BY RowFields DEF RaceInv, Typed
  <1>15. ASSUME NEW s \in m PROVE KeptRow(regs', c, P, m, s)
    <2>1. KeptRow(regs, c, P, m, s) BY <1>3 DEF Kept
    <2> QED BY <1>8, <1>9, <1>12, <1>13, <1>14, <2>1 DEF KeptRow
  <1>16. ASSUME NEW w \in P.todo PROVE KeptWrite(regs', c, P, m, w)
    <2>1. KeptWrite(regs, c, P, m, w) BY <1>3 DEF Kept
    <2>2. w.row.to \in Int BY WriteFields, RowFields DEF RaceInv, Typed, PlanTyped
    <2>3. Shrinks(regs, c, w) => Shrinks(regs', c, w) BY <1>7 DEF Shrinks
    <2> QED BY <1>9, <1>12, <2>1, <2>2, <2>3 DEF KeptWrite
  <1>17. ASSUME NEW x \in P.own PROVE KeptOwn(regs', c, P, x)
    <2>1. KeptOwn(regs, c, P, x) BY <1>3 DEF Kept
    <2>2. x.to \in Int BY RowFields DEF RaceInv, Typed, PlanTyped
    <2>3. ASSUME Stay(x), NEW r \in regs', Mates(r, x), Stay(r)
          PROVE  \E y \in P.own : SameRow(y, r) /\ y.to = x.to
      BY <1>11, <2>1, <2>3 DEF KeptOwn
    <2> QED BY <1>7, <1>10, <2>1, <2>2, <2>3 DEF KeptOwn
  <1>18. \A r \in P.seen : r.pass # c.pass => InRegs(regs', r) BY <1>3, <1>7 DEF Kept
  <1> QED BY <1>15, <1>16, <1>17, <1>18 DEF Kept

LEMMA CommitKeepsStays ==
    ASSUME IInv, RaceInv, TakeInv, KeptInv, NEW t \in Txs, Commit(t) PROVE KeptInv'
  <1>1. IInv' BY NextKeepsIInv DEF Next, Statement
  <1>2. RaceInv' BY CommitKeeps
  <1>3. StayEnds(regs') BY <1>1, <1>2, CommitKeepsStayEnds DEF IInv, RaceInv
  <1>4. ASSUME NEW u \in Txs, pc'[u] # "idle" PROVE Kept(regs', call'[u], plan'[u], mine'[u])
    <2>1. u # t /\ pc[u] # "idle" /\ call'[u] = call[u] /\ plan'[u] = plan[u] /\ mine'[u] = mine[u]
      BY <1>4, WhatACommitLeaves
    <2>2. CASE PastLock(u)
      BY <2>1, <2>2, CommitKeepsOthers
    <2>3. CASE ~PastLock(u)
      <3>1. mine[u] = {} /\ plan[u] = NoPlan BY <2>3 DEF PastLock, RaceInv, Quiet
      <3> QED BY <2>1, <3>1, NoPlanFields, NothingKept
    <2> QED BY <2>2, <2>3
  <1> QED BY <1>3, <1>4 DEF KeptInv

LEMMA InitKeptInv == Init => KeptInv
  BY StartsAssumption DEF Init, LeftByOneWriter, NothingOutlastsAStay, KeptInv, StayEnds, Mates, Stay

LEMMA NextKeepsKeptInv ==
    IInv /\ RaceInv /\ TakeInv /\ HeldInv /\ KeptInv /\ [Next]_vars => KeptInv'
  <1> SUFFICES ASSUME IInv, RaceInv, TakeInv, HeldInv, KeptInv, [Next]_vars PROVE KeptInv' OBVIOUS
  <1>1. CASE UNCHANGED vars BY <1>1 DEF vars, KeptInv
  <1>2. ASSUME NEW t \in Txs, ExclusionViolation(t) \/ DeadlockDetected(t) \/ Lost(t)
        PROVE  KeptInv'
    BY <1>2, RollbackKeepsStays DEF ExclusionViolation, DeadlockDetected, Lost
  <1> QED BY <1>1, <1>2, BeginKeepsStays, LockPassKeepsStays, ReadToEndKeepsStays,
       ReadTheStayKeepsStays, ReadToRevokeKeepsStays, ReadToHoldKeepsStays, FillTheGapKeepsStays,
       ReadHoldersKeepsStays, JudgeHoldersKeepsStays, WriteRowKeepsStays, SettleKeepsStays,
       CommitKeepsStays DEF Next, Statement

-----------------------------------------------------------------------------
(* What one writer alone would have made of it.                            *)
(*                                                                         *)
(* The versions a register, an end or a revocation has written are, each,  *)
(* what the call makes of a row COMMITTED now: nobody else writes that row *)
(* until the call ends, and a write that finds it moved rolls the call back*)
(* (LoneRegister, LoneEnd, LoneRevoke).  What the call did not write it has*)
(* nothing to make of: a holder it had not read would clash with a row it  *)
(* adds, a mate of the registration it ends has ended earlier by now, and a*)
(* row it revokes ends by that day already.                                *)

Revoked(c, r) == [r EXCEPT !.to = RevocationDay(c, r), !.why = ENDED_BY_REVOCATION]
LoneRevoke(R, c, P, m) ==
    /\ \A s \in m : \E r \in R :
         r.pass = c.pass /\ RevocationDay(c, r) < r.to /\ s = Revoked(c, r)
    /\ \A w \in P.todo : w.row.why = ENDED_BY_REVOCATION

HolderOf(c, r) ==
    r.garage \in GaragesOf[c.pass] /\ r.car = c.car /\ Overlaps(r, c.from, c.to)
Added(c, n) == NewRows(n, c.pass, c.car, c.from, c.to, c.why)
LoneRegister(R, c, P, m, n) ==
    /\ \A x \in Added(c, n) : x \in m \/ Put(x) \in P.todo
    /\ \A s \in m : \/ s \in Added(c, n) /\ ~InRegs(R, s)
                    \/ \E r \in R : HolderOf(c, r) /\ Foreign(c, r) /\ s = GivenWay(r, c.from)
    /\ \A w \in P.todo : \/ w.kind = "put" /\ w.row \in Added(c, n)
                         \/ \E r \in Row : HolderOf(c, r) /\ Foreign(c, r) /\ w = GiveWay(r, c.from)

Cut(c, r) == [r EXCEPT !.to = c.to, !.why = ENDED_BY_OWNER]
OfTheStay(c, F, r) == r.pass = c.pass /\ r.car = c.car /\ r.from = F
Touched(P, m, a) == (\E w \in P.todo : SameRow(w.row, a)) \/ \E s \in m : SameRow(s, a)
LoneEnd(R, c, P, m, T, F) ==
    /\ \A w \in P.todo : /\ w.kind = "as_read" /\ w.was = T /\ w.row.to = c.to
                         /\ w.row.why = ENDED_BY_OWNER /\ OfTheStay(c, F, w.row)
    /\ \A s \in m : \E a \in R : OfTheStay(c, F, a) /\ a.to = T /\ s = Cut(c, a)
    /\ \A a \in R : OfTheStay(c, F, a) => a.to < T \/ Touched(P, m, a)
    /\ \E b \in Latest(R, c.pass, c.car) :
         /\ b.from = F /\ b.to <= T /\ Touched(P, m, b)
         /\ b.to = T => MayEnd(b, c.to)

Lone(R, W, c, P, m, at) ==
    /\ at = "holders" /\ c.verb = "register" => m = {} /\ \A r \in P.seen : HolderOf(c, r)
    /\ at \in {"write", "check"} =>
         /\ c.verb = "register" => \E n \in Nat : n < W /\ LoneRegister(R, c, P, m, n)
         /\ c.verb = "end" => \E T \in EndDay, F \in Day : LoneEnd(R, c, P, m, T, F)
         /\ c.verb = "revoke" => LoneRevoke(R, c, P, m)
AloneInv == \A t \in Txs : Lone(regs, written, call[t], plan[t], mine[t], pc[t])

LEMMA AStepIsAlone ==
    ASSUME RaceInv, AloneInv, NEW t \in Txs, NEW c, NEW P, NEW to, NEW m, NEW n \in Nat,
           written <= n, Moves(t, c, P, to, m, n), Lone(regs, n, c, P, m, to)
    PROVE  AloneInv'
  <1>1. StepsOf(t, c, P, to, m) /\ regs' = regs /\ written' = n /\ written \in Nat
    BY MovesAreSteps DEF Moves, RaceInv, Typed
  <1>2. ASSUME NEW u \in Txs, u # t
        PROVE  Lone(regs, n, call[u], plan[u], mine[u], pc[u])
    BY <1>1 DEF AloneInv, Lone
  <1>3. \A u \in Txs : Lone(regs', written', call'[u], plan'[u], mine'[u], pc'[u])
    BY <1>1, <1>2 DEF StepsOf
  <1> QED BY <1>3 DEF AloneInv

LEMMA WrittenIsNat == ASSUME RaceInv PROVE written \in Nat /\ written <= written
  BY DEF RaceInv, Typed

LEMMA RollbackIsAlone ==
    ASSUME RaceInv, AloneInv, NEW t \in Txs, Rollback(t) PROVE AloneInv'
  <1>1. Lone(regs, written, NoCall, NoPlan, {}, "idle") BY DEF Lone
  <1> QED BY <1>1, RollbackFits, WrittenIsNat, AStepIsAlone

LEMMA BeginIsAlone ==
    ASSUME RaceInv, AloneInv, NEW t \in Txs, Begin(t) PROVE AloneInv'
  <1>1. PICK c \in Calls : call' = [call EXCEPT ![t] = c] BY DEF Begin
  <1>2. plan[t] = NoPlan /\ mine[t] = {} BY DEF Begin, RaceInv, Quiet
  <1>3. Moves(t, c, NoPlan, "lock", {}, written)
    BY <1>1, <1>2 DEF Begin, Go, Moves, RaceInv, Typed
  <1>4. Lone(regs, written, c, NoPlan, {}, "lock") BY DEF Lone
  <1> QED BY <1>3, <1>4, WrittenIsNat, AStepIsAlone

LEMMA LockPassIsAlone ==
    ASSUME RaceInv, AloneInv, NEW t \in Txs, LockPass(t) PROVE AloneInv'
  <1>1. CASE Rollback(t) BY <1>1, RollbackIsAlone
  <1>2. CASE ~Rollback(t)
    <2>1. PICK P, to : /\ Moves(t, call[t], P, to, {}, written)
                       /\ P.own = {} /\ P.gaps = {} /\ P.seen = {} /\ P.todo = {}
                       /\ to \in {"read", "holders"}
      BY <1>2, Locked
    <2>2. Lone(regs, written, call[t], P, {}, to) BY <2>1 DEF Lone
    <2> QED BY <2>1, <2>2, WrittenIsNat, AStepIsAlone
  <1> QED BY <1>1, <1>2

(* A hold and a checkout promise nothing here.                             *)
LEMMA AStayIsAlone ==
    ASSUME RaceInv, AloneInv, NEW t \in Txs, MovesStays(call[t]),
           NEW P, NEW to, NEW m, NEW n \in Nat, written <= n,
           Moves(t, call[t], P, to, m, n)
    PROVE  AloneInv'
  <1>1. Lone(regs, n, call[t], P, m, to) BY DEF Lone, MovesStays
  <1> QED BY <1>1, AStepIsAlone

LEMMA FirstWritesAreAlone ==
    ASSUME RaceInv, AloneInv, NEW t \in Txs, pc[t] = "read", NEW W, WillWrite(t, W),
           Lone(regs, written, call[t], [NoPlan EXCEPT !.todo = W], {}, "write")
    PROVE  AloneInv'
  <1> DEFINE Q == [NoPlan EXCEPT !.todo = W]
  <1>1. plan[t] = NoPlan /\ mine[t] = {} BY DEF RaceInv, Quiet
  <1>2. Moves(t, call[t], Q, "write", {}, written)
    BY <1>1 DEF WillWrite, Go, Plans, Moves, RaceInv, Typed
  <1> HIDE DEF Q
  <1>3. Lone(regs, written, call[t], Q, {}, "write") BY DEF Q
  <1> QED BY <1>2, <1>3, WrittenIsNat, AStepIsAlone

LEMMA ReadToRevokeIsAlone ==
    ASSUME RaceInv, AloneInv, NEW t \in Txs, ReadToRevoke(t) PROVE AloneInv'
  <1> DEFINE c == call[t]
             W == { Update(1, "if_later", r, RevocationDay(c, r), ENDED_BY_REVOCATION)
                      : r \in { q \in View(t) : q.pass = c.pass } }
             Q == [NoPlan EXCEPT !.todo = W]
  <1>1. WillWrite(t, W) /\ pc[t] = "read" /\ c.verb = "revoke" BY DEF ReadToRevoke
  <1>2. ASSUME NEW w \in W PROVE w.row.why = ENDED_BY_REVOCATION
    <2>1. PICK x \in View(t) : w = Update(1, "if_later", x, RevocationDay(c, x), ENDED_BY_REVOCATION)
      OBVIOUS
    <2>2. x \in Row BY WhatIsSeen
    <2> QED BY <2>1, <2>2 DEF Update, Row
  <1>3. Q.todo = W BY DEF NoPlan
  <1> HIDE DEF W
  <1>4. LoneRevoke(regs, c, Q, {}) BY <1>2, <1>3 DEF LoneRevoke
  <1> HIDE DEF Q
  <1>5. Lone(regs, written, c, Q, {}, "write") BY <1>1, <1>4 DEF Lone
  <1> QED BY <1>1, <1>5, FirstWritesAreAlone DEF Q

LEMMA ReadToEndIsAlone ==
    ASSUME RaceInv, KeptInv, AloneInv, NEW t \in Txs, ReadToEnd(t) PROVE AloneInv'
  <1>1. CASE Rollback(t) BY <1>1, RollbackIsAlone
  <1>2. CASE ~Rollback(t)
    <2> DEFINE c == call[t]
    <2>1. PICK b \in Latest(View(t), c.pass, c.car) :
            /\ MayEnd(b, c.to)
            /\ WillWrite(t, { Update(0, "as_read", s, c.to, ENDED_BY_OWNER)
                                : s \in { q \in View(t) : EndsWith(q, b) } })
      BY <1>2 DEF ReadToEnd
    <2> DEFINE W == { Update(0, "as_read", s, c.to, ENDED_BY_OWNER)
                        : s \in { q \in View(t) : EndsWith(q, b) } }
               Q == [NoPlan EXCEPT !.todo = W]
    <2>2. pc[t] = "read" /\ c.verb = "end" /\ c \in Calls BY DEF ReadToEnd, RaceInv, OnACall
    <2>3. View(t) = regs BY <2>2, TheFirstReadIsCommitted
    <2>4. /\ b \in regs /\ b \in Row /\ OfTheStay(c, b.from, b)
          /\ b.to \in EndDay /\ b.from \in Day /\ b.to \in Int /\ b.from \in Int
          /\ c.to \in Int /\ c.to \in EndDay
      BY <2>1, <2>2, <2>3, WhatIsSeen, RowFields, CallsAssumption, MaxDayAssumption
         DEF Latest, OfTheStay, Call, Day, EndDay, Forever
    <2>5. Q.todo = W BY DEF NoPlan
    <2>6. ASSUME NEW w \in W
          PROVE  /\ w.kind = "as_read" /\ w.was = b.to /\ w.row.to = c.to
                 /\ w.row.why = ENDED_BY_OWNER /\ OfTheStay(c, b.from, w.row)
      <3>1. PICK s \in View(t) : EndsWith(s, b) /\ w = Update(0, "as_read", s, c.to, ENDED_BY_OWNER)
        OBVIOUS
      <3>2. s \in Row BY WhatIsSeen
      <3> QED BY <2>4, <3>1, <3>2 DEF Update, Row, EndsWith, OfTheStay
    <2>7. ASSUME NEW a \in regs, EndsWith(a, b) PROVE \E w \in W : SameRow(w.row, a)
      <3>1. a \in View(t) /\ a \in Row BY <2>3 DEF RaceInv, Typed
      <3>2. Update(0, "as_read", a, c.to, ENDED_BY_OWNER) \in W BY <2>7, <3>1
      <3>3. SameRow(Update(0, "as_read", a, c.to, ENDED_BY_OWNER).row, a)
        BY <3>1 DEF Update, SameRow, Row
      <3> QED BY <3>2, <3>3
    <2> HIDE DEF W, Q
    <2>8. ASSUME NEW a \in regs, OfTheStay(c, b.from, a) PROVE a.to < b.to \/ Touched(Q, {}, a)
      <3>1. a \in Row /\ a.to \in Int /\ a.to <= Forever
        BY RowFields, MaxDayAssumption DEF RaceInv, Typed, EndDay, Forever
      <3>2. a.to <= b.to
        <4>1. CASE b.to = Forever BY <3>1, <4>1
        <4>2. CASE b.why = ENDED_AFTER_LAST_DAY /\ b.from < b.to
          BY <2>4, <2>8, <4>2 DEF KeptInv, StayEnds, Mates, Stay, OfTheStay
        <4> QED BY <2>1, <2>4, <4>1, <4>2 DEF MayEnd
      <3>3. CASE a.to = b.to
        <4>1. EndsWith(a, b) BY <2>4, <2>8, <3>3 DEF EndsWith, OfTheStay
        <4> QED BY <2>5, <2>7, <4>1 DEF Touched
      <3> QED BY <2>4, <3>1, <3>2, <3>3
    <2>9. EndsWith(b, b) /\ Touched(Q, {}, b) BY <2>4, <2>5, <2>7 DEF EndsWith, Touched
    <2>10. b \in Latest(regs, c.pass, c.car) /\ b.to <= b.to BY <2>1, <2>3, <2>4
    <2>11. LoneEnd(regs, c, Q, {}, b.to, b.from)
      BY <2>1, <2>5, <2>6, <2>8, <2>9, <2>10 DEF LoneEnd
    <2>12. Lone(regs, written, c, Q, {}, "write") BY <2>2, <2>4, <2>11 DEF Lone
    <2>13. WillWrite(t, W) BY <2>1 DEF W
    <2> QED BY <2>2, <2>12, <2>13, FirstWritesAreAlone DEF Q
  <1> QED BY <1>1, <1>2

LEMMA ReadTheStayIsAlone ==
    ASSUME RaceInv, AloneInv, NEW t \in Txs, ReadTheStay(t) PROVE AloneInv'
  <1>1. CASE Rollback(t) BY <1>1, RollbackIsAlone
  <1>2. CASE ~Rollback(t)
    <2>1. PICK W : WillWrite(t, W) BY <1>2 DEF ReadTheStay
    <2>2. pc[t] = "read" /\ call[t].verb = "end_stay" BY DEF ReadTheStay
    <2>3. Lone(regs, written, call[t], [NoPlan EXCEPT !.todo = W], {}, "write")
      BY <2>2 DEF Lone
    <2> QED BY <2>1, <2>2, <2>3, FirstWritesAreAlone
  <1> QED BY <1>1, <1>2

LEMMA ReadToHoldIsAlone ==
    ASSUME RaceInv, AloneInv, NEW t \in Txs, ReadToHold(t) PROVE AloneInv'
  <1>1. call[t].verb = "hold" /\ \E Q : Moves(t, call[t], Q, "write", mine[t], written)
    BY HeldRead
  <1> QED BY <1>1, WrittenIsNat, AStayIsAlone DEF MovesStays

LEMMA FillTheGapIsAlone ==
    ASSUME RaceInv, AloneInv, NEW t \in Txs, FillTheGap(t) PROVE AloneInv'
  <1>1. call[t].verb = "hold" /\ \E Q, to : Moves(t, call[t], Q, to, mine[t], written)
    BY GapBegun
  <1> QED BY <1>1, WrittenIsNat, AStayIsAlone DEF MovesStays

LEMMA ReadHoldersIsAlone ==
    ASSUME RaceInv, HeldInv, AloneInv, NEW t \in Txs, ReadHolders(t) PROVE AloneInv'
  <1> DEFINE c == call[t]
             p == plan[t]
             m == mine[t]
  <1>1. c \in Calls /\ pc[t] = "holders" BY HoldersRead
  <1>2. PICK g, Q :
          /\ g \in p.unread
          /\ Moves(t, c, Q, "holders", m, written)
          /\ PlanTyped(Q) /\ Q.own = p.own /\ Q.gaps = p.gaps /\ Q.todo = p.todo
          /\ Q.leg = p.leg /\ Q.unread = p.unread \ {g}
          /\ Q.seen = p.seen \cup
               { r \in Holders(View(t), c.pass, c.car, p.leg[1], p.leg[2]) : r.garage = g }
    BY HoldersRead
  <1>3. Lone(regs, written, c, p, m, "holders") BY <1>1 DEF AloneInv
  <1>4. c.verb = "register" => p.leg[1] = c.from /\ p.leg[2] = c.to
    BY <1>1 DEF HeldInv, Serving
  <1>5. Lone(regs, written, c, Q, m, "holders")
    BY <1>2, <1>3, <1>4 DEF Lone, Holders, HolderOf
  <1> QED BY <1>2, <1>5, WrittenIsNat, AStepIsAlone

LEMMA JudgeHoldersIsAlone ==
    ASSUME RaceInv, HeldInv, AloneInv, NEW t \in Txs, JudgeHolders(t) PROVE AloneInv'
  <1>1. CASE Rollback(t) BY <1>1, RollbackIsAlone
  <1>2. CASE ~Rollback(t)
    <2> DEFINE c == call[t]
               p == plan[t]
               m == mine[t]
               f == p.leg[1]
               why == IF c.verb = "hold" THEN ENDED_AFTER_LAST_DAY ELSE c.why
               N == NewRows(written, c.pass, c.car, f, p.leg[2], why)
    <2>1. /\ pc[t] = "holders" /\ c \in Calls /\ c.verb \in {"register", "hold"} /\ p.todo = {}
          /\ \A r \in p.seen : Released(r, f) \/ TurnsOver(r, c.pass, f)
      BY <1>2, Judged
    <2>2. PICK Q : /\ Moves(t, c, Q, "write", m, written + 1)
                   /\ PlanTyped(Q) /\ Q.own = p.own /\ Q.gaps = p.gaps /\ Q.leg = p.leg
                   /\ Q.unread = p.unread /\ Q.seen = {}
                   /\ \A r \in p.seen : GiveWay(r, f) \in Q.todo
                   /\ \A r \in N : Put(r) \in Q.todo
                   /\ \A w \in Q.todo :
                        \/ /\ \E r \in p.seen : w = GiveWay(r, f) /\ Like(w.row, r)
                           /\ w.kind # "put" /\ Trims(w)
                           /\ w.row.to <= f \/ w.row.to <= w.row.from
                        \/ /\ \E r \in N : w = Put(r)
                           /\ w.kind = "put" /\ w.row.reg = written
                           /\ w.row.pass = c.pass /\ w.row.car = c.car /\ w.row.from = f
                           /\ w.row.garage \in GaragesOf[c.pass]
      BY <1>2, Judged
    <2>3. written \in Nat /\ written + 1 \in Nat /\ written <= written + 1 /\ written < written + 1
      BY WrittenIsNat
    <2>4. CASE c.verb = "hold" BY <2>2, <2>3, <2>4, AStayIsAlone DEF MovesStays
    <2>5. CASE c.verb = "register"
      <3>1. f = c.from /\ p.leg[2] = c.to /\ why = c.why
        BY <2>1, <2>5 DEF HeldInv, Serving
      <3>2. N = Added(c, written) BY <3>1 DEF Added
      <3> HIDE DEF N
      <3>3. Lone(regs, written, c, p, m, "holders") BY <2>1 DEF AloneInv
      <3>4. m = {} /\ \A r \in p.seen : HolderOf(c, r) BY <2>5, <3>3 DEF Lone
      <3>5. \A r \in p.seen : r \in Row /\ Foreign(c, r)
        <4>1. \A r \in p.seen : r \in Row BY DEF RaceInv, Typed, PlanTyped
        <4> QED BY <2>1, <4>1, AHolderGivingWayIsForeign DEF Foreign
      <3>6. \A r \in N : Put(r).row = r BY DEF Put
      <3>7. LoneRegister(regs, c, Q, m, written)
        BY <2>2, <3>1, <3>2, <3>4, <3>5, <3>6 DEF LoneRegister
      <3>8. Lone(regs, written + 1, c, Q, m, "write") BY <2>3, <2>5, <3>7 DEF Lone
      <3> QED BY <2>2, <2>3, <3>8, AStepIsAlone
    <2> QED BY <2>1, <2>4, <2>5
  <1> QED BY <1>1, <1>2

LEMMA SettleIsAlone ==
    ASSUME RaceInv, AloneInv, NEW t \in Txs, Settle(t) PROVE AloneInv'
  <1>1. pc[t] = "check" /\ Moves(t, call[t], plan[t], "write", mine[t], written)
    BY DEF Settle, Go, Moves, RaceInv, Typed
  <1>2. Lone(regs, written, call[t], plan[t], mine[t], "write") BY <1>1 DEF AloneInv, Lone
  <1> QED BY <1>1, <1>2, WrittenIsNat, AStepIsAlone

LEMMA ARowIsItsFields ==
    ASSUME NEW r \in Row, NEW s \in Row, Like(r, s), r.to = s.to, r.why = s.why PROVE r = s
  BY DEF Row, Like, SameRow

(* What an UPDATE makes of the row it matches, and nothing else of it.     *)
LEMMA AnUpdateIs ==
    ASSUME NEW r \in Row, NEW x \in Row, Like(x, r)
    PROVE  x = [r EXCEPT !.to = x.to, !.why = x.why]
  <1> DEFINE y == [r EXCEPT !.to = x.to, !.why = x.why]
  <1>1. y \in Row /\ Like(x, y) /\ y.to = x.to /\ y.why = x.why BY DEF Row, Like, SameRow
  <1> QED BY <1>1, ARowIsItsFields

LEMMA PlacingIsAlone ==
    ASSUME RaceInv, AloneInv, NEW t \in Txs, NEW w \in plan[t].todo, NEW x, Place(t, w, x),
           \A Q : Q.todo = plan[t].todo \ {w}
                    => Lone(regs, written, call[t], Q, Versions(t, x), "check")
    PROVE  AloneInv'
  <1>1. PICK Q : /\ Moves(t, call[t], Q, "check", Versions(t, x), written)
                 /\ PlanTyped(Q) /\ Q.todo = plan[t].todo \ {w} /\ Q.own = plan[t].own
                 /\ Q.seen = plan[t].seen /\ Q.gaps = plan[t].gaps /\ Q.leg = plan[t].leg
                 /\ Q.unread = plan[t].unread
    BY PlacingMoves
  <1> QED BY <1>1, WrittenIsNat, AStepIsAlone

LEMMA ARevocationPlaces ==
    ASSUME RaceInv, NEW t \in Txs, pc[t] = "write", call[t].verb = "revoke",
           LoneRevoke(regs, call[t], plan[t], mine[t]),
           NEW w \in plan[t].todo, NEW cur \in View(t), Like(cur, w.row), Matches(w, cur),
           NEW x \in Row, Like(x, w.row), x.to = w.row.to, x.why = w.row.why,
           NEW Q, Q.todo = plan[t].todo \ {w}
    PROVE  LoneRevoke(regs, call[t], Q, Versions(t, x))
  <1> DEFINE c == call[t]
  <1>1. MayPlan(c, plan[t], "write") BY DEF RaceInv, Intents
  <1>2. w.kind = "if_later" /\ w.row.to = RevocationDay(c, w.row) /\ w.row.pass = c.pass
    BY <1>1 DEF MayPlan
  <1>3. cur \in Row /\ Like(x, cur) BY WhatIsSeen, LikeIsEquivalence
  <1>4. w.row.why = ENDED_BY_REVOCATION BY DEF LoneRevoke
  <1>5. \A a, b : Like(a, b) => RevocationDay(c, a) = RevocationDay(c, b)
    BY DEF RevocationDay, Like, SameRow
  <1>6. cur.to > RevocationDay(c, cur) /\ cur.pass = c.pass /\ x.to = RevocationDay(c, cur)
    BY <1>2, <1>5 DEF Matches, Like
  <1>7. x = Revoked(c, cur)
    <2>1. x = [cur EXCEPT !.to = x.to, !.why = x.why] BY <1>3, AnUpdateIs
    <2> QED BY <1>4, <1>6, <2>1 DEF Revoked
  <1>8. cur \in regs
    <2> SUFFICES ASSUME cur \in mine[t] PROVE FALSE BY DEF View
    <2>1. PICK r \in regs : cur = Revoked(c, r) BY DEF LoneRevoke
    <2>2. r \in Row BY DEF RaceInv, Typed
    <2>3. cur.to = RevocationDay(c, r) /\ Like(cur, r) BY <2>1, <2>2 DEF Revoked, Row, Like, SameRow
    <2>4. cur.to \in Int BY <1>3, RowFields
    <2> QED BY <1>5, <1>6, <2>3, <2>4
  <1>9. RevocationDay(c, cur) < cur.to BY <1>6
  <1>10. \A s \in Versions(t, x) : s \in mine[t] \/ s = x BY DEF Versions
  <1> QED BY <1>6, <1>7, <1>8, <1>9, <1>10 DEF LoneRevoke

(* Whether a row was touched stays so when a write of it is made.          *)
LEMMA WhatIsTouchedStays ==
    ASSUME NEW t \in Txs, NEW w \in plan[t].todo, NEW x, Like(x, w.row),
           NEW Q, Q.todo = plan[t].todo \ {w}, NEW a, Touched(plan[t], mine[t], a)
    PROVE  Touched(Q, Versions(t, x), a)
  <1>1. x \in Versions(t, x) /\ \A s \in mine[t] : s \in Versions(t, x) \/ SameRow(s, x)
    BY DEF Versions
  <1>2. CASE \E s \in mine[t] : SameRow(s, a)
    BY <1>1, <1>2 DEF Touched, SameRow
  <1>3. CASE \E v \in plan[t].todo : SameRow(v.row, a)
    <2>1. PICK v \in plan[t].todo : SameRow(v.row, a) BY <1>3
    <2>2. CASE v = w BY <1>1, <2>1, <2>2 DEF Touched, Like, SameRow
    <2>3. CASE v # w BY <2>1, <2>3 DEF Touched
    <2> QED BY <2>2, <2>3
  <1> QED BY <1>2, <1>3 DEF Touched

LEMMA AnEndPlaces ==
    ASSUME RaceInv, NEW t \in Txs, NEW T \in EndDay, NEW F \in Day,
           LoneEnd(regs, call[t], plan[t], mine[t], T, F),
           NEW w \in plan[t].todo, NEW cur \in View(t), Like(cur, w.row), Matches(w, cur),
           NEW x \in Row, Like(x, w.row), x.to = w.row.to, x.why = w.row.why,
           NEW Q, Q.todo = plan[t].todo \ {w}
    PROVE  LoneEnd(regs, call[t], Q, Versions(t, x), T, F)
  <1> DEFINE c == call[t]
             n == Versions(t, x)
  <1>1. w.kind = "as_read" /\ w.was = T /\ w.row.to = c.to /\ w.row.why = ENDED_BY_OWNER
        /\ OfTheStay(c, F, w.row)
    BY DEF LoneEnd
  <1>2. cur \in Row /\ Like(x, cur) /\ cur.to = T /\ OfTheStay(c, F, cur)
    BY <1>1, WhatIsSeen, LikeIsEquivalence DEF Matches, OfTheStay, Like
  <1>3. \E a \in regs : OfTheStay(c, F, a) /\ a.to = T /\ x = Cut(c, a)
    <2>1. CASE cur \in regs
      <3>1. x = [cur EXCEPT !.to = x.to, !.why = x.why] BY <1>2, AnUpdateIs
      <3>2. x = Cut(c, cur) BY <1>1, <3>1 DEF Cut
      <3> QED BY <1>2, <2>1, <3>2
    <2>2. CASE cur \in mine[t]
      <3>1. PICK a \in regs : OfTheStay(c, F, a) /\ a.to = T /\ cur = Cut(c, a)
        BY <2>2 DEF LoneEnd
      <3>2. a \in Row BY DEF RaceInv, Typed
      <3>3. Like(cur, a) BY <3>1, <3>2 DEF Cut, Like, SameRow, Row
      <3>4. Like(x, a) BY <1>2, <3>3, LikeIsEquivalence
      <3>5. x = [a EXCEPT !.to = x.to, !.why = x.why] BY <3>2, <3>4, AnUpdateIs
      <3>6. x = Cut(c, a) BY <1>1, <3>5 DEF Cut
      <3> QED BY <3>1, <3>6
    <2> QED BY <2>1, <2>2 DEF View
  <1>4. \A s \in n : s \in mine[t] \/ s = x BY DEF Versions
  <1>5. \A a : Touched(plan[t], mine[t], a) => Touched(Q, n, a) BY WhatIsTouchedStays
  <1> HIDE DEF n
  <1>6. \A s \in n : \E a \in regs : OfTheStay(c, F, a) /\ a.to = T /\ s = Cut(c, a)
    BY <1>3, <1>4 DEF LoneEnd
  <1>7. \A a \in regs : OfTheStay(c, F, a) => a.to < T \/ Touched(Q, n, a)
    BY <1>5 DEF LoneEnd
  <1>8. \E b \in Latest(regs, c.pass, c.car) :
           /\ b.from = F /\ b.to <= T /\ Touched(Q, n, b)
           /\ b.to = T => MayEnd(b, c.to)
    BY <1>5 DEF LoneEnd
  <1> QED BY <1>6, <1>7, <1>8 DEF LoneEnd, n

(* A holder gives way as the row it was read as.                           *)
LEMMA AHolderGivesWayAsRead ==
    ASSUME RaceInv, NEW c, NEW r \in Row, NEW cur \in Row, NEW f, NEW w, w = GiveWay(r, f),
           Like(cur, w.row), Matches(w, cur), HolderOf(c, r), Foreign(c, r),
           NEW x \in Row, Like(x, w.row), x.to = w.row.to, x.why = w.row.why
    PROVE  HolderOf(c, cur) /\ Foreign(c, cur) /\ x = GivenWay(cur, f)
  <1>1. CASE Released(r, f)
    <2>1. /\ w.kind = "if_open" /\ w.row.why = ENDED_BY_EXPIRY
          /\ w.row.to = Greatest(ValidTo[r.pass] + 1, r.from) /\ Like(w.row, r)
      BY <1>1 DEF GiveWay, Release, Update, Row, Like, SameRow
    <2>2. Like(cur, r) /\ Like(x, cur) BY <2>1, LikeIsEquivalence
    <2>3. cur.to = r.to BY <1>1, <2>1 DEF Matches, Released
    <2>4. HolderOf(c, cur) /\ Foreign(c, cur) /\ Released(cur, f)
      BY <1>1, <2>2, <2>3 DEF HolderOf, Foreign, Overlaps, Released, Like, SameRow
    <2>5. x.to = Greatest(ValidTo[cur.pass] + 1, cur.from) /\ x.why = ENDED_BY_EXPIRY
      BY <2>1, <2>2 DEF Like, SameRow
    <2>6. x = [cur EXCEPT !.to = x.to, !.why = x.why] BY <2>2, AnUpdateIs
    <2>7. x = GivenWay(cur, f) BY <2>4, <2>5, <2>6 DEF GivenWay
    <2> QED BY <2>4, <2>7
  <1>2. CASE ~Released(r, f)
    <2>1. /\ w.kind = "as_read" /\ w.row.why = ENDED_BY_NEXT_STAY /\ w.was = r.to
          /\ w.row.to = Greatest(f, r.from) /\ Like(w.row, r)
      BY <1>2 DEF GiveWay, Turnover, Update, Row, Like, SameRow
    <2>2. Like(cur, r) /\ Like(x, cur) BY <2>1, LikeIsEquivalence
    <2>3. cur.to = r.to BY <2>1 DEF Matches
    <2>4. HolderOf(c, cur) /\ Foreign(c, cur) /\ ~Released(cur, f)
      BY <1>2, <2>2, <2>3 DEF HolderOf, Foreign, Overlaps, Released, Like, SameRow
    <2>5. x.to = Greatest(f, cur.from) /\ x.why = ENDED_BY_NEXT_STAY
      BY <2>1, <2>2 DEF Like, SameRow
    <2>6. x = [cur EXCEPT !.to = x.to, !.why = x.why] BY <2>2, AnUpdateIs
    <2>7. x = GivenWay(cur, f) BY <2>4, <2>5, <2>6 DEF GivenWay
    <2> QED BY <2>4, <2>7
  <1> QED BY <1>1, <1>2

LEMMA GivingWayIsAnUpdate ==
    ASSUME NEW r \in Row, NEW f
    PROVE  GiveWay(r, f).kind # "put" /\ GiveWay(r, f).row.pass = r.pass
  BY DEF GiveWay, Release, Turnover, Update, Row

(* A registration's versions after one more write: the row added, or the   *)
(* holder made to give way as it stands committed.                         *)
LEMMA ARegistrationPlaces ==
    ASSUME RaceInv, TakeInv, NEW t \in Txs, pc[t] = "write", NEW n \in Nat,
           LoneRegister(regs, call[t], plan[t], mine[t], n),
           NEW w \in plan[t].todo, NEW x, Like(x, w.row), NEW Q, Q.todo = plan[t].todo \ {w},
           \/ w.kind = "put" /\ x = w.row
           \/ /\ w.kind # "put" /\ x \in Row /\ x.to = w.row.to /\ x.why = w.row.why
              /\ \E cur \in View(t) : Like(cur, w.row) /\ Matches(w, cur)
    PROVE  LoneRegister(regs, call[t], Q, Versions(t, x), n)
  <1> DEFINE c == call[t]
             m == mine[t]
             v == Versions(t, x)
             A == Added(c, n)
  <1>1. \/ w.kind = "put" /\ w.row \in A
        \/ \E r \in Row : HolderOf(c, r) /\ Foreign(c, r) /\ w = GiveWay(r, c.from)
    BY DEF LoneRegister
  <1>2. x \in v /\ \A s \in v : s \in m \/ s = x BY DEF Versions
  <1>3. \A s \in m : s \in v \/ SameRow(s, x) BY DEF Versions
  <1> HIDE DEF v, A
  <1>4. \A s \in m : ~SameRow(w.row, s)
    <2>1. CASE w.kind = "put" BY <2>1 DEF TakeInv, FreshPuts, Others
    <2>2. CASE w.kind # "put"
      <3>1. Foreign(c, w.row) BY <1>1, <2>2, GivingWayIsAnUpdate DEF Foreign
      <3>2. Apart(c, plan[t], m, pc[t]) BY DEF TakeInv, OneWrite
      <3> QED BY <3>1, <3>2 DEF Apart
    <2> QED BY <2>1, <2>2
  <1>5. \A s \in m : s \in v BY <1>3, <1>4 DEF Like, SameRow
  <1>6. ASSUME NEW y \in A PROVE y \in v \/ Put(y) \in Q.todo
    <2>1. y \in m \/ Put(y) \in plan[t].todo BY <1>6 DEF LoneRegister, A
    <2>2. CASE Put(y) = w
      <3>1. w.kind = "put" /\ w.row = y BY <2>2 DEF Put
      <3> QED BY <1>2, <3>1
    <2> QED BY <1>5, <2>1, <2>2
  <1>7. \/ x \in A /\ ~InRegs(regs, x)
        \/ \E r \in regs : HolderOf(c, r) /\ Foreign(c, r) /\ x = GivenWay(r, c.from)
    <2>1. CASE w.kind = "put"
      <3>1. x = w.row /\ x \in A BY <1>1, <2>1, GivingWayIsAnUpdate
      <3>2. \A a \in regs : ~SameRow(w.row, a) BY <2>1 DEF TakeInv, FreshPuts, Others
      <3> QED BY <3>1, <3>2 DEF InRegs, SameRow
    <2>2. CASE w.kind # "put"
      <3>1. PICK r \in Row : HolderOf(c, r) /\ Foreign(c, r) /\ w = GiveWay(r, c.from)
        BY <1>1, <2>2
      <3>2. PICK cur \in View(t) : Like(cur, w.row) /\ Matches(w, cur) BY <2>2
      <3>3. cur \in Row BY WhatIsSeen
      <3>4. cur \in regs BY <1>4, <3>2 DEF View, Like, SameRow
      <3>5. HolderOf(c, cur) /\ Foreign(c, cur) /\ x = GivenWay(cur, c.from)
        BY <2>2, <3>1, <3>2, <3>3, AHolderGivesWayAsRead
      <3> QED BY <3>4, <3>5
    <2> QED BY <2>1, <2>2
  <1>8. \A s \in v : \/ s \in A /\ ~InRegs(regs, s)
                     \/ \E r \in regs : HolderOf(c, r) /\ Foreign(c, r) /\ s = GivenWay(r, c.from)
    BY <1>2, <1>7 DEF LoneRegister, A
  <1>9. \A u \in Q.todo : \/ u.kind = "put" /\ u.row \in A
                          \/ \E r \in Row : HolderOf(c, r) /\ Foreign(c, r) /\ u = GiveWay(r, c.from)
    BY DEF LoneRegister, A
  <1> QED BY <1>6, <1>8, <1>9 DEF LoneRegister, v, A

LEMMA WriteRowIsAlone ==
    ASSUME RaceInv, TakeInv, AloneInv, NEW t \in Txs, WriteRow(t) PROVE AloneInv'
  <1>1. CASE Rollback(t) BY <1>1, RollbackIsAlone
  <1>2. CASE ~Rollback(t)
    <2> DEFINE c == call[t]
               p == plan[t]
               m == mine[t]
    <2>1. pc[t] = "write" /\ c \in Calls /\ MayPlan(c, p, "write")
      BY <1>2, Writing DEF RaceInv, OnACall, Intents
    <2>2. PICK w \in p.todo :
                \/ w.kind = "put" /\ Place(t, w, w.row)
                \/ /\ w.kind # "put" /\ \A u \in Txs \ {t} : ~HasWritten(u, w.row)
                   /\ \E cur \in View(t) :
                        /\ Like(cur, w.row)
                        /\ \/ /\ Matches(w, cur)
                              /\ \E r \in Row : /\ Like(r, w.row) /\ r.to = w.row.to
                                                /\ r.why = w.row.why
                                                /\ Trims(w) => r.to <= cur.to
                                                /\ Place(t, w, r)
                           \/ /\ ~Matches(w, cur) /\ ~FoundMoved(w, cur)
                              /\ \E Q : /\ Moves(t, c, Q, "write", m, written)
                                        /\ PlanTyped(Q) /\ Q.todo = p.todo \ {w}
                                        /\ Q.own = p.own /\ Q.seen = p.seen
                                        /\ Q.gaps = p.gaps /\ Q.leg = p.leg
                                        /\ Q.unread = p.unread
      BY <1>2, Writing
    <2>3. Lone(regs, written, c, p, m, "write") BY <2>1 DEF AloneInv
    <2>4. c.verb \notin {"register", "hold"} => w.kind # "put" BY <2>1 DEF MayPlan
    <2>5. CASE w.kind = "put" /\ Place(t, w, w.row)
      <3>1. Like(w.row, w.row) BY LikeIsEquivalence
      <3>2. ASSUME NEW Q, Q.todo = p.todo \ {w}
            PROVE  Lone(regs, written, c, Q, Versions(t, w.row), "check")
        <4>1. CASE c.verb = "register"
          <5>1. PICK n \in Nat : n < written /\ LoneRegister(regs, c, p, m, n)
            BY <2>3, <4>1 DEF Lone
          <5>2. LoneRegister(regs, c, Q, Versions(t, w.row), n)
            BY <2>1, <2>5, <3>1, <3>2, <5>1, ARegistrationPlaces
          <5> QED BY <4>1, <5>1, <5>2 DEF Lone
        <4>2. CASE c.verb = "hold" BY <4>2 DEF Lone
        <4> QED BY <2>4, <2>5, <4>1, <4>2
      <3> QED BY <2>5, <3>2, PlacingIsAlone
    <2>6. ASSUME w.kind # "put", NEW cur \in View(t), Like(cur, w.row), Matches(w, cur),
                 NEW x \in Row, Like(x, w.row), x.to = w.row.to, x.why = w.row.why, Place(t, w, x)
          PROVE  AloneInv'
      <3>1. ASSUME NEW Q, Q.todo = p.todo \ {w}
            PROVE  Lone(regs, written, c, Q, Versions(t, x), "check")
        <4>1. CASE c.verb = "register"
          <5>1. PICK n \in Nat : n < written /\ LoneRegister(regs, c, p, m, n)
            BY <2>3, <4>1 DEF Lone
          <5>2. LoneRegister(regs, c, Q, Versions(t, x), n)
            BY <2>1, <2>6, <3>1, <5>1, ARegistrationPlaces
          <5> QED BY <4>1, <5>1, <5>2 DEF Lone
        <4>2. CASE c.verb = "end"
          <5>1. PICK T \in EndDay, F \in Day : LoneEnd(regs, c, p, m, T, F)
            BY <2>3, <4>2 DEF Lone
          <5>2. LoneEnd(regs, c, Q, Versions(t, x), T, F)
            BY <2>6, <3>1, <5>1, AnEndPlaces
          <5> QED BY <4>2, <5>2 DEF Lone
        <4>3. CASE c.verb = "revoke"
          <5>1. LoneRevoke(regs, c, p, m) BY <2>3, <4>3 DEF Lone
          <5>2. LoneRevoke(regs, c, Q, Versions(t, x))
            BY <2>1, <2>6, <3>1, <4>3, <5>1, ARevocationPlaces
          <5> QED BY <4>3, <5>2 DEF Lone
        <4> QED BY <4>1, <4>2, <4>3 DEF Lone
      <3> QED BY <2>6, <3>1, PlacingIsAlone
    <2>7. ASSUME w.kind # "put", NEW cur, ~Matches(w, cur), ~FoundMoved(w, cur), NEW Q,
                 Moves(t, c, Q, "write", m, written), Q.todo = p.todo \ {w}
          PROVE  AloneInv'
      <3>1. w.kind # "as_read" BY <2>7 DEF Matches, FoundMoved
      <3>2. ASSUME c.verb = "register" PROVE Lone(regs, written, c, Q, m, "write")
        <4>1. PICK n \in Nat : n < written /\ LoneRegister(regs, c, p, m, n)
          BY <2>3, <3>2 DEF Lone
        <4>2. \A y : Put(y) # w BY <2>7 DEF Put
        <4>3. LoneRegister(regs, c, Q, m, n) BY <2>7, <4>1, <4>2 DEF LoneRegister
        <4> QED BY <3>2, <4>1, <4>3 DEF Lone
      <3>3. c.verb # "end" BY <2>3, <3>1 DEF Lone, LoneEnd
      <3>4. ASSUME c.verb = "revoke" PROVE Lone(regs, written, c, Q, m, "write")
        <4>1. LoneRevoke(regs, c, Q, m) BY <2>3, <2>7, <3>4 DEF Lone, LoneRevoke
        <4> QED BY <3>4, <4>1 DEF Lone
      <3>5. Lone(regs, written, c, Q, m, "write") BY <3>2, <3>3, <3>4 DEF Lone
      <3> QED BY <2>7, <3>5, WrittenIsNat, AStepIsAlone
    <2> QED BY <2>2, <2>5, <2>6, <2>7
  <1> QED BY <1>1, <1>2

LEMMA TheirRowIsKept ==
    ASSUME NEW r \in Row, NEW c, NEW f
    PROVE  Like(Revoked(c, r), r) /\ Like(GivenWay(r, f), r) /\ Like(Cut(c, r), r)
  BY DEF Revoked, GivenWay, Cut, Row, Like, SameRow

(* Another call's commit moves no row a call has written, and of its       *)
(* pass's other rows it moves ends, to earlier ones.                       *)
LEMMA CommitLeavesOthersAlone ==
    ASSUME RaceInv, TakeInv, KeptInv, AloneInv, NEW t \in Txs, Commit(t), NEW u \in Txs, u # t
    PROVE  Lone(regs', written, call[u], plan[u], mine[u], pc[u])
  <1> DEFINE c == call[u]
             P == plan[u]
             m == mine[u]
             at == pc[u]
  <1>1. Lone(regs, written, c, P, m, at) BY DEF AloneInv
  <1>2. CASE at \notin {"write", "check"} BY <1>1, <1>2 DEF Lone
  <1>3. CASE at \in {"write", "check"}
    <2>1. c.pass # call[t].pass
      BY <1>3, WhatACommitLeaves DEF RaceInv, LocksApart, PastLock
    <2>2. /\ regs' = View(t)
          /\ \A q \in regs' : q \in mine[t] \/ q \in regs
          /\ \A q \in regs' : q.pass = c.pass =>
               \E a \in regs : Like(a, q) /\ q.to <= a.to /\ (q \in regs \/ q.to < a.to)
      BY <2>1, WhatACommitLeaves
    <2>3. ASSUME NEW a \in regs, NEW s \in m, Like(s, a) PROVE a \in regs'
      <3>1. \A b \in mine[t] : ~SameRow(a, b) BY <2>3 DEF TakeInv, MineApart, Like, SameRow
      <3> QED BY <2>2, <3>1 DEF View, Superseded
    <2>4. \A a \in regs : a \in Row /\ a.to \in Int BY RowFields DEF RaceInv, Typed
    <2>5. \A q \in regs' : q.to \in Int BY <2>2, <2>4, RowFields DEF RaceInv, Typed
    <2>6. ASSUME c.verb = "register" PROVE \E n \in Nat : n < written /\ LoneRegister(regs', c, P, m, n)
      <3>1. PICK n \in Nat : n < written /\ LoneRegister(regs, c, P, m, n)
        BY <1>1, <1>3, <2>6 DEF Lone
      <3>2. \A s \in m : ~InRegs(regs, s) => ~InRegs(regs', s)
        BY <2>2 DEF InRegs, TakeInv, MineApart
      <3>3. ASSUME NEW s \in m, NEW r \in regs, s = GivenWay(r, c.from) PROVE r \in regs'
        BY <2>3, <2>4, <3>3, TheirRowIsKept
      <3>4. LoneRegister(regs', c, P, m, n) BY <3>1, <3>2, <3>3 DEF LoneRegister
      <3> QED BY <3>1, <3>4
    <2>7. ASSUME c.verb = "revoke" PROVE LoneRevoke(regs', c, P, m)
      <3>1. LoneRevoke(regs, c, P, m) BY <1>1, <1>3, <2>7 DEF Lone
      <3>2. ASSUME NEW s \in m, NEW r \in regs, s = Revoked(c, r) PROVE r \in regs'
        BY <2>3, <2>4, <3>2, TheirRowIsKept
      <3> QED BY <3>1, <3>2 DEF LoneRevoke
    <2>8. ASSUME c.verb = "end" PROVE \E T \in EndDay, F \in Day : LoneEnd(regs', c, P, m, T, F)
      <3>1. PICK T \in EndDay, F \in Day : LoneEnd(regs, c, P, m, T, F)
        BY <1>1, <1>3, <2>8 DEF Lone
      <3>2. T \in Int BY MaxDayAssumption DEF EndDay, Forever
      <3>3. ASSUME NEW s \in m, NEW a \in regs, s = Cut(c, a) PROVE a \in regs'
        BY <2>3, <2>4, <3>3, TheirRowIsKept
      <3>4. \A a, b : Like(a, b) => (Touched(P, m, a) <=> Touched(P, m, b))
                                    /\ (OfTheStay(c, F, a) <=> OfTheStay(c, F, b))
        BY DEF Like, SameRow, Touched, OfTheStay
      <3>5. ASSUME NEW q \in regs', OfTheStay(c, F, q) PROVE q.to < T \/ Touched(P, m, q)
        <4>1. PICK a \in regs : Like(a, q) /\ q.to <= a.to BY <2>2, <3>5 DEF OfTheStay
        <4>2. a.to < T \/ Touched(P, m, a) BY <3>1, <3>4, <3>5, <4>1 DEF LoneEnd
        <4> QED BY <2>4, <2>5, <3>2, <3>4, <4>1, <4>2
      <3>6. PICK b \in Latest(regs, c.pass, c.car) :
              /\ b.from = F /\ b.to <= T /\ Touched(P, m, b)
              /\ b.to = T => MayEnd(b, c.to)
        BY <3>1 DEF LoneEnd
      <3>7. b \in regs /\ b.pass = c.pass /\ b.car = c.car BY <3>6 DEF Latest
      <3>8. PICK q \in regs' : SameRow(q, b)
        BY <2>2, <3>7 DEF View, Superseded, SameRow
      <3>9. Like(q, b)
        <4>1. IsKnown(q) /\ IsKnown(b) BY <2>2, <3>7, <3>8 DEF IsKnown, Known
        <4> QED BY <3>8, <4>1 DEF RaceInv, Kin
      <3>10. q \in Latest(regs', c.pass, c.car)
        <4>1. q.pass = c.pass /\ q.car = c.car BY <3>7, <3>9 DEF Like
        <4>2. ASSUME NEW s \in regs', s.pass = c.pass, s.car = c.car
              PROVE  s.from <= q.from /\ (s.from = q.from => q.garage <= s.garage)
          <5>1. PICK a \in regs : Like(a, s) BY <2>2, <4>2
          <5>2. a.pass = c.pass /\ a.car = c.car BY <4>2, <5>1 DEF Like
          <5>3. a.from <= b.from BY <3>6, <5>2 DEF Latest
          <5>4. a.from = b.from => b.garage <= a.garage BY <3>6, <5>2 DEF Latest
          <5> QED BY <3>9, <5>1, <5>3, <5>4 DEF Like, SameRow
        <4>3. \A s \in regs' : s.pass = c.pass /\ s.car = c.car =>
                s.from <= q.from /\ ((\A r \in regs' : r.pass = c.pass /\ r.car = c.car
                                        => r.from <= s.from) => s.from = q.from)
          <5>1. \A s \in regs' : s.from \in Int BY <2>2, RowFields DEF RaceInv, Typed
          <5> QED BY <4>1, <4>2, <5>1
        <4> QED BY <4>1, <4>2, <4>3 DEF Latest
      <3>11. q.from = F /\ q.to <= T /\ Touched(P, m, q) /\ (q.to = T => MayEnd(q, c.to))
        <4>1. PICK a \in regs : Like(a, q) /\ q.to <= a.to /\ (q \in regs \/ q.to < a.to)
          BY <2>2, <3>7, <3>9 DEF Like
        <4>2. SameRow(a, b) BY <3>9, <4>1 DEF Like, SameRow
        <4>3. a = b BY <3>7, <4>2 DEF RaceInv, Identified, UniqueIds
        <4>4. q \in regs => q = b BY <3>7, <3>8 DEF RaceInv, Identified, UniqueIds
        <4>5. q.from = F /\ Touched(P, m, q) BY <3>4, <3>6, <3>9 DEF Like
        <4>6. q.to <= T BY <2>4, <2>5, <3>2, <3>6, <4>1, <4>3
        <4>7. q.to = T => q \in regs BY <2>4, <2>5, <3>2, <3>6, <4>1, <4>3
        <4> QED BY <3>6, <4>4, <4>5, <4>6, <4>7
      <3>12. /\ \A w \in P.todo : /\ w.kind = "as_read" /\ w.was = T /\ w.row.to = c.to
                                  /\ w.row.why = ENDED_BY_OWNER /\ OfTheStay(c, F, w.row)
             /\ \A s \in m : \E a \in regs : OfTheStay(c, F, a) /\ a.to = T /\ s = Cut(c, a)
        BY <3>1 DEF LoneEnd
      <3>13. \A s \in m : \E a \in regs' : OfTheStay(c, F, a) /\ a.to = T /\ s = Cut(c, a)
        BY <3>3, <3>12
      <3>14. LoneEnd(regs', c, P, m, T, F)
        BY <3>5, <3>10, <3>11, <3>12, <3>13 DEF LoneEnd
      <3> QED BY <3>14
    <2> QED BY <1>3, <2>6, <2>7, <2>8 DEF Lone
  <1> QED BY <1>2, <1>3

LEMMA CommitIsAlone ==
    ASSUME RaceInv, TakeInv, KeptInv, AloneInv, NEW t \in Txs, Commit(t) PROVE AloneInv'
  <1>1. written' = written BY DEF Commit, Closed
  <1>2. ASSUME NEW u \in Txs PROVE Lone(regs', written', call'[u], plan'[u], mine'[u], pc'[u])
    <2>1. CASE u = t
      <3>1. pc'[u] = "idle" BY <2>1, WhatACommitLeaves
      <3> QED BY <3>1 DEF Lone
    <2>2. CASE u # t
      <3>1. call'[u] = call[u] /\ plan'[u] = plan[u] /\ mine'[u] = mine[u] /\ pc'[u] = pc[u]
        BY <2>2, WhatACommitLeaves
      <3> QED BY <1>1, <2>2, <3>1, CommitLeavesOthersAlone
    <2> QED BY <2>1, <2>2
  <1> QED BY <1>2 DEF AloneInv

LEMMA InitAloneInv == Init => AloneInv
  BY DEF Init, AloneInv, Lone

LEMMA NextKeepsAloneInv ==
    RaceInv /\ TakeInv /\ HeldInv /\ KeptInv /\ AloneInv /\ [Next]_vars => AloneInv'
  <1> SUFFICES ASSUME RaceInv, TakeInv, HeldInv, KeptInv, AloneInv, [Next]_vars PROVE AloneInv'
    OBVIOUS
  <1>1. CASE UNCHANGED vars BY <1>1 DEF vars, AloneInv
  <1>2. ASSUME NEW t \in Txs, ExclusionViolation(t) \/ DeadlockDetected(t) \/ Lost(t)
        PROVE  AloneInv'
    BY <1>2, RollbackIsAlone DEF ExclusionViolation, DeadlockDetected, Lost
  <1> QED BY <1>1, <1>2, BeginIsAlone, LockPassIsAlone, ReadToEndIsAlone, ReadTheStayIsAlone,
       ReadToRevokeIsAlone, ReadToHoldIsAlone, FillTheGapIsAlone, ReadHoldersIsAlone,
       JudgeHoldersIsAlone, WriteRowIsAlone, SettleIsAlone, CommitIsAlone DEF Next, Statement

(* The rows a commit leaves: the versions its call wrote, and the committed *)
(* rows it wrote no version of.                                            *)
LEMMA WhatStandsUnwritten ==
    ASSUME RaceInv, NEW t \in Txs, Commit(t)
    PROVE  /\ regs' = View(t) /\ pc[t] = "write" /\ plan[t].todo = {} /\ call[t] \in Calls
           /\ mine[t] \subseteq View(t)
           /\ \A q \in View(t) : q \in mine[t] \/ (q \in regs /\ \A s \in mine[t] : ~SameRow(q, s))
           /\ \A q \in regs : (\A s \in mine[t] : ~SameRow(q, s)) => q \in View(t)
           /\ \A q \in regs : q \in Row /\ q.to \in Int
           /\ \A a, b \in regs : SameRow(a, b) => a = b
  <1>1. \A q \in regs : q \in Row /\ q.to \in Int BY RowFields DEF RaceInv, Typed
  <1> QED BY <1>1 DEF Commit, View, Superseded, RaceInv, OnACall, Identified, UniqueIds

LEMMA ARevocationIsAsIfAlone ==
    ASSUME RaceInv, AloneInv, NEW t \in Txs, Commit(t), call[t].verb = "revoke"
    PROVE  regs' = EndedByRevocation(regs, call[t].pass, call[t].at)
  <1> DEFINE c == call[t]
             f(r) == IF r.pass = c.pass /\ r.to > RevocationDay(c, r) THEN Revoked(c, r) ELSE r
  <1>1. LoneRevoke(regs, c, plan[t], mine[t]) BY DEF AloneInv, Lone, Commit
  <1>2. EndedByRevocation(regs, c.pass, c.at) = { f(r) : r \in regs }
    BY DEF EndedByRevocation, Revoked, RevocationDay
  <1>3. \A r \in regs : RevocationDay(c, r) \in Int
    <2>1. c.at \in Instants BY WhatStandsUnwritten, CallsAssumption
    <2> QED
      BY <2>1, WhatStandsUnwritten, RowFields, ClockAssumption DEF RevocationDay, Greatest, Day
  <1>4. ASSUME NEW q \in regs, \A s \in mine[t] : ~SameRow(q, s) PROVE f(q) = q
    <2>1. Alive(t, q) /\ ~Pending(t, q)
      BY <1>4, WhatStandsUnwritten DEF Alive, Pending
    <2>2. q.pass = c.pass => q.to <= RevocationDay(c, q)
      BY <2>1, WhatStandsUnwritten DEF RaceInv, Clearing
    <2> QED BY <1>3, <2>2, WhatStandsUnwritten
  <1>5. ASSUME NEW s \in mine[t]
        PROVE  \E r \in regs : s = f(r) /\ SameRow(s, r)
    <2>1. PICK r \in regs : r.pass = c.pass /\ RevocationDay(c, r) < r.to /\ s = Revoked(c, r)
      BY <1>1 DEF LoneRevoke
    <2>2. r.to > RevocationDay(c, r) BY <1>3, <2>1, WhatStandsUnwritten
    <2> QED BY <2>1, <2>2, WhatStandsUnwritten, TheirRowIsKept DEF Like
  <1>6. ASSUME NEW r \in regs PROVE f(r) \in View(t)
    <2>1. CASE \A s \in mine[t] : ~SameRow(r, s) BY <1>4, <2>1, WhatStandsUnwritten
    <2>2. CASE \E s \in mine[t] : SameRow(r, s)
      <3>1. PICK s \in mine[t] : SameRow(r, s) BY <2>2
      <3>2. PICK a \in regs : s = f(a) /\ SameRow(s, a) BY <1>5
      <3>3. a = r BY <3>1, <3>2, WhatStandsUnwritten DEF SameRow
      <3> QED BY <3>2, <3>3, WhatStandsUnwritten
    <2> QED BY <2>1, <2>2
  <1>7. ASSUME NEW q \in View(t) PROVE \E r \in regs : q = f(r)
    BY <1>4, <1>5, WhatStandsUnwritten
  <1> HIDE DEF f
  <1> QED BY <1>2, <1>6, <1>7, WhatStandsUnwritten

LEMMA ARegistrationIsAsIfAlone ==
    ASSUME IInv, RaceInv, AloneInv, NEW t \in Txs, Commit(t), call[t].verb = "register"
    PROVE  \E n \in 0..written : regs' =
             Registered(regs, n, call[t].pass, call[t].car, call[t].from, call[t].to, call[t].why)
  <1> DEFINE c == call[t]
             f(r) == IF HolderOf(c, r) THEN GivenWay(r, c.from) ELSE r
  <1>1. PICK n \in Nat : n < written /\ LoneRegister(regs, c, plan[t], mine[t], n)
    BY DEF AloneInv, Lone, Commit
  <1> DEFINE A == Added(c, n)
  <1>2. Registered(regs, n, c.pass, c.car, c.from, c.to, c.why) = { f(r) : r \in regs } \cup A
    BY DEF Registered, Added, Holders, HolderOf
  <1>3. \A y \in A : y \in mine[t] BY <1>1, WhatStandsUnwritten DEF LoneRegister
  <1>4. ASSUME NEW q \in regs, \A s \in mine[t] : ~SameRow(q, s) PROVE f(q) = q
    <2> SUFFICES ASSUME HolderOf(c, q) PROVE FALSE OBVIOUS
    <2>1. PICK y \in A : /\ y.garage = q.garage /\ y.car = c.car
                         /\ y.from = c.from /\ y.to = c.to
      <3> DEFINE z == [reg |-> n, garage |-> q.garage, pass |-> c.pass, car |-> c.car,
                       from |-> c.from, to |-> c.to,
                       why |-> IF c.to = Forever THEN OPEN ELSE c.why]
      <3>1. q.garage \in GaragesOf[c.pass] BY DEF HolderOf
      <3>2. z \in A BY <3>1 DEF Added, NewRows
      <3>3. z.garage = q.garage /\ z.car = c.car /\ z.from = c.from /\ z.to = c.to OBVIOUS
      <3> QED BY <3>2, <3>3
    <2>2. y \in regs' /\ q \in regs' /\ y # q
      BY <1>3, <1>4, <2>1, WhatStandsUnwritten DEF SameRow
    <2>3. Clash(q, y) BY <2>1 DEF HolderOf, Clash
    <2>4. IInv' BY NextKeepsIInv DEF Next, Statement
    <2> QED BY <2>2, <2>3, <2>4 DEF IInv, OneCarOnePass, Clash, Overlaps
  <1>5. ASSUME NEW s \in mine[t], s \notin A \/ InRegs(regs, s)
        PROVE  \E r \in regs : s = f(r) /\ SameRow(s, r)
    <2>1. PICK r \in regs : HolderOf(c, r) /\ s = GivenWay(r, c.from)
      BY <1>1, <1>5 DEF LoneRegister
    <2> QED BY <2>1, WhatStandsUnwritten, TheirRowIsKept DEF Like
  <1> HIDE DEF A
  <1>6. ASSUME NEW r \in regs PROVE f(r) \in View(t)
    <2>1. CASE \A s \in mine[t] : ~SameRow(r, s) BY <1>4, <2>1, WhatStandsUnwritten
    <2>2. CASE \E s \in mine[t] : SameRow(r, s)
      <3>1. PICK s \in mine[t] : SameRow(r, s) BY <2>2
      <3>2. InRegs(regs, s) BY <3>1 DEF InRegs
      <3>3. PICK a \in regs : s = f(a) /\ SameRow(s, a) BY <1>5, <3>2
      <3>4. a = r BY <3>1, <3>3, WhatStandsUnwritten DEF SameRow
      <3> QED BY <3>3, <3>4, WhatStandsUnwritten
    <2> QED BY <2>1, <2>2
  <1>7. ASSUME NEW q \in View(t) PROVE q \in A \/ \E r \in regs : q = f(r)
    BY <1>4, <1>5, WhatStandsUnwritten
  <1>8. A \subseteq View(t) BY <1>3, WhatStandsUnwritten
  <1> HIDE DEF f
  <1>9. regs' = { f(r) : r \in regs } \cup A BY <1>6, <1>7, <1>8, WhatStandsUnwritten
  <1>10. n \in 0..written BY <1>1 DEF RaceInv, Typed
  <1> QED BY <1>2, <1>9, <1>10

LEMMA AnEndIsAsIfAlone ==
    ASSUME RaceInv, AloneInv, NEW t \in Txs, Commit(t), call[t].verb = "end"
    PROVE  \E r \in Latest(regs, call[t].pass, call[t].car) :
             MayEnd(r, call[t].to) /\ regs' = Ended(regs, r, call[t].to)
  <1> DEFINE c == call[t]
  <1>1. PICK T \in EndDay, F \in Day : LoneEnd(regs, c, plan[t], mine[t], T, F)
    BY DEF AloneInv, Lone, Commit
  <1>2. PICK b \in Latest(regs, c.pass, c.car) :
          /\ b.from = F /\ b.to <= T /\ Touched(plan[t], mine[t], b)
          /\ b.to = T => MayEnd(b, c.to)
    BY <1>1 DEF LoneEnd
  <1>3. b \in regs /\ b.pass = c.pass /\ b.car = c.car BY <1>2 DEF Latest
  <1>4. ASSUME NEW s \in mine[t]
        PROVE  \E a \in regs : /\ OfTheStay(c, F, a) /\ a.to = T
                               /\ s = Cut(c, a) /\ SameRow(s, a)
    <2>1. PICK a \in regs : OfTheStay(c, F, a) /\ a.to = T /\ s = Cut(c, a)
      BY <1>1 DEF LoneEnd
    <2> QED BY <2>1, WhatStandsUnwritten, TheirRowIsKept DEF Like
  <1>5. b.to = T
    <2>1. PICK s \in mine[t] : SameRow(s, b) BY <1>2, WhatStandsUnwritten DEF Touched
    <2>2. PICK a \in regs : a.to = T /\ SameRow(s, a) BY <1>4
    <2>3. a = b BY <1>3, <2>1, <2>2, WhatStandsUnwritten DEF SameRow
    <2> QED BY <2>2, <2>3
  <1> DEFINE f(q) == IF EndsWith(q, b) THEN Cut(c, q) ELSE q
  <1>6. Ended(regs, b, c.to) = { f(q) : q \in regs } BY DEF Ended, Cut
  <1>7. \A q : EndsWith(q, b) <=> OfTheStay(c, F, q) /\ q.to = T
    BY <1>2, <1>3, <1>5 DEF EndsWith, OfTheStay
  <1>8. ASSUME NEW q \in regs, \A s \in mine[t] : ~SameRow(q, s) PROVE f(q) = q
    <2>1. ~Touched(plan[t], mine[t], q) BY <1>8, WhatStandsUnwritten DEF Touched, SameRow
    <2>2. OfTheStay(c, F, q) => q.to < T BY <1>1, <2>1 DEF LoneEnd
    <2> QED BY <1>7, <2>2, WhatStandsUnwritten
  <1>9. \A s \in mine[t] : \E r \in regs : s = f(r) /\ SameRow(s, r) BY <1>4, <1>7
  <1>10. ASSUME NEW r \in regs PROVE f(r) \in View(t)
    <2>1. CASE \A s \in mine[t] : ~SameRow(r, s) BY <1>8, <2>1, WhatStandsUnwritten
    <2>2. CASE \E s \in mine[t] : SameRow(r, s)
      <3>1. PICK s \in mine[t] : SameRow(r, s) BY <2>2
      <3>2. PICK a \in regs : s = f(a) /\ SameRow(s, a) BY <1>9
      <3>3. a = r BY <3>1, <3>2, WhatStandsUnwritten DEF SameRow
      <3> QED BY <3>2, <3>3, WhatStandsUnwritten
    <2> QED BY <2>1, <2>2
  <1>11. ASSUME NEW q \in View(t) PROVE \E r \in regs : q = f(r)
    BY <1>8, <1>9, WhatStandsUnwritten
  <1> HIDE DEF f
  <1>12. regs' = Ended(regs, b, c.to) BY <1>6, <1>10, <1>11, WhatStandsUnwritten
  <1> QED BY <1>2, <1>5, <1>12

(* What a register, an end or a revocation commits is what one writer      *)
(* alone would have made of the rows committed before it, however many     *)
(* statements ago it read them and whoever committed in between: nothing   *)
(* of another writer's is overwritten, no holder of those days is left     *)
(* standing and no garage of a registration being ended is passed over.    *)
THEOREM RacesCommitAsIfAlone == Spec => CommitsAsIfAlone
  <1> DEFINE Inv == IInv /\ RaceInv /\ TakeInv /\ HeldInv /\ KeptInv /\ AloneInv
  <1>1. Inv /\ [Next]_vars => [CommitsAsIfAloneStep]_vars
    <2> SUFFICES ASSUME Inv, NEW t \in Txs, Commit(t)
                 PROVE  LET c == call[t] IN
                        CASE c.verb = "register" ->
                               \E n \in 0..written :
                                 regs' = Registered(regs, n, c.pass, c.car, c.from, c.to, c.why)
                          [] c.verb = "end" ->
                               \E r \in Latest(regs, c.pass, c.car) :
                                 MayEnd(r, c.to) /\ regs' = Ended(regs, r, c.to)
                          [] c.verb = "revoke" -> regs' = EndedByRevocation(regs, c.pass, c.at)
                          [] OTHER -> TRUE
      BY DEF CommitsAsIfAloneStep
    <2> QED BY ARegistrationIsAsIfAlone, AnEndIsAsIfAlone, ARevocationIsAsIfAlone
  <1>2. Init => Inv
    BY InitIInv, InitRaceInv, InitTakeInv, InitHeldInv, InitKeptInv, InitAloneInv
  <1>3. Inv /\ [Next]_vars => Inv'
    BY NextKeepsIInv, NextKeepsRaceInv, NextKeepsTakeInv, NextKeepsHeldInv, NextKeepsKeptInv,
       NextKeepsAloneInv
  <1> QED BY <1>1, <1>2, <1>3, PTL DEF Spec, CommitsAsIfAlone
=============================================================================
