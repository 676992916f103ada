---------------------------- MODULE SpendsProofs ----------------------------
(***************************************************************************)
(* One credential, one spend, whoever races and whatever fails: what the   *)
(* writers of one QR leave committed, for every number of connections,     *)
(* passes, garages and calls.  The argument is the lock of the pass row.   *)
(* Everything a transaction wrote belongs to one pass, and it holds that   *)
(* pass's lock until it ends; so what it read under the lock is still      *)
(* committed when it commits, and nobody else's commit touches its pass.   *)
(* The strengthening says what each transaction may have written where it  *)
(* stands, and that its savepoints still take all of it back.              *)
(***************************************************************************)
EXTENDS Spends, SequenceTheorems, FiniteOrders

PassIn(x) == IF x.call.verb \in {"issue", "revoke"} THEN x.call.pass ELSE x.seen.pass
HasPass(x) == <<"pass", PassIn(x)>> \in x.locks

(* What the statements of x read, of committed rows ps, cs and hs.         *)
StatesSeen(x, ps) ==
    [p \in Passes |-> IF x.mine.pass[p] = "unwritten" THEN ps[p] ELSE x.mine.pass[p]]
RowsSeen(x, cs) ==
    [q \in Codes |-> IF x.mine.code[q] = NoCode THEN cs[q] ELSE x.mine.code[q]]
RegSeen(x, hs) == (hs \cup x.mine.put) \ x.mine.gone

(* How a committed QR may change.                                          *)
Advances(q, r) ==
    /\ r.pass = q.pass
    /\ Bound(q) # NoCar => Bound(r) = Bound(q)
    /\ q.state = "cancelled" => r.state = "cancelled"
    /\ r.state = "issued" => q.state = "issued"
    /\ q.exitOnly => r.exitOnly

(* Where x is, and what that says of its locks and its writes.             *)
Stands(x) ==
    /\ x.pc = "idle" => x = Idle
    /\ x.pc # "idle" => x.call \in Calls
    /\ x.pc = "glimpse" => x.locks = {}
    /\ x.pc = "lock" => /\ x.locks \in {{}, {<<"pass", PassIn(x)>>}}
                        /\ x.call.verb \in {"issue", "revoke"} => x.locks = {}
    /\ x.pc \in {"judge", "mint", "insert", "spend", "keep"} => x.locks # {}
    /\ x.locks # {} => HasPass(x)
    /\ x.mine # NoWrites => x.locks # {}
    /\ x.pc \in {"glimpse", "lock", "judge", "refused"} => x.mine = NoWrites
    /\ x.pc = "judge" => x.call.verb # "issue"
    /\ x.pc = "mint" => x.call.verb \in {"issue", "replace"}
    /\ x.pc = "insert" => x.call.verb \in {"redeem", "issue", "replace"}
    /\ x.pc \in {"spend", "keep"} => x.call.verb = "redeem"
    /\ x.call.verb = "confirm" /\ x.pc = "done" => x.locks # {}
    /\ x.out # "none" => x.pc \in {"keep", "done", "refused", "broken"}
    /\ x.pc = "refused" => x.out = "refused"
    /\ x.out = "refused" /\ x.call.verb # "confirm" => x.mine = NoWrites

(* The savepoints that stand: the verb's own, taken before its first write. *)
Base(x) == [name |-> x.call.verb, mine |-> NoWrites, locks |-> {}]
CanGoBack(x) ==
    /\ \/ x.pc \in {"glimpse", "lock", "judge"} /\ x.call.verb # "revoke"
       \/ x.pc \in {"mint", "insert", "spend"} /\ x.call.verb # "replace"
       => x.saves = <<Base(x)>>
    /\ x.pc \in {"mint", "insert"} /\ x.call.verb = "replace"
         => Len(x.saves) = 2 /\ x.saves[1] = Base(x) /\ x.saves[2].name = "issue"
    /\ x.pc = "keep" => x.saves = << >>

(* The QR it is about is a QR of the pass it locks.                        *)
OnItsCode(x, cs) ==
    x.call \in Calls /\ x.call.verb \notin {"issue", "revoke"} /\ (x.pc = "lock" \/ x.locks # {}) =>
        /\ cs[x.call.code] # NoCode
        /\ cs[x.call.code].pass = PassIn(x)
        /\ x.call.garage \in GaragesOf[PassIn(x)]

(* All it wrote is of one pass, and each row is one its QR may become.     *)
OnOnePass(x, ps, cs) ==
    /\ \A q \in Codes : x.mine.code[q] # NoCode =>
         /\ x.mine.code[q].pass = PassIn(x)
         /\ BoundIfUsed(x.mine.code[q])
         /\ cs[q] # NoCode => Advances(cs[q], x.mine.code[q])
    /\ \A p \in Passes : x.mine.pass[p] # "unwritten" => p = PassIn(x)
    /\ \A h \in x.mine.put \cup x.mine.gone : h[2] = PassIn(x)

(* The rows of a fan-out under way.                                        *)
Minted(p, car) == [pass |-> p, state |-> "issued", plate |-> car, car |-> NoCar,
                   exitOnly |-> FALSE, kept |-> 0]
Replaced(q) ==
    IF Bound(q) # NoCar THEN [q EXCEPT !.exitOnly = TRUE] ELSE [q EXCEPT !.state = "cancelled"]

MidWay(x, ps, cs) ==
    LET p == PassIn(x)
        c == x.call
    IN  x.pc \in {"mint", "insert", "spend"} =>
        /\ x.mine.pass = NoWrites.pass /\ x.mine.gone = {}
        /\ x.pc = "mint" => x.mine.put = {}
        /\ x.pc # "mint" => /\ x.mine.put = { <<g, p, c.read>> : g \in GaragesOf[p] \ x.todo }
                            /\ x.todo \subseteq GaragesOf[p]
                            /\ ps[p] # "revoked"
        /\ x.pc = "spend" => x.todo = {}
        /\ c.read # NoCar
        /\ c.verb = "redeem" => cs[c.code].state = "issued" /\ Bound(cs[c.code]) = NoCar
        /\ c.verb = "replace" => x.mine.code[c.code] = Replaced(cs[c.code])
        /\ c.verb # "redeem" /\ x.pc = "insert" =>
             cs[c.new] = NoCode /\ x.mine.code[c.new] = Minted(p, c.read)
        /\ \A q \in Codes : x.mine.code[q] # NoCode =>
             \/ q = c.code /\ c.verb = "replace"
             \/ q = c.new /\ c.verb # "redeem" /\ x.pc = "insert"

(* What it is about to commit is what the verbs leave.                     *)
Settled(x, ps, cs, hs) ==
    x.pc \in {"keep", "done"} /\ x.mine # NoWrites =>
        /\ HoldsAs(RowsSeen(x, cs), RegSeen(x, hs), PassIn(x))
        /\ NothingLeftOn(StatesSeen(x, ps), RowsSeen(x, cs), RegSeen(x, hs), PassIn(x))

(* What it tells a lane is so.                                             *)
TellsTheTruth(x, ps, cs, hs) ==
    x.out \in {"recognised", "redeemed"} /\ x.pc \in {"keep", "done"} =>
        LET q == RowsSeen(x, cs)[x.call.code] IN
        /\ x.locks # {} /\ x.call.verb \in {"redeem", "confirm"}
        /\ ps[PassIn(x)] # "revoked" /\ cs[x.call.code].state # "cancelled"
        /\ x.call.dir = "entry" => ~cs[x.call.code].exitOnly
        /\ x.call.verb = "redeem" =>
             Bound(q) # NoCar /\ Verdict(q, RegSeen(x, hs), x.call) = "recognised"

(* The answers it gives are on the QR.                                     *)
Answers(x, q) ==
    \/ x.call.verb = "confirm" /\ x.pc = "done"
    \/ x.call.verb = "redeem" /\ x.out = "recognised" /\ PassedBy(q, x.call.read) \in {"near", "nothing"}
KeepsItsAnswers(x, cs) ==
    /\ x.pc = "keep" => /\ x.mine.code = NoWrites.code /\ x.mine.put = {} /\ x.mine.gone = {}
                        /\ \A p \in Passes : x.mine.pass[p] \in {"unwritten", "active"}
                        /\ x.out = "recognised"
                        /\ PassedBy(cs[x.call.code], x.call.read) \in {"near", "nothing"}
    /\ x.pc = "done" =>
         /\ \A q \in Codes : cs[q] # NoCode /\ x.mine.code[q] # NoCode =>
              x.mine.code[q].kept =
                cs[q].kept + (IF q = x.call.code /\ Answers(x, cs[q]) THEN 1 ELSE 0)
         /\ cs[x.call.code] # NoCode /\ Answers(x, cs[x.call.code])
              => x.mine.code[x.call.code] # NoCode

TxOK(x, ps, cs, hs) ==
    /\ Stands(x) /\ CanGoBack(x) /\ OnItsCode(x, cs) /\ OnOnePass(x, ps, cs)
    /\ MidWay(x, ps, cs) /\ Settled(x, ps, cs, hs)
    /\ TellsTheTruth(x, ps, cs, hs) /\ KeepsItsAnswers(x, cs)

LocksApart == \A t, u \in Txs : t # u => tx[t].locks \cap tx[u].locks = {}
WritesApart ==
    \A t, u \in Txs, q \in Codes :
        t # u => tx[t].mine.code[q] = NoCode \/ tx[u].mine.code[q] = NoCode

IInv ==
    /\ TypeOK /\ HeldByItsCode /\ RevokedLeavesNothingLive
    /\ \A t \in Txs : TxOK(tx[t], passState, codes, held)
    /\ LocksApart /\ WritesApart

-----------------------------------------------------------------------------
(* Writes, savepoints and refusals *)

LEMMA NoWritesAreWrites ==
    /\ NoWrites \in Writes /\ NoWrites.put = {} /\ NoWrites.gone = {}
    /\ \A p \in Passes : NoWrites.pass[p] = "unwritten"
    /\ \A q \in Codes : NoWrites.code[q] = NoCode
  BY DEF NoWrites, Writes

LEMMA WritingACode ==
    ASSUME NEW m \in Writes, NEW q \in Codes, NEW row \in Code
    PROVE  LET n == WritesCode(m, q, row) IN
           /\ n \in Writes /\ n.pass = m.pass /\ n.put = m.put /\ n.gone = m.gone
           /\ \A r \in Codes : n.code[r] = IF r = q THEN row ELSE m.code[r]
  BY DEF WritesCode, Writes

LEMMA WritingAPass ==
    ASSUME NEW m \in Writes, NEW p \in Passes, NEW s \in PassStates
    PROVE  LET n == WritesPass(m, p, s) IN
           /\ n \in Writes /\ n.code = m.code /\ n.put = m.put /\ n.gone = m.gone
           /\ \A r \in Passes : n.pass[r] = IF r = p THEN s ELSE m.pass[r]
  BY DEF WritesPass, Writes

(* A row of a QR is never the absence of one.                              *)
LEMMA ARowIsThere == \A row \in Code : row # NoCode
  BY DEF Code, NoCode

LEMMA IdleStands ==
    ASSUME NEW ps, NEW cs, NEW hs PROVE Idle \in Tx /\ TxOK(Idle, ps, cs, hs)
<1>1. << >> \in Seq(Save)
  OBVIOUS
<1>2. Idle \in Tx
  BY <1>1, NoWritesAreWrites DEF Idle, Tx, Rows
<1>3. /\ Idle.pc = "idle" /\ Idle.mine = NoWrites /\ Idle.locks = {} /\ Idle.out = "none"
  BY DEF Idle
<1>4. Stands(Idle) /\ CanGoBack(Idle) /\ OnItsCode(Idle, cs)
  BY <1>3 DEF Stands, CanGoBack, OnItsCode
<1>5. OnOnePass(Idle, ps, cs)
  BY <1>3, NoWritesAreWrites DEF OnOnePass
<1>6. MidWay(Idle, ps, cs) /\ Settled(Idle, ps, cs, hs) /\ TellsTheTruth(Idle, ps, cs, hs)
      /\ KeepsItsAnswers(Idle, cs)
  BY <1>3 DEF MidWay, Settled, TellsTheTruth, KeepsItsAnswers
<1>7. QED
  BY <1>2, <1>4, <1>5, <1>6 DEF TxOK

(* Back to the only savepoint of that name.                                *)
LEMMA RollingBack ==
    ASSUME NEW x \in Tx, NEW i \in DOMAIN x.saves, NEW which,
           \A j \in DOMAIN x.saves : x.saves[j].name = which <=> j = i
    PROVE  RolledBackTo(x, which) = [x EXCEPT !.mine = x.saves[i].mine, !.locks = x.saves[i].locks,
                                              !.saves = SubSeq(x.saves, 1, i)]
<1> DEFINE there == { j \in DOMAIN x.saves : x.saves[j].name = NameOf(which) }
<1>1. there = {i}
  BY DEF NameOf
<1>2. x.saves \in Seq(Save)
  BY DEF Tx
<1>3. i \in Nat
  BY <1>2
<1>4. (CHOOSE j \in there : \A k \in there : k <= j) = i
  BY <1>1, <1>3
<1>5. QED
  BY <1>1, <1>4 DEF RolledBackTo

(* A refusal takes back everything the call wrote.                         *)
LEMMA RefusingTakesAllBack ==
    ASSUME NEW x \in Tx, Stands(x), CanGoBack(x),
           x.pc \in {"glimpse", "judge", "mint", "insert", "spend"}
    PROVE  LET y == Refusing(x) IN
           /\ y \in Tx /\ y.call = x.call /\ y.mine = NoWrites /\ y.out = "refused"
           /\ y.seen = x.seen
           /\ y.locks = {} \/ (x.call.verb = "revoke" /\ y.locks = x.locks)
           /\ y.pc = IF x.call.verb = "redeem" THEN "done" ELSE "refused"
<1>0. x.saves \in Seq(Save) /\ Base(x).mine = NoWrites /\ Base(x).locks = {}
      /\ Base(x).name = x.call.verb
  BY DEF Base, Tx
<1>a. x.call \in Calls /\ x.call.verb \in Verbs
  BY CallsAssumption DEF Stands, Call
<1>b. ASSUME NEW y \in Tx, y.mine = NoWrites, y.locks = {} \/ (x.call.verb = "revoke" /\ y.locks = x.locks),
             y.pc = x.pc, y.call = x.call, y.seen = x.seen, Unwound(x) = y
      PROVE  LET z == Refusing(x) IN
           /\ z \in Tx /\ z.call = x.call /\ z.mine = NoWrites /\ z.out = "refused"
           /\ z.seen = x.seen
           /\ z.locks = {} \/ (x.call.verb = "revoke" /\ z.locks = x.locks)
           /\ z.pc = IF x.call.verb = "redeem" THEN "done" ELSE "refused"
  <2> DEFINE end == IF x.call.verb = "redeem" THEN "done" ELSE "refused"
  <2>1. Refusing(x) = [y EXCEPT !.out = "refused", !.pc = end]
    BY <1>b DEF Refusing
  <2>2. end \in {"done", "refused"}
    OBVIOUS
  <2> HIDE DEF end
  <2>3. /\ [y EXCEPT !.out = "refused", !.pc = end] \in Tx
        /\ [y EXCEPT !.out = "refused", !.pc = end].call = y.call
        /\ [y EXCEPT !.out = "refused", !.pc = end].mine = y.mine
        /\ [y EXCEPT !.out = "refused", !.pc = end].out = "refused"
        /\ [y EXCEPT !.out = "refused", !.pc = end].seen = y.seen
        /\ [y EXCEPT !.out = "refused", !.pc = end].locks = y.locks
        /\ [y EXCEPT !.out = "refused", !.pc = end].pc = end
    BY <2>2 DEF Tx
  <2> QED
    BY <1>b, <2>1, <2>3 DEF end
<1>1. CASE x.call.verb = "revoke"
  <2>1. Unwound(x) = x
    BY <1>1 DEF Unwound
  <2>2. x.pc \in {"glimpse", "judge"} /\ x.mine = NoWrites
    BY <1>1 DEF Stands
  <2>3. QED
    BY <2>1, <2>2, <1>b, <1>1
<1>2. CASE x.call.verb # "revoke" /\ ~(x.call.verb = "replace" /\ x.pc \in {"mint", "insert"})
  <2> DEFINE y == [x EXCEPT !.mine = NoWrites, !.locks = {}, !.saves = SubSeq(x.saves, 1, 1)]
  <2>1. x.saves = <<Base(x)>>
    BY <1>2 DEF CanGoBack, Stands
  <2>2. DOMAIN x.saves = {1} /\ x.saves[1] = Base(x)
    BY <2>1
  <2>8. 1 \in DOMAIN x.saves /\ \A j \in DOMAIN x.saves : x.saves[j].name = x.call.verb <=> j = 1
    BY <2>2, <1>0
  <2>3. RolledBackTo(x, x.call.verb) =
          [x EXCEPT !.mine = x.saves[1].mine, !.locks = x.saves[1].locks, !.saves = SubSeq(x.saves, 1, 1)]
    BY ONLY x \in Tx, <2>8, RollingBack
  <2>9. RolledBackTo(x, x.call.verb) = y
    BY <2>3, <2>2, <1>0
  <2>4. Unwound(x) = y
    BY <1>2, <2>9 DEF Unwound
  <2>5. SubSeq(x.saves, 1, 1) \in Seq(Save)
    BY <1>0, <2>2
  <2>6. /\ y \in Tx /\ y.pc = x.pc /\ y.call = x.call /\ y.seen = x.seen
        /\ y.mine = NoWrites /\ y.locks = {}
    BY <2>5, NoWritesAreWrites DEF Tx
  <2> HIDE DEF y
  <2>7. QED
    BY <2>4, <2>6, <1>b
<1>3. CASE x.call.verb = "replace" /\ x.pc \in {"mint", "insert"}
  <2> DEFINE w == [x EXCEPT !.mine = x.saves[2].mine, !.locks = x.saves[2].locks,
                            !.saves = SubSeq(x.saves, 1, 2)]
             y == [w EXCEPT !.mine = NoWrites, !.locks = {}, !.saves = SubSeq(w.saves, 1, 1)]
  <2>1. Len(x.saves) = 2 /\ x.saves[1] = Base(x) /\ x.saves[2].name = "issue"
    BY <1>3 DEF CanGoBack
  <2>2. DOMAIN x.saves = {1, 2} /\ x.saves[2] \in Save
    BY <2>1, <1>0
  <2>3. \A j \in DOMAIN x.saves : x.saves[j].name = "issue" <=> j = 2
    BY <2>1, <2>2, <1>0, <1>3
  <2>14. 2 \in DOMAIN x.saves
    BY <2>2
  <2>4. RolledBackTo(x, "issue") = w
    BY ONLY x \in Tx, <2>14, <2>3, RollingBack
  <2>5. SubSeq(x.saves, 1, 2) = x.saves
    BY <1>0, <2>1
  <2>6. w \in Tx /\ w.saves = x.saves
    BY <2>2, <2>5, <1>0 DEF Save, Tx
  <2>7. \A j \in DOMAIN w.saves : w.saves[j].name = "replace" <=> j = 1
    BY <2>1, <2>2, <2>6, <1>0, <1>3
  <2>15. 1 \in DOMAIN w.saves /\ w.saves[1] = Base(x)
    BY <2>1, <2>2, <2>6
  <2>16. w.pc = x.pc /\ w.call = x.call /\ w.seen = x.seen
    BY DEF Tx
  <2> HIDE DEF w
  <2>17. RolledBackTo(w, "replace") =
          [w EXCEPT !.mine = w.saves[1].mine, !.locks = w.saves[1].locks, !.saves = SubSeq(w.saves, 1, 1)]
    BY ONLY <2>6, <2>15, <2>7, RollingBack
  <2>8. RolledBackTo(w, "replace") = y
    BY <2>17, <2>15, <1>0
  <2>9. Unwound(x) = y
    BY <1>3, <2>4, <2>8 DEF Unwound
  <2>10. SubSeq(w.saves, 1, 1) \in Seq(Save)
    BY <1>0, <2>1, <2>6
  <2>11. y \in Tx
    BY <2>6, <2>10, NoWritesAreWrites DEF Tx
  <2>12. y.pc = x.pc /\ y.call = x.call /\ y.seen = x.seen /\ y.mine = NoWrites /\ y.locks = {}
    BY <2>6, <2>16 DEF Tx
  <2> HIDE DEF y
  <2>13. QED
    BY <2>9, <2>11, <2>12, <1>b
<1>4. QED
  BY <1>1, <1>2, <1>3

-----------------------------------------------------------------------------
(* One statement of one transaction *)

(* A statement that commits nothing concerns its own transaction only.     *)
LEMMA AStatementIsItsOwn ==
    ASSUME IInv, NEW t \in Txs, NEW x \in Tx, tx' = [tx EXCEPT ![t] = x], UNCHANGED data,
           begun' \in 0..MaxBegun, TxOK(x, passState, codes, held),
           \A u \in Txs \ {t} : x.locks \cap tx[u].locks = {},
           \A u \in Txs \ {t}, q \in Codes : x.mine.code[q] = NoCode \/ tx[u].mine.code[q] = NoCode
    PROVE  IInv'
<1>1. /\ passState' = passState /\ codes' = codes /\ held' = held
      /\ tx \in [Txs -> Tx]
  BY DEF data, IInv, TypeOK
<1>2. tx' \in [Txs -> Tx] /\ \A u \in Txs : tx'[u] = IF u = t THEN x ELSE tx[u]
  BY <1>1
<1>3. TypeOK'
  BY <1>1, <1>2 DEF IInv, TypeOK
<1>4. HeldByItsCode' /\ RevokedLeavesNothingLive'
  BY <1>1 DEF IInv, HeldByItsCode, RevokedLeavesNothingLive
<1>5. ASSUME NEW u \in Txs PROVE TxOK(tx'[u], passState', codes', held')
  BY <1>1, <1>2 DEF IInv
<1>6. LocksApart'
  BY <1>2 DEF IInv, LocksApart
<1>7. WritesApart'
  BY <1>2 DEF IInv, WritesApart
<1>8. QED
  BY <1>3, <1>4, <1>5, <1>6, <1>7 DEF IInv

(* A refusal leaves no writes, and no lock but a revocation's.             *)
LEMMA RefuseKeepsIInv ==
    ASSUME IInv, NEW t \in Txs, Refuse(t),
           tx[t].pc \in {"glimpse", "judge", "mint", "insert", "spend"}
    PROVE  IInv'
<1> DEFINE x == tx[t]
           y == Refusing(x)
<1>1. x \in Tx /\ TxOK(x, passState, codes, held)
  BY DEF IInv, TypeOK
<1>2. /\ y \in Tx /\ y.call = x.call /\ y.mine = NoWrites /\ y.out = "refused"
      /\ y.seen = x.seen
      /\ y.locks = {} \/ (x.call.verb = "revoke" /\ y.locks = x.locks)
      /\ y.pc = IF x.call.verb = "redeem" THEN "done" ELSE "refused"
  BY <1>1, RefusingTakesAllBack DEF TxOK
<1>3. tx' = [tx EXCEPT ![t] = y] /\ UNCHANGED <<data, begun>>
  BY DEF Refuse, Sets
<1>4. x.call \in Calls /\ x.pc # "idle"
  BY <1>1 DEF TxOK, Stands
<1> HIDE DEF y
<1>5. x.locks # {} => HasPass(x)
  BY <1>1 DEF TxOK, Stands
<1>6. Stands(y)
  BY <1>2, <1>4, <1>5 DEF Stands, HasPass, PassIn
<1>7. CanGoBack(y) /\ OnItsCode(y, codes) /\ OnOnePass(y, passState, codes)
  BY <1>2, NoWritesAreWrites DEF CanGoBack, OnItsCode, OnOnePass
<1>8. MidWay(y, passState, codes) /\ Settled(y, passState, codes, held)
      /\ TellsTheTruth(y, passState, codes, held)
  BY <1>2 DEF MidWay, Settled, TellsTheTruth
<1>9. KeepsItsAnswers(y, codes)
  BY <1>2, NoWritesAreWrites DEF KeepsItsAnswers, Answers
<1>10. TxOK(y, passState, codes, held)
  BY <1>6, <1>7, <1>8, <1>9 DEF TxOK
<1>11. \A u \in Txs \ {t} : y.locks \cap tx[u].locks = {}
  BY <1>2 DEF IInv, LocksApart
<1>12. QED
  BY <1>2, <1>3, <1>10, <1>11, NoWritesAreWrites, AStatementIsItsOwn DEF IInv, TypeOK

LEMMA BeginKeepsIInv == ASSUME IInv, NEW t \in Txs, Begin(t) PROVE IInv'
<1>1. PICK c \in Calls :
        tx' = [tx EXCEPT ![t] = IF c.verb = "revoke" THEN [Idle EXCEPT !.pc = "glimpse", !.call = c]
                                ELSE Saving([Idle EXCEPT !.pc = "glimpse", !.call = c], c.verb)]
  BY DEF Begin
<1> DEFINE x == [Idle EXCEPT !.pc = "glimpse", !.call = c]
           y == IF c.verb = "revoke" THEN x ELSE Saving(x, c.verb)
<1>2. c.verb \in Verbs
  BY CallsAssumption DEF Call
<1>3. /\ x \in Tx /\ x.pc = "glimpse" /\ x.call = c /\ x.mine = NoWrites /\ x.locks = {}
      /\ x.saves = << >> /\ x.out = "none"
  BY IdleStands DEF Idle, Tx
<1>4. Append(<< >>, Base(x)) = <<Base(x)>> /\ <<Base(x)>> \in Seq(Save)
  BY <1>2, <1>3, NoWritesAreWrites DEF Base, Save
<1>5. Saving(x, c.verb) = [x EXCEPT !.saves = <<Base(x)>>]
  BY <1>3, <1>4 DEF Saving, NameOf, Base
<1> HIDE DEF x
<1>6. /\ y \in Tx /\ y.pc = "glimpse" /\ y.call = c /\ y.mine = NoWrites /\ y.locks = {}
      /\ y.out = "none"
      /\ c.verb # "revoke" => y.saves = <<Base(y)>>
  BY <1>3, <1>4, <1>5 DEF Tx, Base
<1>13. tx' = [tx EXCEPT ![t] = y]
  BY <1>1 DEF x
<1> HIDE DEF y
<1>7. Stands(y)
  BY <1>1, <1>6 DEF Stands
<1>14. CanGoBack(y)
  BY <1>6 DEF CanGoBack
<1>8. OnItsCode(y, codes) /\ OnOnePass(y, passState, codes)
  BY <1>6, NoWritesAreWrites DEF OnItsCode, OnOnePass
<1>9. MidWay(y, passState, codes) /\ Settled(y, passState, codes, held)
      /\ TellsTheTruth(y, passState, codes, held) /\ KeepsItsAnswers(y, codes)
  BY <1>6 DEF MidWay, Settled, TellsTheTruth, KeepsItsAnswers
<1>10. TxOK(y, passState, codes, held)
  BY <1>7, <1>14, <1>8, <1>9 DEF TxOK
<1>11. tx' = [tx EXCEPT ![t] = y] /\ UNCHANGED data /\ begun' \in 0..MaxBegun
  <2>1. begun \in 0..MaxBegun /\ begun < MaxBegun /\ begun' = begun + 1 /\ UNCHANGED data
    BY BoundAssumption DEF Begin, IInv, TypeOK
  <2>2. QED
    BY <2>1, <1>13, BoundAssumption
<1>12. QED
  BY <1>6, <1>10, <1>11, NoWritesAreWrites, AStatementIsItsOwn

LEMMA GlimpseKeepsIInv == ASSUME IInv, NEW t \in Txs, Glimpse(t) PROVE IInv'
<1> DEFINE x == tx[t]
           q == codes[x.call.code]
<1>1. CASE Refuse(t)
  BY <1>1, RefuseKeepsIInv DEF Glimpse, At
<1>2. CASE ~Refuse(t)
  <2> DEFINE y == IF x.call.verb \in {"issue", "revoke"} THEN [x EXCEPT !.pc = "lock"]
                  ELSE [x EXCEPT !.pc = "lock", !.seen = q]
  <2>1. x \in Tx /\ TxOK(x, passState, codes, held) /\ x.pc = "glimpse"
    BY DEF IInv, TypeOK, Glimpse, At
  <2>2. x.call \in Calls /\ x.mine = NoWrites /\ x.locks = {} /\ x.out = "none"
    BY <2>1 DEF TxOK, Stands
  <2>3. /\ tx' = [tx EXCEPT ![t] = y] /\ UNCHANGED <<data, begun>>
        /\ x.call.verb \notin {"issue", "revoke"}
             => q # NoCode /\ x.call.garage \in GaragesOf[q.pass]
    BY <1>2 DEF Glimpse, Sets, ByToken
  <2>4. x.call.code \in Codes
    BY <2>2, CallsAssumption DEF Call
  <2>5. /\ y \in Tx /\ y.pc = "lock" /\ y.call = x.call /\ y.mine = NoWrites
        /\ y.locks = {} /\ y.saves = x.saves /\ y.out = "none"
        /\ x.call.verb \notin {"issue", "revoke"} => y.seen = q
    BY <2>1, <2>2, <2>3, <2>4 DEF IInv, TypeOK, Tx
  <2> HIDE DEF y
  <2>6. Stands(y)
    BY <2>2, <2>5 DEF Stands
  <2>7. CanGoBack(y)
    BY <2>1, <2>5 DEF CanGoBack, TxOK, Base
  <2>8. OnItsCode(y, codes)
    BY <2>3, <2>5 DEF OnItsCode, PassIn
  <2>9. OnOnePass(y, passState, codes)
    BY <2>5, NoWritesAreWrites DEF OnOnePass
  <2>10. MidWay(y, passState, codes) /\ Settled(y, passState, codes, held)
         /\ TellsTheTruth(y, passState, codes, held) /\ KeepsItsAnswers(y, codes)
    BY <2>5 DEF MidWay, Settled, TellsTheTruth, KeepsItsAnswers
  <2>11. TxOK(y, passState, codes, held)
    BY <2>6, <2>7, <2>8, <2>9, <2>10 DEF TxOK
  <2>12. /\ \A u \in Txs \ {t} : y.locks \cap tx[u].locks = {}
         /\ \A u \in Txs \ {t}, r \in Codes : y.mine.code[r] = NoCode \/ tx[u].mine.code[r] = NoCode
    BY <2>5, NoWritesAreWrites
  <2>13. UNCHANGED data /\ begun' \in 0..MaxBegun
    BY <2>3 DEF IInv, TypeOK
  <2>14. QED
    BY <2>3, <2>5, <2>11, <2>12, <2>13, AStatementIsItsOwn
<1>3. QED
  BY <1>1, <1>2

(* The lock it waits for: the pass's, then the QR's.                       *)
LEMMA TheNextLock ==
    ASSUME IInv, NEW t \in Txs, tx[t].pc = "lock"
    PROVE  LET x == tx[t] IN
           /\ x.locks = {} => /\ Cardinality(x.locks) = 0 /\ NextLock(t) = <<"pass", PassIn(x)>>
           /\ x.locks # {} => /\ Cardinality(x.locks) = 1 /\ NextLock(t) = <<"code", x.call.code>>
                              /\ Len(LockOrder(t)) = 2
           /\ NextLock(t) \in Rows
           /\ Len(LockOrder(t)) = IF x.call.verb \in {"issue", "revoke"} THEN 1 ELSE 2
<1> DEFINE x == tx[t]
<1>1. Stands(x) /\ OnItsCode(x, codes) /\ x \in Tx
  BY DEF IInv, TxOK, TypeOK
<1>2. x.call \in Calls /\ x.call.code \in Codes /\ x.call.pass \in Passes
  BY <1>1, CallsAssumption DEF Stands, Call
<1>3. PassOf(t) = PassIn(x) /\ PassIn(x) \in Passes
  <2>1. CASE x.call.verb \in {"issue", "revoke"}
    BY <2>1, <1>2 DEF PassOf, PassIn
  <2>2. CASE x.call.verb \notin {"issue", "revoke"}
    <3>1. codes[x.call.code] # NoCode /\ codes[x.call.code].pass = PassIn(x)
      BY <1>1, <1>2, <2>2 DEF OnItsCode
    <3>2. codes[x.call.code] \in Code
      BY <1>2, <3>1 DEF IInv, TypeOK
    <3>3. QED
      BY <2>2, <3>1, <3>2 DEF Code, PassOf, PassIn
  <2>3. QED
    BY <2>1, <2>2
<1>4. LockOrder(t) = IF x.call.verb \in {"issue", "revoke"} THEN <<<<"pass", PassIn(x)>>>>
                     ELSE <<<<"pass", PassIn(x)>>, <<"code", x.call.code>>>>
  BY <1>3 DEF LockOrder
<1>5. Cardinality({}) = 0 /\ Cardinality({<<"pass", PassIn(x)>>}) = 1
  BY FS_EmptySet, FS_Singleton
<1>6. CASE x.locks = {}
  <2>1. NextLock(t) = <<"pass", PassIn(x)>>
    BY <1>4, <1>5, <1>6 DEF NextLock
  <2>2. Len(LockOrder(t)) = IF x.call.verb \in {"issue", "revoke"} THEN 1 ELSE 2
    BY <1>4
  <2>3. QED
    BY <1>3, <1>5, <1>6, <2>1, <2>2 DEF Rows
<1>7. CASE x.locks # {}
  <2>1. x.locks = {<<"pass", PassIn(x)>>} /\ x.call.verb \notin {"issue", "revoke"}
    BY <1>1, <1>7 DEF Stands
  <2>4. LockOrder(t) = <<<<"pass", PassIn(x)>>, <<"code", x.call.code>>>>
    BY <1>4, <2>1
  <2>5. Cardinality(x.locks) + 1 = 2
    BY <1>5, <2>1
  <2>2. NextLock(t) = <<"code", x.call.code>> /\ Len(LockOrder(t)) = 2
    BY <2>4, <2>5 DEF NextLock
  <2>3. QED
    BY <1>2, <1>5, <1>7, <2>1, <2>2 DEF Rows
<1>8. QED
  BY <1>6, <1>7

LEMMA LockKeepsIInv == ASSUME IInv, NEW t \in Txs, Lock(t) PROVE IInv'
<1> DEFINE x == tx[t]
           ls == x.locks \cup {NextLock(t)}
           to == IF Cardinality(ls) < Len(LockOrder(t)) THEN "lock"
                 ELSE IF x.call.verb = "issue" THEN "mint" ELSE "judge"
           y == [x EXCEPT !.locks = ls, !.pc = to]
<1>1. x \in Tx /\ TxOK(x, passState, codes, held) /\ x.pc = "lock"
  BY DEF IInv, TypeOK, Lock, At
<1>2. x.call \in Calls /\ x.mine = NoWrites /\ x.out = "none"
  BY <1>1 DEF TxOK, Stands
<1>3. tx' = [tx EXCEPT ![t] = y] /\ UNCHANGED <<data, begun>> /\ Free(t, NextLock(t))
  BY <1>1 DEF Lock, Sets, Tx
<1>4. /\ x.locks = {} => Cardinality(x.locks) = 0 /\ NextLock(t) = <<"pass", PassIn(x)>>
      /\ x.locks # {} => /\ Cardinality(x.locks) = 1 /\ NextLock(t) = <<"code", x.call.code>>
                         /\ x.locks = {<<"pass", PassIn(x)>>}
      /\ NextLock(t) \in Rows
      /\ Len(LockOrder(t)) = IF x.call.verb \in {"issue", "revoke"} THEN 1 ELSE 2
  BY <1>1, TheNextLock DEF TxOK, Stands
<1>5. /\ x.locks = {} => Cardinality(ls) = 1
      /\ x.locks # {} => Cardinality(ls) = 2 /\ x.call.verb \notin {"issue", "revoke"}
  <2>1. Cardinality({NextLock(t)}) = 1
    BY FS_Singleton
  <2>2. CASE x.locks # {}
    <3>1. x.locks = {<<"pass", PassIn(x)>>} /\ NextLock(t) = <<"code", x.call.code>>
      BY <1>4, <2>2
    <3>4. IsFiniteSet(x.locks)
      BY <3>1, FS_Singleton
    <3>5. NextLock(t) \notin x.locks
      BY <3>1
    <3>6. Cardinality(x.locks \cup {NextLock(t)}) = Cardinality(x.locks) + 1
      BY <3>4, <3>5, FS_AddElement
    <3>2. Cardinality(ls) = 2
      BY <1>4, <2>2, <3>6
    <3>3. QED
      BY <2>2, <3>2, <1>1 DEF TxOK, Stands
  <2>3. QED
    BY <2>1, <2>2
<1>6. \/ to = "lock" /\ ls = {<<"pass", PassIn(x)>>} /\ x.call.verb \notin {"issue", "revoke"}
      \/ to = "mint" /\ x.call.verb = "issue"
      \/ to = "judge" /\ x.call.verb # "issue"
  BY <1>4, <1>5
<1>7. <<"pass", PassIn(x)>> \in ls
  BY <1>4
<1>8. /\ y \in Tx /\ y.pc = to /\ y.call = x.call /\ y.mine = NoWrites /\ y.seen = x.seen
      /\ y.locks = ls /\ y.saves = x.saves /\ y.out = "none" /\ y.todo = x.todo
  BY <1>1, <1>2, <1>4, <1>6 DEF Tx
<1> HIDE DEF y, to, ls
<1>9. PassIn(y) = PassIn(x)
  BY <1>8 DEF PassIn
<1>10. Stands(y)
  BY <1>2, <1>6, <1>7, <1>8, <1>9 DEF Stands, HasPass
<1>11. CanGoBack(y)
  BY <1>1, <1>6, <1>8 DEF CanGoBack, TxOK, Base
<1>12. OnItsCode(y, codes)
  BY <1>1, <1>8, <1>9 DEF OnItsCode, TxOK
<1>13. OnOnePass(y, passState, codes)
  BY <1>8, NoWritesAreWrites DEF OnOnePass
<1>14. MidWay(y, passState, codes)
  BY <1>2, <1>6, <1>8, NoWritesAreWrites, CallsAssumption DEF MidWay
<1>15. Settled(y, passState, codes, held)
       /\ TellsTheTruth(y, passState, codes, held) /\ KeepsItsAnswers(y, codes)
  BY <1>6, <1>8 DEF Settled, TellsTheTruth, KeepsItsAnswers
<1>16. TxOK(y, passState, codes, held)
  BY <1>10, <1>11, <1>12, <1>13, <1>14, <1>15 DEF TxOK
<1>17. \A u \in Txs \ {t} : y.locks \cap tx[u].locks = {}
  BY <1>3, <1>8 DEF ls, Free, IInv, LocksApart
<1>18. QED
  BY <1>3, <1>8, <1>16, <1>17, NoWritesAreWrites, AStatementIsItsOwn DEF IInv, TypeOK

-----------------------------------------------------------------------------
(* What a transaction reads under the lock of its pass *)

LEMMA ItsQR ==
    ASSUME IInv, NEW t \in Txs, tx[t].call.verb \notin {"issue", "revoke"}, tx[t].locks # {}
    PROVE  LET x == tx[t]
               q == codes[x.call.code] IN
           /\ x.call \in Call /\ x.call \in Calls /\ q # NoCode /\ q \in Code /\ BoundIfUsed(q)
           /\ q.pass = PassIn(x) /\ PassIn(x) \in Passes /\ x.call.garage \in GaragesOf[PassIn(x)]
<1> DEFINE x == tx[t]
<1>1. x \in Tx /\ TxOK(x, passState, codes, held)
  BY DEF IInv, TypeOK
<1>2. x.pc # "idle"
  BY <1>1 DEF TxOK, Stands, Idle
<1>3. x.call \in Call /\ x.call \in Calls
  BY <1>1, <1>2, CallsAssumption DEF TxOK, Stands
<1>4. x.call.code \in Codes
  BY <1>3 DEF Call
<1>5. /\ codes[x.call.code] # NoCode /\ codes[x.call.code].pass = PassIn(x)
      /\ x.call.garage \in GaragesOf[PassIn(x)]
  BY <1>1, <1>3 DEF TxOK, OnItsCode
<1>6. codes[x.call.code] \in Code /\ BoundIfUsed(codes[x.call.code])
  BY <1>4, <1>5 DEF IInv, TypeOK
<1>7. QED
  BY <1>3, <1>5, <1>6 DEF Code

LEMMA ItsPass ==
    ASSUME IInv, NEW t \in Txs, tx[t].locks # {}
    PROVE  PassIn(tx[t]) \in Passes /\ <<"pass", PassIn(tx[t])>> \in tx[t].locks
<1>1. tx[t] \in Tx /\ TxOK(tx[t], passState, codes, held)
  BY DEF IInv, TypeOK
<1>2. <<"pass", PassIn(tx[t])>> \in tx[t].locks
  BY <1>1 DEF TxOK, Stands, HasPass
<1>3. <<"pass", PassIn(tx[t])>> \in Rows
  BY <1>1, <1>2 DEF Tx
<1>4. QED
  BY <1>2, <1>3 DEF Rows

(* Two transactions never hold the lock of one pass.                       *)
LEMMA OnePassEach ==
    ASSUME IInv, NEW t \in Txs, NEW u \in Txs, t # u, tx[t].locks # {}, tx[u].locks # {}
    PROVE  PassIn(tx[t]) # PassIn(tx[u])
<1>1. <<"pass", PassIn(tx[t])>> \in tx[t].locks /\ <<"pass", PassIn(tx[u])>> \in tx[u].locks
  BY ItsPass
<1>2. tx[t].locks \cap tx[u].locks = {}
  BY DEF IInv, LocksApart
<1>3. QED
  BY <1>1, <1>2

(* Nobody else has written a QR of the pass it locks.                      *)
LEMMA ItsCodesAreItsOwn ==
    ASSUME IInv, NEW t \in Txs, tx[t].locks # {}, NEW r \in Codes, codes[r] # NoCode,
           codes[r].pass = PassIn(tx[t])
    PROVE  \A u \in Txs \ {t} : tx[u].mine.code[r] = NoCode
<1> SUFFICES ASSUME NEW u \in Txs \ {t}, tx[u].mine.code[r] # NoCode PROVE FALSE
  OBVIOUS
<1>1. TxOK(tx[u], passState, codes, held)
  BY DEF IInv
<1>2. tx[u].locks # {}
  BY <1>1, NoWritesAreWrites DEF TxOK, Stands
<1>3. tx[u].mine.code[r].pass = PassIn(tx[u]) /\ tx[u].mine.code[r].pass = codes[r].pass
  BY <1>1 DEF TxOK, OnOnePass, Advances
<1>4. QED
  BY <1>2, <1>3, OnePassEach

(* Before its first write it reads what is committed.                      *)
LEMMA ReadsTheCommitted ==
    ASSUME IInv, NEW t \in Txs, tx[t].mine = NoWrites
    PROVE  /\ \A p \in Passes : PassSeen(t, p) = passState[p]
           /\ \A q \in Codes : CodeSeen(t, q) = codes[q]
           /\ HeldSeen(t) = held
  BY NoWritesAreWrites DEF PassSeen, CodeSeen, HeldSeen

LEMMA ActivatingAPass ==
    ASSUME IInv, NEW t \in Txs, tx[t].mine.pass = NoWrites.pass, NEW m \in Writes, NEW p \in Passes
    PROVE  LET n == Activating(t, m, p) IN
           /\ n \in Writes /\ n.code = m.code /\ n.put = m.put /\ n.gone = m.gone
           /\ \A r \in Passes : \/ n.pass[r] = m.pass[r]
                                \/ r = p /\ passState[p] # "revoked" /\ n.pass[r] = "active"
<1>1. PassSeen(t, p) = passState[p]
  BY NoWritesAreWrites DEF PassSeen
<1>2. "active" \in PassStates
  BY DEF PassStates
<1>3. CASE PassSeen(t, p) = "draft"
  BY <1>1, <1>2, <1>3, WritingAPass DEF Activating
<1>4. CASE PassSeen(t, p) # "draft"
  BY <1>4 DEF Activating
<1>5. QED
  BY <1>3, <1>4

LEMMA ReleasingTheOnly ==
    ASSUME NEW x \in Tx, x.saves = <<Base(x)>>
    PROVE  Released(x) = [x EXCEPT !.saves = << >>] /\ << >> \in Seq(Save)
<1>1. SubSeq(x.saves, 1, Len(x.saves) - 1) = << >>
  BY DEF Tx
<1>2. << >> \in Seq(Save)
  OBVIOUS
<1>3. QED
  BY <1>1, <1>2 DEF Released

-----------------------------------------------------------------------------
(* What a write does to the rows of its pass *)

(* Rows that keep their pass and their car hold what they held.            *)
LEMMA TheSameCars ==
    ASSUME NEW ps, NEW ps2, NEW cs, NEW cs2, NEW hs, NEW p,
           HoldsAs(cs, hs, p), NothingLeftOn(ps, cs, hs, p),
           ps2[p] = "revoked" => ps[p] = "revoked",
           \A q \in Codes : \/ cs2[q] = cs[q]
                            \/ /\ cs[q] # NoCode /\ cs2[q] # NoCode /\ cs2[q].pass = cs[q].pass
                               /\ Bound(cs2[q]) = Bound(cs[q])
                               /\ cs[q].state = "cancelled" => cs2[q].state = "cancelled"
    PROVE  HoldsAs(cs2, hs, p) /\ NothingLeftOn(ps2, cs2, hs, p)
<1>1. HoldsAs(cs2, hs, p)
  BY DEF HoldsAs
<1>2. NothingLeftOn(ps2, cs2, hs, p)
  BY DEF NothingLeftOn
<1>3. QED
  BY <1>1, <1>2

(* A call that changes no registration, and no car of a QR, is settled.    *)
LEMMA SettledInPlace ==
    ASSUME IInv, NEW y \in Tx, PassIn(y) \in Passes, y.mine.put = {}, y.mine.gone = {},
           \A p \in Passes : \/ y.mine.pass[p] = "unwritten"
                             \/ y.mine.pass[p] = "active" /\ passState[p] # "revoked",
           \A q \in Codes : \/ y.mine.code[q] = NoCode
                            \/ /\ codes[q] # NoCode /\ y.mine.code[q].pass = codes[q].pass
                               /\ Bound(y.mine.code[q]) = Bound(codes[q])
                               /\ codes[q].state = "cancelled" => y.mine.code[q].state = "cancelled"
    PROVE  Settled(y, passState, codes, held)
<1>1. RegSeen(y, held) = held
  BY DEF RegSeen
<1>2. HoldsAs(codes, held, PassIn(y)) /\ NothingLeftOn(passState, codes, held, PassIn(y))
  BY DEF IInv, HeldByItsCode, RevokedLeavesNothingLive
<1>3. StatesSeen(y, passState)[PassIn(y)] = "revoked" => passState[PassIn(y)] = "revoked"
  BY DEF StatesSeen
<1>4. \A q \in Codes :
        \/ RowsSeen(y, codes)[q] = codes[q]
        \/ /\ codes[q] # NoCode /\ RowsSeen(y, codes)[q] # NoCode
           /\ RowsSeen(y, codes)[q].pass = codes[q].pass
           /\ Bound(RowsSeen(y, codes)[q]) = Bound(codes[q])
           /\ codes[q].state = "cancelled" => RowsSeen(y, codes)[q].state = "cancelled"
  BY DEF RowsSeen
<1>5. QED
  BY <1>1, <1>2, <1>3, <1>4, TheSameCars DEF Settled

-----------------------------------------------------------------------------
(* The statements that judge a QR *)

(* Where a judgement begins.                                               *)
LEMMA AtTheJudgement ==
    ASSUME IInv, NEW t \in Txs, tx[t].pc = "judge"
    PROVE  LET x == tx[t] IN
           /\ x \in Tx /\ x.call \in Calls /\ x.locks # {} /\ HasPass(x) /\ x.mine = NoWrites
           /\ x.out = "none" /\ x.call.verb # "issue"
           /\ x.call.verb # "revoke" => x.saves = <<Base(x)>>
  BY DEF IInv, TypeOK, TxOK, Stands, CanGoBack

(* An answer that writes nothing but the activation of the pass.           *)
LEMMA AnsweringABoundQR ==
    ASSUME IInv, NEW t \in Txs, tx[t].pc = "judge", tx[t].call.verb = "redeem",
           NEW n \in Writes, NEW to \in {"done", "keep"}, NEW out \in {"match_required", "recognised"},
           LET q == codes[tx[t].call.code]
               c == tx[t].call IN
           /\ Bound(q) # NoCar /\ Verdict(q, held, c) = out
           /\ out = "match_required" => n = NoWrites /\ to = "done"
           /\ out = "recognised" => n = Activating(t, NoWrites, q.pass)
           /\ out = "recognised" => (to = "done" <=> PassedBy(q, c.read) = "same"),
           Sets(t, [tx[t] EXCEPT !.saves = << >>, !.out = out, !.mine = n, !.pc = to])
    PROVE  IInv'
<1> DEFINE x == tx[t]
           c == x.call
           q == codes[c.code]
           y == [x EXCEPT !.saves = << >>, !.out = out, !.mine = n, !.pc = to]
<1>1. /\ x \in Tx /\ x.call \in Calls /\ x.locks # {} /\ HasPass(x) /\ x.mine = NoWrites
  BY AtTheJudgement
<1>2. /\ c \in Call /\ q # NoCode /\ q \in Code /\ BoundIfUsed(q)
      /\ q.pass = PassIn(x) /\ PassIn(x) \in Passes
  BY <1>1, ItsQR
<1>3. /\ n.code = NoWrites.code /\ n.put = {} /\ n.gone = {}
      /\ \A r \in Passes : \/ n.pass[r] = "unwritten"
                           \/ r = q.pass /\ passState[r] # "revoked" /\ n.pass[r] = "active"
      /\ out = "match_required" => n = NoWrites
  BY <1>1, <1>2, ActivatingAPass, NoWritesAreWrites
<1>4. << >> \in Seq(Save)
  OBVIOUS
<1>5. /\ y \in Tx /\ y.pc = to /\ y.call = c /\ y.mine = n /\ y.seen = x.seen
      /\ y.locks = x.locks /\ y.saves = << >> /\ y.out = out
  BY <1>1, <1>4 DEF Tx
<1>6. tx' = [tx EXCEPT ![t] = y] /\ UNCHANGED <<data, begun>>
  BY DEF Sets
<1> HIDE DEF y
<1>7. PassIn(y) = PassIn(x)
  BY <1>5 DEF PassIn
<1>8. \A r \in Codes : y.mine.code[r] = NoCode
  BY <1>3, <1>5, NoWritesAreWrites
<1>a. to = "keep" => out = "recognised"
  OBVIOUS
<1>9. Stands(y)
  BY <1>1, <1>5, <1>7, <1>a DEF Stands, HasPass
<1>10. CanGoBack(y)
  BY <1>5 DEF CanGoBack
<1>11. OnItsCode(y, codes)
  BY <1>1, <1>5, <1>7 DEF OnItsCode, IInv, TxOK
<1>12. OnOnePass(y, passState, codes)
  BY <1>2, <1>3, <1>5, <1>7, <1>8 DEF OnOnePass
<1>13. MidWay(y, passState, codes)
  BY <1>5 DEF MidWay
<1>14. Settled(y, passState, codes, held)
  BY <1>2, <1>3, <1>5, <1>7, <1>8, SettledInPlace
<1>15. TellsTheTruth(y, passState, codes, held)
  <2>1. RegSeen(y, held) = held /\ RowsSeen(y, codes)[c.code] = q
    BY <1>2, <1>3, <1>5, <1>8 DEF RegSeen, RowsSeen, Call
  <2>2. Verdict(q, held, c) = "recognised" => q.state # "cancelled" /\ (c.dir = "entry" => ~q.exitOnly)
    BY DEF Verdict, Usable
  <2>3. q.state # "cancelled" => passState[PassIn(x)] # "revoked"
    BY <1>2 DEF IInv, RevokedLeavesNothingLive, NothingLeftOn, Call
  <2>4. QED
    BY <1>1, <1>5, <1>7, <2>1, <2>2, <2>3 DEF TellsTheTruth
<1>16. KeepsItsAnswers(y, codes)
  <2>1. out = "recognised" => PassedBy(q, c.read) \in {"same", "near", "nothing"}
    <3>1. PassedBy(q, c.read) \in {"no", "wrong car", "same", "nothing", "near"}
      BY DEF PassedBy
    <3>2. Verdict(q, held, c) = "recognised"
            => PassedBy(q, c.read) # "no" /\ PassedBy(q, c.read) # "wrong car"
      BY DEF Verdict
    <3>3. QED
      BY <3>1, <3>2
  <2>2. y.pc = "done" => ~Answers(y, q)
    BY <1>5, <2>1 DEF Answers
  <2>3. y.pc = "done" => y.call.code \in Codes /\ y.mine.code[y.call.code] = NoCode
    BY <1>2, <1>5, <1>8 DEF Call
  <2>4. QED
    BY <1>3, <1>5, <1>8, <2>1, <2>2 DEF KeepsItsAnswers
<1>17. TxOK(y, passState, codes, held)
  BY <1>9, <1>10, <1>11, <1>12, <1>13, <1>14, <1>15, <1>16 DEF TxOK
<1>18. /\ \A u \in Txs \ {t} : y.locks \cap tx[u].locks = {}
       /\ UNCHANGED data /\ begun' \in 0..MaxBegun
  BY <1>5, <1>6 DEF IInv, LocksApart, TypeOK
<1>19. QED
  BY <1>5, <1>6, <1>8, <1>17, <1>18, AStatementIsItsOwn

LEMMA JudgeRedeemKeepsIInv == ASSUME IInv, NEW t \in Txs, JudgeRedeem(t) PROVE IInv'
<1> DEFINE x == tx[t]
           c == x.call
           q == codes[c.code]
           verdict == Verdict(q, held, c)
<1>1. /\ x \in Tx /\ c \in Calls /\ x.locks # {} /\ HasPass(x) /\ x.mine = NoWrites
      /\ x.out = "none" /\ x.saves = <<Base(x)>> /\ x.pc = "judge" /\ c.verb = "redeem"
  BY AtTheJudgement DEF JudgeRedeem, At
<1>2. /\ c \in Call /\ q # NoCode /\ q \in Code /\ BoundIfUsed(q)
      /\ q.pass = PassIn(x) /\ PassIn(x) \in Passes /\ c.garage \in GaragesOf[PassIn(x)]
  BY <1>1, ItsQR
<1>3. /\ Judged(t) = q /\ HeldSeen(t) = held /\ PassSeen(t, q.pass) = passState[q.pass]
  BY <1>1, <1>2, ReadsTheCommitted DEF Judged, Call
<1>4. CASE Refuse(t)
  BY <1>1, <1>4, RefuseKeepsIInv
<1>5. CASE Bound(q) # NoCar /\ ~Refuse(t)
  <2>1. Released(x) = [x EXCEPT !.saves = << >>] /\ << >> \in Seq(Save)
    BY <1>1, ReleasingTheOnly
  <2> DEFINE r == [Released(x) EXCEPT !.out = verdict]
             z == [r EXCEPT !.mine = Activating(t, @, q.pass),
                            !.pc = IF PassedBy(q, c.read) = "same" THEN "done" ELSE "keep"]
  <2>2. CASE verdict = "match_required"
    <3>1. Sets(t, [r EXCEPT !.pc = "done"])
      BY <1>3, <1>5, <2>2 DEF JudgeRedeem
    <3>2. [r EXCEPT !.pc = "done"] =
            [x EXCEPT !.saves = << >>, !.out = "match_required", !.mine = NoWrites, !.pc = "done"]
      BY <1>1, <2>1, <2>2 DEF Tx
    <3>3. Sets(t, [x EXCEPT !.saves = << >>, !.out = "match_required", !.mine = NoWrites, !.pc = "done"])
      BY <3>1, <3>2
    <3>4. QED
      BY <1>1, <1>5, <2>2, <3>3, NoWritesAreWrites, AnsweringABoundQR
  <2>3. CASE verdict = "recognised"
    <3> DEFINE n == Activating(t, NoWrites, q.pass)
               to == IF PassedBy(q, c.read) = "same" THEN "done" ELSE "keep"
    <3>1. Sets(t, z)
      BY <1>3, <1>5, <2>3 DEF JudgeRedeem
    <3>2. z = [x EXCEPT !.saves = << >>, !.out = "recognised", !.mine = n, !.pc = to]
      BY <1>1, <2>1, <2>3 DEF Tx
    <3>3. Sets(t, [x EXCEPT !.saves = << >>, !.out = "recognised", !.mine = n, !.pc = to])
      BY <3>1, <3>2
    <3>4. n \in Writes
      BY <1>1, <1>2, NoWritesAreWrites, ActivatingAPass
    <3>5. to \in {"done", "keep"} /\ (to = "done" <=> PassedBy(q, c.read) = "same")
      OBVIOUS
    <3>6. n = Activating(t, NoWrites, q.pass)
      OBVIOUS
    <3> HIDE DEF n, to
    <3>7. QED
      BY <1>1, <1>5, <2>3, <3>3, <3>4, <3>5, <3>6, AnsweringABoundQR
  <2>4. verdict \in {"refused", "match_required", "recognised"}
    BY DEF Verdict
  <2>5. verdict # "refused"
    BY <1>3, <1>5 DEF JudgeRedeem
  <2>6. QED
    BY <2>2, <2>3, <2>4, <2>5
<1>6. CASE Bound(q) = NoCar /\ ~Refuse(t)
  <2> DEFINE y == [x EXCEPT !.pc = "insert", !.todo = GaragesOf[q.pass]]
  <2>1. /\ tx' = [tx EXCEPT ![t] = y] /\ UNCHANGED <<data, begun>>
        /\ q.state = "issued" /\ passState[q.pass] # "revoked" /\ c.read # NoCar
    BY <1>3, <1>6 DEF JudgeRedeem, Sets
  <2>2. GaragesOf[q.pass] \subseteq Garages
    BY <1>2, GaragesAssumption
  <2>3. /\ y \in Tx /\ y.pc = "insert" /\ y.call = c /\ y.mine = NoWrites /\ y.seen = x.seen
        /\ y.locks = x.locks /\ y.saves = x.saves /\ y.out = "none" /\ y.todo = GaragesOf[q.pass]
    BY <1>1, <2>2 DEF Tx
  <2> HIDE DEF y
  <2>4. PassIn(y) = PassIn(x) /\ Base(y) = Base(x)
    BY <2>3 DEF PassIn, Base
  <2>5. Stands(y)
    BY <1>1, <2>3, <2>4 DEF Stands, HasPass
  <2>6. CanGoBack(y)
    BY <1>1, <2>3, <2>4 DEF CanGoBack
  <2>7. OnItsCode(y, codes)
    BY <1>2, <2>3, <2>4 DEF OnItsCode
  <2>8. OnOnePass(y, passState, codes)
    BY <2>3, NoWritesAreWrites DEF OnOnePass
  <2>9. MidWay(y, passState, codes)
    BY <1>1, <1>2, <1>6, <2>1, <2>3, <2>4, NoWritesAreWrites DEF MidWay
  <2>10. Settled(y, passState, codes, held) /\ TellsTheTruth(y, passState, codes, held)
         /\ KeepsItsAnswers(y, codes)
    BY <2>3 DEF Settled, TellsTheTruth, KeepsItsAnswers
  <2>11. TxOK(y, passState, codes, held)
    BY <2>5, <2>6, <2>7, <2>8, <2>9, <2>10 DEF TxOK
  <2>12. /\ \A u \in Txs \ {t} : y.locks \cap tx[u].locks = {}
         /\ UNCHANGED data /\ begun' \in 0..MaxBegun
    BY <2>1, <2>3 DEF IInv, LocksApart, TypeOK
  <2>13. \A r \in Codes : y.mine.code[r] = NoCode
    BY <2>3, NoWritesAreWrites
  <2>14. QED
    BY <2>1, <2>3, <2>11, <2>12, <2>13, AStatementIsItsOwn
<1>7. QED
  BY <1>4, <1>5, <1>6

(* x writes row over the QR q it is about, and answers as y: the car stays, *)
(* and the answer is counted once.                                         *)
WritesItsQR(x, y, row, q, ps, hs) ==
    LET c == x.call IN
    /\ c.verb \in {"redeem", "confirm", "cancel"} /\ x.pc \in {"judge", "keep"}
    /\ x.mine.code = NoWrites.code /\ x.mine.put = {} /\ x.mine.gone = {}
    /\ y.pc = "done" /\ y.call = c /\ y.seen = x.seen /\ y.locks = x.locks
    /\ y.mine.code = [NoWrites.code EXCEPT ![c.code] = row] /\ y.mine.put = {} /\ y.mine.gone = {}
    /\ \A p \in Passes : \/ y.mine.pass[p] = "unwritten"
                         \/ p = q.pass /\ y.mine.pass[p] = "active" /\ ps[p] # "revoked"
    /\ Advances(q, row) /\ BoundIfUsed(row) /\ Bound(row) = Bound(q)
    /\ row.kept = q.kept + (IF Answers(y, q) THEN 1 ELSE 0)
    /\ y.out = "refused" => c.verb = "confirm"
    /\ y.out \in {"recognised", "redeemed"} =>
         /\ c.verb # "cancel" /\ q.state # "cancelled"
         /\ c.dir = "entry" => ~q.exitOnly
         /\ c.verb = "redeem" => Bound(row) # NoCar /\ Verdict(row, hs, c) = "recognised"

LEMMA WritingItsQR ==
    ASSUME IInv, NEW t \in Txs, NEW row \in Code, NEW y \in Tx, Sets(t, y),
           WritesItsQR(tx[t], y, row, codes[tx[t].call.code], passState, held)
    PROVE  IInv'
<1> DEFINE x == tx[t]
           c == x.call
           q == codes[c.code]
<1>b. WritesItsQR(x, y, row, q, passState, held)
  OBVIOUS
<1> USE <1>b DEF WritesItsQR
<1>1. /\ x \in Tx /\ TxOK(x, passState, codes, held) /\ x.locks # {}
  BY DEF IInv, TypeOK, TxOK, Stands
<1>2. /\ c \in Call /\ c \in Calls /\ q # NoCode /\ q \in Code /\ q.pass = PassIn(x)
      /\ PassIn(x) \in Passes /\ c.code \in Codes
  BY <1>1, ItsQR DEF Call
<1>3. /\ y \in Tx /\ y.pc = "done" /\ y.call = c /\ y.seen = x.seen /\ y.locks = x.locks
  OBVIOUS
<1>4. tx' = [tx EXCEPT ![t] = y] /\ UNCHANGED <<data, begun>>
  BY DEF Sets
<1>a. row.kept = q.kept + (IF Answers(y, q) THEN 1 ELSE 0)
  OBVIOUS
<1>5. PassIn(y) = PassIn(x)
  BY <1>3 DEF PassIn
<1>6. \A r \in Codes : y.mine.code[r] = IF r = c.code THEN row ELSE NoCode
  BY <1>3, NoWritesAreWrites DEF NoWrites
<1>7. row # NoCode
  BY ARowIsThere
<1>8. \A p \in Passes : y.mine.pass[p] # "unwritten" => p = PassIn(x)
  BY <1>2
<1>9. Stands(y)
  <2>1. x.locks # {} => HasPass(x)
    BY <1>1 DEF TxOK, Stands
  <2>2. QED
    BY <1>1, <1>2, <1>3, <1>5, <2>1 DEF Stands, HasPass
<1>10. CanGoBack(y)
  BY <1>3 DEF CanGoBack
<1>11. OnItsCode(y, codes)
  BY <1>1, <1>3, <1>5 DEF OnItsCode, TxOK
<1>12. OnOnePass(y, passState, codes)
  <2>1. row.pass = PassIn(x) /\ Advances(q, row) /\ BoundIfUsed(row)
    BY <1>2 DEF Advances
  <2>2. y.mine.put = {} /\ y.mine.gone = {}
    OBVIOUS
  <2>3. QED
    BY <1>5, <1>6, <1>8, <2>1, <2>2 DEF OnOnePass
<1>13. MidWay(y, passState, codes)
  BY <1>3 DEF MidWay
<1>14. Settled(y, passState, codes, held)
  <2>1. \A p \in Passes : \/ y.mine.pass[p] = "unwritten"
                          \/ y.mine.pass[p] = "active" /\ passState[p] # "revoked"
    BY <1>3
  <2>2. \A r \in Codes :
           \/ y.mine.code[r] = NoCode
           \/ /\ codes[r] # NoCode /\ y.mine.code[r].pass = codes[r].pass
              /\ Bound(y.mine.code[r]) = Bound(codes[r])
              /\ codes[r].state = "cancelled" => y.mine.code[r].state = "cancelled"
    BY <1>2, <1>6 DEF Advances
  <2>3. y.mine.put = {} /\ y.mine.gone = {} /\ PassIn(y) \in Passes
    BY <1>2, <1>3, <1>5
  <2>4. QED
    BY <2>1, <2>2, <2>3, SettledInPlace
<1>15. TellsTheTruth(y, passState, codes, held)
  <2>1. RegSeen(y, held) = held /\ RowsSeen(y, codes)[c.code] = row
    BY <1>2, <1>3, <1>6, <1>7 DEF RegSeen, RowsSeen
  <2>2. q.state # "cancelled" => passState[PassIn(x)] # "revoked"
    BY <1>2 DEF IInv, RevokedLeavesNothingLive, NothingLeftOn
  <2>3. QED
    BY <1>1, <1>3, <1>5, <2>1, <2>2 DEF TellsTheTruth
<1>16. KeepsItsAnswers(y, codes)
  BY <1>a, <1>2, <1>3, <1>6, <1>7 DEF KeepsItsAnswers
<1>17. TxOK(y, passState, codes, held)
  BY <1>9, <1>10, <1>11, <1>12, <1>13, <1>14, <1>15, <1>16 DEF TxOK
<1>18. /\ \A u \in Txs \ {t} : y.locks \cap tx[u].locks = {}
       /\ UNCHANGED data /\ begun' \in 0..MaxBegun
  BY <1>3, <1>4 DEF IInv, LocksApart, TypeOK
<1>19. \A u \in Txs \ {t}, r \in Codes : y.mine.code[r] = NoCode \/ tx[u].mine.code[r] = NoCode
  BY <1>1, <1>2, <1>6, ItsCodesAreItsOwn
<1>20. QED
  BY <1>3, <1>4, <1>17, <1>18, <1>19, AStatementIsItsOwn

LEMMA JudgeConfirmKeepsIInv == ASSUME IInv, NEW t \in Txs, JudgeConfirm(t) PROVE IInv'
<1> DEFINE x == tx[t]
           c == x.call
           q == codes[c.code]
<1>1. /\ x \in Tx /\ c \in Calls /\ x.locks # {} /\ x.mine = NoWrites /\ x.pc = "judge"
      /\ x.saves = <<Base(x)>> /\ c.verb = "confirm"
  BY AtTheJudgement DEF JudgeConfirm, At
<1>2. /\ c \in Call /\ q # NoCode /\ q \in Code /\ BoundIfUsed(q)
      /\ q.pass = PassIn(x) /\ PassIn(x) \in Passes /\ c.code \in Codes
  BY <1>1, ItsQR DEF Call
<1>3. Judged(t) = q /\ HeldSeen(t) = held
  BY <1>1, <1>2, ReadsTheCommitted DEF Judged
<1>4. CASE Refuse(t)
  BY <1>1, <1>4, RefuseKeepsIInv
<1>5. CASE ~Refuse(t)
  <2> DEFINE row == Kept(t, q)
             kept == WritesCode(x.mine, c.code, row)
             yes == /\ c.matched
                    /\ c.read # NoCar /\ q.plate = NoCar => c.read = q.car
                    /\ Usable(q, held, c)
             m == IF yes THEN Activating(t, kept, q.pass) ELSE kept
             out == IF yes THEN "recognised" ELSE "refused"
             y == [x EXCEPT !.saves = << >>, !.out = out, !.mine = m, !.pc = "done"]
  <2>1. Released(x) = [x EXCEPT !.saves = << >>] /\ << >> \in Seq(Save)
    BY <1>1, ReleasingTheOnly
  <2>2. Sets(t, [Released(x) EXCEPT !.pc = "done", !.out = out, !.mine = m]) /\ q.state # "cancelled"
    BY <1>1, <1>3, <1>5 DEF JudgeConfirm
  <2>3. row \in Code /\ row = [q EXCEPT !.kept = q.kept + 1]
    BY <1>2 DEF Kept, Code
  <2>4. /\ kept \in Writes /\ kept.pass = NoWrites.pass /\ kept.put = {} /\ kept.gone = {}
        /\ kept.code = [NoWrites.code EXCEPT ![c.code] = row]
    BY <1>1, <1>2, <2>3, NoWritesAreWrites, WritingACode DEF WritesCode, NoWrites
  <2> HIDE DEF kept, row
  <2>5. /\ m \in Writes /\ m.code = [NoWrites.code EXCEPT ![c.code] = row]
        /\ m.put = {} /\ m.gone = {}
        /\ \A p \in Passes : \/ m.pass[p] = x.mine.pass[p]
                             \/ p = q.pass /\ m.pass[p] = "active" /\ passState[p] # "revoked"
    BY <1>1, <1>2, <2>4, ActivatingAPass
  <2> HIDE DEF m
  <2>6. out \in {"recognised", "refused"} /\ (out = "recognised" => Usable(q, held, c))
    OBVIOUS
  <2> HIDE DEF out, yes
  <2>7. /\ y \in Tx /\ y.call = c /\ y.pc = "done" /\ y.seen = x.seen /\ y.locks = x.locks
        /\ y.mine = m /\ y.out = out
    BY <1>1, <2>1, <2>5, <2>6 DEF Tx
  <2>8. [Released(x) EXCEPT !.pc = "done", !.out = out, !.mine = m] = y
    BY <1>1, <2>1 DEF Tx
  <2>9. Advances(q, row) /\ BoundIfUsed(row) /\ Bound(row) = Bound(q) /\ row.kept = q.kept + 1
    BY <1>2, <2>3 DEF Advances, BoundIfUsed, Bound, Code
  <2>10. Answers(y, q)
    BY <1>1, <2>7 DEF Answers
  <2>11. Usable(q, held, c) => (c.dir = "entry" => ~q.exitOnly)
    BY DEF Usable
  <2>12. Sets(t, y)
    BY <2>2, <2>8
  <2> HIDE DEF y
  <2>14. /\ x.mine.code = NoWrites.code /\ x.mine.put = {} /\ x.mine.gone = {}
         /\ \A p \in Passes : x.mine.pass[p] = "unwritten"
    BY <1>1, NoWritesAreWrites
  <2>15. WritesItsQR(x, y, row, q, passState, held)
    BY <1>1, <2>2, <2>5, <2>6, <2>7, <2>9, <2>10, <2>11, <2>14 DEF WritesItsQR
  <2>16. QED
    BY <2>3, <2>7, <2>12, <2>15, WritingItsQR
<1>6. QED
  BY <1>4, <1>5

LEMMA JudgeCancelKeepsIInv == ASSUME IInv, NEW t \in Txs, JudgeCancel(t) PROVE IInv'
<1> DEFINE x == tx[t]
           c == x.call
           q == codes[c.code]
<1>1. /\ x \in Tx /\ c \in Calls /\ x.locks # {} /\ x.mine = NoWrites /\ x.pc = "judge"
      /\ x.saves = <<Base(x)>> /\ c.verb = "cancel"
  BY AtTheJudgement DEF JudgeCancel, At
<1>2. /\ c \in Call /\ q # NoCode /\ q \in Code /\ BoundIfUsed(q) /\ c.code \in Codes
  BY <1>1, ItsQR DEF Call
<1>3. Judged(t) = q
  BY <1>1, <1>2, ReadsTheCommitted DEF Judged
<1>4. CASE Refuse(t)
  BY <1>1, <1>4, RefuseKeepsIInv
<1>5. CASE ~Refuse(t)
  <2> DEFINE row == Cancelled(t, q)
             m == WritesCode(x.mine, c.code, row)
             y == [Released(x) EXCEPT !.pc = "done", !.out = "done", !.mine = m]
  <2>1. Released(x) = [x EXCEPT !.saves = << >>] /\ << >> \in Seq(Save)
    BY <1>1, ReleasingTheOnly
  <2>2. Sets(t, y)
    BY <1>1, <1>3, <1>5, <2>1 DEF JudgeCancel, Tx
  <2>3. row \in Code /\ row = [q EXCEPT !.state = "cancelled"]
    BY <1>2 DEF Cancelled, Code
  <2>4. /\ m \in Writes /\ m.pass = NoWrites.pass /\ m.put = {} /\ m.gone = {}
        /\ m.code = [NoWrites.code EXCEPT ![c.code] = row]
    BY <1>1, <1>2, <2>3, NoWritesAreWrites, WritingACode DEF WritesCode, NoWrites
  <2> HIDE DEF row, m
  <2>5. /\ y \in Tx /\ y.call = c /\ y.pc = "done" /\ y.seen = x.seen /\ y.locks = x.locks
        /\ y.mine = m /\ y.out = "done"
    BY <1>1, <2>1, <2>4 DEF Tx
  <2>6. Advances(q, row) /\ BoundIfUsed(row) /\ Bound(row) = Bound(q) /\ row.kept = q.kept + 0
    BY <1>2, <2>3 DEF Advances, BoundIfUsed, Bound, Code
  <2>7. ~Answers(y, q)
    BY <1>1, <2>5 DEF Answers
  <2> HIDE DEF y
  <2>8. /\ x.mine.code = NoWrites.code /\ x.mine.put = {} /\ x.mine.gone = {}
        /\ \A p \in Passes : NoWrites.pass[p] = "unwritten"
    BY <1>1, NoWritesAreWrites
  <2>9. WritesItsQR(x, y, row, q, passState, held)
    BY <1>1, <2>4, <2>5, <2>6, <2>7, <2>8 DEF WritesItsQR
  <2>10. QED
    BY <2>2, <2>3, <2>5, <2>9, WritingItsQR
<1>6. QED
  BY <1>4, <1>5

(* At "keep" the answer stands, and the QR's row is not written yet.       *)
LEMMA KeepThePassKeepsIInv == ASSUME IInv, NEW t \in Txs, KeepThePass(t) PROVE IInv'
<1> DEFINE x == tx[t]
           c == x.call
           q == codes[c.code]
<1>1. /\ x \in Tx /\ c \in Calls /\ x.locks # {} /\ x.pc = "keep" /\ c.verb = "redeem"
      /\ TxOK(x, passState, codes, held) /\ x.saves = << >> /\ x.out = "recognised"
      /\ x.mine.code = NoWrites.code /\ x.mine.put = {} /\ x.mine.gone = {}
  BY DEF KeepThePass, At, IInv, TypeOK, TxOK, Stands, CanGoBack, KeepsItsAnswers
<1>2. /\ c \in Call /\ q # NoCode /\ q \in Code /\ BoundIfUsed(q) /\ c.code \in Codes
      /\ q.pass = PassIn(x)
  BY <1>1, ItsQR DEF Call
<1>3. x.mine.code[c.code] = NoCode /\ CodeSeen(t, c.code) = q
  BY <1>1, <1>2, NoWritesAreWrites DEF CodeSeen
<1>4. /\ RowsSeen(x, codes)[c.code] = q /\ RegSeen(x, held) = held
  BY <1>1, <1>2, <1>3 DEF RowsSeen, RegSeen
<1>5. /\ Bound(q) # NoCar /\ Verdict(q, held, c) = "recognised"
      /\ passState[PassIn(x)] # "revoked" /\ q.state # "cancelled"
      /\ c.dir = "entry" => ~q.exitOnly
      /\ PassedBy(q, c.read) \in {"near", "nothing"}
  BY <1>1, <1>4 DEF TxOK, TellsTheTruth, KeepsItsAnswers
<1>6. CASE c.lane # ""
  <2> DEFINE row == Kept(t, q)
             m == WritesCode(x.mine, c.code, row)
             y == [x EXCEPT !.pc = "done", !.mine = m]
  <2>1. Sets(t, y)
    BY <1>1, <1>3, <1>6 DEF KeepThePass, Tx
  <2>2. row \in Code /\ row = [q EXCEPT !.kept = q.kept + 1]
    BY <1>2 DEF Kept, Code
  <2>3. /\ m \in Writes /\ m.pass = x.mine.pass /\ m.put = {} /\ m.gone = {}
        /\ m.code = [NoWrites.code EXCEPT ![c.code] = row]
    BY <1>1, <1>2, <2>2, WritingACode DEF WritesCode, Writes, Tx
  <2> HIDE DEF row, m
  <2>4. /\ y \in Tx /\ y.call = c /\ y.pc = "done" /\ y.seen = x.seen /\ y.locks = x.locks
        /\ y.mine = m /\ y.out = "recognised"
    BY <1>1, <2>3 DEF Tx
  <2>5. Advances(q, row) /\ BoundIfUsed(row) /\ Bound(row) = Bound(q) /\ row.kept = q.kept + 1
    BY <1>2, <2>2 DEF Advances, BoundIfUsed, Bound, Code
  <2>6. Verdict(row, held, c) = Verdict(q, held, c)
    BY <1>2, <2>2 DEF Verdict, PassedBy, Usable, Bound, Code
  <2>7. Answers(y, q)
    BY <1>1, <1>5, <2>4 DEF Answers
  <2> HIDE DEF y
  <2>8. \A p \in Passes : x.mine.pass[p] = "unwritten"
                            \/ (p = q.pass /\ x.mine.pass[p] = "active" /\ passState[p] # "revoked")
    <3> SUFFICES ASSUME NEW p \in Passes, x.mine.pass[p] # "unwritten"
                 PROVE  p = q.pass /\ x.mine.pass[p] = "active" /\ passState[p] # "revoked"
      OBVIOUS
    <3>1. p = PassIn(x)
      BY <1>1 DEF TxOK, OnOnePass
    <3>2. x.mine.pass[p] \in {"active", "draft", "revoked"}
      BY <1>1 DEF Tx, Writes, PassStates
    <3>3. QED
      BY <1>1, <1>2, <1>5, <3>1, <3>2 DEF TxOK, KeepsItsAnswers
  <2>9. WritesItsQR(x, y, row, q, passState, held)
    BY <1>1, <1>2, <1>5, <2>3, <2>4, <2>5, <2>6, <2>7, <2>8 DEF WritesItsQR
  <2>10. QED
    BY <2>1, <2>2, <2>4, <2>9, WritingItsQR
<1>7. CASE c.lane = ""
  <2> DEFINE s == [name |-> "passed", mine |-> x.mine, locks |-> x.locks]
             w == [x EXCEPT !.saves = <<s>>]
             z == [w EXCEPT !.pc = "broken"]
  <2>1. Saving(x, "passed") = w /\ <<s>> \in Seq(Save)
    <3>1. Append(<< >>, s) = <<s>> /\ s \in Save
      BY <1>1 DEF Save, Tx
    <3>2. Saving(x, "passed") = [x EXCEPT !.saves = Append(x.saves, s)]
      BY DEF Saving, NameOf, Tx
    <3>3. QED
      BY <1>1, <3>1, <3>2
  <2>2. /\ w \in Tx /\ w.saves = <<s>> /\ w.mine = x.mine /\ w.locks = x.locks /\ w.pc = "keep"
        /\ w.call = c /\ w.seen = x.seen /\ w.out = "recognised"
    BY <1>1, <2>1 DEF Tx
  <2>a. s.name = "passed" /\ s.mine = x.mine /\ s.locks = x.locks
    OBVIOUS
  <2> HIDE DEF w, s
  <2>3. RolledBackTo(w, "passed") = w
    <3>1. 1 \in DOMAIN w.saves /\ \A j \in DOMAIN w.saves : w.saves[j].name = "passed" <=> j = 1
      BY <2>2, <2>a
    <3>2. RolledBackTo(w, "passed") = [w EXCEPT !.mine = w.saves[1].mine, !.locks = w.saves[1].locks,
                                                !.saves = SubSeq(w.saves, 1, 1)]
      BY <2>2, <3>1, RollingBack
    <3>3. SubSeq(w.saves, 1, 1) = w.saves /\ w.saves[1] = s
      <4>1. w.saves \in Seq(Save) /\ Len(w.saves) = 1 /\ w.saves[1] = s
        BY <2>1, <2>2
      <4>2. QED
        BY <4>1, SubSeqFull
    <3>4. [w EXCEPT !.mine = w.mine, !.locks = w.locks, !.saves = w.saves] = w
      BY <2>2 DEF Tx
    <3>5. QED
      BY <2>2, <2>a, <3>2, <3>3, <3>4
  <2>4. RolledBackTo(w, "redeem") = z
    <3>1. { j \in DOMAIN w.saves : w.saves[j].name = NameOf("redeem") } = {}
      BY <2>2, <2>a DEF NameOf
    <3>2. QED
      BY <3>1 DEF RolledBackTo
  <2>5. /\ z \in Tx /\ z.mine = x.mine /\ z.locks = x.locks /\ z.pc = "broken"
        /\ z.call = c /\ z.seen = x.seen /\ z.out = "recognised"
    BY <2>2 DEF Tx
  <2> HIDE DEF z
  <2>6. Refusing(w) = z
    BY <1>1, <2>2, <2>3, <2>4, <2>5 DEF Refusing, Unwound
  <2>7. tx' = [tx EXCEPT ![t] = z] /\ UNCHANGED <<data, begun>>
    BY <1>7, <2>1, <2>6 DEF KeepThePass, Sets
  <2>8. PassIn(z) = PassIn(x)
    BY <2>5 DEF PassIn
  <2>9. Stands(z)
    BY <1>1, <2>5, <2>8 DEF TxOK, Stands, HasPass
  <2>10. OnItsCode(z, codes) /\ OnOnePass(z, passState, codes)
    BY <1>1, <2>5, <2>8 DEF TxOK, OnItsCode, OnOnePass
  <2>11. CanGoBack(z) /\ MidWay(z, passState, codes) /\ Settled(z, passState, codes, held)
         /\ TellsTheTruth(z, passState, codes, held) /\ KeepsItsAnswers(z, codes)
    BY <2>5 DEF CanGoBack, MidWay, Settled, TellsTheTruth, KeepsItsAnswers
  <2>12. TxOK(z, passState, codes, held)
    BY <2>9, <2>10, <2>11 DEF TxOK
  <2>13. /\ \A u \in Txs \ {t} : z.locks \cap tx[u].locks = {}
         /\ UNCHANGED data /\ begun' \in 0..MaxBegun
         /\ \A r \in Codes : z.mine.code[r] = NoCode
    BY <1>1, <2>5, <2>7, NoWritesAreWrites DEF IInv, LocksApart, TypeOK
  <2>14. QED
    BY <2>5, <2>7, <2>12, <2>13, AStatementIsItsOwn
<1>8. QED
  BY <1>6, <1>7

LEMMA TwoSaves ==
    ASSUME NEW a \in Save, NEW b \in Save
    PROVE  Append(<<a>>, b) = <<a, b>> /\ <<a, b>> \in Seq(Save)
<1>1. <<a>> \in Seq(Save) /\ <<a, b>> \in Seq(Save)
  OBVIOUS
<1>2. Len(<<a>>) = 1 /\ Len(<<a, b>>) = 2 /\ <<a>>[1] = a /\ <<a, b>>[1] = a /\ <<a, b>>[2] = b
  OBVIOUS
<1>3. /\ Append(<<a>>, b) \in Seq(Save) /\ Len(Append(<<a>>, b)) = 2
      /\ Append(<<a>>, b)[1] = a /\ Append(<<a>>, b)[2] = b
  BY <1>1, <1>2, AppendProperties
<1>4. \A i \in 1..2 : i = 1 \/ i = 2
  OBVIOUS
<1>5. QED
  BY <1>1, <1>2, <1>3, <1>4, SeqEqual

(* The old QR's row, the savepoint of the new one, and nothing held yet.   *)
LEMMA JudgeReplaceKeepsIInv == ASSUME IInv, NEW t \in Txs, JudgeReplace(t) PROVE IInv'
<1> DEFINE x == tx[t]
           c == x.call
           q == codes[c.code]
<1>1. /\ x \in Tx /\ c \in Calls /\ x.locks # {} /\ HasPass(x) /\ x.mine = NoWrites
      /\ x.pc = "judge" /\ x.saves = <<Base(x)>> /\ c.verb = "replace" /\ x.out = "none"
  BY AtTheJudgement DEF JudgeReplace, At
<1>2. /\ c \in Call /\ q # NoCode /\ q \in Code /\ BoundIfUsed(q) /\ c.code \in Codes
      /\ q.pass = PassIn(x) /\ PassIn(x) \in Passes /\ c.garage \in GaragesOf[PassIn(x)]
      /\ c.read # NoCar
  BY <1>1, ItsQR, CallsAssumption DEF Call
<1>3. Judged(t) = q
  BY <1>1, <1>2, ReadsTheCommitted DEF Judged
<1>4. CASE Refuse(t)
  BY <1>1, <1>4, RefuseKeepsIInv
<1>5. CASE ~Refuse(t)
  <2> DEFINE m == WritesCode(x.mine, c.code, Replaced(q))
             w == [x EXCEPT !.pc = "mint", !.mine = m]
             y == Saving(w, "issue")
  <2>1. Sets(t, y) /\ q.state # "cancelled"
    BY <1>1, <1>3, <1>5 DEF JudgeReplace, Replaced, Cancelled, Tx
  <2>2. /\ Replaced(q) \in Code /\ Advances(q, Replaced(q)) /\ BoundIfUsed(Replaced(q))
        /\ Replaced(q).pass = q.pass
    BY <1>2 DEF Replaced, Advances, BoundIfUsed, Bound, Code
  <2>3. /\ m \in Writes /\ m.pass = NoWrites.pass /\ m.put = {} /\ m.gone = {}
        /\ \A r \in Codes : m.code[r] = IF r = c.code THEN Replaced(q) ELSE NoCode
    <3>1. m = WritesCode(NoWrites, c.code, Replaced(q))
      BY <1>1
    <3> HIDE DEF m
    <3>2. /\ m \in Writes /\ m.pass = NoWrites.pass /\ m.put = {} /\ m.gone = {}
          /\ \A r \in Codes : m.code[r] = IF r = c.code THEN Replaced(q) ELSE NoWrites.code[r]
      BY <1>2, <2>2, <3>1, NoWritesAreWrites DEF WritesCode, NoWrites, Writes
    <3>3. QED
      BY <3>2, NoWritesAreWrites
  <2> HIDE DEF m
  <2>4. /\ w \in Tx /\ w.mine = m /\ w.locks = x.locks /\ w.saves = <<Base(x)>>
    BY <1>1, <2>3 DEF Tx
  <2> DEFINE s == [name |-> "issue", mine |-> m, locks |-> x.locks]
  <2>5. s \in Save /\ s.name = "issue"
    BY <1>1, <2>3 DEF Save, Tx, Verbs
  <2>6. y = [w EXCEPT !.saves = Append(<<Base(x)>>, s)]
    BY <2>4 DEF Saving, NameOf
  <2>7. Base(x) \in Save
    BY <1>1, <1>2, NoWritesAreWrites DEF Base, Save, Call
  <2> DEFINE ss == <<Base(x), s>>
  <2> HIDE DEF s
  <2>8. /\ Append(<<Base(x)>>, s) = <<Base(x), s>> /\ <<Base(x), s>> \in Seq(Save)
    BY <2>5, <2>7, TwoSaves
  <2>a. ss \in Seq(Save) /\ y = [w EXCEPT !.saves = ss]
    BY <2>6, <2>8
  <2>b. Len(ss) = 2 /\ ss[1] = Base(x) /\ ss[2] = s
    OBVIOUS
  <2> HIDE DEF ss
  <2>9. /\ y \in Tx /\ y.pc = "mint" /\ y.call = c /\ y.mine = m /\ y.seen = x.seen
        /\ y.locks = x.locks /\ y.saves = ss /\ y.out = "none"
    BY <1>1, <2>3, <2>a DEF Tx
  <2> HIDE DEF y
  <2>10. PassIn(y) = PassIn(x) /\ Base(y) = Base(x)
    BY <2>9 DEF PassIn, Base
  <2>11. Stands(y)
    BY <1>1, <2>9, <2>10 DEF Stands, HasPass
  <2>12. CanGoBack(y)
    BY <1>1, <2>5, <2>b, <2>9, <2>10 DEF CanGoBack
  <2>13. OnItsCode(y, codes)
    BY <1>2, <2>9, <2>10 DEF OnItsCode
  <2>14. OnOnePass(y, passState, codes)
    BY <1>2, <2>2, <2>3, <2>9, <2>10, NoWritesAreWrites DEF OnOnePass
  <2>15. MidWay(y, passState, codes)
    BY <1>1, <1>2, <2>3, <2>9, <2>10 DEF MidWay
  <2>16. Settled(y, passState, codes, held) /\ TellsTheTruth(y, passState, codes, held)
         /\ KeepsItsAnswers(y, codes)
    BY <2>9 DEF Settled, TellsTheTruth, KeepsItsAnswers
  <2>17. TxOK(y, passState, codes, held)
    BY <2>11, <2>12, <2>13, <2>14, <2>15, <2>16 DEF TxOK
  <2>18. /\ tx' = [tx EXCEPT ![t] = y] /\ UNCHANGED data /\ begun' \in 0..MaxBegun
         /\ \A u \in Txs \ {t} : y.locks \cap tx[u].locks = {}
    BY <2>1, <2>9 DEF Sets, IInv, LocksApart, TypeOK
  <2>19. \A u \in Txs \ {t}, r \in Codes : y.mine.code[r] = NoCode \/ tx[u].mine.code[r] = NoCode
    BY <1>1, <1>2, <2>3, <2>9, ItsCodesAreItsOwn
  <2>20. QED
    BY <2>9, <2>17, <2>18, <2>19, AStatementIsItsOwn
<1>6. QED
  BY <1>4, <1>5

-----------------------------------------------------------------------------
(* The fan-out of a new car over the garages of a pass *)

(* The QR bound to the car stands, the car is held at every garage, and    *)
(* what the pass held before it holds still.                               *)
FansOut(cs, cs2, hs, hs2, p, car) ==
    /\ hs \subseteq hs2 /\ hs2 \subseteq Held
    /\ \A h \in hs2 \ hs : h[3] = car
    /\ \A g \in GaragesOf[p] : <<g, p, car>> \in hs2
    /\ \E q \in Codes : cs2[q] # NoCode /\ cs2[q].pass = p /\ Bound(cs2[q]) = car
    /\ \A q \in Codes :
         \/ cs2[q] = cs[q]
         \/ /\ cs[q] # NoCode /\ cs2[q] # NoCode /\ cs2[q].pass = cs[q].pass
            /\ Bound(cs2[q]) = Bound(cs[q])
            /\ cs[q].state = "cancelled" => cs2[q].state = "cancelled"
         \/ /\ cs[q] = NoCode \/ Bound(cs[q]) = NoCar
            /\ Bound(cs2[q]) = car

LEMMA FannedOut ==
    ASSUME NEW cs, NEW cs2, NEW hs, NEW hs2, NEW p, NEW car \in Cars,
           HoldsAs(cs, hs, p), FansOut(cs, cs2, hs, hs2, p, car)
    PROVE  HoldsAs(cs2, hs2, p)
<1> USE DEF FansOut
<1>1. ASSUME NEW h \in hs2, h[2] = p
      PROVE  /\ \E q \in Codes : cs2[q] # NoCode /\ cs2[q].pass = p /\ Bound(cs2[q]) = h[3]
             /\ \A g \in GaragesOf[p] : <<g, p, h[3]>> \in hs2
  <2>1. CASE h \notin hs
    BY <2>1
  <2>2. CASE h \in hs
    <3>1. PICK q \in Codes : cs[q] # NoCode /\ cs[q].pass = p /\ Bound(cs[q]) = h[3]
      BY <1>1, <2>2 DEF HoldsAs
    <3>2. h[3] # NoCar
      BY <2>2, CarsAssumption DEF Held
    <3>3. cs2[q] # NoCode /\ cs2[q].pass = p /\ Bound(cs2[q]) = h[3]
      BY <3>1, <3>2
    <3>4. \A g \in GaragesOf[p] : <<g, p, h[3]>> \in hs
      BY <1>1, <2>2 DEF HoldsAs
    <3>5. QED
      BY <3>3, <3>4
  <2>3. QED
    BY <2>1, <2>2
<1>2. ASSUME NEW q \in Codes, cs2[q] # NoCode, cs2[q].pass = p, cs2[q].state # "cancelled",
             Bound(cs2[q]) # NoCar
      PROVE  \A g \in GaragesOf[p] : <<g, p, Bound(cs2[q])>> \in hs2
  <2>1. CASE Bound(cs2[q]) = car
    BY <2>1
  <2>2. CASE Bound(cs2[q]) # car
    <3>1. cs[q] # NoCode /\ cs[q].pass = p /\ cs[q].state # "cancelled" /\ Bound(cs[q]) = Bound(cs2[q])
      BY <1>2, <2>2
    <3>2. \A g \in GaragesOf[p] : <<g, p, Bound(cs[q])>> \in hs
      BY <1>2, <3>1 DEF HoldsAs
    <3>3. QED
      BY <3>1, <3>2
  <2>3. QED
    BY <2>1, <2>2
<1>3. QED
  BY <1>1, <1>2 DEF HoldsAs

(* What stands when a fan-out ends, at its last garage or before the first. *)
LEMMA SettledFanOut ==
    ASSUME IInv, NEW y \in Tx, PassIn(y) \in Passes, NEW car \in Cars,
           passState[PassIn(y)] # "revoked",
           y.mine.pass[PassIn(y)] # "revoked", y.mine.gone = {},
           \A h \in y.mine.put : h[3] = car,
           \A g \in GaragesOf[PassIn(y)] : <<g, PassIn(y), car>> \in held \cup y.mine.put,
           \E q \in Codes : /\ y.mine.code[q] # NoCode
                            /\ y.mine.code[q].pass = PassIn(y) /\ Bound(y.mine.code[q]) = car,
           \A q \in Codes :
             \/ y.mine.code[q] = NoCode
             \/ /\ codes[q] # NoCode /\ y.mine.code[q].pass = codes[q].pass
                /\ Bound(y.mine.code[q]) = Bound(codes[q])
                /\ codes[q].state = "cancelled" => y.mine.code[q].state = "cancelled"
             \/ /\ codes[q] = NoCode \/ Bound(codes[q]) = NoCar
                /\ Bound(y.mine.code[q]) = car
    PROVE  Settled(y, passState, codes, held)
<1> DEFINE p == PassIn(y)
           rs == RowsSeen(y, codes)
           hs == RegSeen(y, held)
<1>1. HoldsAs(codes, held, p) /\ held \subseteq Held
  BY DEF IInv, HeldByItsCode, TypeOK
<1>2. hs = held \cup y.mine.put /\ hs \subseteq Held
  BY <1>1 DEF RegSeen, Tx, Writes
<1>4. \A q \in Codes : rs[q] = IF y.mine.code[q] = NoCode THEN codes[q] ELSE y.mine.code[q]
  BY DEF RowsSeen
<1>5. FansOut(codes, rs, held, hs, p, car)
  <2>1. \A h \in hs \ held : h[3] = car
    BY <1>2
  <2>2. \A g \in GaragesOf[p] : <<g, p, car>> \in hs
    BY <1>2
  <2>3. \E q \in Codes : rs[q] # NoCode /\ rs[q].pass = p /\ Bound(rs[q]) = car
    BY <1>4
  <2>4. \A q \in Codes :
          \/ rs[q] = codes[q]
          \/ /\ codes[q] # NoCode /\ rs[q] # NoCode /\ rs[q].pass = codes[q].pass
             /\ Bound(rs[q]) = Bound(codes[q])
             /\ codes[q].state = "cancelled" => rs[q].state = "cancelled"
          \/ /\ codes[q] = NoCode \/ Bound(codes[q]) = NoCar
             /\ Bound(rs[q]) = car
    BY <1>4
  <2>5. held \subseteq hs
    BY <1>2
  <2>6. QED
    BY <1>2, <2>1, <2>2, <2>3, <2>4, <2>5 DEF FansOut
<1>9. StatesSeen(y, passState)[p] # "revoked"
  BY DEF StatesSeen
<1> HIDE DEF rs, hs
<1>11. HoldsAs(rs, hs, p)
  BY <1>1, <1>5, FannedOut
<1>12. QED
  BY <1>9, <1>11 DEF rs, hs, Settled, NothingLeftOn

(* Where a statement of a fan-out begins.                                  *)
LEMMA AtTheFanOut ==
    ASSUME IInv, NEW t \in Txs, tx[t].pc \in {"mint", "insert", "spend"}
    PROVE  LET x == tx[t]
               p == PassIn(x) IN
           /\ x \in Tx /\ TxOK(x, passState, codes, held) /\ x.call \in Calls /\ x.call \in Call
           /\ x.locks # {} /\ HasPass(x) /\ p \in Passes /\ PassOf(t) = p
           /\ x.out = "none" /\ x.call.code \in Codes /\ x.call.new \in Codes
           /\ x.call.read \in Cars /\ GaragesOf[p] \subseteq Garages
           /\ \A r \in Passes : x.mine.pass[r] = "unwritten" /\ PassSeen(t, r) = passState[r]
<1> DEFINE x == tx[t]
<1>1. x \in Tx /\ TxOK(x, passState, codes, held)
  BY DEF IInv, TypeOK
<1>2. x.call \in Calls /\ x.locks # {} /\ HasPass(x) /\ x.out = "none"
  BY <1>1 DEF TxOK, Stands
<1>3. x.call \in Call
  BY <1>2, CallsAssumption
<1>4. x.call.code \in Codes /\ x.call.new \in Codes /\ x.call.read \in Cars \cup {NoCar}
  BY <1>3 DEF Call
<1>5. x.call.read # NoCar /\ x.mine.pass = NoWrites.pass
  BY <1>1 DEF TxOK, MidWay
<1>6. PassIn(x) \in Passes
  BY <1>2, ItsPass
<1>7. GaragesOf[PassIn(x)] \subseteq Garages
  BY <1>6, GaragesAssumption
<1>8. \A r \in Passes : x.mine.pass[r] = "unwritten" /\ PassSeen(t, r) = passState[r]
  BY <1>5, NoWritesAreWrites DEF PassSeen
<1>9. PassOf(t) = PassIn(x)
  BY DEF PassOf, PassIn
<1>10. QED
  BY <1>1, <1>2, <1>3, <1>4, <1>5, <1>6, <1>7, <1>8, <1>9

(* The row of the new QR over an id nobody has, and its registrations      *)
(* still to do, or none to do.                                             *)
LEMMA MintKeepsIInv == ASSUME IInv, NEW t \in Txs, Mint(t) PROVE IInv'
<1> DEFINE x == tx[t]
           c == x.call
           p == PassIn(x)
           row == Minted(p, c.read)
           m == WritesCode(x.mine, c.new, row)
<1>1. /\ x \in Tx /\ TxOK(x, passState, codes, held) /\ c \in Calls /\ c \in Call
      /\ x.locks # {} /\ HasPass(x) /\ p \in Passes /\ PassOf(t) = p
      /\ x.out = "none" /\ c.code \in Codes /\ c.new \in Codes
      /\ c.read \in Cars /\ GaragesOf[p] \subseteq Garages /\ x.pc = "mint"
      /\ \A r \in Passes : x.mine.pass[r] = "unwritten" /\ PassSeen(t, r) = passState[r]
  BY AtTheFanOut DEF Mint, At
<1>2. /\ x.mine.put = {} /\ x.mine.gone = {} /\ HeldSeen(t) = held
      /\ c.verb \in {"issue", "replace"} /\ c.read # NoCar
      /\ \A q \in Codes : x.mine.code[q] # NoCode => q = c.code /\ c.verb = "replace"
      /\ c.verb = "replace" => x.mine.code[c.code] = Replaced(codes[c.code])
      /\ x.mine.pass = NoWrites.pass
  BY <1>1 DEF TxOK, MidWay, Stands, HeldSeen
<1>3. CASE Refuse(t)
  BY <1>1, <1>3, RefuseKeepsIInv
<1>4. CASE ~Refuse(t)
  <2>1. /\ passState[p] # "revoked" /\ x.mine.code[c.new] = NoCode /\ codes[c.new] = NoCode
        /\ \A u \in Txs \ {t} : tx[u].mine.code[c.new] = NoCode
    BY <1>1, <1>4 DEF Mint, CodeSeen
  <2>2. /\ row \in Code /\ row.pass = p /\ Bound(row) = c.read /\ BoundIfUsed(row)
        /\ row # NoCode
    BY <1>1, <1>2, ARowIsThere DEF Minted, Code, Bound, BoundIfUsed
  <2>3. /\ m \in Writes /\ m.pass = x.mine.pass /\ m.put = {} /\ m.gone = {}
        /\ \A q \in Codes : m.code[q] = IF q = c.new THEN row ELSE x.mine.code[q]
    BY <1>1, <1>2, <2>2 DEF WritesCode, Writes, Tx
  <2> DEFINE w == [x EXCEPT !.mine = m]
             y == [w EXCEPT !.pc = "done", !.out = "done"]
             z == [w EXCEPT !.pc = "insert", !.todo = GaragesOf[p]]
             whole == { h[1] : h \in { g \in held : g[3] = c.read /\ g[2] = p } } = GaragesOf[p]
  <2>4. (whole /\ Sets(t, y)) \/ Sets(t, z)
    BY <1>1, <1>2, <1>4 DEF Mint, Minted
  <2>5. /\ y \in Tx /\ y.pc = "done" /\ y.out = "done" /\ y.call = c /\ y.seen = x.seen
        /\ y.mine = m /\ y.locks = x.locks
        /\ z \in Tx /\ z.pc = "insert" /\ z.out = "none" /\ z.call = c /\ z.seen = x.seen
        /\ z.mine = m /\ z.locks = x.locks /\ z.saves = x.saves /\ z.todo = GaragesOf[p]
    BY <1>1, <2>3 DEF Tx
  <2> HIDE DEF y, z, m, row
  <2>6. PassIn(y) = p /\ PassIn(z) = p /\ Base(z) = Base(x)
    BY <2>5 DEF PassIn, Base
  <2>7. \A r \in Codes : x.mine.code[r] # NoCode =>
          /\ x.mine.code[r].pass = p /\ BoundIfUsed(x.mine.code[r])
          /\ codes[r] # NoCode /\ Advances(codes[r], x.mine.code[r])
          /\ Bound(x.mine.code[r]) = Bound(codes[r]) /\ x.mine.code[r].kept = codes[r].kept
          /\ r # c.new
    <3> SUFFICES ASSUME NEW r \in Codes, x.mine.code[r] # NoCode
                 PROVE  /\ x.mine.code[r].pass = p /\ BoundIfUsed(x.mine.code[r])
                        /\ codes[r] # NoCode /\ Advances(codes[r], x.mine.code[r])
                        /\ Bound(x.mine.code[r]) = Bound(codes[r])
                        /\ x.mine.code[r].kept = codes[r].kept
                        /\ r # c.new
      OBVIOUS
    <3>1. r = c.code /\ c.verb = "replace" /\ x.mine.code[r] = Replaced(codes[r])
      BY <1>2
    <3>2. codes[r] # NoCode /\ codes[r] \in Code
      BY <1>1, <3>1, ItsQR
    <3>3. /\ x.mine.code[r].pass = p /\ BoundIfUsed(x.mine.code[r])
          /\ Advances(codes[r], x.mine.code[r])
      BY <1>1, <3>2 DEF TxOK, OnOnePass
    <3>4. Bound(Replaced(codes[r])) = Bound(codes[r]) /\ Replaced(codes[r]).kept = codes[r].kept
      BY <3>2 DEF Replaced, Bound, Code
    <3>5. QED
      BY <2>1, <3>1, <3>2, <3>3, <3>4
  <2>a. \A u \in Txs \ {t} : x.locks \cap tx[u].locks = {}
    BY DEF IInv, LocksApart
  <2>b. \A u \in Txs \ {t}, r \in Codes : m.code[r] = NoCode \/ tx[u].mine.code[r] = NoCode
    BY <2>1, <2>3 DEF IInv, WritesApart
  <2>9. /\ OnItsCode(y, codes) /\ OnItsCode(z, codes)
    BY <1>1, <2>5, <2>6 DEF TxOK, OnItsCode
  <2>10. OnOnePass(y, passState, codes) /\ OnOnePass(z, passState, codes)
    <3>1. \A q \in Codes : m.code[q] # NoCode =>
            /\ m.code[q].pass = p /\ BoundIfUsed(m.code[q])
            /\ codes[q] # NoCode => Advances(codes[q], m.code[q])
      BY <2>1, <2>2, <2>3, <2>7
    <3>2. QED
      BY <1>1, <2>3, <2>5, <2>6, <3>1 DEF OnOnePass
  <2>11. m # NoWrites
    BY <1>1, <2>2, <2>3, NoWritesAreWrites
  <2>12. CASE Sets(t, z)
    <3>1. Stands(z)
      BY <1>1, <1>2, <2>5, <2>6 DEF Stands, HasPass
    <3>2. CanGoBack(z)
      BY <1>1, <1>2, <2>5, <2>6 DEF TxOK, CanGoBack
    <3>3. MidWay(z, passState, codes)
      <4>1. m.code[c.new] = Minted(p, c.read)
        BY <1>1, <2>3 DEF row
      <4>2. c.verb = "replace" => m.code[c.code] = Replaced(codes[c.code])
        <5>1. c.verb = "replace" => codes[c.code] # NoCode
          BY <1>1, ItsQR
        <5>2. QED
          BY <1>1, <1>2, <2>1, <2>3, <5>1
      <4>3. \A q \in Codes : m.code[q] # NoCode => (q = c.code /\ c.verb = "replace") \/ q = c.new
        BY <1>2, <2>3
      <4>4. m.pass = NoWrites.pass /\ m.gone = {}
            /\ m.put = { <<g, p, c.read>> : g \in GaragesOf[p] \ GaragesOf[p] }
        BY <1>2, <2>3
      <4>5. QED
        BY <1>2, <2>1, <2>5, <2>6, <4>1, <4>2, <4>3, <4>4 DEF MidWay
    <3>4. Settled(z, passState, codes, held) /\ TellsTheTruth(z, passState, codes, held)
          /\ KeepsItsAnswers(z, codes)
      BY <2>5 DEF Settled, TellsTheTruth, KeepsItsAnswers
    <3>5. TxOK(z, passState, codes, held)
      BY <2>9, <2>10, <3>1, <3>2, <3>3, <3>4 DEF TxOK
    <3>6. tx' = [tx EXCEPT ![t] = z] /\ UNCHANGED data /\ begun' \in 0..MaxBegun
      BY <2>12 DEF Sets, IInv, TypeOK
    <3>7. /\ \A u \in Txs \ {t} : z.locks \cap tx[u].locks = {}
          /\ \A u \in Txs \ {t}, r \in Codes : z.mine.code[r] = NoCode \/ tx[u].mine.code[r] = NoCode
      BY <2>a, <2>b, <2>5
    <3>8. QED
      BY <2>5, <3>5, <3>6, <3>7, AStatementIsItsOwn
  <2>13. CASE whole /\ Sets(t, y)
    <3>1. Stands(y)
      BY <1>1, <1>2, <2>5, <2>6 DEF Stands, HasPass
    <3>2. CanGoBack(y) /\ MidWay(y, passState, codes) /\ TellsTheTruth(y, passState, codes, held)
      BY <2>5 DEF CanGoBack, MidWay, TellsTheTruth
    <3>3. \A g \in GaragesOf[p] : <<g, p, c.read>> \in held
      <4> SUFFICES ASSUME NEW g \in GaragesOf[p] PROVE <<g, p, c.read>> \in held
        OBVIOUS
      <4>1. PICK h \in held : h[3] = c.read /\ h[2] = p /\ h[1] = g
        BY <2>13
      <4>2. h \in Held
        BY DEF IInv, TypeOK
      <4>3. h = <<h[1], h[2], h[3]>>
        BY <4>2 DEF Held
      <4>4. QED
        BY <4>1, <4>3
    <3>4. Settled(y, passState, codes, held)
      <4>1. \A q \in Codes :
              \/ m.code[q] = NoCode
              \/ /\ codes[q] # NoCode /\ m.code[q].pass = codes[q].pass
                 /\ Bound(m.code[q]) = Bound(codes[q])
                 /\ codes[q].state = "cancelled" => m.code[q].state = "cancelled"
              \/ /\ codes[q] = NoCode \/ Bound(codes[q]) = NoCar
                 /\ Bound(m.code[q]) = c.read
        BY <2>1, <2>2, <2>3, <2>7 DEF Advances
      <4>2. \E q \in Codes : m.code[q] # NoCode /\ m.code[q].pass = p /\ Bound(m.code[q]) = c.read
        BY <1>1, <2>2, <2>3
      <4>3. m.pass[p] # "revoked" /\ m.gone = {} /\ \A h \in m.put : h[3] = c.read
        BY <1>1, <2>3
      <4>4. QED
        BY <1>1, <2>1, <2>5, <2>6, <3>3, <4>1, <4>2, <4>3, SettledFanOut
    <3>5. KeepsItsAnswers(y, codes)
      <4>1. \A q : ~Answers(y, q)
        BY <1>2, <2>5 DEF Answers
      <4>2. \A q \in Codes : codes[q] # NoCode /\ m.code[q] # NoCode => m.code[q].kept = codes[q].kept
        BY <2>1, <2>3, <2>7
      <4>3. \A q \in Codes : codes[q] # NoCode => codes[q].kept \in Nat
        BY DEF IInv, TypeOK, Code
      <4>4. QED
        BY <2>5, <4>1, <4>2, <4>3 DEF KeepsItsAnswers
    <3>6. TxOK(y, passState, codes, held)
      BY <2>9, <2>10, <3>1, <3>2, <3>4, <3>5 DEF TxOK
    <3>7. tx' = [tx EXCEPT ![t] = y] /\ UNCHANGED data /\ begun' \in 0..MaxBegun
      BY <2>13 DEF Sets, IInv, TypeOK
    <3>8. /\ \A u \in Txs \ {t} : y.locks \cap tx[u].locks = {}
          /\ \A u \in Txs \ {t}, r \in Codes : y.mine.code[r] = NoCode \/ tx[u].mine.code[r] = NoCode
      BY <2>a, <2>b, <2>5
    <3>9. QED
      BY <2>5, <3>6, <3>7, <3>8, AStatementIsItsOwn
  <2>14. QED
    BY <2>4, <2>12, <2>13
<1>5. QED
  BY <1>3, <1>4

(* The garage a fan-out registers next is one it has still to do.          *)
LEMMA TheNextGarage ==
    ASSUME NEW t \in Txs, tx[t].todo \subseteq Garages, tx[t].todo # {}
    PROVE  NextGarage(t) \in tx[t].todo
<1>1. tx[t].todo \subseteq Nat
  BY GaragesAssumption
<1>2. \E g \in tx[t].todo : \A h \in tx[t].todo : g <= h
  BY <1>1, LeastNatural
<1>3. QED
  BY <1>2 DEF NextGarage

(* What the QRs written midway are, of the committed ones they replace.    *)
LEMMA RowsMidWay ==
    ASSUME IInv, NEW t \in Txs, tx[t].pc \in {"insert", "spend"}, NEW r \in Codes,
           tx[t].mine.code[r] # NoCode
    PROVE  LET x == tx[t] IN
           \/ /\ codes[r] # NoCode /\ x.mine.code[r].pass = codes[r].pass
              /\ Bound(x.mine.code[r]) = Bound(codes[r])
              /\ codes[r].state = "cancelled" => x.mine.code[r].state = "cancelled"
              /\ x.mine.code[r].kept = codes[r].kept
           \/ /\ codes[r] = NoCode /\ r = x.call.new
              /\ Bound(x.mine.code[r]) = x.call.read /\ x.mine.code[r].pass = PassIn(x)
<1> DEFINE x == tx[t]
           c == x.call
<1>1. /\ TxOK(x, passState, codes, held) /\ c.read # NoCar /\ x.locks # {} /\ c.code \in Codes
  BY AtTheFanOut DEF TxOK, MidWay
<1>2. \/ r = c.code /\ c.verb = "replace" /\ x.mine.code[r] = Replaced(codes[r])
      \/ r = c.new /\ codes[r] = NoCode /\ x.mine.code[r] = Minted(PassIn(x), c.read)
  BY <1>1 DEF TxOK, MidWay
<1>3. CASE r = c.code /\ c.verb = "replace" /\ x.mine.code[r] = Replaced(codes[r])
  <2>1. codes[r] # NoCode /\ codes[r] \in Code
    BY <1>1, <1>3, ItsQR
  <2>2. QED
    BY <1>3, <2>1 DEF Replaced, Bound, Code
<1>4. CASE r = c.new /\ codes[r] = NoCode /\ x.mine.code[r] = Minted(PassIn(x), c.read)
  BY <1>1, <1>4 DEF Minted, Bound
<1>5. QED
  BY <1>2, <1>3, <1>4

LEMMA InsertRowKeepsIInv == ASSUME IInv, NEW t \in Txs, InsertRow(t) PROVE IInv'
<1> DEFINE x == tx[t]
           c == x.call
           p == PassIn(x)
           g == NextGarage(t)
<1>1. /\ x \in Tx /\ TxOK(x, passState, codes, held) /\ c \in Calls /\ c \in Call
      /\ x.locks # {} /\ HasPass(x) /\ p \in Passes /\ PassOf(t) = p
      /\ x.out = "none" /\ c.code \in Codes /\ c.new \in Codes
      /\ c.read \in Cars /\ GaragesOf[p] \subseteq Garages /\ x.pc = "insert" /\ x.todo # {}
      /\ \A r \in Passes : x.mine.pass[r] = "unwritten" /\ PassSeen(t, r) = passState[r]
  BY AtTheFanOut DEF InsertRow, At
<1>2. /\ x.mine.put = { <<h, p, c.read>> : h \in GaragesOf[p] \ x.todo }
      /\ x.todo \subseteq GaragesOf[p] /\ passState[p] # "revoked" /\ c.read # NoCar
      /\ x.mine.gone = {} /\ c.verb \in {"redeem", "issue", "replace"}
  BY <1>1 DEF TxOK, MidWay, Stands
<1>3. CASE Refuse(t)
  BY <1>1, <1>3, RefuseKeepsIInv
<1>4. CASE ~Refuse(t)
  <2> DEFINE row == <<g, p, c.read>>
             todo == x.todo \ {g}
             m == [x.mine EXCEPT !.put = x.mine.put \cup {row}]
             to == IF todo # {} THEN "insert" ELSE IF c.verb = "redeem" THEN "spend" ELSE "done"
             out == IF to = "done" THEN "done" ELSE "none"
             y == [x EXCEPT !.mine = m, !.todo = todo, !.pc = to, !.out = out]
  <2>1. g \in x.todo /\ NextRow(t) = row
    BY <1>1, <1>2, TheNextGarage DEF NextRow
  <2>2. Sets(t, y)
    <3> DEFINE w == [x EXCEPT !.mine.put = @ \cup {row}, !.todo = @ \ {g}]
               z == IF w.todo # {} THEN w
                    ELSE IF w.call.verb = "redeem" THEN [w EXCEPT !.pc = "spend"]
                    ELSE [w EXCEPT !.pc = "done", !.out = "done"]
    <3>1. Sets(t, z)
      BY <1>4, <2>1 DEF InsertRow
    <3>2. w = [x EXCEPT !.mine = m, !.todo = todo] /\ w.todo = todo /\ w.call = c
      BY <1>1 DEF Tx
    <3>3. z = y
      BY <1>1, <3>2 DEF Tx
    <3>4. QED
      BY <3>1, <3>3
  <2>3. /\ m \in Writes /\ m.pass = x.mine.pass /\ m.code = x.mine.code /\ m.gone = {}
        /\ m.put = { <<h, p, c.read>> : h \in GaragesOf[p] \ todo }
    <3>1. x.mine \in Writes /\ row \in Held
      BY <1>1, <1>2, <2>1 DEF Tx, Held
    <3>2. x.mine.put \cup {row} = { <<h, p, c.read>> : h \in GaragesOf[p] \ todo }
      BY <1>2, <2>1
    <3>3. QED
      BY <1>2, <3>1, <3>2 DEF Writes
  <2>4. \/ to = "insert"
        \/ to = "spend" /\ c.verb = "redeem" /\ todo = {}
        \/ to = "done" /\ c.verb # "redeem" /\ todo = {} /\ out = "done"
    OBVIOUS
  <2>5. todo \subseteq GaragesOf[p] /\ (to # "done" => out = "none")
    BY <1>2
  <2> HIDE DEF m, to, out, todo
  <2>6. /\ y \in Tx /\ y.pc = to /\ y.out = out /\ y.call = c /\ y.seen = x.seen
        /\ y.mine = m /\ y.locks = x.locks /\ y.saves = x.saves /\ y.todo = todo
    BY <1>1, <2>3, <2>4, <2>5 DEF Tx
  <2> HIDE DEF y
  <2>7. PassIn(y) = p /\ Base(y) = Base(x)
    BY <2>6 DEF PassIn, Base
  <2>8. Stands(y)
    BY <1>1, <1>2, <2>4, <2>5, <2>6, <2>7 DEF Stands, HasPass
  <2>9. CanGoBack(y)
    BY <1>1, <1>2, <2>4, <2>6, <2>7 DEF TxOK, CanGoBack
  <2>10. OnItsCode(y, codes)
    BY <1>1, <2>6, <2>7 DEF TxOK, OnItsCode
  <2>11. OnOnePass(y, passState, codes)
    BY <1>1, <2>3, <2>6, <2>7 DEF TxOK, OnOnePass
  <2>12. MidWay(y, passState, codes)
    BY <1>1, <1>2, <2>3, <2>4, <2>5, <2>6, <2>7 DEF TxOK, MidWay
  <2>13. TellsTheTruth(y, passState, codes, held)
    BY <2>4, <2>5, <2>6 DEF TellsTheTruth
  <2>14. \A r \in Codes : m.code[r] # NoCode =>
           \/ /\ codes[r] # NoCode /\ m.code[r].pass = codes[r].pass
              /\ Bound(m.code[r]) = Bound(codes[r])
              /\ codes[r].state = "cancelled" => m.code[r].state = "cancelled"
              /\ m.code[r].kept = codes[r].kept
           \/ codes[r] = NoCode /\ Bound(m.code[r]) = c.read
    BY <1>1, <2>3, RowsMidWay
  <2>15. Settled(y, passState, codes, held)
    <3> SUFFICES ASSUME to = "done" PROVE Settled(y, passState, codes, held)
      BY <2>4, <2>6 DEF Settled
    <3>1. m.code[c.new] = Minted(p, c.read) /\ c.verb # "redeem" /\ todo = {}
      BY <1>1, <2>3, <2>4 DEF TxOK, MidWay
    <3>2. \E q \in Codes : m.code[q] # NoCode /\ m.code[q].pass = p /\ Bound(m.code[q]) = c.read
      <4>1. Minted(p, c.read) \in Code
        BY <1>1 DEF Minted, Code
      <4>2. Minted(p, c.read).pass = p /\ Bound(Minted(p, c.read)) = c.read
        BY <1>2 DEF Minted, Bound
      <4>3. QED
        BY <1>1, <3>1, <4>1, <4>2, ARowIsThere
    <3>3. \A h \in GaragesOf[p] : <<h, p, c.read>> \in held \cup m.put
      BY <2>3, <3>1
    <3>4. \A h \in m.put : h[3] = c.read
      BY <2>3
    <3>5. \A q \in Codes :
            \/ m.code[q] = NoCode
            \/ /\ codes[q] # NoCode /\ m.code[q].pass = codes[q].pass
               /\ Bound(m.code[q]) = Bound(codes[q])
               /\ codes[q].state = "cancelled" => m.code[q].state = "cancelled"
            \/ /\ codes[q] = NoCode \/ Bound(codes[q]) = NoCar
               /\ Bound(m.code[q]) = c.read
      BY <2>14
    <3>6. m.pass[p] # "revoked"
      BY <1>1, <2>3
    <3>7. QED
      BY <1>1, <1>2, <2>3, <2>6, <2>7, <3>2, <3>3, <3>4, <3>5, <3>6, SettledFanOut
  <2>16. KeepsItsAnswers(y, codes)
    <3>1. to = "done" => \A q : ~Answers(y, q)
      BY <1>2, <2>4, <2>6 DEF Answers
    <3>2. \A q \in Codes : codes[q] # NoCode => codes[q].kept \in Nat
      BY DEF IInv, TypeOK, Code
    <3>3. to # "keep"
      BY <2>4
    <3>4. QED
      BY <2>6, <2>14, <3>1, <3>2, <3>3 DEF KeepsItsAnswers
  <2>17. TxOK(y, passState, codes, held)
    BY <2>8, <2>9, <2>10, <2>11, <2>12, <2>13, <2>15, <2>16 DEF TxOK
  <2>18. /\ tx' = [tx EXCEPT ![t] = y] /\ UNCHANGED data /\ begun' \in 0..MaxBegun
    BY <2>2 DEF Sets, IInv, TypeOK
  <2>19. /\ \A u \in Txs \ {t} : y.locks \cap tx[u].locks = {}
         /\ \A u \in Txs \ {t}, r \in Codes : y.mine.code[r] = NoCode \/ tx[u].mine.code[r] = NoCode
    BY <2>3, <2>6 DEF IInv, LocksApart, WritesApart
  <2>20. QED
    BY <2>6, <2>17, <2>18, <2>19, AStatementIsItsOwn
<1>5. QED
  BY <1>3, <1>4

(* The registrations are in: the QR is spent on the car they hold.         *)
LEMMA SpendTheCodeKeepsIInv == ASSUME IInv, NEW t \in Txs, SpendTheCode(t) PROVE IInv'
<1> DEFINE x == tx[t]
           c == x.call
           p == PassIn(x)
           q == codes[c.code]
           row == Spent(q, c.read)
           n == Activating(t, x.mine, q.pass)
           m == WritesCode(n, c.code, row)
           y == [x EXCEPT !.saves = << >>, !.pc = "done", !.out = "redeemed", !.mine = m]
<1>1. /\ x \in Tx /\ TxOK(x, passState, codes, held) /\ c \in Calls /\ c \in Call
      /\ x.locks # {} /\ HasPass(x) /\ p \in Passes /\ PassOf(t) = p
      /\ x.out = "none" /\ c.code \in Codes
      /\ c.read \in Cars /\ GaragesOf[p] \subseteq Garages /\ x.pc = "spend"
      /\ \A r \in Passes : x.mine.pass[r] = "unwritten" /\ PassSeen(t, r) = passState[r]
  BY AtTheFanOut DEF SpendTheCode, At
<1>2. c.verb = "redeem"
  BY <1>1 DEF TxOK, Stands
<1>3. /\ x.mine.put = { <<h, p, c.read>> : h \in GaragesOf[p] }
      /\ passState[p] # "revoked" /\ c.read # NoCar /\ x.mine.gone = {}
      /\ q.state = "issued" /\ Bound(q) = NoCar /\ x.mine.pass = NoWrites.pass
      /\ \A r \in Codes : x.mine.code[r] = NoCode
  BY <1>1, <1>2 DEF TxOK, MidWay
<1>4. /\ q # NoCode /\ q \in Code /\ BoundIfUsed(q) /\ q.pass = p
      /\ c.garage \in GaragesOf[p]
  BY <1>1, <1>2, ItsQR
<1>5. CodeSeen(t, c.code) = q
  BY <1>1, <1>3 DEF CodeSeen
<1>6. x.saves = <<Base(x)>>
  BY <1>1, <1>2 DEF TxOK, CanGoBack
<1>7. Released(x) = [x EXCEPT !.saves = << >>] /\ << >> \in Seq(Save)
  BY <1>1, <1>6, ReleasingTheOnly
<1>8. Sets(t, [Released(x) EXCEPT !.pc = "done", !.out = "redeemed",
                 !.mine = WritesCode(Activating(t, @, q.pass), c.code, row)])
  BY <1>3, <1>5 DEF SpendTheCode
<1>9. Sets(t, y)
  <2>1. [Released(x) EXCEPT !.pc = "done", !.out = "redeemed",
           !.mine = WritesCode(Activating(t, @, q.pass), c.code, row)] = y
    BY <1>1, <1>7 DEF Tx
  <2>2. QED
    BY <1>8, <2>1
<1>10. /\ row \in Code /\ row.pass = p /\ row.state = "redeemed" /\ row.plate = NoCar
       /\ row.car = c.read /\ row.exitOnly = q.exitOnly /\ row.kept = q.kept
       /\ q.plate = NoCar /\ ~q.exitOnly
  BY <1>1, <1>3, <1>4 DEF Spent, Code, Bound, BoundIfUsed
<1>11. Bound(row) = c.read /\ BoundIfUsed(row) /\ Advances(q, row) /\ row # NoCode
  BY <1>3, <1>4, <1>10, ARowIsThere DEF Bound, BoundIfUsed, Advances
<1>12. /\ n \in Writes /\ n.code = x.mine.code /\ n.put = x.mine.put /\ n.gone = {}
       /\ \A r \in Passes : n.pass[r] = "unwritten" \/ (r = p /\ n.pass[r] = "active")
  <2> DEFINE k == Activating(t, x.mine, p)
  <2>1. x.mine \in Writes
    BY <1>1 DEF Tx
  <2>2. /\ k \in Writes /\ k.code = x.mine.code /\ k.put = x.mine.put /\ k.gone = x.mine.gone
        /\ \A r \in Passes : \/ k.pass[r] = x.mine.pass[r]
                             \/ r = p /\ k.pass[r] = "active"
    BY <1>1, <1>3, <2>1, ActivatingAPass
  <2>3. n = k
    BY <1>4
  <2> HIDE DEF k, n
  <2>4. QED
    BY <1>1, <1>3, <2>2, <2>3
<1> HIDE DEF n, row
<1>13. /\ m \in Writes /\ m.pass = n.pass /\ m.put = x.mine.put /\ m.gone = {}
       /\ \A r \in Codes : m.code[r] = IF r = c.code THEN row ELSE NoCode
  BY <1>1, <1>3, <1>10, <1>12 DEF WritesCode, Writes
<1> HIDE DEF m
<1>14. /\ y \in Tx /\ y.pc = "done" /\ y.out = "redeemed" /\ y.call = c /\ y.seen = x.seen
       /\ y.mine = m /\ y.locks = x.locks
  BY <1>1, <1>7, <1>13 DEF Tx
<1> HIDE DEF y
<1>15. PassIn(y) = p
  BY <1>14 DEF PassIn
<1>16. Stands(y) /\ CanGoBack(y) /\ MidWay(y, passState, codes)
  BY <1>1, <1>2, <1>14, <1>15 DEF Stands, HasPass, CanGoBack, MidWay
<1>17. OnItsCode(y, codes)
  BY <1>1, <1>14, <1>15 DEF TxOK, OnItsCode
<1>18. OnOnePass(y, passState, codes)
  <2>1. \A h \in m.put \cup m.gone : h[2] = p
    BY <1>3, <1>13
  <2>2. QED
    BY <1>10, <1>11, <1>12, <1>13, <1>14, <1>15, <2>1 DEF OnOnePass
<1>19. RowsSeen(y, codes)[c.code] = row /\ RegSeen(y, held) = held \cup m.put
  BY <1>1, <1>11, <1>13, <1>14 DEF RowsSeen, RegSeen
<1>20. TellsTheTruth(y, passState, codes, held)
  <2>1. <<c.garage, p, c.read>> \in held \cup m.put
    BY <1>3, <1>4, <1>13
  <2>2. PassedBy(row, c.read) = "same"
    BY <1>3, <1>10 DEF PassedBy
  <2>3. Usable(row, held \cup m.put, c)
    BY <1>10, <1>11, <2>1 DEF Usable
  <2>4. Verdict(row, held \cup m.put, c) = "recognised"
    BY <1>10, <2>2, <2>3 DEF Verdict
  <2>5. QED
    BY <1>1, <1>2, <1>3, <1>10, <1>11, <1>14, <1>15, <1>19, <2>4 DEF TellsTheTruth
<1>21. KeepsItsAnswers(y, codes)
  <2>1. \A r : ~Answers(y, r)
    BY <1>2, <1>14 DEF Answers
  <2>2. q.kept \in Nat
    BY <1>4 DEF Code
  <2>3. QED
    BY <1>10, <1>13, <1>14, <2>1, <2>2 DEF KeepsItsAnswers
<1>22. Settled(y, passState, codes, held)
  <2>1. \A h \in m.put : h[3] = c.read
    BY <1>3, <1>13
  <2>2. \A h \in GaragesOf[p] : <<h, p, c.read>> \in held \cup m.put
    BY <1>3, <1>13
  <2>3. \E r \in Codes : m.code[r] # NoCode /\ m.code[r].pass = p /\ Bound(m.code[r]) = c.read
    BY <1>1, <1>10, <1>11, <1>13
  <2>4. \A r \in Codes :
          \/ m.code[r] = NoCode
          \/ /\ codes[r] # NoCode /\ m.code[r].pass = codes[r].pass
             /\ Bound(m.code[r]) = Bound(codes[r])
             /\ codes[r].state = "cancelled" => m.code[r].state = "cancelled"
          \/ /\ codes[r] = NoCode \/ Bound(codes[r]) = NoCar
             /\ Bound(m.code[r]) = c.read
    BY <1>3, <1>11, <1>13
  <2>5. m.pass[p] # "revoked"
    BY <1>1, <1>12, <1>13
  <2>6. QED
    BY <1>1, <1>3, <1>13, <1>14, <1>15, <2>1, <2>2, <2>3, <2>4, <2>5, SettledFanOut
<1>23. TxOK(y, passState, codes, held)
  BY <1>16, <1>17, <1>18, <1>20, <1>21, <1>22 DEF TxOK
<1>24. /\ tx' = [tx EXCEPT ![t] = y] /\ UNCHANGED data /\ begun' \in 0..MaxBegun
       /\ \A u \in Txs \ {t} : y.locks \cap tx[u].locks = {}
  BY <1>9, <1>14 DEF Sets, IInv, TypeOK, LocksApart
<1>25. \A u \in Txs \ {t}, r \in Codes : y.mine.code[r] = NoCode \/ tx[u].mine.code[r] = NoCode
  BY <1>1, <1>4, <1>13, <1>14, ItsCodesAreItsOwn
<1>26. QED
  BY <1>14, <1>23, <1>24, <1>25, AStatementIsItsOwn


(* The cascade leaves nothing of the pass: no live QR, no registration.    *)
LEMMA RevokePassKeepsIInv == ASSUME IInv, NEW t \in Txs, RevokePass(t) PROVE IInv'
<1> DEFINE x == tx[t]
           c == x.call
           p == PassIn(x)
           gone == Outstanding(t, p)
<1>1. /\ x \in Tx /\ c \in Calls /\ x.locks # {} /\ HasPass(x) /\ x.mine = NoWrites
      /\ x.pc = "judge" /\ c.verb = "revoke" /\ PassOf(t) = p /\ p \in Passes
  BY AtTheJudgement, ItsPass DEF RevokePass, At, PassOf, PassIn
<1>2. /\ PassSeen(t, p) = passState[p] /\ HeldSeen(t) = held
      /\ \A q \in Codes : CodeSeen(t, q) = codes[q]
  BY <1>1, ReadsTheCommitted
<1>3. CASE Refuse(t)
  BY <1>1, <1>3, RefuseKeepsIInv
<1>4. CASE ~Refuse(t)
  <2> DEFINE rows == [q \in Codes |-> IF q \in gone THEN [CodeSeen(t, q) EXCEPT !.state = "cancelled"]
                                      ELSE x.mine.code[q]]
             ended == { h \in HeldSeen(t) : h[2] = p }
             w == WritesPass(x.mine, p, "revoked")
             m == [w EXCEPT !.code = rows, !.gone = ended]
             y == [x EXCEPT !.pc = "done", !.out = "done", !.mine = m]
  <2>1. Sets(t, y)
    BY <1>1, <1>4 DEF RevokePass
  <2>2. /\ \A q \in Codes : q \in gone <=>
             codes[q] # NoCode /\ codes[q].pass = p /\ codes[q].state \in {"issued", "redeemed"}
        /\ gone \subseteq Codes
    BY <1>2 DEF Outstanding
  <2> HIDE DEF gone
  <2>3. \A q \in gone : /\ codes[q] \in Code /\ BoundIfUsed(codes[q]) /\ codes[q] # NoCode
                        /\ codes[q].pass = p
    BY <2>2 DEF IInv, TypeOK
  <2>4. \A q \in gone :
          /\ rows[q] \in Code /\ rows[q] # NoCode /\ rows[q].pass = p /\ BoundIfUsed(rows[q])
          /\ rows[q].state = "cancelled" /\ Bound(rows[q]) = Bound(codes[q])
          /\ rows[q].kept = codes[q].kept + 0 /\ Advances(codes[q], rows[q])
    <3> TAKE q \in gone
    <3> DEFINE row == [codes[q] EXCEPT !.state = "cancelled"]
    <3>1. rows[q] = row
      BY <1>2, <2>2
    <3>2. row \in Code /\ row.pass = p
      BY <2>3 DEF Code
    <3>3. /\ row.state = "cancelled" /\ row.plate = codes[q].plate /\ row.car = codes[q].car
          /\ row.exitOnly = codes[q].exitOnly /\ row.kept = codes[q].kept
          /\ codes[q].kept + 0 = codes[q].kept
      BY <2>3 DEF Code
    <3> HIDE DEF row, rows
    <3>4. Bound(row) = Bound(codes[q]) /\ BoundIfUsed(row)
      BY <2>3, <3>3 DEF Bound, BoundIfUsed
    <3>5. Advances(codes[q], row)
      BY <2>3, <3>2, <3>3, <3>4 DEF Advances
    <3>6. QED
      BY <3>1, <3>2, <3>3, <3>4, <3>5, ARowIsThere
  <2>5. \A q \in Codes : rows[q] # NoCode => q \in gone
    BY <1>1, NoWritesAreWrites
  <2>6. m \in Writes /\ m.code = rows /\ m.put = {} /\ m.gone = { h \in held : h[2] = p }
        /\ \A r \in Passes : m.pass[r] = IF r = p THEN "revoked" ELSE "unwritten"
    <3>1. rows \in [Codes -> Code \cup {NoCode}]
      BY <1>1, <2>4, NoWritesAreWrites
    <3>2. ended = { h \in held : h[2] = p } /\ ended \subseteq Held
      BY <1>2 DEF IInv, TypeOK
    <3>3. /\ w \in Writes /\ w.put = {}
          /\ \A r \in Passes : w.pass[r] = IF r = p THEN "revoked" ELSE "unwritten"
      <4>1. NoWrites \in Writes /\ "revoked" \in PassStates
        BY NoWritesAreWrites DEF PassStates
      <4>2. w = WritesPass(NoWrites, p, "revoked")
        BY <1>1
      <4> HIDE DEF w
      <4>3. /\ w \in Writes /\ w.put = NoWrites.put
            /\ \A r \in Passes : w.pass[r] = IF r = p THEN "revoked" ELSE NoWrites.pass[r]
        BY <1>1, <4>1, <4>2, WritingAPass
      <4>4. QED
        BY <4>3, NoWritesAreWrites
    <3> HIDE DEF rows, w, ended
    <3>4. QED
      BY <3>1, <3>2, <3>3 DEF Writes
  <2> HIDE DEF rows, m
  <2>7. /\ y \in Tx /\ y.pc = "done" /\ y.out = "done" /\ y.call = c /\ y.seen = x.seen
        /\ y.mine = m /\ y.locks = x.locks
    BY <1>1, <2>6 DEF Tx
  <2> HIDE DEF y
  <2>8. PassIn(y) = p
    BY <2>7 DEF PassIn
  <2>9. Stands(y) /\ CanGoBack(y) /\ OnItsCode(y, codes) /\ MidWay(y, passState, codes)
    BY <1>1, <2>7, <2>8 DEF Stands, HasPass, CanGoBack, OnItsCode, MidWay
  <2>10. OnOnePass(y, passState, codes)
    BY <2>4, <2>5, <2>6, <2>7, <2>8 DEF OnOnePass
  <2>11. TellsTheTruth(y, passState, codes, held) /\ KeepsItsAnswers(y, codes)
    BY <1>1, <2>4, <2>5, <2>6, <2>7 DEF TellsTheTruth, KeepsItsAnswers, Answers
  <2>12. Settled(y, passState, codes, held)
    <3>1. \A h \in RegSeen(y, held) : h[2] # p
      BY <2>6, <2>7 DEF RegSeen
    <3>2. \A q \in Codes : RowsSeen(y, codes)[q] # NoCode /\ RowsSeen(y, codes)[q].pass = p
            => RowsSeen(y, codes)[q].state = "cancelled"
      <4> SUFFICES ASSUME NEW q \in Codes, RowsSeen(y, codes)[q] # NoCode,
                          RowsSeen(y, codes)[q].pass = p
                   PROVE  RowsSeen(y, codes)[q].state = "cancelled"
        OBVIOUS
      <4>1. CASE q \in gone
        BY <2>4, <2>6, <2>7, <4>1 DEF RowsSeen
      <4>2. CASE q \notin gone
        <5>1. RowsSeen(y, codes)[q] = codes[q]
          BY <2>5, <2>6, <2>7, <4>2 DEF RowsSeen
        <5>2. codes[q] \in Code
          BY <5>1 DEF IInv, TypeOK
        <5>3. QED
          BY <2>2, <4>2, <5>1, <5>2 DEF Code
      <4>3. QED
        BY <4>1, <4>2
    <3>3. QED
      BY <2>8, <3>1, <3>2 DEF Settled, HoldsAs, NothingLeftOn
  <2>13. TxOK(y, passState, codes, held)
    BY <2>9, <2>10, <2>11, <2>12 DEF TxOK
  <2>14. /\ tx' = [tx EXCEPT ![t] = y] /\ UNCHANGED data /\ begun' \in 0..MaxBegun
         /\ \A u \in Txs \ {t} : y.locks \cap tx[u].locks = {}
    BY <2>1, <2>7 DEF Sets, IInv, TypeOK, LocksApart
  <2>15. \A u \in Txs \ {t}, q \in Codes : y.mine.code[q] = NoCode \/ tx[u].mine.code[q] = NoCode
    BY <1>1, <2>2, <2>3, <2>5, <2>6, <2>7, ItsCodesAreItsOwn
  <2>16. QED
    BY <2>7, <2>13, <2>14, <2>15, AStatementIsItsOwn
<1>5. QED
  BY <1>3, <1>4

-----------------------------------------------------------------------------
(* The end of a transaction *)

(* Nothing of a call that ends without a commit is left.                   *)
LEMMA GivingUpKeepsIInv == ASSUME IInv, NEW t \in Txs, Rollback(t) \/ Lost(t) PROVE IInv'
<1>1. tx' = [tx EXCEPT ![t] = Idle] /\ UNCHANGED <<data, begun>>
  BY DEF Rollback, Lost, Close
<1>2. Idle.locks = {} /\ Idle.mine = NoWrites
  BY DEF Idle
<1>3. Idle \in Tx /\ TxOK(Idle, passState, codes, held)
  BY IdleStands
<1>4. begun' \in 0..MaxBegun
  BY <1>1 DEF IInv, TypeOK
<1>5. QED
  BY <1>1, <1>2, <1>3, <1>4, NoWritesAreWrites, AStatementIsItsOwn


(* Two states of the rows that agree on everything of pass p.              *)
AgreeOn(p, ps, cs, hs, ps2, cs2, hs2) ==
    /\ ps2[p] = ps[p]
    /\ \A q \in Codes : \/ cs2[q] = cs[q]
                        \/ /\ cs[q] # NoCode => cs[q].pass # p
                           /\ cs2[q] # NoCode => cs2[q].pass # p
    /\ \A h : h[2] = p => (h \in hs2 <=> h \in hs)

LEMMA WhatAPassHolds ==
    ASSUME NEW p, NEW ps, NEW cs, NEW hs, NEW ps2, NEW cs2, NEW hs2,
           AgreeOn(p, ps, cs, hs, ps2, cs2, hs2), HoldsAs(cs, hs, p), NothingLeftOn(ps, cs, hs, p)
    PROVE  HoldsAs(cs2, hs2, p) /\ NothingLeftOn(ps2, cs2, hs2, p)
<1>1. \A q \in Codes : cs2[q] # NoCode /\ cs2[q].pass = p => cs2[q] = cs[q]
  BY DEF AgreeOn
<1>2. \A q \in Codes : cs[q] # NoCode /\ cs[q].pass = p => cs2[q] = cs[q]
  BY DEF AgreeOn
<1>3. \A h : h[2] = p => (h \in hs2 <=> h \in hs)
  BY DEF AgreeOn
<1>4. \A g, car : <<g, p, car>> \in hs2 <=> <<g, p, car>> \in hs
  BY <1>3
<1>5. \A h \in hs2 : h[2] = p =>
        /\ \E q \in Codes : cs2[q] # NoCode /\ cs2[q].pass = p /\ Bound(cs2[q]) = h[3]
        /\ \A g \in GaragesOf[p] : <<g, p, h[3]>> \in hs2
  BY <1>2, <1>3, <1>4 DEF HoldsAs
<1>6. HoldsAs(cs2, hs2, p)
  BY <1>1, <1>4, <1>5 DEF HoldsAs
<1>7. NothingLeftOn(ps2, cs2, hs2, p)
  BY <1>1, <1>3 DEF NothingLeftOn, AgreeOn
<1>8. QED
  BY <1>6, <1>7

(* What stands for a transaction rests on the rows of its own pass.        *)
LEMMA ItsOwnPassOnly ==
    ASSUME NEW y \in Tx, y.call \in Calls, NEW ps, NEW cs, NEW hs, NEW ps2, NEW cs2, NEW hs2,
           TxOK(y, ps, cs, hs), y.locks # {}, PassIn(y) \in Passes,
           AgreeOn(PassIn(y), ps, cs, hs, ps2, cs2, hs2),
           \A q \in Codes : y.mine.code[q] # NoCode => cs2[q] = cs[q]
    PROVE  TxOK(y, ps2, cs2, hs2)
<1> DEFINE p == PassIn(y)
           c == y.call
<1>1. c \in Call /\ c.code \in Codes /\ c.new \in Codes /\ c.verb \in Verbs
  BY CallsAssumption DEF Call
<1>2. ps2[p] = ps[p]
  BY DEF AgreeOn
<1>3. c.verb \notin {"issue", "revoke"} =>
        cs2[c.code] = cs[c.code] /\ cs[c.code] # NoCode /\ cs[c.code].pass = p
  BY <1>1 DEF TxOK, OnItsCode, AgreeOn
<1>4. Stands(y) /\ CanGoBack(y) /\ OnItsCode(y, cs2)
  BY <1>3 DEF TxOK, OnItsCode
<1>5. OnOnePass(y, ps2, cs2)
  BY DEF TxOK, OnOnePass
<1>6. MidWay(y, ps2, cs2)
  <2> SUFFICES ASSUME y.pc \in {"mint", "insert", "spend"} PROVE MidWay(y, ps2, cs2)
    BY DEF MidWay
  <2>1. MidWay(y, ps, cs) /\ Stands(y)
    BY DEF TxOK
  <2>2. Minted(p, c.read) # NoCode
    <3>1. Minted(p, c.read).state = "issued" /\ NoCode.state = "absent"
      BY DEF Minted, NoCode
    <3>2. QED
      BY <3>1
  <2>3. c.verb # "redeem" /\ y.pc = "insert" => cs2[c.new] = cs[c.new]
    BY <1>1, <2>1, <2>2 DEF MidWay
  <2>4. c.verb \in {"redeem", "replace"} => cs2[c.code] = cs[c.code]
    BY <1>3
  <2>5. QED
    BY <1>2, <2>1, <2>3, <2>4 DEF MidWay
<1>7. AgreeOn(p, StatesSeen(y, ps), RowsSeen(y, cs), RegSeen(y, hs),
                 StatesSeen(y, ps2), RowsSeen(y, cs2), RegSeen(y, hs2))
  <2>1. StatesSeen(y, ps2)[p] = StatesSeen(y, ps)[p]
    BY <1>2 DEF StatesSeen
  <2>2. \A q \in Codes : \/ RowsSeen(y, cs2)[q] = RowsSeen(y, cs)[q]
                         \/ /\ RowsSeen(y, cs2)[q] = cs2[q] /\ RowsSeen(y, cs)[q] = cs[q]
                            /\ cs2[q] # cs[q]
    BY DEF RowsSeen
  <2>3. \A h : h[2] = p => (h \in RegSeen(y, hs2) <=> h \in RegSeen(y, hs))
    BY DEF RegSeen, AgreeOn
  <2>4. QED
    BY <2>1, <2>2, <2>3 DEF AgreeOn
<1>8. Settled(y, ps2, cs2, hs2)
  BY <1>7, WhatAPassHolds DEF TxOK, Settled
<1>9. TellsTheTruth(y, ps2, cs2, hs2)
  <2> SUFFICES ASSUME y.out \in {"recognised", "redeemed"} /\ y.pc \in {"keep", "done"}
               PROVE  TellsTheTruth(y, ps2, cs2, hs2)
    BY DEF TellsTheTruth
  <2> DEFINE q == RowsSeen(y, cs)[c.code]
  <2>1. c.verb \in {"redeem", "confirm"}
    BY DEF TxOK, TellsTheTruth
  <2>2. cs2[c.code] = cs[c.code] /\ cs[c.code].pass = p
    BY <1>3, <2>1
  <2>3. RowsSeen(y, cs2)[c.code] = q
    BY <1>1, <2>2 DEF RowsSeen
  <2>4. q.pass = p
    BY <1>1, <2>2 DEF RowsSeen, TxOK, OnOnePass
  <2>5. Usable(q, RegSeen(y, hs2), c) <=> Usable(q, RegSeen(y, hs), c)
    <3>1. \A g, car : <<g, p, car>> \in RegSeen(y, hs2) <=> <<g, p, car>> \in RegSeen(y, hs)
      BY <1>7 DEF AgreeOn
    <3>2. QED
      BY <2>4, <3>1 DEF Usable
  <2> HIDE DEF q
  <2>6. Verdict(q, RegSeen(y, hs2), c) = Verdict(q, RegSeen(y, hs), c)
    BY <2>5 DEF Verdict
  <2>7. QED
    BY <1>2, <2>2, <2>3, <2>6 DEF TxOK, TellsTheTruth, q
<1>10. KeepsItsAnswers(y, cs2)
  <2>1. y.pc = "keep" => c.verb = "redeem"
    BY DEF TxOK, Stands
  <2>2. \A r : Answers(y, r) => c.verb \in {"redeem", "confirm"}
    BY DEF Answers
  <2>3. QED
    BY <1>1, <1>3, <2>1, <2>2 DEF TxOK, KeepsItsAnswers
<1>11. QED
  BY <1>4, <1>5, <1>6, <1>8, <1>9, <1>10 DEF TxOK

(* Without a lock it has written nothing, and knows a QR by its pass.      *)
LEMMA UnlockedAnyRows ==
    ASSUME NEW y \in Tx, NEW ps, NEW cs, NEW hs, NEW ps2, NEW cs2, NEW hs2,
           TxOK(y, ps, cs, hs), y.locks = {},
           \A q \in Codes : cs[q] # NoCode => cs2[q] # NoCode /\ cs2[q].pass = cs[q].pass
    PROVE  TxOK(y, ps2, cs2, hs2)
<1>1. /\ Stands(y) /\ CanGoBack(y) /\ y.mine = NoWrites
      /\ y.pc \notin {"judge", "mint", "insert", "spend", "keep"}
  BY DEF TxOK, Stands
<1>2. OnItsCode(y, cs2)
  <2>1. y.call \in Calls => y.call.code \in Codes
    BY CallsAssumption DEF Call
  <2>2. QED
    BY <2>1 DEF TxOK, OnItsCode
<1>3. OnOnePass(y, ps2, cs2) /\ MidWay(y, ps2, cs2) /\ Settled(y, ps2, cs2, hs2)
  BY <1>1, NoWritesAreWrites DEF OnOnePass, MidWay, Settled
<1>4. y.pc = "done" => y.out \notin {"recognised", "redeemed"} /\ y.call.verb # "confirm"
  BY DEF TxOK, Stands, TellsTheTruth
<1>5. TellsTheTruth(y, ps2, cs2, hs2)
  BY <1>1, <1>4 DEF TellsTheTruth
<1>6. KeepsItsAnswers(y, cs2)
  BY <1>1, <1>4, NoWritesAreWrites DEF KeepsItsAnswers, Answers
<1>7. QED
  BY <1>1, <1>2, <1>3, <1>5, <1>6 DEF TxOK

(* A commit changes the rows of the one pass it locks, by the rows it      *)
(* wrote, and frees the connection.                                        *)
Committed(t) ==
    LET x == tx[t] IN
    /\ passState' = StatesSeen(x, passState) /\ codes' = RowsSeen(x, codes)
    /\ held' = RegSeen(x, held) /\ begun' = begun /\ tx' = [tx EXCEPT ![t] = Idle]

LEMMA CommitIsCommitted == ASSUME NEW t \in Txs, Commit(t) PROVE Committed(t)
  BY DEF Commit, Committed, Close, StatesSeen, RowsSeen, RegSeen, PassSeen, CodeSeen, HeldSeen

LEMMA CommittingNothing ==
    ASSUME IInv, NEW t \in Txs, Commit(t), tx[t].mine = NoWrites PROVE UNCHANGED data
<1>1. Committed(t)
  BY CommitIsCommitted
<1>2. passState' = passState
  BY <1>1, NoWritesAreWrites DEF Committed, StatesSeen, IInv, TypeOK
<1>3. codes' = codes
  BY <1>1, NoWritesAreWrites DEF Committed, RowsSeen, IInv, TypeOK
<1>4. held' = held
  BY <1>1, NoWritesAreWrites DEF Committed, RegSeen
<1>5. QED
  BY <1>2, <1>3, <1>4 DEF data

LEMMA CommitIsOfOnePass ==
    ASSUME IInv, NEW t \in Txs, Commit(t)
    PROVE  LET x == tx[t] IN
           /\ \A p \in Passes \ {PassIn(x)} :
                AgreeOn(p, passState, codes, held, passState', codes', held')
           /\ \A q \in Codes :
                \/ x.mine.code[q] = NoCode /\ codes'[q] = codes[q]
                \/ /\ x.mine.code[q] # NoCode /\ codes'[q] = x.mine.code[q]
                   /\ codes'[q] \in Code /\ BoundIfUsed(codes'[q]) /\ codes'[q].pass = PassIn(x)
                   /\ codes[q] # NoCode => Advances(codes[q], codes'[q])
<1> DEFINE x == tx[t]
<1>1. Committed(t) /\ x \in Tx /\ OnOnePass(x, passState, codes)
  BY CommitIsCommitted DEF IInv, TypeOK, TxOK
<1>2. x.mine.code \in [Codes -> Code \cup {NoCode}]
  BY <1>1 DEF Tx, Writes
<1>3. \A q \in Codes :
        \/ x.mine.code[q] = NoCode /\ codes'[q] = codes[q]
        \/ /\ x.mine.code[q] # NoCode /\ codes'[q] = x.mine.code[q]
           /\ codes'[q] \in Code /\ BoundIfUsed(codes'[q]) /\ codes'[q].pass = PassIn(x)
           /\ codes[q] # NoCode => Advances(codes[q], codes'[q])
  BY <1>1, <1>2 DEF Committed, RowsSeen, OnOnePass
<1>4. ASSUME NEW p \in Passes \ {PassIn(x)}
      PROVE  AgreeOn(p, passState, codes, held, passState', codes', held')
  <2>1. passState'[p] = passState[p]
    BY <1>1 DEF Committed, StatesSeen, OnOnePass
  <2>2. \A q \in Codes : \/ codes'[q] = codes[q]
                         \/ /\ codes[q] # NoCode => codes[q].pass # p
                            /\ codes'[q] # NoCode => codes'[q].pass # p
    BY <1>3 DEF Advances
  <2>3. \A h : h[2] = p => (h \in held' <=> h \in held)
    BY <1>1 DEF Committed, RegSeen, OnOnePass
  <2>4. QED
    BY <2>1, <2>2, <2>3 DEF AgreeOn
<1>5. QED
  BY <1>3, <1>4

LEMMA CommitKeepsIInv == ASSUME IInv, NEW t \in Txs, Commit(t) PROVE IInv'
<1> DEFINE x == tx[t]
           P == PassIn(x)
<1>1. /\ Committed(t) /\ x \in Tx /\ TxOK(x, passState, codes, held)
      /\ x.pc \in {"done", "refused"}
  BY CommitIsCommitted DEF Commit, IInv, TypeOK
<1>2. /\ tx \in [Txs -> Tx] /\ Idle \in Tx /\ TxOK(Idle, passState', codes', held')
      /\ Idle.locks = {} /\ Idle.mine = NoWrites
  BY IdleStands DEF Idle, IInv, TypeOK
<1>3. CASE x.mine = NoWrites
  <2>1. UNCHANGED data
    BY <1>3, CommittingNothing
  <2>2. Idle \in Tx /\ TxOK(Idle, passState, codes, held)
    BY IdleStands
  <2>3. tx' = [tx EXCEPT ![t] = Idle] /\ begun' \in 0..MaxBegun
    BY <1>1 DEF Committed, IInv, TypeOK
  <2>4. QED
    BY <1>2, <2>1, <2>2, <2>3, NoWritesAreWrites, AStatementIsItsOwn
<1>4. CASE x.mine # NoWrites
  <2>1. x.pc = "done" /\ x.locks # {}
    BY <1>1, <1>4 DEF TxOK, Stands
  <2>2. P \in Passes
    BY <2>1, ItsPass
  <2>3. /\ \A p \in Passes \ {P} : AgreeOn(p, passState, codes, held, passState', codes', held')
        /\ \A q \in Codes :
             \/ x.mine.code[q] = NoCode /\ codes'[q] = codes[q]
             \/ /\ x.mine.code[q] # NoCode /\ codes'[q] = x.mine.code[q]
                /\ codes'[q] \in Code /\ BoundIfUsed(codes'[q]) /\ codes'[q].pass = P
                /\ codes[q] # NoCode => Advances(codes[q], codes'[q])
    BY CommitIsOfOnePass
  <2>4. TypeOK'
    <3>1. passState' \in [Passes -> PassStates]
      BY <1>1 DEF Committed, StatesSeen, IInv, TypeOK, Tx, Writes
    <3>2. codes' \in [Codes -> Code \cup {NoCode}]
      BY <1>1 DEF Committed, RowsSeen, IInv, TypeOK, Tx, Writes
    <3>3. \A q \in Codes : codes'[q] # NoCode => BoundIfUsed(codes'[q])
      BY <2>3 DEF IInv, TypeOK
    <3>4. held' \subseteq Held
      BY <1>1 DEF Committed, RegSeen, IInv, TypeOK, Tx, Writes
    <3>5. begun' \in 0..MaxBegun /\ tx' \in [Txs -> Tx]
      BY <1>1, <1>2 DEF Committed, IInv, TypeOK
    <3>6. QED
      BY <3>1, <3>2, <3>3, <3>4, <3>5 DEF TypeOK
  <2>5. \A p \in Passes : /\ HoldsAs(codes, held, p)
                          /\ NothingLeftOn(passState, codes, held, p)
    BY DEF IInv, HeldByItsCode, RevokedLeavesNothingLive
  <2>6. \A p \in Passes : /\ HoldsAs(codes', held', p)
                          /\ NothingLeftOn(passState', codes', held', p)
    <3> TAKE p \in Passes
    <3>1. CASE p = P
      BY <1>1, <1>4, <2>1, <3>1 DEF TxOK, Settled, Committed
    <3>2. CASE p # P
      BY <2>3, <2>5, <3>2, WhatAPassHolds
    <3>3. QED
      BY <3>1, <3>2
  <2>7. HeldByItsCode' /\ RevokedLeavesNothingLive'
    BY <2>6 DEF HeldByItsCode, RevokedLeavesNothingLive
  <2>8. \A v \in Txs : tx'[v] = IF v = t THEN Idle ELSE tx[v]
    BY <1>1, <1>2 DEF Committed
  <2>9. ASSUME NEW v \in Txs \ {t} PROVE TxOK(tx[v], passState', codes', held')
    <3> DEFINE y == tx[v]
    <3>1. y \in Tx /\ TxOK(y, passState, codes, held)
      BY DEF IInv, TypeOK
    <3>2. CASE y.locks = {}
      <4>1. \A q \in Codes : codes[q] # NoCode => codes'[q] # NoCode /\ codes'[q].pass = codes[q].pass
        BY <2>3, ARowIsThere DEF Advances
      <4>2. QED
        BY <3>1, <3>2, <4>1, UnlockedAnyRows
    <3>3. CASE y.locks # {}
      <4>1. PassIn(y) \in Passes \ {P}
        BY <2>1, <3>3, ItsPass, OnePassEach
      <4>2. \A q \in Codes : y.mine.code[q] # NoCode => codes'[q] = codes[q]
        BY <2>3 DEF IInv, WritesApart
      <4>3. y.pc # "idle"
        BY <3>1, <3>3 DEF TxOK, Stands, Idle
      <4>4. y.call \in Calls
        BY <3>1, <4>3 DEF TxOK, Stands
      <4>5. AgreeOn(PassIn(y), passState, codes, held, passState', codes', held')
        BY <2>3, <4>1
      <4>6. QED
        BY <3>1, <3>3, <4>1, <4>2, <4>4, <4>5, ItsOwnPassOnly
    <3>4. QED
      BY <3>2, <3>3
  <2>10. \A v \in Txs : TxOK(tx'[v], passState', codes', held')
    BY <1>2, <2>8, <2>9
  <2>11. LocksApart'
    BY <1>2, <2>8 DEF IInv, LocksApart
  <2>12. WritesApart'
    BY <1>2, <2>8, NoWritesAreWrites DEF IInv, WritesApart
  <2>13. QED
    BY <2>4, <2>7, <2>10, <2>11, <2>12 DEF IInv
<1>5. QED
  BY <1>3, <1>4


-----------------------------------------------------------------------------
(* The specification *)

LEMMA InitIInv == Init => IInv
<1> SUFFICES ASSUME Init PROVE IInv
  OBVIOUS
<1>1. \A t \in Txs : tx[t] = Idle
  BY DEF Init
<1>2. TypeOK
  BY IdleStands, StartAssumption, BoundAssumption DEF Init, TypeOK
<1>3. HeldByItsCode /\ RevokedLeavesNothingLive
  BY StartStands DEF Init, HeldByItsCode, RevokedLeavesNothingLive
<1>4. \A t \in Txs : TxOK(tx[t], passState, codes, held)
  BY <1>1, IdleStands
<1>5. LocksApart /\ WritesApart
  BY <1>1, NoWritesAreWrites DEF LocksApart, WritesApart, Idle
<1>6. QED
  BY <1>2, <1>3, <1>4, <1>5 DEF IInv

LEMMA NextKeepsIInv == IInv /\ [Next]_vars => IInv'
<1>1. ASSUME IInv, UNCHANGED vars PROVE IInv'
  BY <1>1 DEF vars, IInv, TypeOK, HeldByItsCode, RevokedLeavesNothingLive, LocksApart, WritesApart
<1>2. ASSUME IInv, NEW t \in Txs, Begin(t) PROVE IInv'
  BY <1>2, BeginKeepsIInv
<1>3. ASSUME IInv, NEW t \in Txs, Glimpse(t) \/ Lock(t) PROVE IInv'
  BY <1>3, GlimpseKeepsIInv, LockKeepsIInv
<1>4. ASSUME IInv, NEW t \in Txs, JudgeRedeem(t) \/ KeepThePass(t) PROVE IInv'
  BY <1>4, JudgeRedeemKeepsIInv, KeepThePassKeepsIInv
<1>5. ASSUME IInv, NEW t \in Txs, InsertRow(t) \/ SpendTheCode(t) PROVE IInv'
  BY <1>5, InsertRowKeepsIInv, SpendTheCodeKeepsIInv
<1>6. ASSUME IInv, NEW t \in Txs, JudgeConfirm(t) \/ JudgeCancel(t) PROVE IInv'
  BY <1>6, JudgeConfirmKeepsIInv, JudgeCancelKeepsIInv
<1>7. ASSUME IInv, NEW t \in Txs, JudgeReplace(t) \/ Mint(t) \/ RevokePass(t) PROVE IInv'
  BY <1>7, JudgeReplaceKeepsIInv, MintKeepsIInv, RevokePassKeepsIInv
<1>8. ASSUME IInv, NEW t \in Txs, Commit(t) PROVE IInv'
  BY <1>8, CommitKeepsIInv
<1>9. ASSUME IInv, NEW t \in Txs, Rollback(t) \/ Lost(t) PROVE IInv'
  BY <1>9, GivingUpKeepsIInv
<1>10. QED
  BY <1>1, <1>2, <1>3, <1>4, <1>5, <1>6, <1>7, <1>8, <1>9 DEF Next, Statement

LEMMA Invariance == Spec => []IInv
<1>1. QED
  BY InitIInv, NextKeepsIInv, PTL DEF Spec

(* Rows, writes, locks and savepoints keep their types, in any number of   *)
(* connections.                                                            *)
THEOREM SpendsTypeCorrect == Spec => []TypeOK
<1>1. IInv => TypeOK
  BY DEF IInv
<1>2. QED
  BY <1>1, Invariance, PTL

(* All of the writes or none: no refusal halfway, no crash and no race     *)
(* leaves a car held without its QR, at one garage only, or a live bound   *)
(* QR whose car is not held.                                               *)
THEOREM AllOfTheWritesOrNone == Spec => []HeldByItsCode
<1>1. IInv => HeldByItsCode
  BY DEF IInv
<1>2. QED
  BY <1>1, Invariance, PTL

(* Whoever races the revocation of a pass, nothing of it stays live or     *)
(* held.                                                                   *)
THEOREM ARevokedPassIsEmpty == Spec => []RevokedLeavesNothingLive
<1>1. IInv => RevokedLeavesNothingLive
  BY DEF IInv
<1>2. QED
  BY <1>1, Invariance, PTL


-----------------------------------------------------------------------------
(* What a step may never do *)

(* Nothing becomes visible but by a commit, one at a time.                 *)
LEMMA OnlyACommitShows ==
    ASSUME [Next]_vars, \A t \in Txs : ~Commit(t) PROVE UNCHANGED data
<1>1. CASE UNCHANGED vars
  BY <1>1 DEF vars, data
<1>2. ASSUME NEW t \in Txs, Begin(t) \/ Lost(t) \/ Rollback(t) PROVE UNCHANGED data
  BY <1>2 DEF Begin, Lost, Rollback
<1>3. ASSUME NEW t \in Txs, Glimpse(t) \/ Lock(t) \/ InsertRow(t) \/ SpendTheCode(t)
      PROVE  UNCHANGED data
  BY <1>3 DEF Glimpse, Lock, InsertRow, SpendTheCode, Refuse, Sets
<1>4. ASSUME NEW t \in Txs, JudgeRedeem(t) \/ KeepThePass(t) PROVE UNCHANGED data
  BY <1>4 DEF JudgeRedeem, KeepThePass, Refuse, Sets
<1>5. ASSUME NEW t \in Txs, JudgeConfirm(t) \/ JudgeCancel(t) \/ JudgeReplace(t)
      PROVE  UNCHANGED data
  BY <1>5 DEF JudgeConfirm, JudgeCancel, JudgeReplace, Refuse, Sets
<1>6. ASSUME NEW t \in Txs, Mint(t) \/ RevokePass(t) PROVE UNCHANGED data
  BY <1>6 DEF Mint, RevokePass, Refuse, Sets
<1>7. QED
  BY <1>1, <1>2, <1>3, <1>4, <1>5, <1>6 DEF Next, Statement

LEMMA OneCommitAtATime ==
    ASSUME TypeOK, NEW t \in Txs, NEW u \in Txs, Commit(t), Commit(u) PROVE t = u
<1>1. tx' = [tx EXCEPT ![t] = Idle] /\ tx' = [tx EXCEPT ![u] = Idle]
  BY DEF Commit, Close
<1>2. tx[t].pc # Idle.pc
  BY DEF Commit, Idle
<1>3. QED
  BY <1>1, <1>2 DEF TypeOK

(* The rows a committing transaction wrote are what a lane was told.       *)
LEMMA WhatACommitTells ==
    ASSUME IInv, NEW t \in Txs, Commit(t), tx[t].out \in {"recognised", "redeemed"}
    PROVE  LET x == tx[t]
               q == codes[x.call.code] IN
           /\ x.pc = "done" /\ x.call \in Call /\ q # NoCode /\ q.pass = PassIn(x)
           /\ TellsTheTruth(x, passState, codes, held) /\ Committed(t)
<1> DEFINE x == tx[t]
<1>1. Committed(t) /\ TxOK(x, passState, codes, held)
  BY CommitIsCommitted DEF IInv
<1>2. x.pc = "done"
  BY <1>1 DEF Commit, TxOK, Stands
<1>3. x.locks # {} /\ x.call.verb \in {"redeem", "confirm"}
  BY <1>1, <1>2 DEF TxOK, TellsTheTruth
<1>4. QED
  BY <1>1, <1>2, <1>3, ItsQR DEF TxOK

(* Whichever lanes and desks meet on a QR, the car it bound stays bound,   *)
(* a cancelled QR cancelled, and a replaced car never enters again.        *)
THEOREM OneCredentialOneSpend == Spec => AQRBindsOneCar
<1>1. IInv /\ [Next]_vars => AQRBindsOneCarStep
  <2> SUFFICES ASSUME IInv, [Next]_vars PROVE AQRBindsOneCarStep
    OBVIOUS
  <2>1. CASE \A t \in Txs : ~Commit(t)
    BY <2>1, OnlyACommitShows DEF AQRBindsOneCarStep, data
  <2>2. ASSUME NEW t \in Txs, Commit(t) PROVE AQRBindsOneCarStep
    <3>1. \A q \in Codes : codes[q] # NoCode =>
            codes'[q] = codes[q] \/ Advances(codes[q], codes'[q])
      BY <2>2, CommitIsOfOnePass
    <3>2. QED
      BY <3>1 DEF AQRBindsOneCarStep, Known, Advances
  <2>3. QED
    BY <2>1, <2>2
<1>2. QED
  BY <1>1, Invariance, PTL DEF Spec, AQRBindsOneCar

(* A caller that commits after a refusal commits nothing of it.            *)
THEOREM RefusalsLeaveNoTrace == Spec => ARefusalWritesNothing
<1>1. IInv /\ [Next]_vars => ARefusalWritesNothingStep
  <2> SUFFICES ASSUME IInv, NEW t \in Txs, Commit(t), tx[t].out = "refused",
                      tx[t].call.verb # "confirm"
               PROVE  UNCHANGED data
    BY DEF ARefusalWritesNothingStep
  <2>1. tx[t].mine = NoWrites
    BY DEF IInv, TxOK, Stands
  <2>2. QED
    BY <2>1, CommittingNothing
<1>2. QED
  BY <1>1, Invariance, PTL DEF Spec, ARefusalWritesNothing

(* A lane that opened opened on a QR, a pass and a car that stood when the *)
(* answer was committed.                                                   *)
THEOREM OpeningsStand == Spec => OpensOnlyWhatStands
<1>1. IInv /\ [Next]_vars => OpensOnlyWhatStandsStep
  <2> SUFFICES ASSUME IInv, NEW t \in Txs, Commit(t), tx[t].out \in {"recognised", "redeemed"}
               PROVE  LET q == codes[tx[t].call.code] IN
                      /\ q.state # "cancelled" /\ passState[q.pass] # "revoked"
                      /\ tx[t].call.dir = "entry" => ~q.exitOnly
    BY DEF OpensOnlyWhatStandsStep
  <2>1. QED
    BY WhatACommitTells DEF TellsTheTruth
<1>2. QED
  BY <1>1, Invariance, PTL DEF Spec, OpensOnlyWhatStands

(* A lane that never heard its answer asks again, and is let through.      *)
THEOREM RetriesAreRecognised == Spec => ARetryIsRecognised
<1>1. IInv /\ [Next]_vars => ARetryIsRecognisedStep
  <2> SUFFICES ASSUME IInv, NEW t \in Txs, Commit(t), tx[t].call.verb = "redeem",
                      tx[t].out \in {"recognised", "redeemed"}
               PROVE  LET q == codes'[tx[t].call.code] IN
                      Bound(q) # NoCar /\ Verdict(q, held', tx[t].call) = "recognised"
    BY DEF ARetryIsRecognisedStep
  <2>1. QED
    BY WhatACommitTells DEF TellsTheTruth, Committed
<1>2. QED
  BY <1>1, Invariance, PTL DEF Spec, ARetryIsRecognised

(* Every answer a lane and its operator gave is one more record on the QR, *)
(* whatever ran in between, and no step removes or rewrites one.           *)
THEOREM AnswersAccumulate == Spec => EveryAnswerIsKept
<1> DEFINE Answered(q) ==
             { t \in Txs : Commit(t) /\ tx[t].call.code = q /\
                 \/ tx[t].call.verb = "confirm" /\ tx[t].pc = "done"
                 \/ tx[t].call.verb = "redeem" /\ tx[t].out = "recognised"
                      /\ PassedBy(codes[q], tx[t].call.read) \in {"near", "nothing"} }
<1>1. IInv /\ [Next]_vars => EveryAnswerIsKeptStep
  <2> SUFFICES ASSUME IInv, [Next]_vars, NEW q \in Codes, codes[q] # NoCode
               PROVE  codes'[q].kept - codes[q].kept = Cardinality(Answered(q))
    BY DEF EveryAnswerIsKeptStep, Known
  <2>1. codes[q].kept \in Nat
    BY DEF IInv, TypeOK, Code
  <2>2. CASE \A t \in Txs : ~Commit(t)
    <3>1. Answered(q) = {} /\ codes' = codes
      BY <2>2, OnlyACommitShows DEF data
    <3>2. QED
      BY <2>1, <3>1, FS_EmptySet
  <2>3. ASSUME NEW t \in Txs, Commit(t)
        PROVE  codes'[q].kept - codes[q].kept = Cardinality(Answered(q))
    <3> DEFINE x == tx[t]
               yes == x.call.code = q /\ Answers(x, codes[q])
    <3>1. /\ Committed(t) /\ Stands(x) /\ KeepsItsAnswers(x, codes)
          /\ x.pc \in {"done", "refused"}
      BY <2>3, CommitIsCommitted DEF IInv, TxOK, Commit
    <3>2. Answered(q) = IF yes THEN {t} ELSE {}
      <4>1. \A u \in Answered(q) : u = t
        BY <2>3, OneCommitAtATime DEF IInv
      <4>2. t \in Answered(q) <=> yes
        BY <2>3 DEF Answers
      <4>3. QED
        BY <4>1, <4>2
    <3>3. yes => x.pc = "done"
      BY <3>1 DEF Stands, Answers
    <3>4. x.mine.code[q] # NoCode => x.pc = "done"
      BY <3>1, NoWritesAreWrites DEF Stands
    <3>5. codes'[q].kept = codes[q].kept + IF yes THEN 1 ELSE 0
      <4>1. CASE x.mine.code[q] = NoCode
        <5>1. codes'[q] = codes[q]
          BY <3>1, <4>1 DEF Committed, RowsSeen
        <5>2. ~yes
          BY <3>1, <3>3, <4>1 DEF KeepsItsAnswers
        <5>3. QED
          BY <2>1, <5>1, <5>2
      <4>2. CASE x.mine.code[q] # NoCode
        BY <3>1, <3>4, <4>2 DEF Committed, RowsSeen, KeepsItsAnswers
      <4>3. QED
        BY <4>1, <4>2
    <3>6. Cardinality(Answered(q)) = IF yes THEN 1 ELSE 0
      BY <3>2, FS_EmptySet, FS_Singleton
    <3> HIDE DEF yes, Answered
    <3>7. QED
      BY <2>1, <3>5, <3>6
  <2>4. QED
    BY <2>2, <2>3
<1>2. QED
  BY <1>1, Invariance, PTL DEF Spec, EveryAnswerIsKept
=============================================================================
