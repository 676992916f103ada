----------------------------- MODULE LaneProofs -----------------------------
(***************************************************************************)
(* Proofs about the lane's answer from the store, for every register,      *)
(* every set of credentials, every clock and every terms of the passes.    *)
(*                                                                         *)
(* What the store hands the engine is a faithful list of the rows of the   *)
(* car: every row once, every pass they name once, every other garage of   *)
(* those passes once.  So one car on one pass in the register is one pass  *)
(* in force in the engine, and nothing the engine needs is left out: what  *)
(* it lacks is what the answering system cannot read of it.                *)
(*                                                                         *)
(* And about the comparison of a plate a lane reads with the plate a QR    *)
(* was made for: what passes by one difference is one character away.      *)
(***************************************************************************)
EXTENDS Lane, Plates, EnrolmentsProofs, SequenceTheorems

-----------------------------------------------------------------------------
(* Sequences of a set's members. *)

(* s lists the members of S, each once.                                    *)
Lists(s, S) ==
    /\ s \in [DOMAIN s -> S]
    /\ \A j, k \in DOMAIN s : s[j] = s[k] => j = k
    /\ \A x \in S : \E k \in DOMAIN s : s[k] = x
    /\ DOMAIN s = 1..Cardinality(S)

LEMMA ListedMembers ==
    ASSUME NEW s, NEW S, Lists(s, S)
    PROVE  /\ \A k \in DOMAIN s : s[k] \in S
           /\ \A j, k \in DOMAIN s : s[j] = s[k] => j = k
           /\ \A x \in S : \E k \in DOMAIN s : s[k] = x
           /\ DOMAIN s \subseteq Nat
BY DEF Lists

LEMMA EnumerationsList ==
    ASSUME NEW S, IsFiniteSet(S), NEW s \in SetToSeqs(S) PROVE Lists(s, S)
  <1> DEFINE n == Cardinality(S)
  <1>1. n \in Nat /\ IsFiniteSet(1..n) /\ Cardinality(1..n) = n
    BY FS_CardinalityType, FS_Interval
  <1>2. s \in [1..n -> S] /\ \A j, k \in 1..n : s[j] = s[k] => j = k
    BY DEF SetToSeqs
  <1> HIDE DEF n
  <1>3. s \in Injection(1..n, S)
    BY <1>2 DEF Injection, IsInjective
  <1>4. \A x \in S : \E k \in 1..n : s[k] = x
    BY <1>1, <1>3, FS_Injection DEF Surjection, n
  <1> QED BY <1>2, <1>4 DEF Lists, n

LEMMA SetToSeqLists ==
    ASSUME NEW S, IsFiniteSet(S) PROVE Lists(SetToSeq(S), S)
  <1> DEFINE n == Cardinality(S)
  <1>1. PICK f : f \in Bijection(1..n, S)
    BY FS_CardinalityType DEF ExistsBijection
  <1>2. f \in [1..n -> S] /\ \A j, k \in DOMAIN f : f[j] = f[k] => j = k
    BY <1>1 DEF Bijection, Injection, IsInjective
  <1>3. SetToSeq(S) \in SetToSeqs(S)
    BY <1>2 DEF SetToSeq, SetToSeqs, IsInjective
  <1> QED BY <1>3, EnumerationsList

(* The rows by day and the visits by entry list what was read.             *)
LEMMA ByDayLists ==
    ASSUME NEW rows, IsFiniteSet(rows), \A r \in rows : r.from \in Int
    PROVE  Lists(ByDay(rows), rows)
  <1> DEFINE n   == Cardinality(rows)
             key == [r \in rows |-> r.from]
             Sorted(s) == \A j, k \in DOMAIN s : j < k => s[j].from <= s[k].from
  <1>1. PICK s : Listing(rows, key, s) BY ListedInOrder
  <1>2. /\ s \in [1..n -> rows] /\ \A j, k \in 1..n : s[j] = s[k] => j = k
        /\ \A j, k \in 1..n : j < k => s[j].from <= s[k].from
    BY <1>1 DEF Listing
  <1>3. s \in SetToSeqs(rows) /\ Sorted(s)
    BY <1>2 DEF SetToSeqs
  <1>4. ByDay(rows) \in SetToSeqs(rows)
    BY <1>3 DEF ByDay
  <1> QED BY <1>4, EnumerationsList

LEMMA ByEntryLists ==
    ASSUME NEW visits, IsFiniteSet(visits), \A v \in visits : v.enteredAt \in Int
    PROVE  Lists(ByEntry(visits), visits)
  <1> DEFINE n   == Cardinality(visits)
             key == [v \in visits |-> v.enteredAt]
             Sorted(s) == \A j, k \in DOMAIN s : j < k => s[j].enteredAt <= s[k].enteredAt
  <1>1. PICK s : Listing(visits, key, s) BY ListedInOrder
  <1>2. /\ s \in [1..n -> visits] /\ \A j, k \in 1..n : s[j] = s[k] => j = k
        /\ \A j, k \in 1..n : j < k => s[j].enteredAt <= s[k].enteredAt
    BY <1>1 DEF Listing
  <1>3. s \in SetToSeqs(visits) /\ Sorted(s)
    BY <1>2 DEF SetToSeqs
  <1>4. ByEntry(visits) \in SetToSeqs(visits)
    BY <1>3 DEF ByEntry
  <1> QED BY <1>4, EnumerationsList

-----------------------------------------------------------------------------
(* What is handed in. *)

(* The rows of a car at a garage: rows of the register, a finite number.   *)
LEMMA RowsOfTheCar ==
    ASSUME IInv, NEW g, NEW c
    PROVE  /\ IsFiniteSet(RowsOf(g, c))
           /\ \A r \in RowsOf(g, c) :
                /\ r \in regs /\ r \in Row /\ r.garage = g /\ r.car = c
                /\ r.from \in Int /\ r.to \in Int /\ r.pass \in Passes
                /\ g \in GaragesOf[r.pass] /\ passState[r.pass] # "absent"
  <1> DEFINE rows == RowsOf(g, c)
             f    == [r \in rows |-> r.reg]
  <1>1. \A r \in rows : /\ r \in regs /\ r \in Row /\ r.garage = g /\ r.car = c
                        /\ r.garage \in GaragesOf[r.pass] /\ passState[r.pass] # "absent"
                        /\ r.reg < written
    BY DEF RowsOf, IInv, TypeOK, OnCreatedPasses, Numbered
  <1>2. written \in Nat BY DEF IInv, TypeOK
  <1>3. \A r \in rows : r.reg \in 0..written BY <1>1, <1>2, RowFields
  <1>4. \A r, s \in rows : r.reg = s.reg => r = s
    BY <1>1 DEF IInv, UniqueKeys
  <1>5. f \in Injection(rows, 0..written)
    BY <1>3, <1>4 DEF Injection, IsInjective
  <1>6. IsFiniteSet(rows) BY <1>2, <1>5, FS_Interval, FS_Injection
  <1> QED BY <1>1, <1>6, RowFields

(* A row handed in is a row of the car, run to the end of the day or as it *)
(* is, and stands for the one row it came from.                            *)
CameFrom(s, r, g, c, d, direction) ==
    /\ s.pass = r.pass /\ s.car = r.car /\ s.from = r.from
    /\ \/ s = r
       \/ /\ direction = "exit" /\ r.to = d /\ s.to = d + 1 /\ r.pass \in CheckedOutOn(g, c, d)
          /\ ~\E x \in RowsOf(g, c) : Covers(x, d)

LEMMA RowsHandedIn ==
    ASSUME IInv, NEW g, NEW c, NEW d \in Int, NEW direction
    PROVE  LET rows == RowsAnswering(g, c, d, direction)
           IN  /\ IsFiniteSet(rows)
               /\ \A s \in rows : s.from \in Int
               /\ \A s \in rows : \E r \in RowsOf(g, c) : CameFrom(s, r, g, c, d, direction)
  <1> DEFINE rows == RowsAnswering(g, c, d, direction)
             own  == RowsOf(g, c)
             k(r) == IF r.pass \in CheckedOutOn(g, c, d) /\ r.to = d
                     THEN [r EXCEPT !.to = d + 1] ELSE r
  <1>1. IsFiniteSet(own) /\ \A r \in own : r \in Row /\ r.from \in Int
    BY RowsOfTheCar
  <1>2. CASE direction = "exit" /\ ~\E r \in own : Covers(r, d)
    <2>1. rows = { k(r) : r \in own } BY <1>2 DEF RowsAnswering
    <2>2. \A r \in own : CameFrom(k(r), r, g, c, d, direction)
      <3> SUFFICES ASSUME NEW r \in own PROVE CameFrom(k(r), r, g, c, d, direction) OBVIOUS
      <3>1. CASE r.pass \in CheckedOutOn(g, c, d) /\ r.to = d
        <4>1. k(r) = [r EXCEPT !.to = d + 1] BY <3>1
        <4>2. /\ k(r).to = d + 1 /\ k(r).pass = r.pass /\ k(r).from = r.from
              /\ k(r).car = r.car
          BY <1>1, <4>1 DEF Row
        <4> HIDE DEF k
        <4> QED BY <1>2, <3>1, <4>2 DEF CameFrom
      <3>2. CASE ~(r.pass \in CheckedOutOn(g, c, d) /\ r.to = d)
        BY <3>2 DEF CameFrom
      <3> QED BY <3>1, <3>2
    <2> DEFINE f == [r \in own |-> k(r)]
    <2>3. IsFiniteSet(rows)
      <3>1. f \in Surjection(own, rows) BY <2>1 DEF Surjection
      <3> QED BY <1>1, <3>1, FS_Surjection
    <2> HIDE DEF k, rows, own
    <2>4. \A s \in rows : \E r \in own : CameFrom(s, r, g, c, d, direction)
      BY <2>1, <2>2
    <2>5. \A s \in rows : s.from \in Int BY <1>1, <2>4 DEF CameFrom
    <2> QED BY <2>3, <2>4, <2>5 DEF rows, own
  <1>3. CASE ~(direction = "exit" /\ ~\E r \in own : Covers(r, d))
    <2>1. rows = own BY <1>3 DEF RowsAnswering
    <2> QED BY <1>1, <2>1 DEF CameFrom
  <1> QED BY <1>2, <1>3

(* The question: the rows in some order, the passes, the visits on them    *)
(* and the other garages of those passes, each once.                       *)
PassesOf(rows) == { r.pass : r \in rows }

HandsIn(q, rows, o, d, sys) ==
    /\ Lists(o, rows)
    /\ q.registrations = [k \in DOMAIN o |-> Handed(o[k], d)]
    /\ Lists(q.passes, { PassHanded(p, sys) : p \in PassesOf(rows) })
    /\ Lists(q.visits, { v \in Recorded : v.pass \in PassesOf(rows) })
    /\ Lists(q.garages, { GarageHanded(h, sys) : h \in OtherGarages(PassesOf(rows), q.garage.id) })

LEMMA TheQuestion ==
    ASSUME IInv, NEW g, NEW c, NEW i, NEW direction, NEW sys, DayAt[i][g] \in Int
    PROVE  LET d == DayAt[i][g]
               q == QuestionFromStore(g, c, i, direction, sys)
               rows == RowsAnswering(g, c, d, direction)
           IN  /\ q.garage = GarageHanded(g, sys) /\ q.identity = c /\ q.lane = "lane"
               /\ q.direction = direction /\ q.at = i /\ q.enteredAt = Unstated
               /\ HandsIn(q, rows, ByDay(rows), d, sys)
  <1> DEFINE d    == DayAt[i][g]
             q    == QuestionFromStore(g, c, i, direction, sys)
             rows == RowsAnswering(g, c, d, direction)
             ps   == PassesOf(rows)
             handed == { PassHanded(p, sys) : p \in ps }
             visits == { v \in Recorded : v.pass \in ps }
             others == { GarageHanded(h, sys) : h \in OtherGarages(ps, g) }
  <1>1. /\ q.garage = GarageHanded(g, sys) /\ q.identity = c /\ q.lane = "lane"
        /\ q.direction = direction /\ q.at = i /\ q.enteredAt = Unstated
        /\ q.registrations = [k \in DOMAIN ByDay(rows) |-> Handed(ByDay(rows)[k], d)]
        /\ q.passes = SetToSeq(handed) /\ q.visits = ByEntry(visits)
        /\ q.garages = SetToSeq(others)
    BY DEF QuestionFromStore, PassesOf
  <1>2. GarageHanded(g, sys).id = g BY DEF GarageHanded
  <1>3. IsFiniteSet(rows) /\ \A s \in rows : s.from \in Int BY RowsHandedIn
  <1>4. \A s \in rows : s.pass \in Passes
    BY RowsHandedIn, RowsOfTheCar DEF CameFrom
  <1> HIDE DEF q, rows
  <1>5. IsFiniteSet(ps) /\ ps \subseteq Passes
    <2>1. [r \in rows |-> r.pass] \in Surjection(rows, ps) BY DEF Surjection, PassesOf
    <2>2. IsFiniteSet(ps) BY <1>3, <2>1, FS_Surjection
    <2> QED BY <1>4, <2>2 DEF PassesOf
  <1>6. IsFiniteSet(handed)
    <2>1. [p \in ps |-> PassHanded(p, sys)] \in Surjection(ps, handed) BY DEF Surjection
    <2> QED BY <1>5, <2>1, FS_Surjection
  <1>7. IsFiniteSet(visits) /\ \A v \in visits : v.enteredAt \in Int
    BY LaneAssumption, FS_Subset
  <1>8. IsFiniteSet(others)
    <2>1. OtherGarages(ps, g) \subseteq Garages
      BY <1>5, PassAssumption DEF OtherGarages
    <2>2. IsFiniteSet(OtherGarages(ps, g)) BY <2>1, LaneAssumption, FS_Subset
    <2>3. [h \in OtherGarages(ps, g) |-> GarageHanded(h, sys)]
            \in Surjection(OtherGarages(ps, g), others)
      BY DEF Surjection
    <2> QED BY <2>2, <2>3, FS_Surjection
  <1> HIDE DEF ps, handed, visits, others
  <1>9. Lists(ByDay(rows), rows) BY <1>3, ByDayLists
  <1>10. Lists(q.passes, handed) BY <1>1, <1>6, SetToSeqLists
  <1>11. Lists(q.visits, visits) BY <1>1, <1>7, ByEntryLists
  <1>12. Lists(q.garages, others) BY <1>1, <1>8, SetToSeqLists
  <1>13. HandsIn(q, rows, ByDay(rows), d, sys)
    BY <1>1, <1>2, <1>9, <1>10, <1>11, <1>12 DEF HandsIn, ps, handed, visits, others
  <1> QED BY <1>1, <1>13 DEF q, rows

-----------------------------------------------------------------------------
(* What the engine makes of it. *)

(* The engine counts as the store does.                                    *)
LEMMA OneCount == \A S : Engine!Cardinality(S) = Cardinality(S)
BY DEF Engine!Cardinality, Cardinality

(* A pass is handed in once, as it is stored.                              *)
LEMMA OnePassEach ==
    ASSUME NEW q, NEW rows, NEW o, NEW d, NEW sys,
           HandsIn(q, rows, o, d, sys), NEW p \in PassesOf(rows)
    PROVE  /\ \E k \in DOMAIN q.passes :
                 q.passes[k] = PassHanded(p, sys) /\ Engine!Copies(q, p) = {k}
           /\ ~Engine!Duplicated(q, p)
  <1> DEFINE ps == PassesOf(rows)
             handed == { PassHanded(x, sys) : x \in ps }
  <1>0. Lists(q.passes, handed) BY DEF HandsIn
  <1>1. /\ \A k \in DOMAIN q.passes : q.passes[k] \in handed
        /\ \A j, k \in DOMAIN q.passes : q.passes[j] = q.passes[k] => j = k
        /\ \A y \in handed : \E k \in DOMAIN q.passes : q.passes[k] = y
    <2> HIDE DEF handed
    <2> QED BY <1>0, ListedMembers
  <1>2. PICK k \in DOMAIN q.passes : q.passes[k] = PassHanded(p, sys)
    BY <1>1
  <1>3. \A x : PassHanded(x, sys).id = x BY DEF PassHanded
  <1>4. Engine!Copies(q, p) = {k}
    <2>1. \A j \in DOMAIN q.passes : \E x \in ps : q.passes[j] = PassHanded(x, sys) BY <1>1
    <2>2. \A j \in DOMAIN q.passes : q.passes[j].id = p => j = k BY <1>1, <1>2, <1>3, <2>1
    <2>3. q.passes[k].id = p BY <1>2, <1>3
    <2> QED BY <2>2, <2>3 DEF Engine!Copies
  <1>5. Cardinality({k}) = 1 BY FS_Singleton
  <1>6. ~Engine!Duplicated(q, p)
    <2>1. ~(Engine!Cardinality(Engine!Copies(q, p)) > 1) BY <1>4, <1>5, OneCount
    <2> QED BY <2>1 DEF Engine!Duplicated
  <1> QED BY <1>2, <1>4, <1>6

(* Nothing is handed in without its pass, or with two copies of it.        *)
LEMMA NothingIsMissing ==
    ASSUME NEW q, NEW rows, NEW o, NEW d, NEW sys, HandsIn(q, rows, o, d, sys)
    PROVE  /\ Engine!Dangling(q) = {} /\ Engine!DuplicatedInForce(q) = {}
           /\ \A k \in Engine!Effective(q) : o[k] \in rows /\ q.registrations[k] = Handed(o[k], d)
           /\ DOMAIN q.registrations = DOMAIN o
  <1>1. /\ DOMAIN q.registrations = DOMAIN o
        /\ \A k \in DOMAIN o : o[k] \in rows /\ q.registrations[k] = Handed(o[k], d)
    BY DEF HandsIn, Lists
  <1>2. \A k \in DOMAIN o : q.registrations[k].pass \in PassesOf(rows)
    <2>1. \A r : Handed(r, d).pass = r.pass BY DEF Handed
    <2>2. \A r \in rows : r.pass \in PassesOf(rows) BY DEF PassesOf
    <2> QED BY <1>1, <2>1, <2>2
  <1>3. \A k \in DOMAIN o : /\ Engine!Copies(q, q.registrations[k].pass) # {}
                            /\ ~Engine!Duplicated(q, q.registrations[k].pass)
    BY <1>2, OnePassEach
  <1>4. \A k \in Engine!Matching(q) : k \in DOMAIN o BY <1>1 DEF Engine!Matching
  <1>5. \A k \in Engine!Effective(q) : k \in DOMAIN o
    BY <1>4 DEF Engine!Effective, Engine!Here
  <1>6. Engine!Dangling(q) = {} BY <1>3, <1>4 DEF Engine!Dangling
  <1>7. Engine!DuplicatedInForce(q) = {} BY <1>3, <1>5 DEF Engine!DuplicatedInForce
  <1> QED BY <1>1, <1>5, <1>6, <1>7

(* The engine lacks the clock of an entry recorded on a pass only where    *)
(* the answering system does not carry the zone of the entry's garage.     *)
LEMMA OnlyALostClockIsMissing ==
    ASSUME NEW q, NEW rows, NEW o, NEW d, NEW sys, HandsIn(q, rows, o, d, sys),
           NEW p \in PassesOf(rows), NEW k \in Engine!Unclocked(q, PassHanded(p, sys))
    PROVE  /\ q.visits[k] \in Recorded /\ q.visits[k].pass = p
           /\ q.visits[k].garage \notin sys.carried
           /\ Engine!NoClock(q, q.visits[k].garage) = "MISSING_TIMEZONE"
  <1> DEFINE v == q.visits[k]
             others == OtherGarages(PassesOf(rows), q.garage.id)
             handed == { GarageHanded(h, sys) : h \in others }
             visits == { x \in Recorded : x.pass \in PassesOf(rows) }
  <1>1. PassHanded(p, sys).id = p BY DEF PassHanded
  <1>2. /\ k \in DOMAIN q.visits /\ v.pass = p
        /\ Engine!NoClock(q, v.garage) # Unstated
    BY <1>1 DEF Engine!Unclocked, Engine!OnPass
  <1>3. v \in Recorded
    <2>1. Lists(q.visits, visits) BY DEF HandsIn
    <2>2. visits \subseteq Recorded OBVIOUS
    <2> HIDE DEF visits
    <2> QED BY <1>2, <2>1, <2>2, ListedMembers
  <1>4. v.garage \in GaragesOf[p] BY <1>2, <1>3, LaneAssumption
  <1> HIDE DEF v
  <1>5. v.garage # q.garage.id BY <1>2 DEF Engine!NoClock
  <1>6. v.garage \in others BY <1>4, <1>5 DEF OtherGarages
  <1>7. \A h : GarageHanded(h, sys).id = h /\ GarageHanded(h, sys).readable = (h \in sys.carried)
    BY DEF GarageHanded
  <1>8. Lists(q.garages, handed) BY DEF HandsIn
  <1>9. /\ \A j \in DOMAIN q.garages : \E h \in others : q.garages[j] = GarageHanded(h, sys)
        /\ \A i, j \in DOMAIN q.garages : q.garages[i] = q.garages[j] => i = j
        /\ \A h \in others : \E j \in DOMAIN q.garages : q.garages[j] = GarageHanded(h, sys)
        /\ DOMAIN q.garages \subseteq Nat
    <2>1. /\ \A j \in DOMAIN q.garages : q.garages[j] \in handed
          /\ \A i, j \in DOMAIN q.garages : q.garages[i] = q.garages[j] => i = j
          /\ \A x \in handed : \E j \in DOMAIN q.garages : q.garages[j] = x
          /\ DOMAIN q.garages \subseteq Nat
      <3> HIDE DEF handed
      <3> QED BY <1>8, ListedMembers
    <2> QED BY <2>1
  <1>10. PICK j \in DOMAIN q.garages : q.garages[j] = GarageHanded(v.garage, sys)
    BY <1>6, <1>9
  <1>11. Engine!HandedIn(q, v.garage) = {j}
    BY <1>7, <1>9, <1>10 DEF Engine!HandedIn
  <1>12. Engine!Least({j}) = j
    <2>1. j <= j BY <1>9
    <2>2. \A x \in {j} : x = j OBVIOUS
    <2> QED BY <2>1, <2>2 DEF Engine!Least
  <1>13. ~(Engine!Cardinality({j}) > 1)
    <2>1. Cardinality({j}) = 1 BY FS_Singleton
    <2> QED BY <2>1, OneCount
  <1>14. q.garages[j].readable = (v.garage \in sys.carried) BY <1>7, <1>10
  <1>15. Engine!NoClock(q, v.garage) =
           IF ~q.garages[j].readable THEN "MISSING_TIMEZONE" ELSE Unstated
    BY <1>5, <1>11, <1>12, <1>13 DEF Engine!NoClock
  <1>16. ~q.garages[j].readable BY <1>2, <1>15
  <1> QED BY <1>2, <1>3, <1>14, <1>15, <1>16 DEF v

-----------------------------------------------------------------------------
(* One pass. *)

LEMMA TheChecks ==
    /\ DOMAIN Engine!CHECKS = 1..13
    /\ \A k \in 1..13 : Engine!CHECKS[k] \in
         {"REVOKED", "PASS_UNREADABLE", "EXPIRED", "SUSPENDED", "NOT_ACTIVE", "EXIT_ONLY",
          "NO_CLOCK", "OUT_OF_VISITS"} \cup TERMS_CHECKS
BY DEF Engine!CHECKS, TERMS_CHECKS

(* The check that is named is one that fails, and the first of them.       *)
LEMMA WhatIsNamedFails ==
    ASSUME NEW q, NEW p, ~Engine!Passed(q, p)
    PROVE  /\ Engine!Fails(q, p, Engine!FailedCheck(q, p))
           /\ Engine!Fails(q, p, "REVOKED") => Engine!FailedCheck(q, p) = "REVOKED"
           /\ Engine!Fails(q, p, "PASS_UNREADABLE")
                => Engine!FailedCheck(q, p) \in {"REVOKED", "PASS_UNREADABLE"}
  <1> DEFINE S == { k \in 1..13 : Engine!Fails(q, p, Engine!CHECKS[k]) }
             First(k) == /\ Engine!Fails(q, p, Engine!CHECKS[k])
                         /\ \A j \in 1..(k - 1) : ~Engine!Fails(q, p, Engine!CHECKS[j])
  <1>1. S # {} /\ S \subseteq Nat BY TheChecks DEF Engine!Passed
  <1>2. PICK k \in S : \A j \in S : k <= j BY <1>1, LeastNatural
  <1>3. First(k)
    <2>1. \A j \in 1..(k - 1) : j \in 1..13 /\ ~(k <= j) BY <1>1, <1>2
    <2> QED BY <1>2, <2>1
  <1>4. k \in DOMAIN Engine!CHECKS BY TheChecks
  <1> HIDE DEF S
  <1> DEFINE n == CHOOSE x \in DOMAIN Engine!CHECKS : First(x)
  <1>5. First(n) /\ n \in DOMAIN Engine!CHECKS BY <1>3, <1>4
  <1>6. Engine!FailedCheck(q, p) = Engine!CHECKS[n] BY DEF Engine!FailedCheck
  <1>7. n \in 1..13 BY <1>5, TheChecks
  <1>8. Engine!CHECKS[1] = "REVOKED" /\ Engine!CHECKS[2] = "PASS_UNREADABLE"
    BY DEF Engine!CHECKS
  <1> HIDE DEF n
  <1>9. Engine!Fails(q, p, "REVOKED") => n = 1
    <2>1. ASSUME n # 1 PROVE ~Engine!Fails(q, p, Engine!CHECKS[1])
      <3>1. 1 \in 1..(n - 1) BY <1>7, <2>1
      <3> QED BY <1>5, <3>1
    <2> QED BY <1>8, <2>1
  <1>10. Engine!Fails(q, p, "PASS_UNREADABLE") => n = 1 \/ n = 2
    <2>1. ASSUME n # 1, n # 2 PROVE ~Engine!Fails(q, p, Engine!CHECKS[2])
      <3>1. 2 \in 1..(n - 1) BY <1>7, <2>1
      <3> QED BY <1>5, <3>1
    <2> QED BY <1>8, <2>1
  <1>11. Engine!Fails(q, p, Engine!FailedCheck(q, p)) BY <1>5, <1>6
  <1> HIDE DEF First
  <1> QED BY <1>6, <1>8, <1>9, <1>10, <1>11

(* An entry on a stored pass is left unanswered where its terms cannot be  *)
(* read, and then always, or where the clock of a visit on it is lost.     *)
LEMMA WhatAnEntryLacks ==
    ASSUME NEW q, NEW rows, NEW o, NEW d, NEW sys, HandsIn(q, rows, o, d, sys),
           NEW p \in PassesOf(rows), q.direction = "entry"
    PROVE  LET answer == Engine!Evaluate(q, PassHanded(p, sys))
               unread == p \in sys.stranded /\ passState[p] # "revoked"
           IN  /\ answer.outcome = "refused_to_answer" =>
                    /\ answer.pass = p
                    /\ \/ answer.missing = "UNREADABLE_TERMS" /\ unread
                       \/ /\ answer.missing = "MISSING_TIMEZONE" /\ p \notin sys.stranded
                          /\ \E v \in Recorded : v.pass = p /\ v.garage \notin sys.carried
               /\ unread => answer.outcome = "refused_to_answer"
  <1> DEFINE x == PassHanded(p, sys)
             answer == Engine!Evaluate(q, x)
             check == Engine!FailedCheck(q, x)
             lost == Engine!Unclocked(q, x)
  <1>1. x.id = p /\ x.state = passState[p] /\ x.readable = (p \notin sys.stranded)
    BY DEF PassHanded
  <1>2. ~Engine!IsExit(q) BY DEF Engine!IsExit
  <1>3. \A k \in lost : /\ q.visits[k] \in Recorded /\ q.visits[k].pass = p
                        /\ q.visits[k].garage \notin sys.carried
                        /\ Engine!NoClock(q, q.visits[k].garage) = "MISSING_TIMEZONE"
    BY OnlyALostClockIsMissing
  <1>4. lost \subseteq Nat
    <2> DEFINE visits == { v \in Recorded : v.pass \in PassesOf(rows) }
    <2>1. Lists(q.visits, visits) BY DEF HandsIn
    <2>2. DOMAIN q.visits \subseteq Nat
      <3> HIDE DEF visits
      <3> QED BY <2>1, ListedMembers
    <2> QED BY <2>2 DEF Engine!Unclocked, Engine!OnPass
  <1> HIDE DEF x, lost
  <1>5. /\ Engine!Fails(q, x, "REVOKED") <=> passState[p] = "revoked"
        /\ Engine!Fails(q, x, "PASS_UNREADABLE") <=> p \in sys.stranded
        /\ Engine!Fails(q, x, "NO_CLOCK") <=> lost # {}
    <2>1. Engine!Fails(q, x, "REVOKED") <=> passState[p] = "revoked"
      BY <1>1 DEF Engine!Fails
    <2>2. Engine!Fails(q, x, "PASS_UNREADABLE") <=> ~x.readable
      BY DEF Engine!Fails
    <2>3. Engine!Fails(q, x, "NO_CLOCK") <=> lost # {}
      BY DEF Engine!Fails, lost
    <2> QED BY <1>1, <2>1, <2>2, <2>3
  <1>6. CASE Engine!Passed(q, x)
    <2>1. answer.outcome = "covered" BY <1>6 DEF Engine!Evaluate, Engine!Covered
    <2>2. p \notin sys.stranded
      <3>1. 2 \in DOMAIN Engine!CHECKS /\ Engine!CHECKS[2] = "PASS_UNREADABLE"
        BY DEF Engine!CHECKS
      <3> QED BY <1>5, <1>6, <3>1 DEF Engine!Passed
    <2> QED BY <2>1, <2>2 DEF x
  <1>7. CASE ~Engine!Passed(q, x)
    <2>1. /\ Engine!Fails(q, x, check)
          /\ Engine!Fails(q, x, "REVOKED") => check = "REVOKED"
          /\ Engine!Fails(q, x, "PASS_UNREADABLE") => check \in {"REVOKED", "PASS_UNREADABLE"}
      BY <1>7, WhatIsNamedFails
    <2>2. answer = IF check = "NO_CLOCK"
                   THEN Engine!Refused(
                          Engine!NoClock(q, q.visits[Engine!Least(lost)].garage), p)
                   ELSE IF check = "PASS_UNREADABLE"
                   THEN Engine!Refused("UNREADABLE_TERMS", p)
                   ELSE Engine!NotCovered(q, check, p)
      BY <1>1, <1>2, <1>7 DEF Engine!Evaluate, lost
    <2>3. \A missing : /\ Engine!Refused(missing, p).outcome = "refused_to_answer"
                       /\ Engine!Refused(missing, p).missing = missing
                       /\ Engine!Refused(missing, p).pass = p
      BY DEF Engine!Refused
    <2>4. Engine!NotCovered(q, check, p).outcome = "not_covered" BY DEF Engine!NotCovered
    <2> HIDE DEF answer, check
    <2>5. CASE check = "NO_CLOCK"
      <3>1. lost # {} /\ p \notin sys.stranded BY <1>5, <2>1, <2>5
      <3>2. Engine!Least(lost) \in lost
        <4>1. \E k \in lost : \A j \in lost : k <= j BY <1>4, <3>1, LeastNatural
        <4> QED BY <4>1 DEF Engine!Least
      <3>3. answer = Engine!Refused("MISSING_TIMEZONE", p) BY <1>3, <2>2, <2>5, <3>2
      <3> QED BY <1>3, <2>3, <3>1, <3>2, <3>3 DEF answer, x
    <2>6. CASE check = "PASS_UNREADABLE"
      <3>1. answer = Engine!Refused("UNREADABLE_TERMS", p) BY <2>2, <2>6
      <3>2. p \in sys.stranded /\ passState[p] # "revoked" BY <1>5, <2>1, <2>6
      <3> QED BY <2>3, <3>1, <3>2 DEF answer, x
    <2>7. CASE check # "NO_CLOCK" /\ check # "PASS_UNREADABLE"
      <3>1. answer.outcome = "not_covered" BY <2>2, <2>4, <2>7
      <3>2. ~(p \in sys.stranded /\ passState[p] # "revoked") BY <1>5, <2>1, <2>7
      <3> QED BY <3>1, <3>2 DEF answer, x
    <2> QED BY <2>5, <2>6, <2>7
  <1> QED BY <1>6, <1>7

(* A pass that may be used and whose terms let a car out covers its exit.  *)
LEMMA AnExitIsCovered ==
    ASSUME NEW q, q.direction = "exit", q.enteredAt = Unstated, NEW p \in Passes, NEW sys,
           p \notin sys.stranded, passState[p] = "active", ~ExpiredOn(p, Engine!Today(q)),
           \A check \in TERMS_CHECKS : ~Engine!Fails(q, PassHanded(p, sys), check)
    PROVE  Engine!Evaluate(q, PassHanded(p, sys)) =
               Engine!Covered(p, Engine!Unmeasured(q, PassHanded(p, sys)))
  <1> DEFINE x == PassHanded(p, sys)
  <1>1. x.id = p /\ x.state = "active" /\ x.readable /\ x.terms.validTo = ValidTo[p]
    BY TermsAssumption DEF PassHanded
  <1>2. Engine!IsExit(q) BY DEF Engine!IsExit
  <1> HIDE DEF x
  <1>3. ~Engine!Fails(q, x, "REVOKED") BY <1>1 DEF Engine!Fails
  <1>4. ~Engine!Fails(q, x, "PASS_UNREADABLE") BY <1>1 DEF Engine!Fails
  <1>5. ~Engine!Fails(q, x, "EXPIRED") BY <1>1 DEF Engine!Fails, ExpiredOn
  <1>6. ~Engine!Fails(q, x, "SUSPENDED") BY <1>1 DEF Engine!Fails
  <1>7. ~Engine!Fails(q, x, "NOT_ACTIVE") BY <1>1 DEF Engine!Fails
  <1>8. ~Engine!Fails(q, x, "EXIT_ONLY")
    BY <1>2 DEF Engine!Fails, Engine!EnteredAfterReplacement
  <1>9. ~Engine!Fails(q, x, "NO_CLOCK")
    BY <1>2 DEF Engine!Fails, Engine!Unclocked, Engine!Counts
  <1>10. ~Engine!Fails(q, x, "OUT_OF_VISITS") BY <1>2 DEF Engine!Fails, Engine!Counts
  <1>11. \A check \in TERMS_CHECKS : ~Engine!Fails(q, x, check) BY DEF x
  <1>12. Engine!Passed(q, x)
    <2> SUFFICES ASSUME NEW k \in 1..13 PROVE ~Engine!Fails(q, x, Engine!CHECKS[k])
      BY TheChecks DEF Engine!Passed
    <2> DEFINE check == Engine!CHECKS[k]
    <2>1. check \in {"REVOKED", "PASS_UNREADABLE", "EXPIRED", "SUSPENDED", "NOT_ACTIVE",
                     "EXIT_ONLY", "NO_CLOCK", "OUT_OF_VISITS"} \cup TERMS_CHECKS
      BY TheChecks
    <2> HIDE DEF check
    <2>2. ~Engine!Fails(q, x, check)
      BY <1>3, <1>4, <1>5, <1>6, <1>7, <1>8, <1>9, <1>10, <1>11, <2>1
    <2> QED BY <2>2 DEF check
  <1>13. Engine!Evaluate(q, x) = Engine!Covered(x.id, Engine!Unmeasured(q, x))
    BY <1>12 DEF Engine!Evaluate
  <1> QED BY <1>1, <1>13 DEF x

-----------------------------------------------------------------------------
(* Which rows are in force, and the one pass that then answers. *)

(* What an answer from the store is asked: its own rows, on its own day.   *)
AskedOfTheStore(q, rows, o, d, g, c, sys) ==
    /\ HandsIn(q, rows, o, d, sys)
    /\ q.garage = GarageHanded(g, sys) /\ q.identity = c /\ Engine!Today(q) = d
    /\ \A s \in rows : s.car = c /\ s.pass \in Passes /\ g \in GaragesOf[s.pass]

LEMMA TheRowsInForce ==
    ASSUME NEW g, NEW c \in Cars, NEW d, NEW q, NEW rows, NEW o, NEW sys,
           AskedOfTheStore(q, rows, o, d, g, c, sys)
    PROVE  /\ \A k \in DOMAIN o : k \in Engine!Effective(q) <=> Covers(o[k], d)
           /\ \A k \in DOMAIN o : o[k] \in rows
           /\ Engine!Effective(q) \subseteq DOMAIN o
           /\ \A k \in Engine!Effective(q) :
                \E j \in DOMAIN q.passes : /\ q.passes[j] = PassHanded(o[k].pass, sys)
                                          /\ Engine!Selected(q, q.registrations[k].pass) = {j}
                                          /\ ~Engine!Duplicated(q, q.registrations[k].pass)
  <1> USE DEF AskedOfTheStore
  <1>1. /\ DOMAIN q.registrations = DOMAIN o
        /\ \A k \in DOMAIN o : o[k] \in rows /\ q.registrations[k] = Handed(o[k], d)
    BY DEF HandsIn, Lists
  <1>2. \A r : /\ Handed(r, d).pass = r.pass /\ Handed(r, d).identity = r.car
               /\ Handed(r, d).from = r.from /\ Handed(r, d).to = r.to
    BY DEF Handed
  <1>3. \A k \in DOMAIN o : k \in Engine!Matching(q)
    BY <1>1, <1>2 DEF Engine!Matching
  <1>4. \A k \in Engine!Matching(q) : k \in DOMAIN o
    BY <1>1 DEF Engine!Matching
  <1>5. q.garage.id = g BY DEF GarageHanded
  <1>6. \A p : PassHanded(p, sys).garages = GaragesOf[p] BY DEF PassHanded
  <1>7. ASSUME NEW k \in DOMAIN o
        PROVE  \E j \in DOMAIN q.passes :
                   /\ q.passes[j] = PassHanded(o[k].pass, sys)
                   /\ Engine!Selected(q, q.registrations[k].pass) = {j}
                   /\ ~Engine!Duplicated(q, q.registrations[k].pass)
    <2> DEFINE p == o[k].pass
    <2>1. p \in PassesOf(rows) /\ g \in GaragesOf[p] BY <1>1 DEF PassesOf
    <2>2. q.registrations[k].pass = p BY <1>1, <1>2
    <2> HIDE DEF p
    <2>3. PICK j \in DOMAIN q.passes :
               q.passes[j] = PassHanded(p, sys) /\ Engine!Copies(q, p) = {j}
      BY <2>1, OnePassEach
    <2>4. ~Engine!Duplicated(q, p) BY <2>1, OnePassEach
    <2>5. Engine!Selected(q, p) = {j}
      BY <1>5, <1>6, <2>1, <2>3, <2>4 DEF Engine!Selected
    <2> QED BY <2>2, <2>3, <2>4, <2>5 DEF p
  <1>8. \A k \in DOMAIN o : k \in Engine!Here(q)
    BY <1>3, <1>7 DEF Engine!Here
  <1>9. \A k \in DOMAIN o : Engine!InForce(q, q.registrations[k]) <=> Covers(o[k], d)
    BY <1>1, <1>2 DEF Engine!InForce, Covers
  <1>10. Engine!Effective(q) \subseteq DOMAIN o
    BY <1>4 DEF Engine!Effective, Engine!Here
  <1>11. \A k \in DOMAIN o : k \in Engine!Effective(q) <=> Covers(o[k], d)
    BY <1>8, <1>9 DEF Engine!Effective
  <1> QED BY <1>1, <1>7, <1>10, <1>11

LEMMA TheRowsThatCover ==
    ASSUME NEW g, NEW c \in Cars, NEW d, NEW q, NEW rows, NEW o, NEW sys,
           AskedOfTheStore(q, rows, o, d, g, c, sys)
    PROVE  /\ \A k \in DOMAIN o : k \in Engine!Effective(q) <=> Covers(o[k], d)
           /\ \A k \in DOMAIN o : o[k] \in rows
           /\ Engine!Effective(q) \subseteq DOMAIN o
BY TheRowsInForce

(* Where every row in force is on one pass, that pass is the candidate.    *)
HoldsAlone(p, q, o) ==
    Engine!Effective(q) # {} /\ \A k \in Engine!Effective(q) : o[k].pass = p

LEMMA TheOnlyPass ==
    ASSUME NEW g, NEW c \in Cars, NEW d, NEW q, NEW rows, NEW o, NEW sys,
           AskedOfTheStore(q, rows, o, d, g, c, sys), NEW p, HoldsAlone(p, q, o)
    PROVE  /\ \E j \in DOMAIN q.passes :
                 Engine!Candidates(q) = {j} /\ q.passes[j] = PassHanded(p, sys)
           /\ Engine!FirstOf(q, Engine!Candidates(q)) = PassHanded(p, sys)
           /\ p \in PassesOf(rows)
  <1> USE DEF HoldsAlone
  <1>0. /\ \A l \in DOMAIN o : o[l] \in rows
        /\ \A l \in Engine!Effective(q) : l \in DOMAIN o
        /\ \A l \in Engine!Effective(q) :
             \E j \in DOMAIN q.passes : /\ q.passes[j] = PassHanded(o[l].pass, sys)
                                       /\ Engine!Selected(q, q.registrations[l].pass) = {j}
                                       /\ ~Engine!Duplicated(q, q.registrations[l].pass)
    BY TheRowsInForce
  <1>1. PICK k \in Engine!Effective(q) : k \in DOMAIN o /\ o[k].pass = p BY <1>0
  <1>2. \A l \in Engine!Effective(q) : q.registrations[l].pass = p
    <2>1. \A l \in DOMAIN o : q.registrations[l] = Handed(o[l], d)
      BY DEF AskedOfTheStore, HandsIn
    <2>2. \A x : Handed(x, d).pass = x.pass BY DEF Handed
    <2>3. \A l \in DOMAIN o : q.registrations[l].pass = o[l].pass BY <2>1, <2>2
    <2> QED BY <1>0, <2>3
  <1>3. PICK j \in DOMAIN q.passes :
             /\ q.passes[j] = PassHanded(p, sys) /\ Engine!Selected(q, p) = {j}
             /\ ~Engine!Duplicated(q, p)
    BY <1>0, <1>1, <1>2
  <1>4. { q.registrations[l].pass : l \in Engine!Effective(q) } = {p} BY <1>1, <1>2
  <1>5. Engine!Candidates(q) = {j}
    BY <1>3, <1>4 DEF Engine!Candidates
  <1>6. Engine!FirstOf(q, {j}) = PassHanded(p, sys)
    <2>1. Engine!InOrder(q.passes[j], q.passes[j])
      <3>1. q.passes[j].text = 0
        BY <1>3 DEF PassHanded
      <3> QED BY <3>1 DEF Engine!InOrder
    <2> DEFINE First(x) == \A y \in {j} : Engine!InOrder(q.passes[x], q.passes[y])
    <2>2. First(j) BY <2>1
    <2>3. (CHOOSE x \in {j} : First(x)) = j BY <2>2
    <2> QED BY <1>3, <2>3 DEF Engine!FirstOf
  <1>7. p \in PassesOf(rows) BY <1>0, <1>1 DEF PassesOf
  <1> QED BY <1>3, <1>5, <1>6, <1>7

(* The store's question gets as far as its registrations, but for what     *)
(* the asking garage itself lacks at an entry.                             *)
LEMMA TheStoreAsks ==
    ASSUME IInv, NEW g \in Garages, NEW c \in Cars, NEW i \in Instants, NEW direction, NEW sys
    PROVE  LET d == DayAt[i][g]
               q == QuestionFromStore(g, c, i, direction, sys)
               rows == RowsAnswering(g, c, d, direction)
               answer == AnswerFromStore(g, c, i, direction, sys)
           IN  /\ AskedOfTheStore(q, rows, ByDay(rows), d, g, c, sys) /\ d \in Int
               /\ q.direction = direction /\ q.enteredAt = Unstated
               /\ g \notin sys.carried /\ direction = "entry"
                    => answer = Engine!Refused("MISSING_TIMEZONE", Unstated)
               /\ g \in sys.carried /\ direction = "entry" /\ TransientAt[g] = "unstated"
                    => answer = Engine!Refused("MISSING_TRANSIENT_MODE", Unstated)
               /\ g \in sys.carried /\ (direction = "exit" \/ TransientAt[g] # "unstated")
                    => answer = Engine!OfTheRegistrations(q)
               /\ \A s \in rows : \E r \in RowsOf(g, c) : CameFrom(s, r, g, c, d, direction)
  <1> DEFINE d == DayAt[i][g]
             q == QuestionFromStore(g, c, i, direction, sys)
             rows == RowsAnswering(g, c, d, direction)
             answer == AnswerFromStore(g, c, i, direction, sys)
  <1>1. d \in Int BY ClockAssumption, MaxDayAssumption DEF Day
  <1>2. /\ q.garage = GarageHanded(g, sys) /\ q.identity = c /\ q.lane = "lane"
        /\ q.direction = direction /\ q.at = i /\ q.enteredAt = Unstated
        /\ HandsIn(q, rows, ByDay(rows), d, sys)
    BY <1>1, TheQuestion
  <1>3. \A s \in rows : \E r \in RowsOf(g, c) : CameFrom(s, r, g, c, d, direction)
    BY <1>1, RowsHandedIn
  <1>4. answer = Engine!Answer(q) BY DEF AnswerFromStore
  <1> HIDE DEF q, rows, answer
  <1>5. \A s \in rows : s.car = c /\ s.pass \in Passes /\ g \in GaragesOf[s.pass]
    BY <1>3, RowsOfTheCar DEF CameFrom
  <1>6. Engine!Today(q) = d BY <1>2 DEF Engine!Today, GarageHanded
  <1>7. AskedOfTheStore(q, rows, ByDay(rows), d, g, c, sys)
    BY <1>2, <1>5, <1>6 DEF AskedOfTheStore
  <1>8. q.garage.readable = (g \in sys.carried) /\ q.garage.transient = TransientAt[g]
    <2>1. GarageHanded(g, sys).readable = (g \in sys.carried) BY DEF GarageHanded
    <2>2. GarageHanded(g, sys).transient = TransientAt[g] BY DEF GarageHanded
    <2> QED BY <1>2, <2>1, <2>2
  <1>9. q.identity # NoCar /\ q.lane # NoCar BY <1>2, NoCarAssumption, LaneAssumption
  <1>10. Engine!IsExit(q) = (direction = "exit") BY <1>2 DEF Engine!IsExit
  <1>11. g \notin sys.carried /\ direction = "entry"
           => answer = Engine!Refused("MISSING_TIMEZONE", Unstated)
    BY <1>4, <1>8, <1>10 DEF Engine!Answer, Engine!Unanswerable
  <1>12. g \in sys.carried /\ direction = "entry" /\ TransientAt[g] = "unstated"
           => answer = Engine!Refused("MISSING_TRANSIENT_MODE", Unstated)
    BY <1>4, <1>8, <1>9, <1>10 DEF Engine!Answer
  <1>13. g \in sys.carried /\ (direction = "exit" \/ TransientAt[g] # "unstated")
           => answer = Engine!OfTheRegistrations(q)
    BY <1>4, <1>8, <1>9, <1>10 DEF Engine!Answer
  <1> QED BY <1>1, <1>2, <1>3, <1>7, <1>11, <1>12, <1>13 DEF q, rows, answer

(* One car on one pass: two rows of the car that cover one day are one.    *)
LEMMA OneRowADay ==
    ASSUME IInv, NEW g, NEW c, NEW r \in RowsOf(g, c), NEW s \in RowsOf(g, c), NEW d \in Int,
           Covers(r, d), Covers(s, d)
    PROVE  r = s
  <1>1. /\ r \in regs /\ s \in regs /\ r.garage = s.garage /\ r.car = s.car
        /\ r.from \in Int /\ r.to \in Int /\ s.from \in Int /\ s.to \in Int
    BY RowsOfTheCar
  <1>2. Overlaps(r, s.from, s.to) BY <1>1 DEF Covers, Overlaps
  <1> QED BY <1>1, <1>2 DEF IInv, OneCarOnePass

-----------------------------------------------------------------------------
(* Theorems *)

(* An entry asked of the store is left unanswered only for what the        *)
(* answering system cannot read: in every state the store has been brought *)
(* to, one car is on at most one pass there, the pass of every row is      *)
(* handed in once, and so is every other garage of it; and an entry on     *)
(* terms that cannot be read is never decided.                             *)
THEOREM TheStoreLacksOnlyWhatItCannotRead == EnrolSpec => []OnlyTheUnreadableIsLeftUnanswered
  <1>1. EnrolInv => OnlyTheUnreadableIsLeftUnanswered
    <2> SUFFICES ASSUME EnrolInv, NEW sys \in Systems, NEW g \in Garages, NEW c \in Cars,
                        NEW i \in Instants
                 PROVE  LET answer == AnswerFromStore(g, c, i, "entry", sys)
                            held == HoldersOf(g, c, DayAt[i][g])
                            unread == { p \in held \cap sys.stranded :
                                          passState[p] # "revoked" }
                            uncounted == { p \in held \ sys.stranded :
                                             \E v \in Recorded : /\ v.pass = p
                                                                 /\ v.garage \notin sys.carried }
                        IN  /\ answer.outcome = "refused_to_answer" =>
                                 \/ answer.missing = "MISSING_TIMEZONE" /\ g \notin sys.carried
                                 \/ /\ answer.missing = "MISSING_TRANSIENT_MODE"
                                    /\ TransientAt[g] = "unstated"
                                 \/ answer.missing = "UNREADABLE_TERMS" /\ answer.pass \in unread
                                 \/ answer.missing = "MISSING_TIMEZONE"
                                    /\ answer.pass \in uncounted
                            /\ unread # {} => answer.outcome = "refused_to_answer"
      BY DEF OnlyTheUnreadableIsLeftUnanswered
    <2> DEFINE d == DayAt[i][g]
               q == QuestionFromStore(g, c, i, "entry", sys)
               rows == RowsAnswering(g, c, d, "entry")
               o == ByDay(rows)
               live == Engine!Effective(q)
               answer == AnswerFromStore(g, c, i, "entry", sys)
               held == HoldersOf(g, c, d)
    <2>0. IInv BY DEF EnrolInv
    <2>1. /\ AskedOfTheStore(q, rows, o, d, g, c, sys) /\ d \in Int /\ q.direction = "entry"
          /\ g \notin sys.carried => answer = Engine!Refused("MISSING_TIMEZONE", Unstated)
          /\ g \in sys.carried /\ TransientAt[g] = "unstated"
               => answer = Engine!Refused("MISSING_TRANSIENT_MODE", Unstated)
          /\ g \in sys.carried /\ TransientAt[g] # "unstated"
               => answer = Engine!OfTheRegistrations(q)
      BY <2>0, TheStoreAsks
    <2>2. rows = RowsOf(g, c) BY DEF RowsAnswering
    <2> HIDE DEF d, q, rows, o, answer
    <2>3. \A missing : /\ Engine!Refused(missing, Unstated).outcome = "refused_to_answer"
                       /\ Engine!Refused(missing, Unstated).missing = missing
      BY DEF Engine!Refused
    <2>4. /\ HandsIn(q, rows, o, d, sys)
          /\ \A l \in DOMAIN o : l \in live <=> Covers(o[l], d)
          /\ \A l \in DOMAIN o : o[l] \in RowsOf(g, c)
          /\ live \subseteq DOMAIN o
      <3>1. HandsIn(q, rows, o, d, sys) BY <2>1 DEF AskedOfTheStore
      <3>2. /\ \A l \in DOMAIN o : l \in Engine!Effective(q) <=> Covers(o[l], d)
            /\ \A l \in DOMAIN o : o[l] \in rows
            /\ Engine!Effective(q) \subseteq DOMAIN o
        BY <2>1, TheRowsThatCover
      <3> QED BY <2>2, <3>1, <3>2
    <2>5. \A r \in RowsOf(g, c) : \E l \in DOMAIN o : o[l] = r
      BY <2>2, <2>4 DEF HandsIn, Lists
    <2>6. Engine!Dangling(q) = {} /\ Engine!DuplicatedInForce(q) = {}
      BY <2>4, NothingIsMissing
    <2>7. CASE g \notin sys.carried BY <2>1, <2>3, <2>7 DEF answer
    <2>8. CASE g \in sys.carried /\ TransientAt[g] = "unstated"
      BY <2>1, <2>3, <2>8 DEF answer
    <2>9. CASE g \in sys.carried /\ TransientAt[g] # "unstated" /\ live = {}
      <3>1. Engine!OfTheRegistrations(q) = Engine!NobodyHolds(q)
        BY <2>6, <2>9 DEF Engine!OfTheRegistrations
      <3>2. \A reason, p : Engine!NotCovered(q, reason, p).outcome = "not_covered"
        BY DEF Engine!NotCovered
      <3>3. Engine!NobodyHolds(q).outcome = "not_covered"
        BY <3>2 DEF Engine!NobodyHolds
      <3>4. held = {} BY <2>4, <2>5, <2>9 DEF HoldersOf
      <3>5. answer.outcome = "not_covered" BY <2>1, <2>9, <3>1, <3>3
      <3> QED BY <3>4, <3>5 DEF answer, d
    <2>10. CASE g \in sys.carried /\ TransientAt[g] # "unstated" /\ live # {}
      <3>1. PICK k \in live : k \in DOMAIN o /\ o[k] \in RowsOf(g, c) /\ Covers(o[k], d)
        BY <2>4, <2>10
      <3>2. \A r \in RowsOf(g, c) : Covers(r, d) => r = o[k]
        BY <2>0, <2>1, <3>1, OneRowADay
      <3>3. \A l \in live : l = k
        BY <2>4, <3>1, <3>2 DEF HandsIn, Lists
      <3> DEFINE p == o[k].pass
      <3>4. held = {p} BY <3>1, <3>2 DEF HoldersOf
      <3>5. \A l \in live : o[l].pass = p BY <3>3
      <3> HIDE DEF live, p, held
      <3>6. live = {k} BY <3>3
      <3>7. Engine!Cardinality(live) = 1 BY <3>6, OneCount, FS_Singleton
      <3>8. /\ Engine!FirstOf(q, Engine!Candidates(q)) = PassHanded(p, sys)
            /\ p \in PassesOf(rows)
        <4>1. HoldsAlone(p, q, o) BY <2>10, <3>5 DEF HoldsAlone, live
        <4>2. AskedOfTheStore(q, rows, o, d, g, c, sys) BY <2>1
        <4> QED BY <4>1, <4>2, TheOnlyPass
      <3> DEFINE evaluated == Engine!Evaluate(q, PassHanded(p, sys))
      <3>9. answer = evaluated
        BY <2>1, <2>6, <2>10, <3>7, <3>8 DEF Engine!OfTheRegistrations, live
      <3>10. /\ evaluated.outcome = "refused_to_answer" =>
                  /\ evaluated.pass = p
                  /\ \/ /\ evaluated.missing = "UNREADABLE_TERMS"
                        /\ p \in sys.stranded /\ passState[p] # "revoked"
                     \/ /\ evaluated.missing = "MISSING_TIMEZONE" /\ p \notin sys.stranded
                        /\ \E v \in Recorded : v.pass = p /\ v.garage \notin sys.carried
             /\ p \in sys.stranded /\ passState[p] # "revoked"
                  => evaluated.outcome = "refused_to_answer"
        BY <2>1, <2>4, <3>8, WhatAnEntryLacks
      <3> HIDE DEF evaluated
      <3> QED BY <3>4, <3>9, <3>10 DEF answer, held, d
    <2> QED BY <2>7, <2>8, <2>9, <2>10
  <1> QED BY <1>1, CredentialsAreSound, PTL

(* The guest who checked out today drives out on their own pass: no other  *)
(* row is in force, so the row that runs to the end of the day is the one  *)
(* that answers, and the terms let the car out, whatever else cannot be    *)
(* read.                                                                   *)
THEOREM CheckedOutGuestsDriveOut == EnrolSpec => []ACheckedOutGuestDrivesOut
  <1>1. EnrolInv => ACheckedOutGuestDrivesOut
    <2> SUFFICES ASSUME EnrolInv, NEW sys \in Systems, NEW g \in Garages, NEW c \in Cars,
                        NEW i \in Instants, g \in sys.carried,
                        NEW r \in regs, r.pass \notin sys.stranded, r.garage = g, r.car = c,
                        r.from < DayAt[i][g], r.to = DayAt[i][g], r.why = ENDED_BY_CHECKOUT,
                        passState[r.pass] = "active", ~ExpiredOn(r.pass, DayAt[i][g]),
                        \A check \in TERMS_CHECKS :
                            ~Engine!Fails(QuestionFromStore(g, c, i, "exit", sys),
                                          PassHanded(r.pass, sys), check),
                        ~\E s \in RowsOf(g, c) : Covers(s, DayAt[i][g])
                 PROVE  /\ AnswerFromStore(g, c, i, "exit", sys).outcome = "covered"
                        /\ AnswerFromStore(g, c, i, "exit", sys).pass = r.pass
      BY DEF ACheckedOutGuestDrivesOut
    <2> DEFINE d == DayAt[i][g]
               q == QuestionFromStore(g, c, i, "exit", sys)
               rows == RowsAnswering(g, c, d, "exit")
               o == ByDay(rows)
               p == r.pass
               live == Engine!Effective(q)
    <2>0. IInv BY DEF EnrolInv
    <2>1. /\ AskedOfTheStore(q, rows, o, d, g, c, sys) /\ d \in Int /\ q.direction = "exit"
          /\ q.enteredAt = Unstated
          /\ AnswerFromStore(g, c, i, "exit", sys) = Engine!OfTheRegistrations(q)
          /\ \A s \in rows : \E u \in RowsOf(g, c) : CameFrom(s, u, g, c, d, "exit")
      BY <2>0, TheStoreAsks
    <2>2. /\ r \in RowsOf(g, c) /\ p \in CheckedOutOn(g, c, d)
          /\ r.from < d /\ r.to = d /\ ~ExpiredOn(p, d)
          /\ \A s \in RowsOf(g, c) : ~Covers(s, d)
      BY DEF RowsOf, CheckedOutOn
    <2>3. \E s \in rows : s.pass = p /\ Covers(s, d)
      <3> DEFINE s == [r EXCEPT !.to = d + 1]
      <3>1. s \in rows BY <2>2 DEF RowsAnswering
      <3>2. r \in Row BY <2>0, <2>2, RowsOfTheCar
      <3>3. s.pass = p /\ s.from = r.from /\ s.to = d + 1 BY <3>2 DEF Row
      <3>4. r.from \in Int BY <3>2, RowFields
      <3> HIDE DEF s
      <3>5. Covers(s, d) BY <2>1, <3>3, <3>4 DEF Covers
      <3> QED BY <3>1, <3>3, <3>5
    <2> HIDE DEF d, q, rows, o
    <2>4. \A s \in rows : Covers(s, d) => s.pass = p
      <3> SUFFICES ASSUME NEW s \in rows, Covers(s, d) PROVE s.pass = p OBVIOUS
      <3>1. PICK u \in RowsOf(g, c) : CameFrom(s, u, g, c, d, "exit") BY <2>1
      <3>2. s # u BY <2>2, <3>1
      <3>3. u.pass \in CheckedOutOn(g, c, d) /\ s.pass = u.pass BY <3>1, <3>2 DEF CameFrom
      <3>4. PICK w \in RowsOf(g, c) : w.to = d /\ w.from < d /\ w.pass = u.pass
        BY <3>3 DEF CheckedOutOn
      <3>5. r.from \in Int /\ w.from \in Int BY <2>0, <2>2, <3>4, RowsOfTheCar
      <3>6. Covers(w, d - 1) /\ Covers(r, d - 1) /\ d - 1 \in Int
        BY <2>1, <2>2, <3>4, <3>5 DEF Covers
      <3>7. w = r BY <2>0, <2>2, <3>6, OneRowADay
      <3> QED BY <3>3, <3>4, <3>7
    <2>14. /\ \A k \in DOMAIN o : k \in Engine!Effective(q) <=> Covers(o[k], d)
           /\ \A k \in DOMAIN o : o[k] \in rows
           /\ Engine!Effective(q) \subseteq DOMAIN o
      <3>1. AskedOfTheStore(q, rows, o, d, g, c, sys) BY <2>1
      <3> QED BY <3>1, TheRowsThatCover
    <2>5. live # {}
      <3>1. PICK s \in rows : s.pass = p /\ Covers(s, d) BY <2>3
      <3>2. PICK k \in DOMAIN o : o[k] = s
        BY <2>1 DEF AskedOfTheStore, HandsIn, Lists
      <3> QED BY <2>14, <3>1, <3>2
    <2>6. \A k \in live : o[k].pass = p BY <2>4, <2>14
    <2>7. p \in Passes BY <2>0, <2>2, RowsOfTheCar
    <2> HIDE DEF p, live
    <2>8. /\ \E j \in DOMAIN q.passes :
                Engine!Candidates(q) = {j} /\ q.passes[j] = PassHanded(p, sys)
          /\ Engine!FirstOf(q, Engine!Candidates(q)) = PassHanded(p, sys)
      <3>1. HoldsAlone(p, q, o) BY <2>5, <2>6 DEF HoldsAlone, live
      <3> QED BY <2>1, <3>1, TheOnlyPass
    <2>9. PICK j \in DOMAIN q.passes :
               Engine!Candidates(q) = {j} /\ q.passes[j] = PassHanded(p, sys)
      BY <2>8
    <2> DEFINE answer == Engine!Covered(p, Engine!Unmeasured(q, PassHanded(p, sys)))
    <2>10. Engine!Evaluate(q, PassHanded(p, sys)) = answer
      <3>1. /\ passState[p] = "active" /\ ~ExpiredOn(p, Engine!Today(q))
            /\ p \notin sys.stranded
        BY <2>1, <2>2 DEF p, AskedOfTheStore
      <3>2. \A check \in TERMS_CHECKS : ~Engine!Fails(q, PassHanded(p, sys), check) BY DEF p, q
      <3> QED BY <2>1, <2>7, <3>1, <3>2, AnExitIsCovered
    <2>11. /\ answer.outcome = "covered" /\ answer.pass = p
           /\ Engine!NamingInconsistency(answer).outcome = "covered"
           /\ Engine!NamingInconsistency(answer).pass = p
      BY DEF Engine!Covered, Engine!NamingInconsistency
    <2> HIDE DEF answer
    <2>12. Engine!Dangling(q) = {} /\ Engine!DuplicatedInForce(q) = {}
      BY <2>1, NothingIsMissing DEF AskedOfTheStore
    <2>13. Engine!OfTheRegistrations(q) \in {answer, Engine!NamingInconsistency(answer)}
      <3>1. CASE Engine!Cardinality(live) = 1
        BY <2>5, <2>8, <2>10, <2>12, <3>1 DEF Engine!OfTheRegistrations, live
      <3>2. CASE Engine!Cardinality(live) # 1
        <4>1. Engine!OfTheRegistrations(q) = Engine!EveryCopy(q)
          BY <2>1, <2>5, <2>12, <3>2 DEF Engine!OfTheRegistrations, Engine!IsExit, live
        <4> DEFINE covering == { k \in Engine!Candidates(q) :
                                   Engine!Evaluate(q, q.passes[k]).outcome = "covered" }
        <4>2. covering = Engine!Candidates(q) BY <2>9, <2>10, <2>11
        <4>3. covering # {} BY <2>9, <4>2
        <4> HIDE DEF covering
        <4>4. Engine!EveryCopy(q) = Engine!NamingInconsistency(answer)
          <5>1. Engine!EveryCopy(q) =
                  Engine!NamingInconsistency(Engine!Evaluate(q, Engine!FirstOf(q, covering)))
            BY <4>3 DEF Engine!EveryCopy, covering
          <5> QED BY <2>8, <2>10, <4>2, <5>1
        <4> QED BY <4>1, <4>4
      <3> QED BY <3>1, <3>2
    <2> QED BY <2>1, <2>11, <2>13 DEF p
  <1> QED BY <1>1, CredentialsAreSound, PTL

-----------------------------------------------------------------------------
(* One character put into a sequence. *)

(* y is x with c put in at place p. *)
Inserted(x, p, c, y) ==
    /\ p \in 1..(Len(x) + 1) /\ Len(y) = Len(x) + 1 /\ y[p] = c
    /\ \A k \in 1..(p - 1) : y[k] = x[k]
    /\ \A k \in p..Len(x) : y[k + 1] = x[k]

LEMMA Inserting ==
    ASSUME NEW S, NEW x \in Seq(S), NEW p \in 1..(Len(x) + 1), NEW c \in S
    PROVE  InsertAt(x, p, c) \in Seq(S) /\ Inserted(x, p, c, InsertAt(x, p, c))
  <1> DEFINE a == SubSeq(x, 1, p - 1)
             b == SubSeq(x, p, Len(x))
             y == (a \o <<c>>) \o b
  <1>1. Len(x) \in Nat /\ p \in Nat /\ \A k \in 1..Len(x) : x[k] \in S
    BY LenProperties, ElementOfSeq
  <1>2. /\ a \in Seq(S) /\ Len(a) = p - 1
        /\ \A k \in 1..(p - 1) : a[k] = x[k]
    BY <1>1, SubSeqProperties
  <1>3. /\ b \in Seq(S) /\ Len(b) = Len(x) - p + 1
        /\ \A k \in 1..(Len(x) - p + 1) : b[k] = x[p + k - 1]
    BY <1>1, SubSeqProperties
  <1>4. <<c>> \in Seq(S) /\ Len(<<c>>) = 1 /\ <<c>>[1] = c
    OBVIOUS
  <1> HIDE DEF a, b
  <1>5. /\ a \o <<c>> \in Seq(S) /\ Len(a \o <<c>>) = p
        /\ \A k \in 1..(p - 1) : (a \o <<c>>)[k] = x[k]
        /\ (a \o <<c>>)[p] = c
    BY <1>1, <1>2, <1>4, ConcatProperties
  <1> DEFINE d == a \o <<c>>
  <1> HIDE DEF d
  <1>6. d \in Seq(S) /\ Len(d) = p /\ d[p] = c /\ \A k \in 1..(p - 1) : d[k] = x[k]
    BY <1>5 DEF d
  <1>7. /\ d \o b \in Seq(S) /\ Len(d \o b) = Len(x) + 1
        /\ \A k \in 1..(Len(x) + 1) : (d \o b)[k] = IF k <= p THEN d[k] ELSE b[k - p]
    <2>1. Len(d) + Len(b) = Len(x) + 1
      BY <1>1, <1>3, <1>6
    <2> QED
      BY <1>3, <1>6, <2>1, ConcatProperties
  <1>8. InsertAt(x, p, c) = d \o b
    BY DEF InsertAt, a, b, d
  <1> DEFINE z == d \o b
  <1> HIDE DEF z
  <1>9. /\ z \in Seq(S) /\ Len(z) = Len(x) + 1
        /\ \A k \in 1..(Len(x) + 1) : z[k] = IF k <= p THEN d[k] ELSE b[k - p]
    BY <1>7 DEF z
  <1>10. z[p] = c /\ \A k \in 1..(p - 1) : z[k] = x[k]
    BY <1>1, <1>6, <1>9
  <1>11. ASSUME NEW k \in p..Len(x) PROVE z[k + 1] = x[k]
    <2>1. z[k + 1] = b[k + 1 - p] /\ k + 1 - p \in 1..(Len(x) - p + 1)
      BY <1>1, <1>9
    <2>2. p + (k + 1 - p) - 1 = k
      BY <1>1
    <2> QED
      BY <1>3, <2>1, <2>2
  <1>12. Inserted(x, p, c, z)
    BY <1>9, <1>10, <1>11 DEF Inserted
  <1> QED
    BY <1>8, <1>9, <1>12 DEF z

(* It is the only such sequence. *)
LEMMA OneInsertion ==
    ASSUME NEW S, NEW x \in Seq(S), NEW p, NEW c \in S, NEW y \in Seq(S), Inserted(x, p, c, y)
    PROVE  y = InsertAt(x, p, c)
  <1>1. p \in 1..(Len(x) + 1) /\ Len(x) \in Nat
    BY LenProperties DEF Inserted
  <1> DEFINE z == InsertAt(x, p, c)
  <1>2. z \in Seq(S) /\ Inserted(x, p, c, z)
    BY <1>1, Inserting
  <1> HIDE DEF z
  <1>3. ASSUME NEW k \in 1..Len(y) PROVE y[k] = z[k]
    <2>1. CASE k < p
      <3>1. k \in 1..(p - 1)
        BY <1>1, <2>1
      <3> QED
        BY <1>2, <3>1 DEF Inserted
    <2>2. CASE k = p
      BY <1>1, <1>2, <2>2 DEF Inserted
    <2>3. CASE k > p
      <3>1. k - 1 \in p..Len(x) /\ (k - 1) + 1 = k
        BY <1>1, <2>3 DEF Inserted
      <3>2. y[(k - 1) + 1] = x[k - 1] /\ z[(k - 1) + 1] = x[k - 1]
        BY <1>2, <3>1 DEF Inserted
      <3> QED
        BY <3>1, <3>2
    <2> QED
      BY <1>1, <2>1, <2>2, <2>3
  <1>4. y = z
    BY <1>2, <1>3, SeqEqual DEF Inserted
  <1> QED
    BY <1>4 DEF z

(* What is taken out can be put back, or something else in its place. *)
LEMMA Removing ==
    ASSUME NEW S, NEW y \in Seq(S), NEW p \in 1..Len(y)
    PROVE  /\ RemoveAt(y, p) \in Seq(S) /\ p \in 1..(Len(RemoveAt(y, p)) + 1)
           /\ y[p] \in S /\ Inserted(RemoveAt(y, p), p, y[p], y)
           /\ InsertAt(RemoveAt(y, p), p, y[p]) = y
           /\ \A c \in S : ReplaceAt(y, p, c) = InsertAt(RemoveAt(y, p), p, c)
  <1> DEFINE a == SubSeq(y, 1, p - 1)
             b == SubSeq(y, p + 1, Len(y))
             x == a \o b
  <1>1. Len(y) \in Nat /\ p \in Nat /\ \A k \in 1..Len(y) : y[k] \in S
    BY LenProperties, ElementOfSeq
  <1>2. /\ a \in Seq(S) /\ Len(a) = p - 1
        /\ \A k \in 1..(p - 1) : a[k] = y[k]
    BY <1>1, SubSeqProperties
  <1>3. /\ b \in Seq(S) /\ Len(b) = Len(y) - p
        /\ \A k \in 1..(Len(y) - p) : b[k] = y[p + k]
    <2>1. CASE p < Len(y)
      <3>1. /\ b \in Seq(S) /\ Len(b) = Len(y) - (p + 1) + 1
            /\ \A k \in 1..(Len(y) - (p + 1) + 1) : b[k] = y[(p + 1) + k - 1]
        BY <1>1, <2>1, SubSeqProperties
      <3> HIDE DEF b
      <3>2. ASSUME NEW k \in 1..(Len(y) - p) PROVE b[k] = y[p + k]
        <4>1. k \in 1..(Len(y) - (p + 1) + 1) /\ (p + 1) + k - 1 = p + k
          BY <1>1
        <4> QED
          BY <3>1, <4>1
      <3> QED
        BY <1>1, <3>1, <3>2
    <2>2. CASE p = Len(y)
      <3>1. b = << >>
        BY <1>1, <2>2, SubSeqEmpty
      <3>2. << >> \in Seq(S) /\ Len(<< >>) = 0
        BY EmptySeq
      <3> HIDE DEF b
      <3> QED
        BY <1>1, <2>2, <3>1, <3>2
    <2> QED
      BY <1>1, <2>1, <2>2
  <1> HIDE DEF a, b
  <1>4. /\ x \in Seq(S) /\ Len(x) = Len(y) - 1
        /\ \A k \in 1..(Len(y) - 1) : x[k] = IF k <= p - 1 THEN a[k] ELSE b[k - (p - 1)]
    BY <1>1, <1>2, <1>3, ConcatProperties
  <1>5. RemoveAt(y, p) = x
    BY DEF RemoveAt, a, b
  <1> HIDE DEF x
  <1>6. p \in 1..(Len(x) + 1)
    BY <1>1, <1>4
  <1>7. ASSUME NEW k \in p..Len(x) PROVE y[k + 1] = x[k]
    <2>1. x[k] = b[k - (p - 1)] /\ k - (p - 1) \in 1..(Len(y) - p) /\ p + (k - (p - 1)) = k + 1
      BY <1>1, <1>4
    <2> QED
      BY <1>3, <2>1
  <1>8. Inserted(x, p, y[p], y)
    <2>1. ASSUME NEW k \in 1..(p - 1) PROVE y[k] = x[k]
      <3>1. k \in 1..(Len(y) - 1) /\ k <= p - 1
        BY <1>1
      <3>2. x[k] = a[k]
        BY <1>4, <3>1
      <3> QED
        BY <1>2, <3>2
    <2>2. Len(y) = Len(x) + 1
      BY <1>1, <1>4
    <2> QED
      BY <1>6, <1>7, <2>1, <2>2 DEF Inserted
  <1>9. ASSUME NEW c \in S PROVE ReplaceAt(y, p, c) = InsertAt(x, p, c)
    <2> DEFINE z == [y EXCEPT ![p] = c]
    <2>1. /\ z \in Seq(S) /\ Len(z) = Len(y)
          /\ \A j \in 1..Len(y) : z[j] = IF j = p THEN c ELSE y[j]
      BY ExceptSeq
    <2> HIDE DEF z
    <2>2. Inserted(x, p, c, z)
      BY <1>1, <1>4, <1>8, <2>1 DEF Inserted
    <2>3. z = InsertAt(x, p, c)
      BY <1>4, <2>1, <2>2, OneInsertion
    <2> QED
      BY <2>3 DEF ReplaceAt, z
  <1>10. InsertAt(x, p, y[p]) = y
    BY <1>1, <1>4, <1>8, OneInsertion
  <1> QED
    BY <1>1, <1>4, <1>5, <1>6, <1>8, <1>9, <1>10

(* What is added to both at the end leaves the place of an insertion.      *)
LEMMA InsertedBeforeTheEnd ==
    ASSUME NEW S, NEW x \in Seq(S), NEW y \in Seq(S), NEW p, NEW c, Inserted(x, p, c, y),
           NEW e \in S
    PROVE  Inserted(Append(x, e), p, c, Append(y, e))
  <1> DEFINE u == Append(x, e)
             v == Append(y, e)
  <1>1. Len(x) \in Nat /\ Len(y) = Len(x) + 1 /\ p \in 1..(Len(x) + 1)
    BY LenProperties DEF Inserted
  <1>2. /\ Len(u) = Len(x) + 1 /\ u[Len(x) + 1] = e
        /\ \A k \in 1..Len(x) : u[k] = x[k]
    BY <1>1, AppendProperties
  <1>3. /\ Len(v) = Len(y) + 1 /\ v[Len(y) + 1] = e
        /\ \A k \in 1..Len(y) : v[k] = y[k]
    BY <1>1, AppendProperties
  <1> HIDE DEF u, v
  <1>4. ASSUME NEW k \in p..(Len(x) + 1) PROVE v[k + 1] = u[k]
    <2>1. CASE k = Len(x) + 1
      BY <1>1, <1>2, <1>3, <2>1
    <2>2. CASE k # Len(x) + 1
      <3>1. k \in p..Len(x) /\ k \in 1..Len(x) /\ k + 1 \in 1..Len(y)
        BY <1>1, <2>2
      <3>2. v[k + 1] = y[k + 1] /\ y[k + 1] = x[k] /\ u[k] = x[k]
        BY <1>2, <1>3, <3>1 DEF Inserted
      <3> QED
        BY <3>2
    <2> QED
      BY <2>1, <2>2
  <1>5. ASSUME NEW k \in 1..(p - 1) PROVE v[k] = u[k]
    <2>1. k \in 1..Len(x) /\ k \in 1..Len(y)
      BY <1>1
    <2>2. v[k] = y[k] /\ u[k] = x[k] /\ y[k] = x[k]
      BY <1>2, <1>3, <2>1 DEF Inserted
    <2> QED
      BY <2>2
  <1>6. v[p] = c
    <2>1. p \in 1..Len(y) /\ y[p] = c
      BY <1>1 DEF Inserted
    <2> QED
      BY <1>3, <2>1
  <1>7. Inserted(u, p, c, v)
    BY <1>1, <1>2, <1>3, <1>4, <1>5, <1>6 DEF Inserted
  <1> QED
    BY <1>7 DEF u, v

(* What was put in and is taken out again leaves what there was.           *)
LEMMA OneRemoval ==
    ASSUME NEW S, NEW x \in Seq(S), NEW y \in Seq(S), NEW p, NEW c, Inserted(x, p, c, y)
    PROVE  p \in 1..Len(y) /\ x = RemoveAt(y, p)
  <1>1. Len(x) \in Nat /\ p \in 1..(Len(x) + 1) /\ p \in 1..Len(y) /\ Len(y) = Len(x) + 1
    BY LenProperties DEF Inserted
  <1> DEFINE z == RemoveAt(y, p)
  <1>2. z \in Seq(S) /\ Inserted(z, p, y[p], y)
    BY <1>1, Removing
  <1> HIDE DEF z
  <1>3. Len(z) \in Nat /\ Len(y) = Len(z) + 1
    BY <1>2, LenProperties DEF Inserted
  <1>4. Len(z) = Len(x)
    BY <1>1, <1>3
  <1>5. ASSUME NEW k \in 1..Len(x) PROVE x[k] = z[k]
    <2>1. k \in 1..(p - 1) \/ k \in p..Len(x)
      BY <1>1
    <2> QED
      BY <1>2, <1>4, <2>1 DEF Inserted
  <1>6. x = z
    BY <1>2, <1>4, <1>5, SeqEqual
  <1> QED
    BY <1>1, <1>6 DEF z

-----------------------------------------------------------------------------
(* The walk over a text. *)

(* What the assumption on the folds says of one character.                 *)
LEMMA FoldFacts ==
    /\ \A ch \in Chars : KeyOf[ch] \in Chars /\ LookAlike[ch] \in Chars
    /\ \A ch \in Chars : KeyOf[KeyOf[ch]] = KeyOf[ch]
    /\ \A ch \in Text : ch \in Chars <=> ch \notin Separators
    /\ \A ch \in Separators : ch \in Text /\ ch \notin Chars
    /\ \A ch \in Chars : ch \in Text
  BY FoldAssumption DEF Text

(* Its recursion has a solution, which it chooses.                         *)
LEMMA TheWalkOverAText ==
    ASSUME NEW text \in Seq(Text)
    PROVE  /\ KeyUpTo(text)[0] = << >>
           /\ \A i \in 1..Len(text) :
                KeyUpTo(text)[i] = IF text[i] \in Separators THEN KeyUpTo(text)[i - 1]
                                   ELSE Append(KeyUpTo(text)[i - 1], KeyOf[text[i]])
  <1> DEFINE Step(acc, i) == IF i = 0 THEN << >>
                             ELSE IF text[i] \in Separators THEN acc
                             ELSE Append(acc, KeyOf[text[i]])
             Walk(n, h) == h = [i \in 0..n |-> Step(h[i - 1], i)]
             N == Len(text)
  <1>1. N \in Nat
    BY LenProperties
  <1>2. \A a : Step(a, 0) = << >>
    OBVIOUS
  <1>3. KeyUpTo(text) = CHOOSE h : Walk(N, h)
    BY DEF KeyUpTo
  <1> HIDE DEF N
  <1>4. ASSUME NEW n \in Nat PROVE \E h : Walk(n, h)
    <2> HIDE DEF Step
    <2> DEFINE T == { m \in Nat : ~\E h : Walk(m, h) }
    <2> SUFFICES ASSUME T # {} PROVE FALSE
      OBVIOUS
    <2>1. PICK m \in T : \A y \in T : m <= y
      BY LeastNatural
    <2>2. CASE m = 0
      <3> DEFINE h == [i \in 0..0 |-> << >>]
      <3>1. \A i \in 0..0 : i = 0
        OBVIOUS
      <3>2. \A i \in 0..0 : Step(h[i - 1], i) = << >>
        BY <1>2, <3>1
      <3>3. Walk(0, h)
        BY <3>2
      <3> QED
        BY <2>1, <2>2, <3>3
    <2>3. CASE m # 0
      <3>1. m - 1 \in Nat /\ m - 1 \notin T
        BY <2>1, <2>3
      <3>2. PICK h : Walk(m - 1, h)
        BY <3>1
      <3> DEFINE k == [i \in 0..m |-> IF i = m THEN Step(h[m - 1], m) ELSE h[i]]
      <3>3. \A i \in 0..(m - 1) : h[i] = Step(h[i - 1], i)
        BY <3>2
      <3>4. ASSUME NEW i \in 0..m PROVE k[i] = Step(k[i - 1], i)
        <4>1. CASE i = 0
          <5>0. m \in Nat /\ 0 \in 0..m /\ 0 \in 0..(m - 1) /\ 0 # m
            BY <2>3, <3>1
          <5>1. k[0] = h[0] /\ h[0] = Step(h[0 - 1], 0)
            BY <3>3, <5>0
          <5> QED
            BY <1>2, <4>1, <5>1
        <4>2. CASE i # 0
          <5>1. i - 1 \in 0..m /\ i - 1 # m /\ k[i - 1] = h[i - 1]
            BY <4>2
          <5>2. CASE i = m
            BY <5>1, <5>2
          <5>3. CASE i # m
            <6>1. i \in 0..(m - 1) /\ k[i] = h[i]
              BY <5>3
            <6> QED
              BY <3>3, <5>1, <6>1
          <5> QED
            BY <5>2, <5>3
        <4> QED
          BY <4>1, <4>2
      <3>5. Walk(m, k)
        <4>1. k = [i \in 0..m |-> k[i]]
          OBVIOUS
        <4> HIDE DEF k
        <4> QED
          BY <3>4, <4>1
      <3> QED
        BY <2>1, <3>5
    <2> QED
      BY <2>2, <2>3
  <1> DEFINE K == KeyUpTo(text)
  <1>5. Walk(N, K)
    <2>1. \E h : Walk(N, h)
      BY <1>1, <1>4
    <2> HIDE DEF Walk
    <2> QED
      BY <1>3, <2>1
  <1> HIDE DEF K
  <1>6. \A i \in 0..N : K[i] = Step(K[i - 1], i)
    <2> HIDE DEF Step
    <2> QED
      BY <1>5
  <1>7. K[0] = << >>
    BY <1>1, <1>6
  <1>8. ASSUME NEW i \in 1..N
        PROVE  K[i] = IF text[i] \in Separators THEN K[i - 1]
                      ELSE Append(K[i - 1], KeyOf[text[i]])
    <2>1. i \in 0..N /\ i # 0
      BY <1>1
    <2> QED
      BY <1>6, <2>1
  <1> QED
    BY <1>7, <1>8 DEF K, N

(* A key is in its normal form already.                                    *)
Folded == { ch \in Chars : KeyOf[ch] = ch }

LEMMA KeysAreFolded ==
    ASSUME NEW text \in Seq(Text)
    PROVE  /\ \A i \in 0..Len(text) : KeyUpTo(text)[i] \in Seq(Folded)
           /\ plate_key(text) \in Seq(Folded)
  <1> DEFINE K == KeyUpTo(text)
             T == { i \in 0..Len(text) : K[i] \notin Seq(Folded) }
  <1>1. Len(text) \in Nat /\ T \subseteq Nat
    BY LenProperties
  <1>2. ASSUME T # {} PROVE FALSE
    <2>1. PICK i \in T : \A j \in T : i <= j
      BY <1>1, <1>2, LeastNatural
    <2>2. i # 0
      <3>1. K[0] = << >>
        BY TheWalkOverAText
      <3>2. << >> \in Seq(Folded)
        BY EmptySeq
      <3> HIDE DEF K
      <3> QED
        BY <2>1, <3>1, <3>2
    <2>3. i \in 1..Len(text) /\ i - 1 \in 0..Len(text) /\ ~(i <= i - 1)
      BY <1>1, <2>1, <2>2
    <2>4. K[i - 1] \in Seq(Folded)
      BY <2>1, <2>3
    <2>5. text[i] \in Text
      BY <2>3, ElementOfSeq
    <2> HIDE DEF K
    <2>6. CASE text[i] \in Separators
      <3>1. K[i] = K[i - 1]
        BY <2>3, <2>6, TheWalkOverAText DEF K
      <3> QED
        BY <2>1, <2>4, <3>1
    <2>7. CASE text[i] \notin Separators
      <3>1. K[i] = Append(K[i - 1], KeyOf[text[i]])
        BY <2>3, <2>7, TheWalkOverAText DEF K
      <3>2. KeyOf[text[i]] \in Folded
        BY <2>5, <2>7, FoldFacts DEF Folded
      <3>3. K[i] \in Seq(Folded)
        BY <2>4, <3>1, <3>2, AppendProperties
      <3> QED
        BY <2>1, <3>3
    <2> QED
      BY <2>6, <2>7
  <1> QED
    BY <1>1, <1>2 DEF plate_key

(* And a sequence of characters.                                           *)
LEMMA KeysAreSequences ==
    ASSUME NEW text \in Seq(Text)
    PROVE  /\ \A i \in 0..Len(text) : KeyUpTo(text)[i] \in Seq(Chars)
           /\ plate_key(text) \in Seq(Chars)
  <1>1. Folded \subseteq Chars
    BY DEF Folded
  <1>2. \A x \in Seq(Folded) : x \in Seq(Chars)
    BY <1>1, SeqMonotonic
  <1> QED
    BY <1>2, KeysAreFolded

(* A key is its own key.                                                   *)
LEMMA TheKeyOfAKey ==
    ASSUME NEW x \in Seq(Folded)
    PROVE  plate_key(x) = x
  <1>1. Folded \subseteq Chars /\ Folded \subseteq Text /\ \A ch \in Folded : ch \notin Separators
    BY FoldFacts DEF Folded
  <1>2. x \in Seq(Text) /\ Len(x) \in Nat
    BY <1>1, SeqMonotonic, LenProperties
  <1> DEFINE K == KeyUpTo(x)
  <1>3. /\ K[0] = << >>
        /\ \A j \in 1..Len(x) : K[j] = IF x[j] \in Separators THEN K[j - 1]
                                       ELSE Append(K[j - 1], KeyOf[x[j]])
    BY <1>2, TheWalkOverAText
  <1>4. \A j \in 0..Len(x) : K[j] \in Seq(Folded)
    BY <1>2, KeysAreFolded
  <1>5. plate_key(x) = K[Len(x)]
    BY DEF plate_key
  <1> HIDE DEF K
  <1> DEFINE Same(j) == Len(K[j]) = j /\ \A k \in 1..j : K[j][k] = x[k]
             T == { j \in 0..Len(x) : ~Same(j) }
  <1>6. ASSUME T # {} PROVE FALSE
    <2>0. T \subseteq Nat
      BY <1>2
    <2>1. PICK n \in T : \A m \in T : n <= m
      <3> HIDE DEF T
      <3> QED
        BY <1>6, <2>0, LeastNatural
    <2>2. Same(0)
      BY <1>3, EmptySeq
    <2> HIDE DEF Same
    <2>3. /\ n \in 1..Len(x) /\ n - 1 \in 0..Len(x) /\ ~(n <= n - 1)
          /\ n \in 0..Len(x)
      BY <1>2, <2>1, <2>2
    <2>4. Same(n - 1)
      BY <2>1, <2>3
    <2>5. x[n] \in Folded
      BY <2>3, ElementOfSeq
    <2> DEFINE y == K[n - 1]
    <2>6. y \in Seq(Folded) /\ Len(y) = n - 1 /\ \A k \in 1..(n - 1) : y[k] = x[k]
      BY <1>4, <2>3, <2>4 DEF Same
    <2>7. K[n] = Append(y, x[n])
      BY <1>1, <1>3, <2>3, <2>5 DEF Folded
    <2> HIDE DEF y
    <2>8. /\ Len(K[n]) = n /\ K[n][n] = x[n]
          /\ \A k \in 1..(n - 1) : K[n][k] = y[k]
      BY <2>3, <2>5, <2>6, <2>7, AppendProperties
    <2>9. \A k \in 1..n : k = n \/ k \in 1..(n - 1)
      BY <2>3
    <2>10. Same(n)
      BY <2>6, <2>8, <2>9 DEF Same
    <2> QED
      BY <2>1, <2>10
  <1>7. Same(Len(x))
    <2>1. Len(x) \in 0..Len(x)
      BY <1>2
    <2> HIDE DEF Same
    <2> QED
      BY <1>6, <2>1
  <1>8. K[Len(x)] \in Seq(Folded)
    BY <1>2, <1>4
  <1>9. K[Len(x)] = x
    BY <1>7, <1>8, SeqEqual
  <1> QED
    BY <1>5, <1>9

(* A character put into a text is put into its key, at the place its        *)
(* normal form has there, and a separator leaves the key as it is.          *)
LEMMA KeyOfAnInsertion ==
    ASSUME NEW s \in Seq(Text), NEW i \in 1..(Len(s) + 1)
    PROVE  \E p \in 1..(Len(plate_key(s)) + 1) : \A e \in Text :
             plate_key(InsertAt(s, i, e)) = IF e \in Separators THEN plate_key(s)
                                            ELSE InsertAt(plate_key(s), p, KeyOf[e])
  <1> DEFINE K == KeyUpTo(s)
             p == Len(K[i - 1]) + 1
  <1>1. Len(s) \in Nat /\ i \in Nat /\ i - 1 \in 0..Len(s)
    BY LenProperties
  <1>2. \A j \in 0..Len(s) : K[j] \in Seq(Chars)
    BY KeysAreSequences
  <1>3. p \in Nat \ {0}
    <2> HIDE DEF K
    <2> QED
      BY <1>1, <1>2, LenProperties
  <1>4. ASSUME NEW e \in Text
        PROVE  /\ p \in 1..(Len(plate_key(s)) + 1)
               /\ plate_key(InsertAt(s, i, e)) = IF e \in Separators THEN plate_key(s)
                                                 ELSE InsertAt(plate_key(s), p, KeyOf[e])
    <2> DEFINE t == InsertAt(s, i, e)
               L == KeyUpTo(t)
    <2>1. t \in Seq(Text) /\ Inserted(s, i, e, t)
      BY Inserting
    <2> HIDE DEF t
    <2>2. /\ Len(t) = Len(s) + 1 /\ t[i] = e
          /\ \A k \in 1..(i - 1) : t[k] = s[k]
          /\ \A k \in i..Len(s) : t[k + 1] = s[k]
      BY <2>1 DEF Inserted
    <2>3. \A j \in 0..Len(t) : L[j] \in Seq(Chars)
      BY <2>1, KeysAreSequences
    <2>4. /\ K[0] = << >>
          /\ \A j \in 1..Len(s) : K[j] = IF s[j] \in Separators THEN K[j - 1]
                                         ELSE Append(K[j - 1], KeyOf[s[j]])
      BY TheWalkOverAText
    <2>5. /\ L[0] = << >>
          /\ \A j \in 1..Len(t) : L[j] = IF t[j] \in Separators THEN L[j - 1]
                                         ELSE Append(L[j - 1], KeyOf[t[j]])
      BY <2>1, TheWalkOverAText
    <2>6. plate_key(s) = K[Len(s)] /\ plate_key(t) = L[Len(t)]
      BY DEF plate_key
    <2> HIDE DEF K, L, p
    <2>7. ASSUME NEW j \in 0..(i - 1) PROVE L[j] = K[j]
      <3> DEFINE T == { n \in 0..(i - 1) : L[n] # K[n] }
      <3>1. T \subseteq Nat
        BY <1>1
      <3>2. ASSUME T # {} PROVE FALSE
        <4>1. PICK n \in T : \A m \in T : n <= m
          BY <3>1, <3>2, LeastNatural
        <4>2. n # 0
          BY <2>4, <2>5, <4>1
        <4>3. n \in 1..(i - 1) /\ n - 1 \in 0..(i - 1) /\ ~(n <= n - 1)
          BY <1>1, <4>1, <4>2
        <4>4. L[n - 1] = K[n - 1]
          BY <4>1, <4>3
        <4>5. n \in 1..Len(s) /\ n \in 1..Len(t)
          BY <1>1, <2>2, <4>3
        <4>6. t[n] = s[n]
          BY <2>2, <4>3
        <4>7. L[n] = K[n]
          BY <2>4, <2>5, <4>4, <4>5, <4>6
        <4> QED
          BY <4>1, <4>7
      <3> QED
        BY <3>2
    <2> DEFINE Beside(j) == /\ p \in 1..(Len(K[j]) + 1)
                            /\ e \in Separators => L[j + 1] = K[j]
                            /\ e \notin Separators => Inserted(K[j], p, KeyOf[e], L[j + 1])
    <2>8. Beside(i - 1)
      <3>1. i \in 1..Len(t) /\ (i - 1) + 1 = i
        BY <1>1, <2>2
      <3>2. L[i - 1] = K[i - 1] /\ K[i - 1] \in Seq(Chars)
        BY <1>1, <1>2, <2>7
      <3>3. L[i] = IF e \in Separators THEN K[i - 1] ELSE Append(K[i - 1], KeyOf[e])
        BY <2>2, <2>5, <3>1, <3>2
      <3>4. p = Len(K[i - 1]) + 1 /\ Len(K[i - 1]) \in Nat
        BY <3>2, LenProperties DEF p
      <3>5. ASSUME e \notin Separators PROVE Inserted(K[i - 1], p, KeyOf[e], L[i])
        <4>1. KeyOf[e] \in Chars
          BY <3>5, FoldFacts
        <4> DEFINE x == K[i - 1]
        <4> HIDE DEF x
        <4>2. x \in Seq(Chars) /\ p = Len(x) + 1 /\ Len(x) \in Nat
          BY <3>2, <3>4 DEF x
        <4> DEFINE y == Append(x, KeyOf[e])
        <4>3. Len(y) = Len(x) + 1 /\ y[Len(x) + 1] = KeyOf[e] /\ \A k \in 1..Len(x) : y[k] = x[k]
          BY <4>1, <4>2, AppendProperties
        <4> HIDE DEF y
        <4>4. Inserted(x, p, KeyOf[e], y)
          BY <4>2, <4>3 DEF Inserted
        <4> QED
          BY <3>3, <3>5, <4>4 DEF x, y
      <3> QED
        BY <3>1, <3>3, <3>4, <3>5
    <2>9. ASSUME NEW j \in (i - 1)..Len(s) PROVE Beside(j)
      <3> HIDE DEF Beside
      <3> DEFINE T == { n \in (i - 1)..Len(s) : ~Beside(n) }
      <3>1. T \subseteq Nat
        BY <1>1
      <3>2. ASSUME T # {} PROVE FALSE
        <4>1. PICK n \in T : \A m \in T : n <= m
          BY <3>1, <3>2, LeastNatural
        <4>2. n # i - 1
          BY <2>8, <4>1
        <4>3. /\ n \in i..Len(s) /\ n - 1 \in (i - 1)..Len(s) /\ ~(n <= n - 1)
              /\ n \in 1..Len(s) /\ n + 1 \in 1..Len(t) /\ (n + 1) - 1 = n /\ (n - 1) + 1 = n
              /\ n \in 0..Len(s) /\ n - 1 \in 0..Len(s) /\ n \in 0..Len(t)
          BY <1>1, <2>2, <4>1, <4>2
        <4>4. Beside(n - 1)
          BY <4>1, <4>3
        <4>5. t[n + 1] = s[n] /\ s[n] \in Text
          BY <2>2, <4>3, ElementOfSeq
        <4> DEFINE x == K[n - 1]
                   y == L[n]
                   f == KeyOf[s[n]]
        <4>6. x \in Seq(Chars) /\ y \in Seq(Chars) /\ Len(x) \in Nat
          BY <1>2, <2>3, <4>3, LenProperties
        <4>7. /\ p \in 1..(Len(x) + 1)
              /\ e \in Separators => y = x
              /\ e \notin Separators => Inserted(x, p, KeyOf[e], y)
          BY <4>3, <4>4 DEF Beside
        <4>8. /\ K[n] = IF s[n] \in Separators THEN x ELSE Append(x, f)
              /\ L[n + 1] = IF s[n] \in Separators THEN y ELSE Append(y, f)
          BY <2>4, <2>5, <4>3, <4>5
        <4> HIDE DEF x, y
        <4>9. CASE s[n] \in Separators
          BY <4>1, <4>7, <4>8, <4>9 DEF Beside
        <4>10. CASE s[n] \notin Separators
          <5>1. f \in Chars
            BY <4>5, <4>10, FoldFacts
          <5> HIDE DEF f
          <5>2. p \in 1..(Len(Append(x, f)) + 1)
            <6>1. Len(Append(x, f)) = Len(x) + 1
              BY <4>6, <5>1, AppendProperties
            <6> QED
              BY <1>3, <4>6, <4>7, <6>1
          <5>3. e \notin Separators => Inserted(Append(x, f), p, KeyOf[e], Append(y, f))
            BY <4>6, <4>7, <5>1, InsertedBeforeTheEnd
          <5> QED
            BY <4>1, <4>7, <4>8, <4>10, <5>2, <5>3 DEF Beside
        <4> QED
          BY <4>9, <4>10
      <3> QED
        BY <3>2
    <2>10. Beside(Len(s))
      <3>1. Len(s) \in (i - 1)..Len(s)
        BY <1>1
      <3> HIDE DEF Beside
      <3> QED
        BY <2>9, <3>1
    <2>11. ASSUME e \notin Separators PROVE plate_key(t) = InsertAt(plate_key(s), p, KeyOf[e])
      <3>1. KeyOf[e] \in Chars
        BY <2>11, FoldFacts
      <3>2. plate_key(s) \in Seq(Chars) /\ plate_key(t) \in Seq(Chars)
        BY <2>1, KeysAreSequences
      <3>3. Inserted(plate_key(s), p, KeyOf[e], plate_key(t))
        BY <2>2, <2>6, <2>10, <2>11
      <3> QED
        BY <3>1, <3>2, <3>3, OneInsertion
    <2>12. p \in 1..(Len(plate_key(s)) + 1) /\ (e \in Separators => plate_key(t) = plate_key(s))
      BY <2>2, <2>6, <2>10
    <2> QED
      BY <2>11, <2>12 DEF t
  <1>5. CASE Text = {}
    <2> SUFFICES \E q \in 1..(Len(plate_key(s)) + 1) : TRUE
      BY <1>5
    <2>1. Len(plate_key(s)) \in Nat
      BY KeysAreSequences, LenProperties
    <2> QED
      BY <2>1
  <1>6. CASE Text # {}
    <2>1. p \in 1..(Len(plate_key(s)) + 1)
      BY <1>4, <1>6
    <2> HIDE DEF p
    <2> QED
      BY <1>4, <2>1
  <1> QED
    BY <1>5, <1>6

(* Reading look-alikes as one keeps the length.                            *)
LEMMA LookAlikesAreSequences ==
    ASSUME NEW x \in Seq(Chars)
    PROVE  /\ Mapped(LookAlike, x) \in Seq(Chars)
           /\ Len(Mapped(LookAlike, x)) = Len(x)
           /\ \A k \in 1..Len(x) : Mapped(LookAlike, x)[k] = LookAlike[x[k]]
  <1>1. Len(x) \in Nat /\ DOMAIN x = 1..Len(x) /\ \A k \in 1..Len(x) : x[k] \in Chars
    BY LenProperties, ElementOfSeq
  <1>2. Mapped(LookAlike, x) = [k \in 1..Len(x) |-> LookAlike[x[k]]]
    BY <1>1 DEF Mapped
  <1>3. \A k \in 1..Len(x) : LookAlike[x[k]] \in Chars
    BY <1>1, FoldFacts
  <1>4. [k \in 1..Len(x) |-> LookAlike[x[k]]] \in [1..Len(x) -> Chars]
    BY <1>3
  <1>5. Mapped(LookAlike, x) \in Seq(Chars)
    BY <1>1, <1>2, <1>4, SeqDef
  <1>6. DOMAIN Mapped(LookAlike, x) = 1..Len(x)
    BY <1>2
  <1>7. Len(Mapped(LookAlike, x)) = Len(x)
    BY <1>1, <1>5, <1>6, LenProperties
  <1> QED
    BY <1>2, <1>5, <1>7

(* And the place of an insertion.                                          *)
LEMMA LookAlikesOfAnInsertion ==
    ASSUME NEW x \in Seq(Chars), NEW p \in 1..(Len(x) + 1), NEW c \in Chars
    PROVE  Mapped(LookAlike, InsertAt(x, p, c)) = InsertAt(Mapped(LookAlike, x), p, LookAlike[c])
  <1> DEFINE y == InsertAt(x, p, c)
             u == Mapped(LookAlike, x)
             v == Mapped(LookAlike, y)
  <1>1. y \in Seq(Chars) /\ Inserted(x, p, c, y)
    BY Inserting
  <1> HIDE DEF y
  <1>2. /\ u \in Seq(Chars) /\ Len(u) = Len(x) /\ \A k \in 1..Len(x) : u[k] = LookAlike[x[k]]
        /\ v \in Seq(Chars) /\ Len(v) = Len(y) /\ \A k \in 1..Len(y) : v[k] = LookAlike[y[k]]
    BY <1>1, LookAlikesAreSequences
  <1>3. Len(x) \in Nat /\ Len(y) = Len(x) + 1 /\ y[p] = c
    BY <1>1, LenProperties DEF Inserted
  <1> HIDE DEF u, v
  <1>4. ASSUME NEW k \in 1..(p - 1) PROVE v[k] = u[k]
    <2>1. k \in 1..Len(x) /\ k \in 1..Len(y) /\ y[k] = x[k]
      BY <1>1, <1>3 DEF Inserted
    <2> QED
      BY <1>2, <2>1
  <1>5. ASSUME NEW k \in p..Len(x) PROVE v[k + 1] = u[k]
    <2>1. k \in 1..Len(x) /\ k + 1 \in 1..Len(y) /\ y[k + 1] = x[k]
      BY <1>1, <1>3 DEF Inserted
    <2> QED
      BY <1>2, <2>1
  <1>6. p \in 1..Len(y) /\ v[p] = LookAlike[c]
    BY <1>2, <1>3
  <1>7. Inserted(u, p, LookAlike[c], v)
    BY <1>2, <1>3, <1>4, <1>5, <1>6 DEF Inserted
  <1>8. LookAlike[c] \in Chars
    BY FoldFacts
  <1>9. v = InsertAt(u, p, LookAlike[c])
    BY <1>2, <1>7, <1>8, OneInsertion
  <1> QED
    BY <1>9 DEF u, v, y

(* What one character put into a text does to what a lane compares.        *)
LEMMA LookAlikeKeyOfAnInsertion ==
    ASSUME NEW s \in Seq(Text), NEW i \in 1..(Len(s) + 1)
    PROVE  /\ look_alike_key(s) \in Seq(Chars)
           /\ \E p \in 1..(Len(look_alike_key(s)) + 1) : \A e \in Text :
                /\ e \in Separators =>
                     /\ plate_key(InsertAt(s, i, e)) = plate_key(s)
                     /\ look_alike_key(InsertAt(s, i, e)) = look_alike_key(s)
                /\ e \notin Separators =>
                     /\ plate_key(InsertAt(s, i, e)) # << >>
                     /\ look_alike_key(InsertAt(s, i, e))
                          = InsertAt(look_alike_key(s), p, LookAlike[KeyOf[e]])
  <1> DEFINE x == plate_key(s)
             u == look_alike_key(s)
  <1>1. x \in Seq(Chars)
    BY KeysAreSequences
  <1>2. u \in Seq(Chars) /\ Len(u) = Len(x)
    BY <1>1, LookAlikesAreSequences DEF look_alike_key
  <1>3. PICK p \in 1..(Len(x) + 1) : \A e \in Text :
             plate_key(InsertAt(s, i, e)) = IF e \in Separators THEN x
                                            ELSE InsertAt(x, p, KeyOf[e])
    BY KeyOfAnInsertion
  <1>4. u = Mapped(LookAlike, x)
    BY DEF look_alike_key
  <1> HIDE DEF x, u
  <1>5. ASSUME NEW e \in Text, e \notin Separators
        PROVE  /\ plate_key(InsertAt(s, i, e)) # << >>
               /\ look_alike_key(InsertAt(s, i, e)) = InsertAt(u, p, LookAlike[KeyOf[e]])
    <2>1. KeyOf[e] \in Chars
      BY <1>5, FoldFacts
    <2>2. plate_key(InsertAt(s, i, e)) = InsertAt(x, p, KeyOf[e])
      BY <1>3, <1>5
    <2>3. Len(InsertAt(x, p, KeyOf[e])) = Len(x) + 1 /\ Len(x) \in Nat
      BY <1>1, <2>1, Inserting, LenProperties DEF Inserted
    <2>4. Len(<< >>) = 0
      BY EmptySeq
    <2>5. InsertAt(x, p, KeyOf[e]) # << >>
      BY <2>3, <2>4
    <2>6. Mapped(LookAlike, InsertAt(x, p, KeyOf[e])) = InsertAt(u, p, LookAlike[KeyOf[e]])
      BY <1>1, <1>4, <2>1, LookAlikesOfAnInsertion
    <2> QED
      BY <2>2, <2>5, <2>6 DEF look_alike_key
  <1>6. ASSUME NEW e \in Text, e \in Separators
        PROVE  plate_key(InsertAt(s, i, e)) = x /\ look_alike_key(InsertAt(s, i, e)) = u
    BY <1>3, <1>4, <1>6 DEF look_alike_key
  <1>7. p \in 1..(Len(u) + 1)
    BY <1>2
  <1>8. \A e \in Text :
          /\ e \in Separators => plate_key(InsertAt(s, i, e)) = x
                                 /\ look_alike_key(InsertAt(s, i, e)) = u
          /\ e \notin Separators =>
               /\ plate_key(InsertAt(s, i, e)) # << >>
               /\ look_alike_key(InsertAt(s, i, e)) = InsertAt(u, p, LookAlike[KeyOf[e]])
    BY <1>5, <1>6
  <1> QED
    BY <1>2, <1>7, <1>8 DEF x, u

-----------------------------------------------------------------------------
(* One difference. *)

(* Among two sequences of which one is longer by one: one is the other     *)
(* with one character put in where, past the first difference, the rest    *)
(* of both is the same.                                                    *)
LEMMA OneLonger ==
    ASSUME NEW S, NEW x \in Seq(S), NEW y \in Seq(S), Len(y) = Len(x) + 1
    PROVE  (\E p \in 1..(Len(x) + 1) : Inserted(x, p, y[p], y))
             <=> \A i \in { k \in DOMAIN x : x[k] # y[k] } :
                   (\A j \in { k \in DOMAIN x : x[k] # y[k] } : i <= j) =>
                     SubSeq(x, i, Len(x)) = SubSeq(y, i + 1, Len(y))
  <1> DEFINE differ == { k \in DOMAIN x : x[k] # y[k] }
             Rest(i) == SubSeq(x, i, Len(x)) = SubSeq(y, i + 1, Len(y))
  <1>1. Len(x) \in Nat /\ DOMAIN x = 1..Len(x) /\ differ \subseteq Nat
        /\ \A k \in 1..Len(x) : x[k] \in S
    BY LenProperties, ElementOfSeq
  <1>2. \A k \in 1..Len(y) : y[k] \in S
    BY ElementOfSeq
  <1>3. ASSUME NEW i \in 1..Len(x)
        PROVE  Rest(i) <=> \A k \in i..Len(x) : y[k + 1] = x[k]
    <2> DEFINE a == SubSeq(x, i, Len(x))
               b == SubSeq(y, i + 1, Len(y))
    <2>1. /\ a \in Seq(S) /\ Len(a) = Len(x) - i + 1
          /\ \A k \in 1..(Len(x) - i + 1) : a[k] = x[i + k - 1]
      BY <1>1, SubSeqProperties
    <2>2. /\ b \in Seq(S) /\ Len(b) = Len(y) - (i + 1) + 1
          /\ \A k \in 1..(Len(y) - (i + 1) + 1) : b[k] = y[(i + 1) + k - 1]
      <3>1. \A k \in (i + 1)..Len(y) : y[k] \in S
        BY <1>1, <1>2
      <3>2. i + 1 <= Len(y) /\ i + 1 \in Int /\ Len(y) \in Int
        BY <1>1
      <3> QED
        BY <3>1, <3>2, SubSeqProperties
    <2> HIDE DEF a, b
    <2>3. Len(b) = Len(a)
      BY <1>1, <2>1, <2>2
    <2>4. ASSUME NEW k \in i..Len(x) PROVE a[k - i + 1] = x[k] /\ b[k - i + 1] = y[k + 1]
      <3>1. /\ k - i + 1 \in 1..(Len(x) - i + 1) /\ k - i + 1 \in 1..(Len(y) - (i + 1) + 1)
            /\ i + (k - i + 1) - 1 = k /\ (i + 1) + (k - i + 1) - 1 = k + 1
        BY <1>1
      <3> QED
        BY <2>1, <2>2, <3>1
    <2>5. ASSUME a = b PROVE \A k \in i..Len(x) : y[k + 1] = x[k]
      BY <2>4, <2>5
    <2>6. ASSUME \A k \in i..Len(x) : y[k + 1] = x[k] PROVE a = b
      <3>1. ASSUME NEW m \in 1..Len(a) PROVE a[m] = b[m]
        <4>1. m + i - 1 \in i..Len(x) /\ (m + i - 1) - i + 1 = m
          BY <1>1, <2>1
        <4> QED
          BY <2>4, <2>6, <4>1
      <3> QED
        BY <2>1, <2>2, <2>3, <3>1, SeqEqual
    <2> QED
      BY <2>5, <2>6 DEF a, b
  <1> HIDE DEF Rest
  <1>4. ASSUME NEW p \in 1..(Len(x) + 1), Inserted(x, p, y[p], y), NEW i \in differ
        PROVE  Rest(i)
    <2>1. i \in 1..Len(x) /\ ~(i \in 1..(p - 1))
      BY <1>1, <1>4 DEF Inserted
    <2>2. \A k \in i..Len(x) : k \in p..Len(x)
      BY <1>1, <2>1
    <2> QED
      BY <1>3, <1>4, <2>1, <2>2 DEF Inserted
  <1>5. ASSUME \A i \in differ : (\A j \in differ : i <= j) => Rest(i)
        PROVE  \E p \in 1..(Len(x) + 1) : Inserted(x, p, y[p], y)
    <2>1. CASE differ = {}
      <3> DEFINE p == Len(x) + 1
      <3>1. p \in 1..(Len(x) + 1) /\ p - 1 = Len(x) /\ ~\E k \in p..Len(x) : TRUE
        BY <1>1
      <3>2. \A k \in 1..Len(x) : y[k] = x[k]
        BY <1>1, <2>1
      <3>3. Inserted(x, p, y[p], y)
        BY <3>1, <3>2 DEF Inserted
      <3> QED
        BY <3>1, <3>3
    <2>2. CASE differ # {}
      <3>1. PICK i \in differ : \A j \in differ : i <= j
        BY <1>1, <2>2, LeastNatural
      <3>2. i \in 1..Len(x) /\ i \in 1..(Len(x) + 1)
        BY <1>1, <3>1
      <3>3. \A k \in i..Len(x) : y[k + 1] = x[k]
        BY <1>3, <1>5, <3>1, <3>2
      <3>4. ASSUME NEW k \in 1..(i - 1) PROVE y[k] = x[k]
        <4>1. k \in 1..Len(x) /\ ~(i <= k)
          BY <1>1, <3>2
        <4> QED
          BY <1>1, <3>1, <4>1
      <3>5. Inserted(x, i, y[i], y)
        BY <3>2, <3>3, <3>4 DEF Inserted
      <3> QED
        BY <3>2, <3>5
    <2> QED
      BY <2>1, <2>2
  <1> QED
    BY <1>4, <1>5 DEF Rest

(* Two members are two.                                                    *)
LEMMA TwoMembers ==
    ASSUME NEW i, NEW j, i # j
    PROVE  IsFiniteSet({i, j}) /\ Cardinality({i, j}) = 2
  <1>1. IsFiniteSet({i}) /\ Cardinality({i}) = 1
    BY FS_Singleton
  <1>2. j \notin {i} /\ {i} \cup {j} = {i, j}
    OBVIOUS
  <1>3. IsFiniteSet({i} \cup {j}) /\ Cardinality({i} \cup {j}) = Cardinality({i}) + 1
    BY <1>1, <1>2, FS_AddElement
  <1> QED
    BY <1>1, <1>2, <1>3

(* OneAway, by its three kinds of change.                                  *)
LEMMA OneAwayFacts ==
    ASSUME NEW y \in Seq(Chars)
    PROVE  \A x : x \in OneAway(y) <=>
             \/ \E p \in 1..Len(y) : x = RemoveAt(y, p)
             \/ \E p \in 1..Len(y), c \in Chars : x = ReplaceAt(y, p, c)
             \/ \E p \in 1..(Len(y) + 1), c \in Chars : x = InsertAt(y, p, c)
  <1>1. DOMAIN y = 1..Len(y)
    BY LenProperties
  <1> QED
    BY <1>1 DEF OneAway

(* What the walk of within_one_difference answers, and what one difference *)
(* is.                                                                     *)
LEMMA OneDifference ==
    ASSUME NEW a \in Seq(Chars), NEW b \in Seq(Chars), a # b
    PROVE  within_one_difference(a, b) <=> a \in OneAway(b)
  <1>0. Len(a) \in Nat /\ Len(b) \in Nat
    BY LenProperties
  <1>1. DOMAIN a = 1..Len(a) /\ DOMAIN b = 1..Len(b)
    BY LenProperties
  <1>2. ASSUME NEW p \in 1..Len(b), NEW c \in Chars, a = ReplaceAt(b, p, c)
        PROVE  Len(a) = Len(b) /\ \A k \in 1..Len(b) : k # p => a[k] = b[k]
    BY <1>1, <1>2, ExceptSeq DEF ReplaceAt
  <1>3. ASSUME NEW p \in 1..Len(b), a = RemoveAt(b, p)
        PROVE  Len(b) = Len(a) + 1 /\ p \in 1..(Len(a) + 1) /\ Inserted(a, p, b[p], b)
    <2> DEFINE x == RemoveAt(b, p)
    <2>1. p \in 1..(Len(x) + 1) /\ Inserted(x, p, b[p], b)
      BY Removing
    <2> HIDE DEF x
    <2>2. Len(b) = Len(x) + 1
      BY <2>1 DEF Inserted
    <2> QED
      BY <1>3, <2>1, <2>2 DEF x
  <1>4. ASSUME NEW p \in 1..(Len(b) + 1), NEW c \in Chars, a = InsertAt(b, p, c)
        PROVE  Len(a) = Len(b) + 1 /\ Inserted(b, p, a[p], a)
    <2>1. Inserted(b, p, c, a)
      BY <1>4, Inserting
    <2> QED
      BY <2>1 DEF Inserted
  <1>5. CASE Len(a) = Len(b)
    <2> DEFINE differ == { i \in DOMAIN b : b[i] # a[i] }
    <2>1. within_one_difference(a, b) <=> Cardinality(differ) <= 1
      <3>1. ~(Len(a) < Len(b)) /\ Len(a) - Len(b) <= 1 /\ Len(a) = Len(b)
        BY <1>0, <1>5
      <3> QED
        BY <3>1, Zenon DEF within_one_difference
    <2>2. differ \subseteq 1..Len(b) /\ differ \subseteq DOMAIN a /\ IsFiniteSet(differ)
      <3>1. IsFiniteSet(1..Len(b))
        BY <1>1, FS_Interval
      <3> QED
        BY <1>1, <1>5, <3>1, FS_Subset
    <2>3. a \in OneAway(b) <=> \E p \in 1..Len(b), c \in Chars : a = ReplaceAt(b, p, c)
      <3>1. \A p \in 1..Len(b) : a # RemoveAt(b, p)
        BY <1>0, <1>3, <1>5
      <3>2. \A p \in 1..(Len(b) + 1), c \in Chars : a # InsertAt(b, p, c)
        BY <1>0, <1>4, <1>5
      <3> QED
        BY <3>1, <3>2, OneAwayFacts
    <2>4. PICK q \in differ : TRUE
      <3>1. differ # {}
        BY <1>1, <1>5, SeqEqual
      <3> QED
        BY <3>1
    <2>5. ASSUME Cardinality(differ) <= 1
          PROVE  \E p \in 1..Len(b), c \in Chars : a = ReplaceAt(b, p, c)
      <3>1. \A i \in differ : i = q
        <4> SUFFICES ASSUME NEW i \in differ, i # q PROVE FALSE
          OBVIOUS
        <4>1. IsFiniteSet({i, q}) /\ Cardinality({i, q}) = 2
          BY TwoMembers
        <4>2. Cardinality({i, q}) <= Cardinality(differ)
          BY <2>2, <2>4, FS_Subset
        <4>3. Cardinality(differ) \in Nat
          BY <2>2, FS_CardinalityType
        <4> QED
          BY <2>5, <4>1, <4>2, <4>3
      <3>2. q \in 1..Len(b) /\ a[q] \in Chars
        BY <1>5, <2>2, <2>4, ElementOfSeq
      <3> DEFINE z == [b EXCEPT ![q] = a[q]]
      <3>3. /\ z \in Seq(Chars) /\ Len(z) = Len(b)
            /\ \A j \in 1..Len(b) : z[j] = IF j = q THEN a[q] ELSE b[j]
        BY <3>2, ExceptSeq
      <3> HIDE DEF z
      <3>4. \A j \in 1..Len(a) : a[j] = z[j]
        BY <1>1, <1>5, <3>1, <3>3
      <3>5. a = z
        BY <1>5, <3>3, <3>4, SeqEqual
      <3> QED
        BY <3>2, <3>5 DEF z, ReplaceAt
    <2>6. ASSUME NEW p \in 1..Len(b), NEW c \in Chars, a = ReplaceAt(b, p, c)
          PROVE  Cardinality(differ) <= 1
      <3>1. differ \subseteq {p}
        BY <1>1, <1>2, <2>6
      <3>2. IsFiniteSet({p}) /\ Cardinality({p}) = 1
        BY FS_Singleton
      <3> QED
        BY <3>1, <3>2, FS_Subset
    <2> QED
      BY <2>1, <2>3, <2>5, <2>6
  <1>6. CASE Len(b) = Len(a) + 1
    <2>1. within_one_difference(a, b) <=> \E p \in 1..(Len(a) + 1) : Inserted(a, p, b[p], b)
      <3>1. Len(a) < Len(b) /\ Len(b) - Len(a) <= 1 /\ Len(a) # Len(b)
        BY <1>0, <1>6
      <3>2. within_one_difference(a, b)
              <=> \A i \in { k \in DOMAIN a : a[k] # b[k] } :
                    (\A j \in { k \in DOMAIN a : a[k] # b[k] } : i <= j) =>
                      SubSeq(a, i, Len(a)) = SubSeq(b, i + 1, Len(b))
        BY <3>1, Zenon DEF within_one_difference
      <3> QED
        BY <1>6, <3>2, OneLonger
    <2>2. a \in OneAway(b) <=> \E p \in 1..Len(b) : a = RemoveAt(b, p)
      <3>1. \A p \in 1..Len(b), c \in Chars : a # ReplaceAt(b, p, c)
        BY <1>0, <1>2, <1>6
      <3>2. \A p \in 1..(Len(b) + 1), c \in Chars : a # InsertAt(b, p, c)
        BY <1>0, <1>4, <1>6
      <3> QED
        BY <3>1, <3>2, OneAwayFacts
    <2>3. ASSUME NEW p \in 1..(Len(a) + 1), Inserted(a, p, b[p], b)
          PROVE  p \in 1..Len(b) /\ a = RemoveAt(b, p)
      BY <2>3, OneRemoval
    <2> QED
      BY <1>3, <2>1, <2>2, <2>3
  <1>7. CASE Len(a) = Len(b) + 1
    <2>1. within_one_difference(a, b) <=> \E p \in 1..(Len(b) + 1) : Inserted(b, p, a[p], a)
      <3>1. ~(Len(a) < Len(b)) /\ Len(a) - Len(b) <= 1 /\ Len(a) # Len(b)
        BY <1>0, <1>7
      <3>2. within_one_difference(a, b)
              <=> \A i \in { k \in DOMAIN b : b[k] # a[k] } :
                    (\A j \in { k \in DOMAIN b : b[k] # a[k] } : i <= j) =>
                      SubSeq(b, i, Len(b)) = SubSeq(a, i + 1, Len(a))
        BY <3>1, Zenon DEF within_one_difference
      <3> QED
        BY <1>7, <3>2, OneLonger
    <2>2. a \in OneAway(b) <=> \E p \in 1..(Len(b) + 1), c \in Chars : a = InsertAt(b, p, c)
      <3>1. \A p \in 1..Len(b), c \in Chars : a # ReplaceAt(b, p, c)
        BY <1>0, <1>2, <1>7
      <3>2. \A p \in 1..Len(b) : a # RemoveAt(b, p)
        BY <1>0, <1>3, <1>7
      <3> QED
        BY <3>1, <3>2, OneAwayFacts
    <2>3. ASSUME NEW p \in 1..(Len(b) + 1), Inserted(b, p, a[p], a)
          PROVE  a[p] \in Chars /\ a = InsertAt(b, p, a[p])
      <3>1. p \in 1..Len(a)
        BY <1>7
      <3>2. a[p] \in Chars
        BY <3>1, ElementOfSeq
      <3> QED
        BY <2>3, <3>2, OneInsertion
    <2> QED
      BY <1>4, <2>1, <2>2, <2>3
  <1>8. CASE Len(a) - Len(b) > 1 \/ Len(b) - Len(a) > 1
    <2>1. ~within_one_difference(a, b)
      BY <1>0, <1>8 DEF within_one_difference
    <2>2. a \notin OneAway(b)
      <3>1. \A p \in 1..Len(b) : a # RemoveAt(b, p)
        BY <1>0, <1>3, <1>8
      <3>2. \A p \in 1..Len(b), c \in Chars : a # ReplaceAt(b, p, c)
        BY <1>0, <1>2, <1>8
      <3>3. \A p \in 1..(Len(b) + 1), c \in Chars : a # InsertAt(b, p, c)
        BY <1>0, <1>4, <1>8
      <3> QED
        BY <3>1, <3>2, <3>3, OneAwayFacts
    <2> QED
      BY <2>1, <2>2
  <1> QED
    <2>1. \/ Len(a) = Len(b) \/ Len(b) = Len(a) + 1 \/ Len(a) = Len(b) + 1
          \/ Len(a) - Len(b) > 1 \/ Len(b) - Len(a) > 1
      BY <1>0
    <2> QED
      BY <1>5, <1>6, <1>7, <1>8, <2>1

-----------------------------------------------------------------------------
(* What the plate reader can do to a text. *)

(* A look-alike printed for a character changes nothing that is compared.  *)
LEMMA AConfusion ==
    ASSUME NEW s \in Seq(Text), NEW i \in 1..Len(s), s[i] \in Chars, NEW ch \in Chars,
           LookAlike[KeyOf[ch]] = LookAlike[KeyOf[s[i]]]
    PROVE  /\ ReplaceAt(s, i, ch) \in Seq(Text)
           /\ plate_key(s) # << >>
           /\ look_alike_key(ReplaceAt(s, i, ch)) = look_alike_key(s)
  <1> DEFINE u == RemoveAt(s, i)
  <1>1. /\ s[i] \in Text /\ s[i] \notin Separators
        /\ ch \in Text /\ ch \notin Separators
    BY FoldFacts
  <1>2. /\ u \in Seq(Text) /\ i \in 1..(Len(u) + 1) /\ InsertAt(u, i, s[i]) = s
        /\ ReplaceAt(s, i, ch) = InsertAt(u, i, ch)
    BY <1>1, Removing
  <1> HIDE DEF u
  <1>3. PICK p \in 1..(Len(look_alike_key(u)) + 1) : \A e \in Text :
                e \notin Separators =>
                     /\ plate_key(InsertAt(u, i, e)) # << >>
                     /\ look_alike_key(InsertAt(u, i, e))
                          = InsertAt(look_alike_key(u), p, LookAlike[KeyOf[e]])
    BY <1>2, LookAlikeKeyOfAnInsertion
  <1>4. /\ plate_key(InsertAt(u, i, s[i])) # << >>
        /\ look_alike_key(InsertAt(u, i, s[i])) = look_alike_key(InsertAt(u, i, ch))
    BY <1>1, <1>3
  <1>5. InsertAt(u, i, ch) \in Seq(Text)
    BY <1>1, <1>2, Inserting
  <1> QED
    BY <1>2, <1>4, <1>5

(* One slip is at most one difference, in the form a lane compares.        *)
AtMostOneAway(t, s) ==
    look_alike_key(t) = look_alike_key(s) \/ look_alike_key(t) \in OneAway(look_alike_key(s))

LEMMA ACharacterAdded ==
    ASSUME NEW s \in Seq(Text), NEW i \in 1..(Len(s) + 1), NEW ch \in Text
    PROVE  InsertAt(s, i, ch) \in Seq(Text) /\ AtMostOneAway(InsertAt(s, i, ch), s)
  <1> DEFINE m == look_alike_key(s)
  <1>1. InsertAt(s, i, ch) \in Seq(Text)
    BY Inserting
  <1>2. PICK p \in 1..(Len(m) + 1) :
             /\ ch \in Separators => look_alike_key(InsertAt(s, i, ch)) = m
             /\ ch \notin Separators =>
                  look_alike_key(InsertAt(s, i, ch)) = InsertAt(m, p, LookAlike[KeyOf[ch]])
    BY LookAlikeKeyOfAnInsertion
  <1>3. m \in Seq(Chars)
    BY LookAlikeKeyOfAnInsertion
  <1> HIDE DEF m
  <1>4. ch \notin Separators => LookAlike[KeyOf[ch]] \in Chars
    BY FoldFacts
  <1>5. ch \notin Separators => InsertAt(m, p, LookAlike[KeyOf[ch]]) \in OneAway(m)
    BY <1>3, <1>4, OneAwayFacts
  <1>6. look_alike_key(InsertAt(s, i, ch)) = m \/ look_alike_key(InsertAt(s, i, ch)) \in OneAway(m)
    BY <1>2, <1>5
  <1> QED
    BY <1>1, <1>6 DEF AtMostOneAway, m

LEMMA ACharacterMissed ==
    ASSUME NEW s \in Seq(Text), NEW i \in 1..Len(s)
    PROVE  RemoveAt(s, i) \in Seq(Text) /\ AtMostOneAway(RemoveAt(s, i), s)
  <1> DEFINE u == RemoveAt(s, i)
             m == look_alike_key(u)
  <1>1. u \in Seq(Text) /\ i \in 1..(Len(u) + 1) /\ s[i] \in Text /\ InsertAt(u, i, s[i]) = s
    BY Removing
  <1> HIDE DEF u
  <1>2. m \in Seq(Chars)
    BY <1>1, LookAlikeKeyOfAnInsertion
  <1>3. \E p \in 1..(Len(m) + 1) : \A e \in Text :
             /\ e \in Separators => look_alike_key(InsertAt(u, i, e)) = m
             /\ e \notin Separators =>
                  look_alike_key(InsertAt(u, i, e)) = InsertAt(m, p, LookAlike[KeyOf[e]])
    BY <1>1, LookAlikeKeyOfAnInsertion
  <1>4. PICK p \in 1..(Len(m) + 1) :
             /\ s[i] \in Separators => look_alike_key(s) = m
             /\ s[i] \notin Separators => look_alike_key(s) = InsertAt(m, p, LookAlike[KeyOf[s[i]]])
    BY <1>1, <1>3
  <1> HIDE DEF m
  <1>5. ASSUME s[i] \notin Separators PROVE m \in OneAway(look_alike_key(s))
    <2> DEFINE c == LookAlike[KeyOf[s[i]]]
               y == InsertAt(m, p, c)
    <2>1. c \in Chars
      BY <1>1, <1>5, FoldFacts
    <2> HIDE DEF c
    <2>2. y \in Seq(Chars) /\ Inserted(m, p, c, y)
      BY <1>2, <2>1, Inserting
    <2> HIDE DEF y
    <2>3. p \in 1..Len(y) /\ m = RemoveAt(y, p)
      BY <1>2, <2>2, OneRemoval
    <2>4. m \in OneAway(y)
      BY <2>2, <2>3, OneAwayFacts
    <2>5. look_alike_key(s) = y
      BY <1>4, <1>5 DEF y, c
    <2> QED
      BY <2>4, <2>5
  <1>6. m = look_alike_key(s) \/ m \in OneAway(look_alike_key(s))
    BY <1>5, <1>4
  <1> QED
    BY <1>1, <1>6 DEF AtMostOneAway, m, u

LEMMA ACharacterWrong ==
    ASSUME NEW s \in Seq(Text), NEW i \in 1..Len(s), NEW ch \in Chars
    PROVE  ReplaceAt(s, i, ch) \in Seq(Text) /\ AtMostOneAway(ReplaceAt(s, i, ch), s)
  <1> DEFINE u == RemoveAt(s, i)
             m == look_alike_key(u)
             t == ReplaceAt(s, i, ch)
  <1>1. ch \in Text /\ ch \notin Separators
    BY FoldFacts
  <1>2. /\ u \in Seq(Text) /\ i \in 1..(Len(u) + 1) /\ s[i] \in Text
        /\ InsertAt(u, i, s[i]) = s /\ t = InsertAt(u, i, ch)
    BY <1>1, Removing
  <1> HIDE DEF u, t
  <1>3. t \in Seq(Text)
    BY <1>1, <1>2, Inserting
  <1>4. m \in Seq(Chars)
    BY <1>2, LookAlikeKeyOfAnInsertion
  <1>5. PICK p \in 1..(Len(m) + 1) : \A e \in Text :
             /\ e \in Separators => look_alike_key(InsertAt(u, i, e)) = m
             /\ e \notin Separators =>
                  look_alike_key(InsertAt(u, i, e)) = InsertAt(m, p, LookAlike[KeyOf[e]])
    BY <1>2, LookAlikeKeyOfAnInsertion
  <1> HIDE DEF m
  <1> DEFINE d == LookAlike[KeyOf[ch]]
             c == LookAlike[KeyOf[s[i]]]
  <1>6. d \in Chars /\ look_alike_key(t) = InsertAt(m, p, d)
    BY <1>1, <1>2, <1>5, FoldFacts
  <1>7. CASE s[i] \in Separators
    <2>1. look_alike_key(s) = m
      BY <1>2, <1>5, <1>7
    <2> HIDE DEF d
    <2>2. look_alike_key(t) \in OneAway(m)
      BY <1>4, <1>6, OneAwayFacts
    <2> QED
      BY <1>3, <2>1, <2>2 DEF AtMostOneAway, t
  <1>8. CASE s[i] \notin Separators
    <2>1. c \in Chars /\ look_alike_key(s) = InsertAt(m, p, c)
      BY <1>2, <1>5, <1>8, FoldFacts
    <2> HIDE DEF c, d
    <2> DEFINE y == InsertAt(m, p, c)
    <2>2. y \in Seq(Chars) /\ Inserted(m, p, c, y)
      BY <1>4, <2>1, Inserting
    <2> HIDE DEF y
    <2>3. p \in 1..Len(y) /\ m = RemoveAt(y, p)
      BY <1>4, <2>2, OneRemoval
    <2>4. ReplaceAt(y, p, d) = InsertAt(m, p, d)
      BY <1>6, <2>2, <2>3, Removing
    <2>5. InsertAt(m, p, d) \in OneAway(y)
      BY <1>6, <2>2, <2>3, <2>4, OneAwayFacts
    <2>6. look_alike_key(s) = y
      BY <2>1 DEF y
    <2> QED
      BY <1>3, <1>6, <2>5, <2>6 DEF AtMostOneAway, t
  <1> QED
    BY <1>7, <1>8

-----------------------------------------------------------------------------
(* The comparison, in every state of the reader. *)

(* A read that is not blank is the car's plate, in the form a lane         *)
(* compares, until a character is wrong, and then at most one away.        *)
PlateInv ==
    /\ read \in Seq(Text) /\ plate \in Seq(Folded) /\ plate # << >> /\ slips \in Nat
    /\ plate_key(read) # << >> =>
         /\ slips = 0 => look_alike_key(read) = look_alike_key(plate)
         /\ slips = 1 => AtMostOneAway(read, plate)

(* The desk stores what is already in its normal form.                     *)
LEMMA PlateInvInit == ReadInit => PlateInv
  <1> SUFFICES ASSUME ReadInit PROVE PlateInv
    OBVIOUS
  <1>1. read \in Seq(Text)
    <2>1. PICK m \in 0..MaxTyped : read \in [1..m -> Text]
      BY DEF ReadInit, SeqOf
    <2>2. m \in Nat
      BY <2>1
    <2> QED
      BY <2>1, <2>2, SeqDef
  <1>2. plate = plate_key(read) /\ plate # << >> /\ slips = 0
    BY DEF ReadInit
  <1>3. plate \in Seq(Folded)
    BY <1>1, <1>2, KeysAreFolded
  <1>4. plate_key(plate) = plate_key(read)
    BY <1>2, <1>3, TheKeyOfAKey
  <1>5. look_alike_key(read) = look_alike_key(plate)
    BY <1>4 DEF look_alike_key
  <1> QED
    BY <1>1, <1>2, <1>3, <1>5 DEF PlateInv

(* Only a slip changes what a lane compares, and by one character.         *)
LEMMA PlateInvNext == PlateInv /\ [ReadNext]_readVars => PlateInv'
  <1> SUFFICES ASSUME PlateInv, [ReadNext]_readVars PROVE PlateInv'
    OBVIOUS
  <1>1. read \in Seq(Text) /\ slips \in Nat /\ DOMAIN read = 1..Len(read)
    BY LenProperties DEF PlateInv
  <1>2. ASSUME NEW i \in DOMAIN read, NEW ch \in Chars, Confuse(i, ch) PROVE PlateInv'
    <2>1. /\ ReplaceAt(read, i, ch) \in Seq(Text)
          /\ plate_key(read) # << >>
          /\ look_alike_key(ReplaceAt(read, i, ch)) = look_alike_key(read)
      BY <1>1, <1>2, AConfusion DEF Confuse
    <2>2. read' = ReplaceAt(read, i, ch) /\ plate' = plate /\ slips' = slips
      BY <1>2 DEF Confuse
    <2>3. read' \in Seq(Text) /\ look_alike_key(read') = look_alike_key(read)
      BY <2>1, <2>2
    <2> QED
      BY <2>1, <2>2, <2>3 DEF PlateInv, AtMostOneAway
  <1>3. ASSUME NEW i \in 1..(Len(read) + 1), NEW ch \in Separators, Separate(i, ch)
        PROVE  PlateInv'
    <2>1. read' = InsertAt(read, i, ch) /\ plate' = plate /\ slips' = slips
      BY <1>3 DEF Separate
    <2>2. ch \in Text
      BY FoldFacts
    <2>3. /\ InsertAt(read, i, ch) \in Seq(Text)
          /\ plate_key(InsertAt(read, i, ch)) = plate_key(read)
          /\ look_alike_key(InsertAt(read, i, ch)) = look_alike_key(read)
      BY <1>1, <2>2, Inserting, LookAlikeKeyOfAnInsertion
    <2>4. /\ read' \in Seq(Text) /\ plate_key(read') = plate_key(read)
          /\ look_alike_key(read') = look_alike_key(read)
      BY <2>1, <2>3
    <2> QED
      BY <2>1, <2>4 DEF PlateInv, AtMostOneAway
  <1>4. ASSUME NEW text \in Seq(Text), AtMostOneAway(text, read), Slip(text) PROVE PlateInv'
    <2>1. read' = text /\ plate' = plate /\ slips' = slips + 1 /\ plate_key(read) # << >>
      BY <1>4 DEF Slip
    <2>2. slips' \in Nat /\ slips' # 0 /\ (slips' = 1 => slips = 0)
      BY <1>1, <2>1
    <2>3. slips' = 1 => AtMostOneAway(read', plate')
      BY <1>4, <2>1, <2>2 DEF PlateInv, AtMostOneAway
    <2>4. (slips' = 1 => AtMostOneAway(read, plate)') /\ (slips' = 0 => FALSE)
      BY <2>2, <2>3 DEF AtMostOneAway
    <2> QED
      BY <1>4, <2>1, <2>2, <2>4 DEF PlateInv
  <1>5. CASE ReadNothing
    <2>1. read' = << >> /\ plate' = plate /\ slips' = slips
      BY <1>5 DEF ReadNothing
    <2>2. << >> \in Seq(Text) /\ Len(<< >>) = 0
      BY EmptySeq
    <2>3. plate_key(<< >>) = << >>
      BY <2>2, TheWalkOverAText DEF plate_key
    <2>4. read' \in Seq(Text) /\ plate_key(read') = << >>
      BY <2>1, <2>2, <2>3
    <2> QED
      BY <2>1, <2>4 DEF PlateInv
  <1>6. CASE UNCHANGED readVars
    BY <1>6 DEF PlateInv, AtMostOneAway, readVars
  <1>7. ASSUME NEW i \in DOMAIN read, NEW ch \in Chars, Slip(ReplaceAt(read, i, ch))
        PROVE  PlateInv'
    BY <1>1, <1>4, <1>7, ACharacterWrong
  <1>8. ASSUME NEW i \in DOMAIN read, Slip(RemoveAt(read, i)) PROVE PlateInv'
    BY <1>1, <1>4, <1>8, ACharacterMissed
  <1>9. ASSUME NEW i \in 1..(Len(read) + 1), NEW ch \in Chars, Slip(InsertAt(read, i, ch))
        PROVE  PlateInv'
    <2>1. ch \in Text
      BY FoldFacts
    <2> QED
      BY <1>1, <1>4, <1>9, <2>1, ACharacterAdded
  <1> QED
    BY <1>2, <1>3, <1>5, <1>6, <1>7, <1>8, <1>9 DEF ReadNext

(* So the car passes, and what passes by one difference is one away.       *)
LEMMA PlateInvForgives == PlateInv => OnlyASlipIsForgiven
  <1> SUFFICES ASSUME PlateInv PROVE OnlyASlipIsForgiven
    OBVIOUS
  <1> DEFINE seen == look_alike_key(read)
             made_for == look_alike_key(plate)
             passed == similar_enough(read, plate)
             long == Len(made_for) >= MinLength
  <1>1. seen \in Seq(Chars) /\ made_for \in Seq(Chars)
    <2>1. Folded \subseteq Text
      BY FoldFacts DEF Folded
    <2>2. read \in Seq(Text) /\ plate \in Seq(Text)
      BY <2>1, SeqMonotonic DEF PlateInv
    <2> QED
      BY <2>2, KeysAreSequences, LookAlikesAreSequences DEF look_alike_key
  <1>2. plate_key(plate) # << >>
    BY TheKeyOfAKey DEF PlateInv
  <1>3. plate_key(read) = plate_key(plate) => seen = made_for
    BY DEF look_alike_key
  <1>4. seen # made_for => (within_one_difference(seen, made_for) <=> seen \in OneAway(made_for))
    <2> HIDE DEF seen, made_for
    <2> QED
      BY <1>1, OneDifference
  <1> DEFINE blank == plate_key(read) = << >>
             same == plate_key(read) = plate_key(plate)
             one == long /\ within_one_difference(seen, made_for)
  <1>5. passed = CASE blank -> "nothing_read"
                   [] same -> "same_plate"
                   [] seen = made_for -> "look_alike"
                   [] OTHER -> IF one THEN "one_difference" ELSE "none"
    BY DEF similar_enough
  <1> HIDE DEF passed, seen, made_for, long, blank, same, one
  <1>6. blank \/ same \/ seen = made_for => passed # "none" /\ passed # "one_difference"
    BY <1>5
  <1>7. ~blank /\ ~same /\ seen # made_for => passed = IF one THEN "one_difference" ELSE "none"
    BY <1>5
  <1>8. same => seen = made_for
    BY <1>3 DEF same
  <1>9. slips = 0 \/ slips = 1 => blank \/ seen = made_for \/ seen \in OneAway(made_for)
    BY DEF PlateInv, AtMostOneAway, blank, seen, made_for
  <1>10. slips = 0 => blank \/ seen = made_for
    BY DEF PlateInv, blank, seen, made_for
  <1>11. seen # made_for => (one <=> long /\ seen \in OneAway(made_for))
    BY <1>4 DEF one
  <1>12. slips = 0 \/ (slips = 1 /\ long) => passed # "none"
    BY <1>6, <1>7, <1>9, <1>10, <1>11
  <1>13. passed = "one_difference" <=>
           ~blank /\ seen # made_for /\ long /\ seen \in OneAway(made_for)
    BY <1>6, <1>7, <1>8, <1>11
  <1> QED
    BY <1>12, <1>13 DEF OnlyASlipIsForgiven, passed, seen, made_for, long, blank

(* SIMILAR ENOUGH GETS A PASS, AND NOTHING ELSE DOES: whatever the reader  *)
(* prints and wherever the dashes are, the car's own plate passes until a  *)
(* character is wrong, with one wrong it passes on a long enough plate,    *)
(* and what passes by one difference is one away (similar_enough).         *)
THEOREM OnlyASlipPasses == ReadSpec => []OnlyASlipIsForgiven
BY PlateInvInit, PlateInvNext, PlateInvForgives, PTL DEF ReadSpec
=============================================================================
