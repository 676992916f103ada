---------------------------- MODULE GaragesProofs ----------------------------
(***************************************************************************)
(* The record of a repair is the last word on the field it repaired, for   *)
(* any number of desks, garages and zones, whatever raced and whatever the *)
(* running system carried meanwhile.  A garage that was repaired stands    *)
(* already, so no uncommitted creation can ever replace its row.           *)
(***************************************************************************)
EXTENDS Garages, TLAPS

Fields == {"zone", "enrolsAt"}
Change == [garage : Garages, field : Fields, old : Zones \cup Ends \cup {Unstated},
           new : Zones \cup Ends]

Stands(g) == rows[g] # NoGarage

Working(d, verb) == desk[d].step # "idle" /\ desk[d].call.verb = verb
Written(d, verb) == desk[d].step = "written" /\ desk[d].call.verb = verb

Shape ==
    /\ rows \in [Garages -> Garage \cup {NoGarage}]
    /\ changes \in Seq(Change)
    /\ desk = [d \in Desks |-> [step |-> desk[d].step, call |-> desk[d].call,
                                seen |-> desk[d].seen]]

(* A repair is of a garage that stands, and gives its field a value of it. *)
RepairsStand ==
    \A d \in Desks : Working(d, "repair") =>
        LET call == desk[d].call IN
        /\ call.garage \in Garages /\ Stands(call.garage)
        /\ \/ call.field = "zone" /\ call.new \in Zones
           \/ call.field = "enrolsAt" /\ call.new \in Ends
        /\ desk[d].seen \in Garage

(* A creation is of a garage nobody else has written.                      *)
CreationsAreFirst ==
    /\ \A d \in Desks : Working(d, "create") =>
         desk[d].call.garage \in Garages /\ desk[d].call.row \in Garage
    /\ \A d \in Desks : Written(d, "create") => ~Stands(desk[d].call.garage)
    /\ \A d, e \in Desks : Written(d, "create") /\ Written(e, "create") /\ d # e
         => desk[d].call.garage # desk[e].call.garage

ChangedGaragesStand == \A i \in DOMAIN changes : Stands(changes[i].garage)

IInv == Shape /\ RepairsStand /\ CreationsAreFirst /\ ChangedGaragesStand
             /\ TheHistoryEndsAtTheRow

(* A field is written on the row and no other field with it.               *)
LEMMA FieldIsWritten ==
    ASSUME NEW r \in Garage, NEW field, NEW v,
           (field = "zone" /\ v \in Zones) \/ (field = "enrolsAt" /\ v \in Ends)
    PROVE  /\ [r EXCEPT ![field] = v] \in Garage
           /\ [r EXCEPT ![field] = v][field] = v
           /\ \A f \in Fields : f # field => [r EXCEPT ![field] = v][f] = r[f]
<1>1. CASE field = "zone" /\ v \in Zones
  BY <1>1 DEF Garage, Fields
<1>2. CASE field = "enrolsAt" /\ v \in Ends
  BY <1>2 DEF Garage, Fields
<1>3. QED
  BY <1>1, <1>2

LEMMA InitIInv == Init => IInv
<1> SUFFICES ASSUME Init PROVE IInv
  OBVIOUS
<1>1. Shape
  <2>1. << >> \in Seq(Change)
    OBVIOUS
  <2>2. rows \in [Garages -> Garage \cup {NoGarage}]
    BY DEF Init
  <2>3. desk = [d \in Desks |-> [step |-> desk[d].step, call |-> desk[d].call,
                                seen |-> desk[d].seen]]
    BY DEF Init, Idle
  <2>4. QED
    BY <2>1, <2>2, <2>3 DEF Init, Shape
<1>2. \A d \in Desks : desk[d].step = "idle"
  BY DEF Init, Idle
<1>3. DOMAIN changes = {}
  BY DEF Init
<1>4. QED
  BY <1>1, <1>2, <1>3
  DEF IInv, RepairsStand, CreationsAreFirst, ChangedGaragesStand, TheHistoryEndsAtTheRow,
      Working, Written

(* The tables are as they were and only desk d moved, to a step that keeps *)
(* its own part of the invariant.                                          *)
LEMMA DeskKeepsIInv ==
    ASSUME IInv, NEW d \in Desks, NEW s, NEW call, NEW seen,
           Goes(d, [step |-> s, call |-> call, seen |-> seen]), UNCHANGED <<rows, changes>>,
           s # "idle" /\ call.verb = "repair" =>
             /\ call.garage \in Garages /\ Stands(call.garage)
             /\ \/ call.field = "zone" /\ call.new \in Zones
                \/ call.field = "enrolsAt" /\ call.new \in Ends
             /\ seen \in Garage,
           s # "idle" /\ call.verb = "create" =>
             call.garage \in Garages /\ call.row \in Garage,
           s = "written" /\ call.verb = "create" =>
             /\ ~Stands(call.garage)
             /\ \A e \in Desks \ {d} : Written(e, "create") =>
                  desk[e].call.garage # call.garage
    PROVE  IInv'
<1> DEFINE tx == [step |-> s, call |-> call, seen |-> seen]
<1>1. desk' = [e \in Desks |-> IF e = d THEN tx ELSE desk[e]]
  BY DEF Goes, IInv, Shape
<1>2. \A e \in Desks \ {d} : desk'[e] = desk[e]
  BY <1>1
<1>3. desk'[d].step = s /\ desk'[d].call = call /\ desk'[d].seen = seen
  BY <1>1
<1>4. Shape'
  BY <1>1 DEF IInv, Shape
<1>5. RepairsStand'
  BY <1>2, <1>3 DEF IInv, RepairsStand, Working, Stands
<1>6. CreationsAreFirst'
  <2>1. ASSUME NEW e \in Desks, NEW u \in Desks, e # u,
               Written(e, "create")', Written(u, "create")'
        PROVE  desk'[e].call.garage # desk'[u].call.garage
    BY <1>2, <1>3, <2>1 DEF IInv, CreationsAreFirst, Written
  <2>2. \A e \in Desks : Written(e, "create")' => ~Stands(desk[e].call.garage)'
    BY <1>2, <1>3 DEF IInv, CreationsAreFirst, Written, Stands
  <2>3. \A e \in Desks : Working(e, "create")' =>
          desk'[e].call.garage \in Garages /\ desk'[e].call.row \in Garage
    BY <1>2, <1>3 DEF IInv, CreationsAreFirst, Working
  <2>4. QED
    BY <2>1, <2>2, <2>3 DEF CreationsAreFirst
<1>7. QED
  BY <1>4, <1>5, <1>6 DEF IInv, ChangedGaragesStand, TheHistoryEndsAtTheRow, Stands

LEMMA ReadKeepsIInv ==
    ASSUME IInv, NEW d \in Desks, NEW call, NEW seen, Read(d, call, seen),
           call.verb = "repair" =>
             /\ call.garage \in Garages /\ Stands(call.garage)
             /\ \/ call.field = "zone" /\ call.new \in Zones
                \/ call.field = "enrolsAt" /\ call.new \in Ends
             /\ seen \in Garage,
           call.verb = "create" => call.garage \in Garages /\ call.row \in Garage
    PROVE  IInv'
<1>1. Goes(d, [step |-> "read", call |-> call, seen |-> seen]) /\ UNCHANGED <<rows, changes>>
  BY DEF Read
<1>2. QED
  BY <1>1, DeskKeepsIInv

LEMMA IdleKeepsIInv ==
    ASSUME IInv, NEW d \in Desks, Goes(d, Idle), UNCHANGED <<rows, changes>>
    PROVE  IInv'
<1>1. Goes(d, [step |-> "idle", call |-> [verb |-> "none"], seen |-> NoGarage])
  BY DEF Idle
<1>2. QED
  BY <1>1, DeskKeepsIInv

LEMMA WriteKeepsIInv ==
    ASSUME IInv, NEW d \in Desks, Write(d) PROVE IInv'
<1> DEFINE call == desk[d].call
<1>1. UNCHANGED <<rows, changes>> /\ desk[d].step = "read"
  BY DEF Write
<1>2. CASE Goes(d, Idle)
  BY <1>1, <1>2, IdleKeepsIInv
<1>3. CASE ~Goes(d, Idle)
  <2>1. /\ Goes(d, [desk[d] EXCEPT !.step = "written"])
        /\ call.verb = "create" => ~Stands(call.garage)
    BY <1>3 DEF Write, Stands
  <2>2. [desk[d] EXCEPT !.step = "written"]
          = [step |-> "written", call |-> call, seen |-> desk[d].seen]
    BY DEF IInv, Shape
  <2>3. ASSUME call.verb = "create", NEW e \in Desks \ {d}, Written(e, "create")
        PROVE  desk[e].call.garage # call.garage
    <3>1. <<"garage", call.garage>> \notin WrittenBy(e)
      BY <2>3 DEF Write, Waits
    <3>2. WrittenBy(e) = {<<"garage", desk[e].call.garage>>}
      BY <2>3 DEF WrittenBy, Written
    <3>3. QED
      BY <3>1, <3>2
  <2>4. /\ call.verb = "repair" =>
             /\ call.garage \in Garages /\ Stands(call.garage)
             /\ \/ call.field = "zone" /\ call.new \in Zones
                \/ call.field = "enrolsAt" /\ call.new \in Ends
             /\ desk[d].seen \in Garage
        /\ call.verb = "create" => call.garage \in Garages /\ call.row \in Garage
    BY <1>1 DEF IInv, RepairsStand, CreationsAreFirst, Working
  <2>5. QED
    BY <1>1, <2>1, <2>2, <2>3, <2>4, DeskKeepsIInv
<1>4. QED
  BY <1>2, <1>3

(* A garage that is created had no row, so no repair of it is in the       *)
(* history, and no other creation of it is under way.                      *)
LEMMA CommitGarageKeepsIInv ==
    ASSUME IInv, NEW d \in Desks, CommitGarage(d) PROVE IInv'
<1> DEFINE g == desk[d].call.garage
           row == desk[d].call.row
<1>1. /\ Written(d, "create") /\ g \in Garages /\ row \in Garage /\ ~Stands(g)
      /\ rows' = [rows EXCEPT ![g] = row] /\ UNCHANGED changes /\ Goes(d, Idle)
  BY DEF CommitGarage, Commits, Written, Working, IInv, CreationsAreFirst
<1>2. /\ \A e \in Desks \ {d} : desk'[e] = desk[e]
      /\ desk'[d].step = "idle"
  BY <1>1 DEF Goes, Idle, IInv, Shape
<1>3. Shape'
  BY <1>1 DEF Goes, Idle, IInv, Shape
<1>4. /\ \A h \in Garages : Stands(h) => h # g /\ rows'[h] = rows[h] /\ Stands(h)'
      /\ \A h \in Garages \ {g} : rows'[h] = rows[h]
  BY <1>1 DEF IInv, Shape, Stands
<1>5. RepairsStand'
  BY <1>2, <1>4 DEF IInv, RepairsStand, Working
<1>6. CreationsAreFirst'
  <2>1. \A e \in Desks : Written(e, "create")' =>
          e # d /\ Written(e, "create") /\ desk'[e].call = desk[e].call
            /\ desk[e].call.garage \in Garages \ {g}
    BY <1>1, <1>2 DEF IInv, CreationsAreFirst, Written, Working
  <2>2. \A e \in Desks : Working(e, "create")' =>
          desk'[e].call.garage \in Garages /\ desk'[e].call.row \in Garage
    BY <1>2 DEF IInv, CreationsAreFirst, Working
  <2>3. \A e \in Desks : Written(e, "create")' => ~Stands(desk[e].call.garage)'
    BY <1>4, <2>1 DEF IInv, CreationsAreFirst, Stands
  <2>4. QED
    BY <2>1, <2>2, <2>3 DEF IInv, CreationsAreFirst
<1>7. \A i \in DOMAIN changes : changes[i].garage \in Garages /\ Stands(changes[i].garage)
  <2>1. changes \in Seq(Change) /\ ChangedGaragesStand
    BY DEF IInv, Shape
  <2>2. \A i \in DOMAIN changes : changes[i] \in Change
    BY <2>1
  <2>3. QED
    BY <2>1, <2>2 DEF ChangedGaragesStand, Change
<1>8. ChangedGaragesStand' /\ TheHistoryEndsAtTheRow'
  BY <1>1, <1>4, <1>7 DEF IInv, ChangedGaragesStand, TheHistoryEndsAtTheRow
<1>9. QED
  BY <1>3, <1>5, <1>6, <1>8 DEF IInv

(* A repair writes its field on the row as it is now, and says so last.    *)
LEMMA CommitRepairKeepsIInv ==
    ASSUME IInv, NEW d \in Desks, CommitRepair(d) PROVE IInv'
<1> DEFINE call == desk[d].call
           g == call.garage
           record == [garage |-> g, field |-> call.field,
                      old |-> desk[d].seen[call.field], new |-> call.new]
           row == [rows[g] EXCEPT ![call.field] = call.new]
<1>1. /\ g \in Garages /\ Stands(g) /\ desk[d].seen \in Garage
      /\ \/ call.field = "zone" /\ call.new \in Zones
         \/ call.field = "enrolsAt" /\ call.new \in Ends
      /\ rows' = [rows EXCEPT ![g] = row]
      /\ changes' = Append(changes, record) /\ Goes(d, Idle)
  BY DEF CommitRepair, Commits, RowUpdated, Working, IInv, RepairsStand
<1>2. /\ \A e \in Desks \ {d} : desk'[e] = desk[e]
      /\ desk'[d].step = "idle"
  BY <1>1 DEF Goes, Idle, IInv, Shape
<1>3. rows[g] \in Garage /\ rows \in [Garages -> Garage \cup {NoGarage}]
  BY <1>1 DEF IInv, Shape, Stands
<1>4. /\ row \in Garage /\ row[call.field] = call.new
      /\ \A f \in Fields : f # call.field => row[f] = rows[g][f]
  <2>1. \/ call.field = "zone" /\ call.new \in Zones
        \/ call.field = "enrolsAt" /\ call.new \in Ends
    BY <1>1
  <2>2. rows[g] \in Garage
    BY <1>3
  <2>3. \A field, v : (field = "zone" /\ v \in Zones) \/ (field = "enrolsAt" /\ v \in Ends)
          => /\ [rows[g] EXCEPT ![field] = v] \in Garage
             /\ [rows[g] EXCEPT ![field] = v][field] = v
             /\ \A f \in Fields : f # field =>
                  [rows[g] EXCEPT ![field] = v][f] = rows[g][f]
    BY <2>2, FieldIsWritten
  <2>4. QED
    BY <2>1, <2>3
<1>5. record \in Change
  <2>1. desk[d].seen[call.field] \in Zones \cup Ends \cup {Unstated}
    BY <1>1 DEF Garage
  <2>2. QED
    BY <1>1, <2>1 DEF Change, Fields
<1>6. changes \in Seq(Change)
  BY DEF IInv, Shape
<1>7. /\ changes' \in Seq(Change) /\ DOMAIN changes' = 1..(Len(changes) + 1)
      /\ DOMAIN changes = 1..Len(changes) /\ Len(changes) \in Nat
      /\ \A i \in DOMAIN changes : changes'[i] = changes[i] /\ changes[i] \in Change
      /\ changes'[Len(changes) + 1] = record
  BY <1>1, <1>5, <1>6
<1>8. Shape'
  BY <1>1, <1>3, <1>4, <1>7 DEF Goes, Idle, IInv, Shape
<1>9. \A h \in Garages : (Stands(h) <=> Stands(h)') /\ (h # g => rows'[h] = rows[h])
  BY <1>1, <1>3, <1>4, NoGarageAssumption DEF Stands
<1>10. RepairsStand'
  BY <1>2, <1>9 DEF IInv, RepairsStand, Working
<1>11. CreationsAreFirst'
  <2>1. \A e \in Desks : Written(e, "create")' =>
          Written(e, "create") /\ desk'[e].call = desk[e].call /\ desk[e].call.garage \in Garages
    BY <1>2 DEF IInv, CreationsAreFirst, Written, Working
  <2>2. \A e \in Desks : Working(e, "create")' =>
          desk'[e].call.garage \in Garages /\ desk'[e].call.row \in Garage
    BY <1>2 DEF IInv, CreationsAreFirst, Working
  <2>3. \A e \in Desks : Written(e, "create")' => ~Stands(desk[e].call.garage)'
    BY <1>9, <2>1 DEF IInv, CreationsAreFirst
  <2>4. QED
    BY <2>1, <2>2, <2>3 DEF IInv, CreationsAreFirst
<1>12. ChangedGaragesStand'
  <2>1. ASSUME NEW i \in DOMAIN changes PROVE rows'[changes'[i].garage] # NoGarage
    BY <1>7, <1>9, <2>1 DEF IInv, ChangedGaragesStand, Change, Stands
  <2>2. rows'[changes'[Len(changes) + 1].garage] # NoGarage
    BY <1>1, <1>7, <1>9 DEF Stands
  <2>3. QED
    BY <1>7, <2>1, <2>2 DEF ChangedGaragesStand, Stands
<1>13. TheHistoryEndsAtTheRow'
  <2>1. SUFFICES ASSUME NEW i \in DOMAIN changes',
                        \A j \in DOMAIN changes' : j > i =>
                          <<changes'[j].garage, changes'[j].field>>
                            # <<changes'[i].garage, changes'[i].field>>
                 PROVE  rows'[changes'[i].garage][changes'[i].field] = changes'[i].new
    BY DEF TheHistoryEndsAtTheRow
  <2>2. CASE i = Len(changes) + 1
    <3>1. rows'[g] = row
      BY <1>1, <1>3
    <3>2. QED
      <4>1. changes'[i] = record
        BY <1>7, <2>2
      <4>2. /\ changes'[i].garage = g /\ changes'[i].field = call.field
            /\ changes'[i].new = call.new
        BY <4>1
      <4>3. QED
        BY <1>4, <3>1, <4>2
  <2>3. CASE i \in DOMAIN changes
    <3>1. changes'[i] = changes[i] /\ changes[i] \in Change
      BY <1>7, <2>3
    <3>2. rows[changes[i].garage][changes[i].field] = changes[i].new
      BY <1>7, <2>1, <2>3 DEF IInv, TheHistoryEndsAtTheRow
    <3>3. changes[i].garage = g => changes[i].field # call.field
      <4>1. Len(changes) + 1 \in DOMAIN changes' /\ Len(changes) + 1 > i
        BY <1>7, <2>3
      <4>2. QED
        BY <1>7, <2>1, <3>1, <4>1
    <3>4. CASE changes[i].garage = g
      BY <1>1, <1>3, <1>4, <3>1, <3>2, <3>3, <3>4 DEF Change
    <3>5. CASE changes[i].garage # g
      BY <1>9, <3>1, <3>2, <3>5 DEF Change
    <3>6. QED
      BY <3>4, <3>5
  <2>4. QED
    BY <1>7, <2>2, <2>3
<1>14. QED
  BY <1>8, <1>10, <1>11, <1>12, <1>13 DEF IInv

LEMMA NextKeepsIInv == IInv /\ [Next]_vars => IInv'
<1> SUFFICES ASSUME IInv, [Next]_vars PROVE IInv'
  OBVIOUS
<1>1. ASSUME NEW d \in Desks, NEW g \in Garages, NEW garage \in GarageDocs,
             store_garage(d, g, garage)
      PROVE  IInv'
  <2>1. garage \in Garage
    BY DocumentsAssumption
  <2>2. QED
    BY <1>1, <2>1, ReadKeepsIInv DEF store_garage
<1>2. ASSUME NEW d \in Desks, NEW g \in Garages, NEW name \in Zones,
             set_garage_timezone(d, g, name)
      PROVE  IInv'
  <2>1. Stands(g) /\ rows[g] \in Garage
    BY <1>2 DEF set_garage_timezone, Stands, IInv, Shape
  <2>2. QED
    BY <1>2, <2>1, ReadKeepsIInv DEF set_garage_timezone
<1>3. ASSUME NEW d \in Desks, NEW g \in Garages, NEW end \in Ends,
             set_garage_enrols_at(d, g, end)
      PROVE  IInv'
  <2>1. Stands(g) /\ rows[g] \in Garage
    BY <1>3 DEF set_garage_enrols_at, Readable, Stands, IInv, Shape
  <2>2. QED
    BY <1>3, <2>1, ReadKeepsIInv DEF set_garage_enrols_at
<1>4. ASSUME NEW d \in Desks, NEW g \in Garages, NEW p \in Passes, NEW doc \in PassesOf[p],
             create_pass(d, g, p, doc)
      PROVE  IInv'
  BY <1>4, ReadKeepsIInv DEF create_pass
<1>5. ASSUME NEW d \in Desks, Write(d) PROVE IInv'
  BY <1>5, WriteKeepsIInv
<1>6. ASSUME NEW d \in Desks, CommitGarage(d) PROVE IInv'
  BY <1>6, CommitGarageKeepsIInv
<1>7. ASSUME NEW d \in Desks, CommitRepair(d) PROVE IInv'
  BY <1>7, CommitRepairKeepsIInv
<1>8. ASSUME NEW d \in Desks, CommitPass(d) PROVE IInv'
  BY <1>8, IdleKeepsIInv DEF CommitPass, Commits
<1>9. ASSUME NEW d \in Desks, Rollback(d) PROVE IInv'
  BY <1>9, IdleKeepsIInv DEF Rollback
<1>10. ASSUME NEW zones, Upgrade(zones) PROVE IInv'
  BY <1>10 DEF Upgrade, IInv, Shape, RepairsStand, CreationsAreFirst, ChangedGaragesStand,
     TheHistoryEndsAtTheRow, Working, Written, Stands
<1>11. CASE UNCHANGED vars
  BY <1>11 DEF vars, IInv, Shape, RepairsStand, CreationsAreFirst, ChangedGaragesStand,
     TheHistoryEndsAtTheRow, Working, Written, Stands
<1>12. QED
  BY <1>1, <1>2, <1>3, <1>4, <1>5, <1>6, <1>7, <1>8, <1>9, <1>10, <1>11 DEF Next

(* No repair is lost: whatever raced, a repaired field is what the last    *)
(* record of it says.                                                      *)
THEOREM NoRepairIsLost == Spec => []TheHistoryEndsAtTheRow
<1>1. IInv => TheHistoryEndsAtTheRow
  BY DEF IInv
<1>2. QED
  BY <1>1, InitIInv, NextKeepsIInv, PTL DEF Spec


-----------------------------------------------------------------------------
(* Terms that check_terms lets through can be met. *)

(* Seven days in a row are every weekday.                                  *)
LEMMA AWeekHasEveryWeekday ==
    ASSUME NEW a \in Int, NEW w \in Weekdays
    PROVE  \E k \in 0..6 : isoweekday(a + k) = w
<1> DEFINE m == (a - 1) % 7
           q == (a - 1) \div 7
<1>1. m \in 0..6 /\ q \in Int /\ a - 1 = 7 * q + m /\ w \in 1..7
  BY DEF Weekdays
<1> HIDE DEF m, q
<1>2. CASE w - 1 >= m
  <2>1. w - 1 - m \in 0..6 /\ a + (w - 1 - m) - 1 = 7 * q + (w - 1)
    BY <1>1, <1>2
  <2>2. (7 * q + (w - 1)) % 7 = w - 1
    BY <1>1
  <2>3. isoweekday(a + (w - 1 - m)) = w
    BY <1>1, <2>1, <2>2 DEF isoweekday
  <2>4. QED
    BY <2>1, <2>3
<1>3. CASE w - 1 < m
  <2>1. w + 6 - m \in 0..6 /\ a + (w + 6 - m) - 1 = 7 * (q + 1) + (w - 1)
    BY <1>1, <1>3
  <2>2. (7 * (q + 1) + (w - 1)) % 7 = w - 1
    BY <1>1
  <2>3. isoweekday(a + (w + 6 - m)) = w
    BY <1>1, <2>1, <2>2 DEF isoweekday
  <2>4. QED
    BY <2>1, <2>3
<1>4. QED
  BY <1>1, <1>2, <1>3

(* A pass as it may be created: a document whose terms were checked.       *)
Fit(p, doc) ==
    /\ p \in Passes /\ doc \in PassesOf[p]
    /\ check_terms(doc.terms) /\ refuse_lanes_off_the_pass(doc.garages, doc.terms)

InRange(terms, day) ==
    /\ terms.validFrom = Unstated \/ terms.validFrom <= day
    /\ terms.validTo = Unstated \/ day <= terms.validTo

(* The range of checked terms has a day, and one on a weekday of every     *)
(* window: six days are walked, seven are every weekday.                   *)
LEMMA SomeDayIsInRange ==
    ASSUME NEW p, NEW doc, Fit(p, doc)
    PROVE  /\ \E day \in Days : InRange(doc.terms, day)
           /\ \A i \in DOMAIN doc.terms.windows : \E day \in Days :
                InRange(doc.terms, day) /\ isoweekday(day) \in doc.terms.windows[i].days
<1> DEFINE from == doc.terms.validFrom
           to == doc.terms.validTo
<1>1. /\ doc.terms \in TermsStated /\ from \in Int \cup {Unstated} /\ to \in Int \cup {Unstated}
  BY DocumentsAssumption DEF Fit, TermsStated
<1>2. \A i \in DOMAIN doc.terms.windows : WindowStands(doc.terms.windows[i], doc.terms)
  BY DEF Fit, check_terms
<1>3. CASE Bounded(doc.terms)
  <2>1. /\ from..to \subseteq Days /\ from \in Int /\ to \in Int /\ from <= to
    BY <1>1, <1>3, MovementsAssumption DEF Fit, Bounded, check_terms
  <2>2. \A day \in from..to : day \in Days /\ InRange(doc.terms, day)
    BY <2>1 DEF InRange
  <2>3. from \in from..to
    BY <2>1
  <2>4. ASSUME NEW i \in DOMAIN doc.terms.windows
        PROVE  \E day \in from..to : isoweekday(day) \in doc.terms.windows[i].days
    <3>1. PICK w \in doc.terms.windows[i].days : w \in Weekdays /\ w \in days_that_occur(from, to)
      BY <1>2, <1>3 DEF WindowStands
    <3>2. CASE to - from >= 6
      <4>1. PICK k \in 0..6 : isoweekday(from + k) = w
        BY <2>1, <3>1, AWeekHasEveryWeekday
      <4>2. from + k \in from..to
        BY <2>1, <3>2
      <4>3. QED
        BY <3>1, <4>1, <4>2
    <3>3. CASE ~(to - from >= 6)
      BY <3>1, <3>3 DEF days_that_occur
    <3>4. QED
      BY <3>2, <3>3
  <2>5. QED
    BY <2>2, <2>3, <2>4
<1>4. CASE ~Bounded(doc.terms)
  <2>1. PICK first \in Days : /\ \A k \in 0..6 : first + k \in Days
                              /\ first \in Int /\ (from # Unstated => from <= first)
                              /\ (to # Unstated => first + 6 <= to)
    BY <1>4, MovementsAssumption DEF Fit
  <2>2. ASSUME NEW k \in 0..6 PROVE first + k \in Days /\ InRange(doc.terms, first + k)
    <3>1. from # Unstated => from \in Int /\ from <= first + k
      BY <1>1, <2>1
    <3>2. to # Unstated => to \in Int /\ first + k <= to
      BY <1>1, <2>1
    <3>3. QED
      BY <2>1, <3>1, <3>2 DEF InRange
  <2>3. ASSUME NEW i \in DOMAIN doc.terms.windows
        PROVE  \E k \in 0..6 : isoweekday(first + k) \in doc.terms.windows[i].days
    <3>1. PICK w \in doc.terms.windows[i].days : w \in Weekdays
      BY <1>2 DEF WindowStands
    <3>2. QED
      BY <2>1, <3>1, AWeekHasEveryWeekday
  <2>4. QED
    BY <2>2, <2>3
<1>5. QED
  BY <1>3, <1>4

(* Lanes are stated at every garage of the pass, and have names.           *)
LEMMA SomeLaneIsStated ==
    ASSUME NEW p, NEW doc, Fit(p, doc), NEW g \in doc.garages
    PROVE  \E lane \in Lanes :
             lanes_at(doc.terms, g) = Unstated \/ lane \in lanes_at(doc.terms, g)
<1> DEFINE lanes == doc.terms.lanes
<1>1. CASE lanes = Unstated
  BY <1>1, MovementsAssumption DEF lanes_at
<1>2. CASE lanes # Unstated
  <2>1. lanes \in Seq([garage : Garages, lanes : SUBSET (Lanes \cup {Blank})])
    BY <1>2, DocumentsAssumption DEF Fit, TermsStated
  <2>2. PICK i \in DOMAIN lanes : lanes[i].garage = g
    BY <1>2 DEF Fit, refuse_lanes_off_the_pass
  <2>3. lanes[i].lanes # {} /\ Blank \notin lanes[i].lanes
    <3>1. LanesStand(lanes)
      BY <1>2 DEF Fit, check_terms
    <3>2. QED
      BY <2>2, <3>1 DEF LanesStand
  <2>4. lanes[i] \in [garage : Garages, lanes : SUBSET (Lanes \cup {Blank})]
    <3> HIDE DEF lanes
    <3> DEFINE Entries == [garage : Garages, lanes : SUBSET (Lanes \cup {Blank})]
    <3> HIDE DEF Entries
    <3>1. lanes \in Seq(Entries)
      BY <2>1 DEF Entries
    <3>2. lanes[i] \in Entries
      BY <2>2, <3>1
    <3>3. QED
      BY <3>2 DEF Entries
  <2>5. PICK lane \in lanes[i].lanes : TRUE
    BY <2>3
  <2>6. lane \in Lanes
    BY <2>3, <2>4, <2>5
  <2>7. lanes_at(doc.terms, g) = UNION { lanes[k].lanes : k \in { j \in DOMAIN lanes : lanes[j].garage = g } }
    BY <1>2 DEF lanes_at
  <2>8. lane \in lanes_at(doc.terms, g)
    BY <2>2, <2>5, <2>7
  <2>9. QED
    BY <2>6, <2>8
<1>3. QED
  BY <1>1, <1>2

(* Of terms with other windows, all but the windows is as it was.          *)
LEMMA OnlyTheWindows ==
    ASSUME NEW terms \in TermsStated, NEW of
    PROVE  LET t == [terms EXCEPT !.windows = of] IN
           /\ t.windows = of /\ t.directions = terms.directions /\ t.lanes = terms.lanes
           /\ t.validFrom = terms.validFrom /\ t.validTo = terms.validTo
BY DEF TermsStated

LEMMA CheckedTermsOpen ==
    ASSUME NEW p, NEW doc, Fit(p, doc), NEW g \in doc.garages,
           NEW of, of = << >> \/ \E i \in DOMAIN doc.terms.windows : of = <<doc.terms.windows[i]>>
    PROVE  \E lane \in Lanes, day \in Days, minute \in Minutes, dir \in Ends :
             Allows([doc.terms EXCEPT !.windows = of], g, lane, day, minute, dir)
<1> DEFINE t == [doc.terms EXCEPT !.windows = of]
<1>1. doc.terms \in TermsStated
  BY DocumentsAssumption DEF Fit
<1>2. /\ t.windows = of /\ t.directions = doc.terms.directions /\ t.lanes = doc.terms.lanes
      /\ t.validFrom = doc.terms.validFrom /\ t.validTo = doc.terms.validTo
  BY <1>1, OnlyTheWindows
<1> HIDE DEF t
<1>3. PICK dir \in Ends : dir \in t.directions
  BY <1>1, <1>2 DEF Fit, check_terms, TermsStated
<1>4. PICK lane \in Lanes : lanes_at(t, g) = Unstated \/ lane \in lanes_at(t, g)
  <2>1. lanes_at(t, g) = lanes_at(doc.terms, g)
    BY <1>2 DEF lanes_at
  <2>2. QED
    BY <2>1, SomeLaneIsStated
<1>5. CASE of = << >>
  <2>1. PICK day \in Days : InRange(doc.terms, day)
    BY SomeDayIsInRange
  <2>2. 0 \in Minutes
    BY MovementsAssumption
  <2>3. Allows(t, g, lane, day, 0, dir)
    BY <1>2, <1>3, <1>4, <1>5, <2>1 DEF Allows, InRange
  <2>4. QED
    BY <2>2, <2>3 DEF t
<1>6. ASSUME NEW i \in DOMAIN doc.terms.windows, of = <<doc.terms.windows[i]>>
      PROVE  \E l \in Lanes, day \in Days, minute \in Minutes, d \in Ends :
               Allows(t, g, l, day, minute, d)
  <2> DEFINE window == doc.terms.windows[i]
  <2>1. PICK day \in Days : InRange(doc.terms, day) /\ isoweekday(day) \in window.days
    BY SomeDayIsInRange
  <2>2. /\ window.start < window.end /\ window.start \in 0..EndOfDay
        /\ window.end \in 0..EndOfDay
    BY DEF Fit, check_terms, WindowStands
  <2>3. window.start \in Minutes /\ window.start <= window.start
    BY <2>2, MovementsAssumption
  <2>4. t.windows[1] = window /\ 1 \in DOMAIN t.windows
    BY <1>2, <1>6
  <2> HIDE DEF window
  <2>5. Allows(t, g, lane, day, window.start, dir)
    BY <1>2, <1>3, <1>4, <2>1, <2>2, <2>3, <2>4 DEF Allows, InRange
  <2>6. QED
    BY <2>3, <2>5
<1>7. QED
  BY <1>5, <1>6 DEF t

-----------------------------------------------------------------------------
(* Passes that stand, and those on their way. *)

PassesFit ==
    /\ passes = [p \in Passes |-> passes[p]]
    /\ \A p \in Passes : passes[p] # NoPass => Fit(p, passes[p])

CreatedPassesFit ==
    \A d \in Desks : Working(d, "create-pass") => Fit(desk[d].call.pass, desk[d].call.doc)

PassInv == Shape /\ PassesFit /\ CreatedPassesFit

(* Only desk d moved; the pass it creates, if it creates one, is fit.      *)
LEMMA DeskKeepsPassesFit ==
    ASSUME IInv, PassInv, IInv', NEW d \in Desks, NEW tx, Goes(d, tx), UNCHANGED passes,
           tx.step # "idle" /\ tx.call.verb = "create-pass" => Fit(tx.call.pass, tx.call.doc)
    PROVE  PassInv'
<1>1. desk'[d] = tx /\ \A e \in Desks \ {d} : desk'[e] = desk[e]
  BY DEF Goes, IInv, Shape
<1>2. CreatedPassesFit'
  BY <1>1 DEF PassInv, CreatedPassesFit, Working
<1>3. PassesFit'
  BY DEF PassInv, PassesFit
<1>4. QED
  BY <1>2, <1>3 DEF PassInv, IInv

LEMMA NextKeepsPassInv == IInv /\ IInv' /\ PassInv /\ [Next]_vars => PassInv'
<1> SUFFICES ASSUME IInv, IInv', PassInv, [Next]_vars PROVE PassInv'
  OBVIOUS
<1>1. ASSUME NEW d \in Desks, NEW call, NEW seen, Read(d, call, seen),
             call.verb = "create-pass" => Fit(call.pass, call.doc)
      PROVE  PassInv'
  <2> DEFINE tx == [step |-> "read", call |-> call, seen |-> seen]
  <2>1. Goes(d, tx) /\ UNCHANGED passes
    BY <1>1 DEF Read
  <2>2. tx.call.verb = "create-pass" => Fit(tx.call.pass, tx.call.doc)
    BY <1>1
  <2> HIDE DEF tx
  <2>3. QED
    BY <2>1, <2>2, DeskKeepsPassesFit
<1>2. ASSUME NEW d \in Desks, Goes(d, Idle), UNCHANGED passes PROVE PassInv'
  BY <1>2, DeskKeepsPassesFit DEF Idle
<1>3. ASSUME NEW d \in Desks, NEW g \in Garages, NEW garage \in GarageDocs,
             store_garage(d, g, garage)
      PROVE  PassInv'
  BY <1>1, <1>3 DEF store_garage
<1>4. ASSUME NEW d \in Desks, NEW g \in Garages, NEW name \in Zones,
             set_garage_timezone(d, g, name)
      PROVE  PassInv'
  BY <1>1, <1>4 DEF set_garage_timezone
<1>5. ASSUME NEW d \in Desks, NEW g \in Garages, NEW end \in Ends,
             set_garage_enrols_at(d, g, end)
      PROVE  PassInv'
  BY <1>1, <1>5 DEF set_garage_enrols_at
<1>6. ASSUME NEW d \in Desks, NEW g \in Garages, NEW p \in Passes, NEW doc \in PassesOf[p],
             create_pass(d, g, p, doc)
      PROVE  PassInv'
  <2> DEFINE call == [verb |-> "create-pass", pass |-> p, doc |-> doc]
  <2>1. Read(d, call, NoGarage) /\ Fit(p, doc)
    BY <1>6 DEF create_pass, Fit
  <2>2. call.pass = p /\ call.doc = doc
    OBVIOUS
  <2> HIDE DEF call
  <2>3. QED
    BY <1>1, <2>1, <2>2
<1>7. ASSUME NEW d \in Desks, Write(d) PROVE PassInv'
  <2>1. UNCHANGED passes /\ desk[d].step = "read"
    BY <1>7 DEF Write
  <2>2. CASE Goes(d, Idle)
    BY <1>2, <2>1, <2>2
  <2>3. CASE ~Goes(d, Idle)
    <3> DEFINE tx == [desk[d] EXCEPT !.step = "written"]
    <3>1. Goes(d, tx)
      BY <1>7, <2>3 DEF Write
    <3>2. tx.call = desk[d].call
      BY DEF IInv, Shape
    <3>3. desk[d].call.verb = "create-pass" => Fit(desk[d].call.pass, desk[d].call.doc)
      BY <2>1 DEF PassInv, CreatedPassesFit, Working
    <3> HIDE DEF tx
    <3>4. QED
      BY <2>1, <3>1, <3>2, <3>3, DeskKeepsPassesFit
  <2>4. QED
    BY <2>2, <2>3
<1>8. ASSUME NEW d \in Desks, CommitGarage(d) \/ CommitRepair(d) \/ Rollback(d) PROVE PassInv'
  <2>1. Goes(d, Idle) /\ UNCHANGED passes
    BY <1>8 DEF CommitGarage, CommitRepair, Rollback, Commits
  <2>2. QED
    BY <1>2, <2>1
<1>9. ASSUME NEW d \in Desks, CommitPass(d) PROVE PassInv'
  <2> DEFINE p == desk[d].call.pass
             doc == desk[d].call.doc
  <2>1. /\ Goes(d, Idle) /\ passes' = [passes EXCEPT ![p] = doc] /\ Fit(p, doc)
    BY <1>9 DEF CommitPass, Commits, Working, PassInv, CreatedPassesFit
  <2>2. desk'[d].step = "idle" /\ \A e \in Desks \ {d} : desk'[e] = desk[e]
    BY <2>1 DEF Goes, Idle, IInv, Shape
  <2>3. CreatedPassesFit'
    BY <2>2 DEF PassInv, CreatedPassesFit, Working
  <2> HIDE DEF p, doc
  <2>4. p \in Passes
    BY <2>1 DEF Fit
  <2>5. PassesFit'
    BY <2>1, <2>4 DEF PassInv, PassesFit
  <2>6. QED
    BY <2>3, <2>5 DEF PassInv, IInv
<1>10. ASSUME NEW zones, Upgrade(zones) PROVE PassInv'
  BY <1>10 DEF Upgrade, PassInv, Shape, PassesFit, CreatedPassesFit, Working
<1>11. CASE UNCHANGED vars
  BY <1>11 DEF vars, PassInv, Shape, PassesFit, CreatedPassesFit, Working
<1>12. QED
  BY <1>3, <1>4, <1>5, <1>6, <1>7, <1>8, <1>9, <1>10, <1>11 DEF Next

(* Only terms that can be met are stored: at every garage of a stored pass *)
(* there is a lane, a day and a minute its terms allow, in every window.   *)
THEOREM StoredPassesCanBeUsed == Spec => []AStoredPassCanBeUsed
<1>1. Init => PassInv
  <2> SUFFICES ASSUME Init PROVE PassInv
    OBVIOUS
  <2>1. Shape /\ \A d \in Desks : desk[d].step = "idle"
    BY InitIInv DEF IInv, Init, Idle
  <2>2. passes = [p \in Passes |-> passes[p]] /\ \A p \in Passes : passes[p] = NoPass
    BY DEF Init
  <2>3. QED
    BY <2>1, <2>2 DEF PassInv, PassesFit, CreatedPassesFit, Working
<1>2. PassInv => AStoredPassCanBeUsed
  <2> SUFFICES ASSUME PassInv, NEW p \in Passes, passes[p] # NoPass,
                      NEW g \in passes[p].garages
               PROVE  LET terms == passes[p].terms
                          opens(of) == \E lane \in Lanes, day \in Days, minute \in Minutes,
                                          dir \in Ends :
                                         Allows([terms EXCEPT !.windows = of],
                                                g, lane, day, minute, dir)
                      IN  /\ terms.windows = << >> => opens(<< >>)
                          /\ \A i \in DOMAIN terms.windows : opens(<<terms.windows[i]>>)
    BY DEF AStoredPassCanBeUsed
  <2>1. Fit(p, passes[p])
    BY DEF PassInv, PassesFit
  <2>2. QED
    BY <2>1, CheckedTermsOpen
<1>3. QED
  BY <1>1, <1>2, InitIInv, NextKeepsIInv, NextKeepsPassInv, PTL DEF Spec
=============================================================================
