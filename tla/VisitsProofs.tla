----------------------------- MODULE VisitsProofs -----------------------------
(***************************************************************************)
(* For every set of lanes, garages and cars: the visit ledger holds one    *)
(* open visit of a car at a garage, an exit is written on a visit of its   *)
(* own garage, and the allowance is overrun by no more than the lanes that *)
(* asked and the replies that were lost.                                   *)
(***************************************************************************)
EXTENDS Visits, SequenceTheorems, FiniteSetTheorems, TLAPS

\* An uncommitted entry is of a key no committed open visit and no other
\* uncommitted entry has.
EntriesAreFresh ==
    \A l \in Lanes : pending[l].verb = "insert" =>
        /\ pending[l].row.exit = Open
        /\ \A i \in DOMAIN rows :
             rows[i].exit = Open => ~SameKey(rows[i], pending[l].row)
        /\ \A m \in Lanes \ {l} :
             pending[m].verb = "insert" => ~SameKey(pending[m].row, pending[l].row)

\* The exit e closes the row r: at its garage, not before its entry.
Closes(e, r) == /\ e # Open
                /\ GarageOf[e.lane] = r.garage
                /\ e.at >= r.at

\* An exit read a row of its own garage, and its write keeps that row's entry.
ExitsKnowTheirRow ==
    \A l \in Lanes :
        /\ At(l, "read", "exit") =>
             /\ call[l].id \in DOMAIN rows
             /\ rows[call[l].id].garage = GarageOf[l]
             /\ call[l].at >= rows[call[l].id].at
        /\ pending[l].verb = "update" =>
             /\ Closes(pending[l].row.exit, pending[l].row)
             /\ SameKey(pending[l].row, rows[pending[l].id])
             /\ pending[l].row.at = rows[pending[l].id].at

IInv == TypeOK /\ OneOpenVisit /\ AnExitIsOfItsGarage /\ EntriesAreFresh /\ ExitsKnowTheirRow

-----------------------------------------------------------------------------
(* What a committed write does to the table. *)

\* Every row keeps its entry, and keeps or is given an exit of its garage.
KeepsEntries ==
    \A i \in DOMAIN rows :
        /\ i \in DOMAIN rows'
        /\ SameKey(rows'[i], rows[i])
        /\ rows'[i].at = rows[i].at
        /\ rows'[i] = rows[i] \/ Closes(rows'[i].exit, rows'[i])

\* A committed write appends its entry or rewrites one row, and keeps them all.
LEMMA SavedKeepsEntries ==
    ASSUME IInv, NEW l \in Lanes, call[l].phase = "written", rows' = Saved(l)
    PROVE  /\ rows' \in Seq(Rows)
           /\ KeepsEntries
           /\ \/ /\ pending[l].verb = "insert"
                 /\ Len(rows') = Len(rows) + 1
                 /\ rows'[Len(rows) + 1] = pending[l].row
                 /\ \A i \in DOMAIN rows : rows'[i] = rows[i]
              \/ /\ pending[l].verb = "update"
                 /\ Len(rows') = Len(rows)
<1>0. /\ pending[l] \in Writes /\ pending[l] # NoWrite /\ rows \in Seq(Rows)
  BY DEF IInv, TypeOK
<1>1. CASE pending[l] \in [verb : {"insert"}, row : Rows]
  <2>1. PICK r \in Rows : pending[l] = Insert(r)
    BY <1>1 DEF Insert
  <2>2. rows' = Append(rows, r) /\ pending[l].verb = "insert" /\ pending[l].row = r
    BY <2>1 DEF Saved, Insert
  <2>3. rows \in Seq(Rows)
    BY DEF IInv, TypeOK
  <2>4. /\ rows' \in Seq(Rows) /\ Len(rows') = Len(rows) + 1
        /\ rows'[Len(rows) + 1] = r
        /\ \A i \in 1 .. Len(rows) : rows'[i] = rows[i]
    BY <2>2, <2>3, AppendProperties
  <2>5. QED
    BY <2>2, <2>3, <2>4 DEF KeepsEntries, SameKey
<1>2. CASE pending[l] \in [verb : {"update"}, id : 1 .. Len(rows), row : Rows]
  <2>1. PICK i \in 1 .. Len(rows), r \in Rows : pending[l] = Update(i, r)
    BY <1>2 DEF Update
  <2>2. /\ rows' = [rows EXCEPT ![i] = r]
        /\ pending[l].verb = "update" /\ pending[l].row = r /\ pending[l].id = i
    BY <2>1 DEF Saved, Update
  <2>3. rows \in Seq(Rows)
    BY DEF IInv, TypeOK
  <2>4. /\ rows' \in Seq(Rows) /\ Len(rows') = Len(rows)
        /\ \A j \in 1 .. Len(rows) : rows'[j] = IF j = i THEN r ELSE rows[j]
    BY <2>1, <2>2, <2>3, ExceptSeq
  <2>5. Closes(r.exit, r) /\ SameKey(r, rows[i]) /\ r.at = rows[i].at
    BY <2>2 DEF IInv, ExitsKnowTheirRow
  <2>6. KeepsEntries
    BY <2>3, <2>4, <2>5 DEF KeepsEntries, SameKey
  <2>7. QED
    BY <2>2, <2>4, <2>6
<1>3. QED
  BY <1>0, <1>1, <1>2 DEF Writes

-----------------------------------------------------------------------------
(* The initial state, and each step. *)

LEMMA InitIsInductive == Init => IInv
<1> SUFFICES ASSUME Init PROVE IInv
  OBVIOUS
<1>0. rows = <<>> /\ rows \in Seq(Rows) /\ Len(rows) = 0 /\ DOMAIN rows = {}
  <2>1. rows = <<>>
    BY DEF Init
  <2>2. <<>> \in Seq(Rows) /\ Len(<<>>) = 0
    BY EmptySeq
  <2>3. QED
    BY <2>1, <2>2
<1>2. TypeOK
  <2>1. \A l \in Lanes : call[l] = Idle /\ call[l].phase # "written" /\ pending[l] = NoWrite
    BY DEF Init, Idle
  <2>2. call \in [Lanes -> Calls] /\ lost \in Nat /\ pending \in [Lanes -> Writes]
    BY DEF Init, Calls, Writes
  <2>3. QED
    BY <1>0, <2>1, <2>2 DEF TypeOK
<1>3. OneOpenVisit /\ AnExitIsOfItsGarage
  BY <1>0 DEF OneOpenVisit, AnExitIsOfItsGarage
<1>4. EntriesAreFresh /\ ExitsKnowTheirRow
  <2>1. \A l \in Lanes : call[l].phase = "idle" /\ pending[l].verb = "none"
    BY DEF Init, NoWrite, Idle
  <2>2. QED
    BY <2>1 DEF EntriesAreFresh, ExitsKnowTheirRow, At
<1>5. QED
  BY <1>2, <1>3, <1>4 DEF IInv

\* A step of one lane that writes nothing, and leaves the lane where it holds
\* no write, knowing its row if it read one.
LEMMA WritesNothing ==
    ASSUME IInv, NEW l \in Lanes, NEW c \in Calls,
           call[l].phase # "written", c.phase # "written",
           call' = [call EXCEPT ![l] = c], UNCHANGED <<rows, pending, lost>>,
           (c.phase = "read" /\ c.verb = "exit") =>
              /\ c.id \in DOMAIN rows
              /\ rows[c.id].garage = GarageOf[l]
              /\ c.at >= rows[c.id].at
    PROVE  IInv'
<1>1. TypeOK'
  BY DEF IInv, TypeOK, Writes
<1>2. OneOpenVisit' /\ AnExitIsOfItsGarage' /\ EntriesAreFresh'
  BY DEF IInv, OneOpenVisit, AnExitIsOfItsGarage, EntriesAreFresh, SameKey
<1>3. ExitsKnowTheirRow'
  <2>1. call \in [Lanes -> Calls]
    BY DEF IInv, TypeOK
  <2>2. QED
    BY <2>1 DEF IInv, ExitsKnowTheirRow, At, Closes, SameKey
<1>4. QED
  BY <1>1, <1>2, <1>3 DEF IInv

\* The commit of a lane's write, whether its reply comes back or not.
LEMMA CommitsKeepInv ==
    ASSUME IInv, NEW l \in Lanes, NEW c \in Calls,
           call[l].phase = "written", c.phase \in {"idle", "asked"},
           call' = [call EXCEPT ![l] = c],
           pending' = [pending EXCEPT ![l] = NoWrite],
           rows' = Saved(l) \/ rows' = rows, lost' \in Nat
    PROVE  IInv'
<1>0. /\ rows \in Seq(Rows) /\ call \in [Lanes -> Calls] /\ pending \in [Lanes -> Writes]
      /\ pending[l] # NoWrite
      /\ \A m \in Lanes : call[m].phase # "written" <=> pending[m] = NoWrite
  BY DEF IInv, TypeOK
<1>1. /\ rows' \in Seq(Rows) /\ KeepsEntries
      /\ Len(rows') >= Len(rows)
  BY <1>0, SavedKeepsEntries DEF KeepsEntries, SameKey
<1>2. TypeOK'
  <2>1. pending' \in [Lanes -> Writes']
    BY <1>0, <1>1 DEF Writes
  <2>2. QED
    BY <1>0, <1>1, <2>1 DEF TypeOK, NoWrite
<1>3. \A i \in DOMAIN rows : rows'[i].exit = Open => rows'[i] = rows[i]
  BY <1>1 DEF KeepsEntries, Closes
<1>4. ASSUME pending[l].verb = "insert", Len(rows') = Len(rows) + 1,
             rows'[Len(rows) + 1] = pending[l].row
      PROVE  OneOpenVisit' /\ AnExitIsOfItsGarage' /\ EntriesAreFresh'
  <2>1. /\ pending[l].row.exit = Open
        /\ \A i \in DOMAIN rows : rows[i].exit = Open => ~SameKey(rows[i], pending[l].row)
        /\ \A m \in Lanes \ {l} :
             pending[m].verb = "insert" => ~SameKey(pending[m].row, pending[l].row)
    BY <1>4 DEF IInv, EntriesAreFresh
  <2>2. \A i \in DOMAIN rows' : i \in DOMAIN rows \/ rows'[i] = pending[l].row
    BY <1>0, <1>1, <1>4
  <2>3. OneOpenVisit'
    <3>1. SUFFICES ASSUME NEW i \in DOMAIN rows', NEW j \in DOMAIN rows',
                          rows'[i].exit = Open, rows'[j].exit = Open,
                          SameKey(rows'[i], rows'[j]), i # j
                   PROVE  FALSE
      BY DEF OneOpenVisit, SameKey
    <3>2. CASE i \in DOMAIN rows /\ j \in DOMAIN rows
      BY <1>3, <3>1, <3>2 DEF IInv, OneOpenVisit
    <3>3. CASE i \notin DOMAIN rows /\ j \in DOMAIN rows
      BY <1>3, <2>1, <2>2, <3>1, <3>3 DEF SameKey
    <3>4. CASE i \in DOMAIN rows /\ j \notin DOMAIN rows
      BY <1>3, <2>1, <2>2, <3>1, <3>4 DEF SameKey
    <3>5. CASE i \notin DOMAIN rows /\ j \notin DOMAIN rows
      BY <1>0, <1>1, <1>4, <3>1, <3>5
    <3>6. QED
      BY <3>2, <3>3, <3>4, <3>5
  <2>4. AnExitIsOfItsGarage'
    BY <1>1, <2>1, <2>2 DEF IInv, AnExitIsOfItsGarage, KeepsEntries, Closes
  <2>5. EntriesAreFresh'
    BY <1>0, <1>3, <2>1, <2>2 DEF IInv, EntriesAreFresh, SameKey, NoWrite
  <2>6. QED
    BY <2>3, <2>4, <2>5
<1>5. ASSUME Len(rows') = Len(rows)
      PROVE  OneOpenVisit' /\ AnExitIsOfItsGarage' /\ EntriesAreFresh'
  <2>1. \A i \in DOMAIN rows' : i \in DOMAIN rows
    BY <1>0, <1>1, <1>5
  <2>2. OneOpenVisit'
    BY <1>3, <2>1 DEF IInv, OneOpenVisit, SameKey
  <2>3. AnExitIsOfItsGarage'
    BY <1>1, <2>1 DEF IInv, AnExitIsOfItsGarage, KeepsEntries, Closes
  <2>4. EntriesAreFresh'
    BY <1>0, <1>3, <2>1 DEF IInv, EntriesAreFresh, SameKey, NoWrite
  <2>5. QED
    BY <2>2, <2>3, <2>4
<1>6. OneOpenVisit' /\ AnExitIsOfItsGarage' /\ EntriesAreFresh'
  BY <1>4, <1>5, SavedKeepsEntries
<1>7. ExitsKnowTheirRow'
  <2>1. \A m \in Lanes : pending'[m].verb = "update" => m # l /\ pending'[m] = pending[m]
    BY <1>0 DEF NoWrite
  <2>2. \A m \in Lanes : pending[m].verb = "update" => pending[m].id \in DOMAIN rows
    BY <1>0 DEF Writes, NoWrite
  <2>3. \A m \in Lanes : At(m, "read", "exit")' => m # l /\ call'[m] = call[m]
    BY <1>0 DEF At
  <2>4. QED
    BY <1>1, <2>1, <2>2, <2>3 DEF IInv, ExitsKnowTheirRow, KeepsEntries, SameKey, At, Closes
<1>8. QED
  BY <1>2, <1>6, <1>7 DEF IInv

LEMMA StepKeepsInv == IInv /\ [Next]_vars => IInv'
<1> SUFFICES ASSUME IInv, [Next]_vars PROVE IInv'
  OBVIOUS
<1> USE DEF IInv
<1>1. /\ rows \in Seq(Rows) /\ lost \in Nat
      /\ call \in [Lanes -> Calls] /\ pending \in [Lanes -> Writes]
      /\ \A l \in Lanes : call[l].phase # "written" <=> pending[l] = NoWrite
  BY DEF TypeOK
<1>2. CASE UNCHANGED vars
  BY <1>2 DEF vars, TypeOK, Writes, OneOpenVisit, AnExitIsOfItsGarage,
     EntriesAreFresh, ExitsKnowTheirRow, SameKey, Closes, At
<1> Idle \in Calls /\ Idle.phase = "idle"
  BY DEF Calls, Idle
<1>3. ASSUME NEW l \in Lanes, NEW car \in Cars, NEW at \in Instants, AskEntry(l, car, at)
      PROVE  IInv'
  <2>1. Running("asked", "entry", car, at, 0) \in Calls
    BY DEF Running, Calls
  <2>2. QED
    BY <1>3, <2>1, WritesNothing DEF AskEntry, Running, Idle
<1>4. ASSUME NEW l \in Lanes, NEW car \in Cars, NEW at \in Instants, ReadForExit(l, car, at)
      PROVE  IInv'
  <2>1. call[l].phase # "written"
    BY <1>4 DEF ReadForExit, At, Idle
  <2>2. CASE Ends(l)
    BY <1>4, <2>1, <2>2, WritesNothing DEF ReadForExit, Ends
  <2>3. ASSUME NEW i \in OpenVisit(l, car), rows[i].at <= at,
               call' = [call EXCEPT ![l] = Running("read", "exit", car, at, i)]
        PROVE  IInv'
    <3>1. i \in DOMAIN rows /\ rows[i].garage = GarageOf[l]
      BY <2>3 DEF OpenVisit
    <3>4. rows[i].at \in Nat
      <4>1. rows[i] \in Rows
        BY <1>1, <3>1
      <4>2. QED
        BY <4>1 DEF Rows, Instants
    <3>2. Running("read", "exit", car, at, i) \in Calls
      BY <1>1, <3>1 DEF Running, Calls
    <3>3. QED
      BY <1>4, <2>1, <2>3, <3>1, <3>2, <3>4, WritesNothing DEF ReadForExit, Running, Instants
  <2>4. QED
    BY <1>4, <2>2, <2>3 DEF ReadForExit
<1>5. ASSUME NEW l \in Lanes, ReadForEntry(l)
      PROVE  IInv'
  <2>1. call[l] \in Calls /\ call[l].phase = "asked" /\ call[l].verb = "entry"
    BY <1>1, <1>5 DEF ReadForEntry, At
  <2>2. CASE Ends(l)
    BY <1>5, <2>1, <2>2, WritesNothing DEF ReadForEntry, Ends
  <2>3. CASE Goes(l, "read")
    <3>1. [call[l] EXCEPT !.phase = "read"] \in Calls
      BY <2>1 DEF Calls, Idle
    <3>2. call' = [call EXCEPT ![l] = [call[l] EXCEPT !.phase = "read"]]
      BY <2>3 DEF Goes
    <3>3. QED
      BY <1>5, <2>1, <3>1, <3>2, WritesNothing DEF ReadForEntry, Calls, Idle
  <2>4. QED
    BY <1>5, <2>2, <2>3 DEF ReadForEntry
<1>6. ASSUME NEW l \in Lanes, InsertEntry(l)
      PROVE  IInv'
  <2> DEFINE row == [garage |-> GarageOf[l], car |-> call[l].car,
                     at |-> call[l].at, exit |-> Open]
  <2>1. /\ call[l] \in Calls /\ call[l].phase = "read" /\ call[l].verb = "entry"
        /\ ~InsertWaits(l, row) /\ UNCHANGED <<rows, lost>>
    BY <1>1, <1>6 DEF InsertEntry, At
  <2>2. CASE OpenVisit(l, row.car) # {}
    <3>1. Ends(l) /\ UNCHANGED pending
      BY <1>6, <2>2 DEF InsertEntry
    <3>2. QED
      BY <2>1, <3>1, WritesNothing DEF Ends
  <2>3. CASE OpenVisit(l, row.car) = {}
    <3>1. /\ pending' = [pending EXCEPT ![l] = Insert(row)]
          /\ call' = [call EXCEPT ![l] = [call[l] EXCEPT !.phase = "written"]]
      BY <1>6, <2>3 DEF InsertEntry, Goes
    <3>2. [call[l] EXCEPT !.phase = "written"] \in Calls
      BY <2>1 DEF Calls, Idle
    <3>3. row \in Rows
      BY <2>1, LanesAssumption DEF Rows, Calls, Idle
    <3>4. \A i \in DOMAIN rows : rows[i].exit = Open => ~SameKey(rows[i], row)
      BY <2>3 DEF OpenVisit, SameKey
    <3>5. \A m \in Lanes \ {l} : pending[m].verb = "insert" => ~SameKey(pending[m].row, row)
      BY <2>1 DEF InsertWaits, NoWrite
    <3>6. TypeOK'
      <4>1. Insert(row) \in Writes /\ Insert(row) # NoWrite
        BY <3>3 DEF Insert, Writes, NoWrite
      <4>2. QED
        BY <1>1, <2>1, <3>1, <3>2, <4>1 DEF TypeOK, Writes
    <3>7. OneOpenVisit' /\ AnExitIsOfItsGarage'
      BY <2>1 DEF OneOpenVisit, AnExitIsOfItsGarage, SameKey
    <3>8. EntriesAreFresh'
      BY <1>1, <2>1, <3>1, <3>4, <3>5 DEF EntriesAreFresh, Insert, SameKey
    <3>9. ExitsKnowTheirRow'
      BY <1>1, <2>1, <3>1 DEF ExitsKnowTheirRow, Insert, At, Closes, SameKey
    <3>10. QED
      BY <3>6, <3>7, <3>8, <3>9
  <2>4. QED
    BY <2>2, <2>3
<1>7. ASSUME NEW l \in Lanes, UpdateExit(l)
      PROVE  IInv'
  <2> DEFINE id == call[l].id
             exit == [at |-> call[l].at, lane |-> l]
             row == [rows[id] EXCEPT !.exit = exit]
  <2>1. /\ call[l] \in Calls /\ call[l].phase = "read" /\ call[l].verb = "exit"
        /\ UNCHANGED <<rows, lost>>
        /\ pending' = [pending EXCEPT ![l] = Update(id, row)]
        /\ call' = [call EXCEPT ![l] = [call[l] EXCEPT !.phase = "written"]]
    BY <1>1, <1>7 DEF UpdateExit, At, Goes
  <2>2. [call[l] EXCEPT !.phase = "written"] \in Calls /\ call[l].at \in Instants
    BY <2>1 DEF Calls, Idle
  <2>3. id \in DOMAIN rows /\ rows[id].garage = GarageOf[l] /\ call[l].at >= rows[id].at
    BY <2>1 DEF ExitsKnowTheirRow, At
  <2>4. rows[id] \in Rows /\ exit \in Exits
    BY <1>1, <2>2, <2>3 DEF Exits
  <2>5. row \in Rows /\ row.exit = exit /\ SameKey(row, rows[id]) /\ row.at = rows[id].at
    BY <2>4 DEF Rows, SameKey
  <2>6. exit # Open
    BY <2>4, OpenAssumption DEF Exits, Instants
  <2>7. Closes(row.exit, row)
    BY <2>3, <2>5, <2>6 DEF Closes, SameKey
  <2>8. TypeOK'
    <3>1. Update(id, row) \in Writes /\ Update(id, row) # NoWrite
      BY <1>1, <2>3, <2>5 DEF Update, Writes, NoWrite
    <3>2. QED
      BY <1>1, <2>1, <2>2, <3>1 DEF TypeOK, Writes
  <2>9. OneOpenVisit' /\ AnExitIsOfItsGarage'
    BY <2>1 DEF OneOpenVisit, AnExitIsOfItsGarage, SameKey
  <2>10. EntriesAreFresh'
    BY <1>1, <2>1 DEF EntriesAreFresh, Update, SameKey
  <2>11. ExitsKnowTheirRow'
    BY <1>1, <2>1, <2>5, <2>7 DEF ExitsKnowTheirRow, Update, At, Closes, SameKey
  <2>12. QED
    BY <2>8, <2>9, <2>10, <2>11
<1>8. ASSUME NEW l \in Lanes, Commit(l)
      PROVE  IInv'
  <2>1. lost' \in Nat /\ call[l].phase = "written"
    BY <1>1, <1>8 DEF Commit
  <2>2. QED
    BY <1>8, <2>1, CommitsKeepInv DEF Commit, Ends
<1>9. ASSUME NEW l \in Lanes, LoseReply(l)
      PROVE  IInv'
  <2>1. /\ lost' \in Nat /\ call[l].phase = "written" /\ call[l] \in Calls
        /\ rows' = Saved(l) \/ rows' = rows
    BY <1>1, <1>9 DEF LoseReply
  <2>2. [call[l] EXCEPT !.phase = "asked"] \in Calls
    BY <2>1 DEF Calls, Idle
  <2>3. call' = [call EXCEPT ![l] = [call[l] EXCEPT !.phase = "asked"]]
    BY <1>9 DEF LoseReply, Goes
  <2>4. QED
    BY <1>9, <2>1, <2>2, <2>3, CommitsKeepInv DEF LoseReply, Calls, Idle
<1>10. QED
  BY <1>2, <1>3, <1>4, <1>5, <1>6, <1>7, <1>8, <1>9 DEF Next

LEMMA Invariance == Spec => []IInv
<1>1. Init => IInv
  BY InitIsInductive
<1>2. IInv /\ [Next]_vars => IInv'
  BY StepKeepsInv
<1>3. QED
  BY <1>1, <1>2, PTL DEF Spec

\* Whatever lanes race, and whatever reply is lost and its command run again,
\* the ledger never holds a car inside one garage twice.
THEOREM LedgerHoldsACarOnce == Spec => []OneOpenVisit
<1>1. IInv => OneOpenVisit
  BY DEF IInv
<1>2. QED
  BY <1>1, Invariance, PTL

\* No exit is ever written on another garage's visit, or before its entry.
THEOREM LedgerKeepsGaragesApart == Spec => []AnExitIsOfItsGarage
<1>1. IInv => AnExitIsOfItsGarage
  BY DEF IInv
<1>2. QED
  BY <1>1, Invariance, PTL

-----------------------------------------------------------------------------
(* The allowance. *)

\* The lanes that were told to let a car in and may still record it.
Entitled == {l \in Lanes : call[l].phase # "idle" /\ call[l].verb = "entry"}

\* Each entitled lane, and each lost reply, is worth one entry at most, and only
\* an entitled lane holds an uncommitted entry.
OverrunInv ==
    /\ Len(rows) + Cardinality(Entitled) + 1 <= Allowed + Cardinality(Lanes) + lost
    /\ \A l \in Lanes : pending[l].verb = "insert" => l \in Entitled

LEMMA EntitledIsFinite ==
    /\ IsFiniteSet(Entitled) /\ Cardinality(Entitled) \in Nat
    /\ Cardinality(Entitled) <= Cardinality(Lanes) /\ Cardinality(Lanes) \in Nat
<1>1. Entitled \subseteq Lanes /\ IsFiniteSet(Lanes)
  BY LanesAssumption DEF Entitled
<1>2. QED
  BY <1>1, FS_Subset, FS_CardinalityType

\* Two sets that differ in one element at most.
LEMMA CardinalityButOne ==
    ASSUME NEW E, NEW F, NEW l, IsFiniteSet(E), IsFiniteSet(F), E \ {l} = F \ {l}
    PROVE  /\ l \notin F => Cardinality(F) <= Cardinality(E)
           /\ l \in E /\ l \notin F => Cardinality(F) = Cardinality(E) - 1
           /\ l \in E => Cardinality(F) <= Cardinality(E)
<1>1. /\ Cardinality(E \ {l}) = (IF l \in E THEN Cardinality(E) - 1 ELSE Cardinality(E))
      /\ Cardinality(F \ {l}) = (IF l \in F THEN Cardinality(F) - 1 ELSE Cardinality(F))
  BY FS_RemoveElement
<1>2. Cardinality(E) \in Nat /\ Cardinality(F) \in Nat
  BY FS_CardinalityType
<1>3. Cardinality(E \ {l}) = Cardinality(F \ {l})
  OBVIOUS
<1>4. CASE l \in E /\ l \in F
  <2>1. Cardinality(E) - 1 = Cardinality(F) - 1
    BY <1>1, <1>3, <1>4, Zenon
  <2>2. QED
    BY <1>2, <1>4, <2>1
<1>5. CASE l \in E /\ l \notin F
  <2>1. Cardinality(E) - 1 = Cardinality(F)
    BY <1>1, <1>3, <1>5, Zenon
  <2>2. QED
    BY <1>2, <1>5, <2>1
<1>6. CASE l \notin E /\ l \in F
  BY <1>6
<1>7. CASE l \notin E /\ l \notin F
  <2>1. Cardinality(E) = Cardinality(F)
    BY <1>1, <1>3, <1>7, Zenon
  <2>2. QED
    BY <1>2, <1>7, <2>1
<1>8. QED
  BY <1>4, <1>5, <1>6, <1>7

\* What an action does to the entitled lanes: one joins, one leaves, or none.
LEMMA OneLaneAtATime ==
    ASSUME NEW l \in Lanes, IsFiniteSet(Entitled), IsFiniteSet(Entitled'),
           \A m \in Lanes \ {l} : call'[m] = call[m]
    PROVE  /\ l \notin Entitled' => Cardinality(Entitled') <= Cardinality(Entitled)
           /\ l \in Entitled /\ l \notin Entitled' =>
                Cardinality(Entitled') = Cardinality(Entitled) - 1
           /\ l \in Entitled => Cardinality(Entitled') <= Cardinality(Entitled)
<1>1. Entitled' \ {l} = Entitled \ {l}
  BY DEF Entitled
<1>2. QED
  BY <1>1, CardinalityButOne

\* The sum a step may move between the rows, the entitled lanes and the replies.
LEMMA SumIsKept ==
    ASSUME NEW n \in Nat, NEW k \in Nat, NEW x \in Nat, NEW a \in Nat, NEW m \in Nat,
           NEW n2 \in Nat, NEW k2 \in Nat, NEW x2 \in Nat,
           n + k + 1 <= a + m + x, n2 + k2 + x <= n + k + x2
    PROVE  n2 + k2 + 1 <= a + m + x2
  OBVIOUS

LEMMA StepKeepsOverrun == IInv /\ IInv' /\ OverrunInv /\ [Next]_vars => OverrunInv'
<1> SUFFICES ASSUME IInv, IInv', OverrunInv, [Next]_vars PROVE OverrunInv'
  OBVIOUS
<1>1. /\ rows \in Seq(Rows) /\ lost \in Nat /\ Len(rows) \in Nat
      /\ call \in [Lanes -> Calls]
      /\ Allowed \in Nat
  BY CountsAssumption DEF IInv, TypeOK
<1>2. /\ IsFiniteSet(Entitled) /\ Cardinality(Entitled) \in Nat
      /\ Cardinality(Entitled) <= Cardinality(Lanes) /\ Cardinality(Lanes) \in Nat
  BY EntitledIsFinite
<1>3. /\ IsFiniteSet(Entitled') /\ Cardinality(Entitled') \in Nat
      /\ Cardinality(Entitled') <= Cardinality(Lanes)
  <2>1. Entitled' \subseteq Lanes /\ IsFiniteSet(Lanes)
    BY LanesAssumption DEF Entitled
  <2>2. QED
    BY <2>1, FS_Subset, FS_CardinalityType
<1>4. CASE UNCHANGED vars
  BY <1>4 DEF OverrunInv, Entitled, vars
<1>5. ASSUME NEW l \in Lanes, NEW car \in Cars, NEW at \in Instants, AskEntry(l, car, at)
      PROVE  OverrunInv'
  <2>1. Entitled \subseteq Entitled'
    BY <1>1, <1>5 DEF AskEntry, Entitled, Running, Idle
  <2>2. QED
    BY <1>1, <1>2, <1>3, <1>5, <2>1 DEF AskEntry, Used, OverrunInv
<1>6. ASSUME NEW l \in Lanes, NEW car \in Cars, NEW at \in Instants, ReadForExit(l, car, at)
      PROVE  OverrunInv'
  <2>1. l \notin Entitled /\ l \notin Entitled'
    BY <1>1, <1>6 DEF ReadForExit, Entitled, Running, Ends, Idle, At
  <2>2. \A m \in Lanes \ {l} : call'[m] = call[m] /\ (m \in Entitled' <=> m \in Entitled)
    BY <1>1, <1>6 DEF ReadForExit, Ends, Entitled
  <2>3. QED
    BY <1>1, <1>2, <1>3, <1>6, <2>1, <2>2, OneLaneAtATime DEF ReadForExit, OverrunInv
<1>7. ASSUME NEW l \in Lanes, ReadForEntry(l)
      PROVE  OverrunInv'
  <2>1. l \in Entitled /\ pending[l].verb # "insert"
    BY <1>1, <1>7 DEF ReadForEntry, Entitled, At, IInv, TypeOK, NoWrite
  <2>2. \A m \in Lanes \ {l} : call'[m] = call[m] /\ (m \in Entitled' <=> m \in Entitled)
    BY <1>1, <1>7 DEF ReadForEntry, Goes, Ends, Entitled
  <2>3. Cardinality(Entitled') <= Cardinality(Entitled)
    BY <1>2, <1>3, <2>1, <2>2, OneLaneAtATime
  <2>4. UNCHANGED <<rows, pending, lost>>
    BY <1>7 DEF ReadForEntry
  <2>5. \A m \in Lanes : pending'[m].verb = "insert" => m \in Entitled'
    BY <2>1, <2>2, <2>4 DEF OverrunInv
  <2>6. Len(rows) + Cardinality(Entitled)' + 1 <= Allowed + Cardinality(Lanes) + lost
    BY <1>1, <1>2, <1>3, <2>3, SumIsKept DEF OverrunInv
  <2>7. QED
    BY <2>4, <2>5, <2>6 DEF OverrunInv
<1>8. ASSUME NEW l \in Lanes, InsertEntry(l)
      PROVE  OverrunInv'
  <2>1. l \in Entitled
    BY <1>1, <1>8 DEF InsertEntry, Entitled, At
  <2>2. \A m \in Lanes \ {l} :
          /\ call'[m] = call[m] /\ (m \in Entitled' <=> m \in Entitled)
          /\ pending'[m] = pending[m]
    BY <1>1, <1>8 DEF InsertEntry, Goes, Ends, Entitled, IInv, TypeOK
  <2>3. pending'[l].verb = "insert" => l \in Entitled'
    <3>1. CASE Ends(l) /\ UNCHANGED pending
      BY <1>8, <3>1 DEF InsertEntry, At, IInv, TypeOK, NoWrite
    <3>2. CASE Goes(l, "written")
      BY <1>1, <2>1, <3>2 DEF Goes, Entitled, Calls, Idle
    <3>3. QED
      BY <1>8, <3>1, <3>2 DEF InsertEntry
  <2>4. UNCHANGED <<rows, lost>>
    BY <1>8 DEF InsertEntry
  <2>5. Cardinality(Entitled') <= Cardinality(Entitled)
    BY <1>2, <1>3, <2>1, <2>2, OneLaneAtATime
  <2>6. \A m \in Lanes : pending'[m].verb = "insert" => m \in Entitled'
    BY <2>2, <2>3 DEF OverrunInv
  <2>7. Len(rows) + Cardinality(Entitled)' + 1 <= Allowed + Cardinality(Lanes) + lost
    BY <1>1, <1>2, <1>3, <2>5, SumIsKept DEF OverrunInv
  <2>8. QED
    BY <2>4, <2>6, <2>7 DEF OverrunInv
<1>9. ASSUME NEW l \in Lanes, UpdateExit(l)
      PROVE  OverrunInv'
  <2>1. l \notin Entitled /\ l \notin Entitled' /\ pending'[l].verb # "insert"
    BY <1>1, <1>9 DEF UpdateExit, Entitled, Goes, At, Update, Calls, Idle, IInv, TypeOK
  <2>2. \A m \in Lanes \ {l} :
          /\ call'[m] = call[m] /\ (m \in Entitled' <=> m \in Entitled)
          /\ pending'[m] = pending[m]
    BY <1>1, <1>9 DEF UpdateExit, Goes, Entitled, IInv, TypeOK
  <2>3. QED
    BY <1>1, <1>2, <1>3, <1>9, <2>1, <2>2, OneLaneAtATime DEF UpdateExit, OverrunInv
<1>10. ASSUME NEW l \in Lanes, call[l].phase = "written", rows' = Saved(l) \/ rows' = rows
       PROVE  /\ Len(rows') \in Nat
              /\ Len(rows') <= Len(rows) + 1
              /\ pending[l].verb # "insert" => Len(rows') = Len(rows)
  BY <1>1, <1>10, SavedKeepsEntries
<1>11. ASSUME NEW l \in Lanes, Commit(l)
       PROVE  OverrunInv'
  <2>1. l \notin Entitled' /\ pending'[l].verb # "insert"
    BY <1>1, <1>11 DEF Commit, Entitled, Ends, Idle, NoWrite, IInv, TypeOK
  <2>2. \A m \in Lanes \ {l} :
          /\ call'[m] = call[m] /\ (m \in Entitled' <=> m \in Entitled)
          /\ pending'[m] = pending[m]
    BY <1>1, <1>11 DEF Commit, Ends, Entitled, IInv, TypeOK
  <2>3. /\ pending[l].verb = "insert" => l \in Entitled
        /\ Len(rows') \in Nat /\ Len(rows') <= Len(rows) + 1
        /\ pending[l].verb # "insert" => Len(rows') = Len(rows)
    BY <1>10, <1>11 DEF Commit, OverrunInv
  <2>4. lost' = lost
    BY <1>11 DEF Commit
  <2>5. \A m \in Lanes : pending'[m].verb = "insert" => m \in Entitled'
    BY <2>1, <2>2 DEF OverrunInv
  <2>6. Len(rows') + Cardinality(Entitled)' <= Len(rows) + Cardinality(Entitled)
    <3>1. CASE l \in Entitled
      <4>1. Cardinality(Entitled') = Cardinality(Entitled) - 1
        BY <1>2, <1>3, <2>1, <2>2, <3>1, OneLaneAtATime
      <4>2. QED
        BY <1>1, <1>2, <2>3, <4>1
    <3>2. CASE l \notin Entitled
      <4>1. Cardinality(Entitled') <= Cardinality(Entitled)
        BY <1>2, <1>3, <2>1, <2>2, OneLaneAtATime
      <4>2. Len(rows') = Len(rows)
        BY <2>3, <3>2
      <4>3. QED
        BY <1>1, <1>2, <1>3, <4>1, <4>2
    <3>3. QED
      BY <3>1, <3>2
  <2>7. Len(rows') + Cardinality(Entitled)' + 1 <= Allowed + Cardinality(Lanes) + lost
    BY <1>1, <1>2, <1>3, <2>3, <2>6, SumIsKept DEF OverrunInv
  <2>8. QED
    BY <2>4, <2>5, <2>7 DEF OverrunInv
<1>12. ASSUME NEW l \in Lanes, LoseReply(l)
       PROVE  OverrunInv'
  <2>1. /\ l \in Entitled' <=> l \in Entitled
        /\ pending'[l].verb # "insert"
    BY <1>1, <1>12 DEF LoseReply, Entitled, Goes, NoWrite, Calls, Idle, IInv, TypeOK
  <2>2. \A m \in Lanes \ {l} :
          /\ call'[m] = call[m] /\ (m \in Entitled' <=> m \in Entitled)
          /\ pending'[m] = pending[m]
    BY <1>1, <1>12 DEF LoseReply, Goes, Entitled, IInv, TypeOK
  <2>3. Entitled' = Entitled
    BY <2>1, <2>2 DEF Entitled
  <2>4. Len(rows') \in Nat /\ Len(rows') <= Len(rows) + 1 /\ lost' = lost + 1
    BY <1>10, <1>12 DEF LoseReply
  <2>5. \A m \in Lanes : pending'[m].verb = "insert" => m \in Entitled'
    BY <2>1, <2>2 DEF OverrunInv
  <2>6. Len(rows') + Cardinality(Entitled)' + 1 <= Allowed + Cardinality(Lanes) + lost'
    BY <1>1, <1>2, <2>3, <2>4 DEF OverrunInv
  <2>7. QED
    BY <2>5, <2>6 DEF OverrunInv
<1>13. QED
  BY <1>4, <1>5, <1>6, <1>7, <1>8, <1>9, <1>11, <1>12 DEF Next

\* The allowance is never overrun by more than the lanes that asked at once and
\* the replies that were lost.
THEOREM OverrunsAreBounded == Lanes # {} => (Spec => []AnOverrunIsBounded)
<1> SUFFICES ASSUME Lanes # {} PROVE Spec => []AnOverrunIsBounded
  OBVIOUS
<1>1. Init => OverrunInv
  <2>1. SUFFICES ASSUME Init PROVE OverrunInv
    OBVIOUS
  <2>2. Entitled = {} /\ Len(rows) = 0 /\ lost = 0
    BY <2>1, EmptySeq DEF Init, Entitled, Idle
  <2>3. Cardinality(Entitled) = 0 /\ Cardinality(Lanes) \in Nat /\ Cardinality(Lanes) # 0
    BY <2>2, FS_EmptySet, FS_CardinalityType, LanesAssumption
  <2>4. \A l \in Lanes : pending[l].verb # "insert"
    BY <2>1 DEF Init, NoWrite
  <2>5. QED
    BY <2>2, <2>3, <2>4, CountsAssumption DEF OverrunInv
<1>2. IInv /\ IInv' /\ OverrunInv /\ [Next]_vars => OverrunInv'
  BY StepKeepsOverrun
<1>3. IInv /\ OverrunInv => AnOverrunIsBounded
  <2>1. SUFFICES ASSUME IInv, OverrunInv PROVE AnOverrunIsBounded
    OBVIOUS
  <2>2. Len(rows) \in Nat /\ lost \in Nat /\ Allowed \in Nat
    BY <2>1, CountsAssumption DEF IInv, TypeOK
  <2>3. QED
    BY <2>1, <2>2, EntitledIsFinite DEF OverrunInv, AnOverrunIsBounded
<1>4. QED
  BY <1>1, <1>2, <1>3, Invariance, PTL DEF Spec
=============================================================================
