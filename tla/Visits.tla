-------------------------------- MODULE Visits --------------------------------
(***************************************************************************)
(* The visit ledger of one pass (store/records.py: record_entry and        *)
(* record_exit), kept by the lanes of every garage the pass names.  Each   *)
(* call is one READ COMMITTED transaction: a read of the car's open visit  *)
(* at the lane's garage, one INSERT or UPDATE, a commit.  A lane asks for  *)
(* the access answer in a transaction of its own, before it records the    *)
(* entry: the allowance is counted then (access.py: _visits_used, LIFE),   *)
(* over every garage of the pass.  A reply can be lost after the commit,   *)
(* or the connection before it; the lane cannot tell which, and runs the   *)
(* same command again.                                                     *)
(***************************************************************************)
EXTENDS Naturals, Sequences, FiniteSets

CONSTANTS
    Garages,      \* the garages the pass names
    Cars,         \* the cars registered on it, as vehicle_key writes them
    Lanes,        \* the lanes: each runs one command at a time
    GarageOf,     \* the garage each lane stands at
    Allowed,      \* the count of the pass's visit allowance
    LastInstant,  \* bound: the instants a lane names are 1 .. LastInstant
    MaxLost,      \* bound: replies and connections lost
    Open          \* the exit of a visit whose exited_at is NULL

ASSUME LanesAssumption == GarageOf \in [Lanes -> Garages] /\ IsFiniteSet(Lanes)
ASSUME CountsAssumption == Allowed \in Nat \ {0} /\ {LastInstant, MaxLost} \subseteq Nat
ASSUME OpenAssumption == Open \notin [at : Nat, lane : Lanes]

VARIABLES
    rows,     \* the committed rows of the table visits, in commit order
    pending,  \* the one row a lane's open transaction has written, if any
    call,     \* what each lane is running
    lost      \* how many replies and connections were lost

vars == <<rows, pending, call, lost>>

Instants == 1 .. LastInstant
Exits == [at : Instants, lane : Lanes]
Rows == [garage : Garages, car : Cars, at : Instants, exit : Exits \cup {Open}]

\* What a transaction has written: an UPDATE names the row it rewrites.
NoWrite == [verb |-> "none"]
Insert(row) == [verb |-> "insert", row |-> row]
Update(id, row) == [verb |-> "update", id |-> id, row |-> row]

Idle == [phase |-> "idle"]
Running(phase, verb, car, at, id) ==
    [phase |-> phase, verb |-> verb, car |-> car, at |-> at, id |-> id]
At(l, phase, verb) == call[l].phase = phase /\ call[l].verb = verb
Goes(l, phase) == call' = [call EXCEPT ![l].phase = phase]
Ends(l) == call' = [call EXCEPT ![l] = Idle]

-----------------------------------------------------------------------------
(* What a transaction reads, and what it waits for. *)

(* MUTANT: the garage is left out of the key.                              *)
OpenVisitAtAnyGarage(l, car) ==
    {i \in DOMAIN rows : rows[i].exit = Open /\ rows[i].car = car}

\* The visits this statement sees open for the car at the lane's own garage.
OpenVisit(l, car) ==
    {i \in DOMAIN rows : /\ rows[i].exit = Open
                         /\ rows[i].garage = GarageOf[l]
                         /\ rows[i].car = car}

(* MUTANT: only the cars inside are counted.                               *)
UsedByTheCarsInside == Cardinality({i \in DOMAIN rows : rows[i].exit = Open})

\* visits_used counts every recorded entry of the pass, open or closed.
Used == Len(rows)

\* The unique index of open visits is on (pass, garage, car).
SameKey(r, s) == r.garage = s.garage /\ r.car = s.car

(* MUTANT: the index sees no other transaction's write.                    *)
InsertNeverWaits(l, row) == FALSE

\* An INSERT waits while another transaction's uncommitted write is of its key.
InsertWaits(l, row) ==
    \E m \in Lanes \ {l} : pending[m] # NoWrite /\ SameKey(pending[m].row, row)

\* An UPDATE waits while another transaction has rewritten its row.
UpdateWaits(l, id) ==
    \E m \in Lanes \ {l} : pending[m].verb = "update" /\ pending[m].id = id

-----------------------------------------------------------------------------
Init ==
    /\ rows = <<>>
    /\ pending = [l \in Lanes |-> NoWrite]
    /\ call = [l \in Lanes |-> Idle]
    /\ lost = 0

\* access-in-store, at an entry: covered while the allowance is not used up.
\* Not covered, the lane records nothing.
AskEntry(l, car, at) ==
    /\ call[l] = Idle
    /\ Used < Allowed
    /\ call' = [call EXCEPT ![l] = Running("asked", "entry", car, at, 0)]
    /\ UNCHANGED <<rows, pending, lost>>

\* record_entry reads: refused while the car's visit here is open.
ReadForEntry(l) ==
    /\ At(l, "asked", "entry")
    /\ IF OpenVisit(l, call[l].car) = {} THEN Goes(l, "read") ELSE Ends(l)
    /\ UNCHANGED <<rows, pending, lost>>

\* record_exit reads, of a car that drives up or of one whose reply was lost:
\* refused with no visit open here, or with one entered later.  The answer at
\* an exit counts nothing and turns nobody away, so no ask comes before it.
ReadForExit(l, car, at) ==
    /\ \/ call[l] = Idle
       \/ At(l, "asked", "exit") /\ call[l].car = car /\ call[l].at = at
    /\ \/ \E i \in OpenVisit(l, car) :
            /\ rows[i].at <= at
            /\ call' = [call EXCEPT ![l] = Running("read", "exit", car, at, i)]
       \/ /\ \A i \in OpenVisit(l, car) : rows[i].at > at
          /\ Ends(l)
    /\ UNCHANGED <<rows, pending, lost>>

\* The INSERT: a committed open row of its key is the UniqueViolation, refused.
InsertEntry(l) ==
    LET row == [garage |-> GarageOf[l], car |-> call[l].car,
                at |-> call[l].at, exit |-> Open]
    IN /\ At(l, "read", "entry")
       /\ ~InsertWaits(l, row)
       /\ IF OpenVisit(l, row.car) = {}
          THEN /\ pending' = [pending EXCEPT ![l] = Insert(row)]
               /\ Goes(l, "written")
          ELSE Ends(l) /\ UNCHANGED pending
       /\ UNCHANGED <<rows, lost>>

\* The UPDATE names the row by id alone: it rewrites whatever the row now is.
UpdateExit(l) ==
    LET id == call[l].id
        exit == [at |-> call[l].at, lane |-> l]
    IN /\ At(l, "read", "exit")
       /\ ~UpdateWaits(l, id)
       /\ pending' = [pending EXCEPT ![l] = Update(id, [rows[id] EXCEPT !.exit = exit])]
       /\ Goes(l, "written")
       /\ UNCHANGED <<rows, lost>>

\* What the commit of a lane's write leaves in the table.
Saved(l) == IF pending[l].verb = "insert" THEN Append(rows, pending[l].row)
            ELSE [rows EXCEPT ![pending[l].id] = pending[l].row]

Commit(l) ==
    /\ call[l].phase = "written"
    /\ rows' = Saved(l)
    /\ pending' = [pending EXCEPT ![l] = NoWrite]
    /\ Ends(l)
    /\ UNCHANGED lost

\* The commit lands and its reply does not; or the connection dies and the
\* transaction rolls back.  Either way the lane runs the same command again.
LoseReply(l) ==
    /\ call[l].phase = "written"
    /\ lost < MaxLost
    /\ lost' = lost + 1
    /\ rows' \in {rows, Saved(l)}
    /\ pending' = [pending EXCEPT ![l] = NoWrite]
    /\ Goes(l, "asked")

Next ==
    \E l \in Lanes :
        \/ \E car \in Cars, at \in Instants : AskEntry(l, car, at) \/ ReadForExit(l, car, at)
        \/ ReadForEntry(l)
        \/ InsertEntry(l) \/ UpdateExit(l)
        \/ Commit(l) \/ LoseReply(l)

Spec == Init /\ [][Next]_vars

-----------------------------------------------------------------------------
(* Properties. *)

Calls ==
    {Idle} \cup [phase : {"asked", "read", "written"}, verb : {"entry", "exit"},
                 car : Cars, at : Instants, id : Nat]

Writes ==
    {NoWrite} \cup [verb : {"insert"}, row : Rows]
              \cup [verb : {"update"}, id : 1 .. Len(rows), row : Rows]

\* The types, and that a transaction holds a write exactly while it is to be
\* committed: a lane whose reply was lost has nothing of it left pending.
TypeOK ==
    /\ rows \in Seq(Rows)
    /\ call \in [Lanes -> Calls]
    /\ lost \in Nat
    /\ pending \in [Lanes -> Writes]
    /\ \A l \in Lanes : call[l].phase # "written" <=> pending[l] = NoWrite

\* One open visit of a car at a garage of the pass, whatever entries raced
\* (the partial index of migration 0004, under record_entry's own read).
OneOpenVisit ==
    \A i, j \in DOMAIN rows :
        rows[i].exit = Open /\ rows[j].exit = Open /\ SameKey(rows[i], rows[j]) => i = j

\* An exit is written on a visit of the garage its lane stands at, and never
\* before the entry it closes, whatever other lane rewrote the row meanwhile.
AnExitIsOfItsGarage ==
    \A i \in DOMAIN rows :
        rows[i].exit # Open => /\ GarageOf[rows[i].exit.lane] = rows[i].garage
                               /\ rows[i].exit.at >= rows[i].at

\* The allowance is overrun by no more than the other lanes that asked before
\* the last entry was recorded, and the commands run again for a lost reply.
AnOverrunIsBounded ==
    Len(rows) + 1 <= Allowed + Cardinality(Lanes) + lost

\* "so there is no visit for this exit to close" (REFUSAL_NO_OPEN_VISIT): the
\* exit of a closed visit is never rewritten by another.
AClosedVisitStaysClosed ==
    [][\A i \in DOMAIN rows : rows[i].exit # Open => rows'[i] = rows[i]]_vars
=============================================================================
