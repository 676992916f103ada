-------------------------- MODULE EnrolmentsProofs --------------------------
(***************************************************************************)
(* Proofs about the register and the credentials on top of it, for every   *)
(* set of passes, garages, cars, days, QRs, links and stays, every number  *)
(* of registrations and every clock.                                       *)
(*                                                                         *)
(* First the register alone.  Every writer does one of two things to the   *)
(* rows that stand: it leaves a row alone or it gives it an earlier end.   *)
(* Trimmed says so of two sets of rows; one lemma per operator of Register *)
(* establishes it, and the invariants follow from Trimmed and from what    *)
(* register_vehicle refused before it inserted.                            *)
(*                                                                         *)
(* Then the credentials.  Issuing a QR walks the days of its stay and      *)
(* fills the gaps in what its pass holds.  The walk is a recursive         *)
(* function of the day; that there is one, and what holds of every day of  *)
(* it, is shown by the least day that would be a counterexample            *)
(* (FiniteOrders!LeastNatural).                                            *)
(***************************************************************************)
EXTENDS Enrolments, FiniteOrders

WellFormed(r) ==
    r.from <= r.to /\ (r.to = Forever <=> r.why = OPEN) /\ r.garage \in GaragesOf[r.pass]

SoundRows(rows) == rows \subseteq Row /\ \A r \in rows : WellFormed(r)

(* The database's row id: a registration has one row at a garage.          *)
UniqueKeys(rows) ==
    \A r, s \in rows : r.reg = s.reg /\ r.garage = s.garage => r = s

Trimmed(rows, rows2) ==
    /\ SoundRows(rows2)
    /\ UniqueKeys(rows2)
    /\ \A s \in rows2 : \E r \in rows : Shortened(s, r)
    /\ \A r \in rows : \E s \in rows2 : Shortened(s, r)
    /\ \A s \in rows2 : s.why = ENDED_AFTER_LAST_DAY => s \in rows

(* The inductive invariant: the two properties lean on rows having one     *)
(* identity each, on the next number being unused, and on a pass nobody    *)
(* created holding nothing.                                                *)
Numbered == \A r \in regs : r.reg < written
OnCreatedPasses == \A r \in regs : passState[r.pass] # "absent"

IInv ==
    /\ TypeOK
    /\ UniqueKeys(regs)
    /\ Numbered
    /\ OnCreatedPasses
    /\ OneCarOnePass
    /\ RevokedHoldsNothing
    /\ NothingOutlastsAStay(regs)

-----------------------------------------------------------------------------
(* Lemmas about one row. *)

(* A row of the register, with its fields' types spelled out.              *)
LEMMA RowFields ==
    ASSUME NEW r \in Row
    PROVE  /\ r.reg \in Nat /\ r.garage \in Garages /\ r.pass \in Passes /\ r.car \in Cars
           /\ r.from \in Day /\ r.to \in EndDay /\ r.why \in Reasons
           /\ r.from \in Int /\ r.to \in Int
           /\ Forever \in EndDay /\ Forever \in Int /\ MaxDay \in Nat
BY MaxDayAssumption DEF Row, Day, EndDay, Forever

(* An end written on a row that is not later than the row's own is a       *)
(* shortening, and leaves the row a row.                                   *)
LEMMA Shorten ==
    ASSUME NEW r \in Row, WellFormed(r),
           NEW d \in EndDay \ {Forever}, r.from <= d, d <= r.to,
           NEW w \in Reasons \ {OPEN}
    PROVE  LET s == [r EXCEPT !.to = d, !.why = w]
           IN  s \in Row /\ WellFormed(s) /\ Shortened(s, r)
  <1> DEFINE s == [r EXCEPT !.to = d, !.why = w]
  <1>1. s \in Row BY DEF Row
  <1>2. /\ s.to = d /\ s.why = w /\ s.from = r.from /\ s.reg = r.reg
        /\ s.garage = r.garage /\ s.pass = r.pass /\ s.car = r.car
    BY DEF Row
  <1>3. WellFormed(s) BY <1>2 DEF WellFormed
  <1>4. Shortened(s, r) BY <1>2 DEF Shortened
  <1> QED BY <1>1, <1>3, <1>4

(* A row left alone is a shortening of itself.                             *)
LEMMA LeftAlone ==
    ASSUME NEW r \in Row
    PROVE  Shortened(r, r)
BY RowFields DEF Shortened

-----------------------------------------------------------------------------
(* Lemmas about the writers' operators. *)

(* Rows rewritten one by one, each left alone or shortened, are trimmed.   *)
LEMMA TrimmedRowByRow ==
    ASSUME NEW rows, SoundRows(rows), UniqueKeys(rows),
           NEW f \in [rows -> Row],
           \A r \in rows : /\ WellFormed(f[r]) /\ Shortened(f[r], r)
                           /\ f[r].why = ENDED_AFTER_LAST_DAY => f[r] = r
    PROVE  Trimmed(rows, {f[r] : r \in rows})
  <1> DEFINE rows2 == {f[r] : r \in rows}
  <1>1. SoundRows(rows2) BY DEF SoundRows
  <1>2. UniqueKeys(rows2)
    <2> SUFFICES ASSUME NEW a \in rows, NEW b \in rows,
                        f[a].reg = f[b].reg, f[a].garage = f[b].garage
                 PROVE  f[a] = f[b]
      BY DEF UniqueKeys
    <2>1. a.reg = b.reg /\ a.garage = b.garage BY DEF Shortened
    <2> QED BY <2>1 DEF UniqueKeys
  <1>3. \A s \in rows2 : \E r \in rows : Shortened(s, r) OBVIOUS
  <1>4. \A r \in rows : \E s \in rows2 : Shortened(s, r) OBVIOUS
  <1>5. \A s \in rows2 : s.why = ENDED_AFTER_LAST_DAY => s \in rows OBVIOUS
  <1> QED BY <1>1, <1>2, <1>3, <1>4, <1>5 DEF Trimmed

(* end_registration trims the register.                                    *)
LEMMA EndedTrims ==
    ASSUME NEW rows, SoundRows(rows), UniqueKeys(rows),
           NEW r \in rows, NEW d \in EndDay \ {Forever}, MayEnd(r, d)
    PROVE  Trimmed(rows, Ended(rows, r, d))
  <1> DEFINE f == [s \in rows |-> IF EndsWith(s, r)
                                  THEN [s EXCEPT !.to = d, !.why = ENDED_BY_OWNER] ELSE s]
  <1>1. ASSUME NEW s \in rows
        PROVE  /\ f[s] \in Row /\ WellFormed(f[s]) /\ Shortened(f[s], s)
               /\ f[s].why = ENDED_AFTER_LAST_DAY => f[s] = s
    <2> s \in Row /\ r \in Row /\ WellFormed(s) BY DEF SoundRows
    <2>1. CASE EndsWith(s, r)
      <3>1. s.from <= d /\ d <= s.to
        BY <2>1, RowFields DEF EndsWith, MayEnd, Day, EndDay, Forever
      <3>2. ENDED_BY_OWNER \in Reasons \ {OPEN} BY DEF Reasons, ENDED_BY_OWNER, OPEN
      <3>3. f[s].why # ENDED_AFTER_LAST_DAY
        BY <2>1 DEF Row, ENDED_BY_OWNER, ENDED_AFTER_LAST_DAY
      <3> QED BY <2>1, <3>1, <3>2, <3>3, Shorten
    <2>2. CASE ~EndsWith(s, r) BY <2>2, LeftAlone
    <2> QED BY <2>1, <2>2
  <1>2. f \in [rows -> Row] BY <1>1
  <1>3. {f[s] : s \in rows} = Ended(rows, r, d) BY DEF Ended
  <1> HIDE DEF f
  <1> QED BY <1>1, <1>2, <1>3, TrimmedRowByRow

(* end_stay trims the register.                                            *)
LEMMA CheckedOutTrims ==
    ASSUME NEW rows, SoundRows(rows), UniqueKeys(rows), NEW p, NEW d \in Day
    PROVE  Trimmed(rows, CheckedOut(rows, p, d))
  <1> DEFINE f == [r \in rows |->
                     IF InForceFrom(r, p, d)
                     THEN [r EXCEPT !.to = Greatest(d, r.from), !.why = ENDED_BY_CHECKOUT]
                     ELSE r]
  <1>1. ASSUME NEW r \in rows
        PROVE  /\ f[r] \in Row /\ WellFormed(f[r]) /\ Shortened(f[r], r)
               /\ f[r].why = ENDED_AFTER_LAST_DAY => f[r] = r
    <2> r \in Row /\ WellFormed(r) BY DEF SoundRows
    <2>1. CASE InForceFrom(r, p, d)
      <3>1. /\ Greatest(d, r.from) \in EndDay \ {Forever}
            /\ r.from <= Greatest(d, r.from) /\ Greatest(d, r.from) <= r.to
        BY <2>1, RowFields DEF InForceFrom, Greatest, Day, EndDay, Forever, WellFormed
      <3>2. ENDED_BY_CHECKOUT \in Reasons \ {OPEN} BY DEF Reasons, ENDED_BY_CHECKOUT, OPEN
      <3>3. f[r].why # ENDED_AFTER_LAST_DAY
        BY <2>1 DEF Row, ENDED_BY_CHECKOUT, ENDED_AFTER_LAST_DAY
      <3> QED BY <2>1, <3>1, <3>2, <3>3, Shorten
    <2>2. CASE ~InForceFrom(r, p, d) BY <2>2, LeftAlone
    <2> QED BY <2>1, <2>2
  <1>2. f \in [rows -> Row] BY <1>1
  <1>3. {f[r] : r \in rows} = CheckedOut(rows, p, d) BY DEF CheckedOut
  <1> HIDE DEF f
  <1> QED BY <1>1, <1>2, <1>3, TrimmedRowByRow

(* The revocation trims the register, and leaves the pass no day from the  *)
(* revocation's own day on, garage by garage.                              *)
LEMMA RevocationTrims ==
    ASSUME NEW rows, SoundRows(rows), UniqueKeys(rows), NEW p, NEW i \in Instants
    PROVE  /\ Trimmed(rows, EndedByRevocation(rows, p, i))
           /\ \A s \in EndedByRevocation(rows, p, i) :
                 s.pass = p => s.to <= Greatest(DayAt[i][s.garage], s.from)
  <1> DEFINE cut(r) == Greatest(DayAt[i][r.garage], r.from)
             f == [r \in rows |->
                     IF r.pass = p /\ r.to > cut(r)
                     THEN [r EXCEPT !.to = cut(r), !.why = ENDED_BY_REVOCATION]
                     ELSE r]
  <1>1. ASSUME NEW r \in rows
        PROVE  /\ f[r] \in Row /\ WellFormed(f[r]) /\ Shortened(f[r], r)
               /\ r.pass = p => f[r].to <= cut(r)
               /\ f[r].why = ENDED_AFTER_LAST_DAY => f[r] = r
    <2> r \in Row /\ WellFormed(r) BY DEF SoundRows
    <2>1. cut(r) \in EndDay \ {Forever} /\ r.from <= cut(r)
      <3>1. DayAt[i][r.garage] \in Day BY ClockAssumption, RowFields
      <3> QED BY <3>1, RowFields DEF Greatest, Day, EndDay, Forever
    <2>2. CASE r.pass = p /\ r.to > cut(r)
      <3>1. cut(r) <= r.to BY <2>1, <2>2, RowFields DEF EndDay, Forever
      <3>2. ENDED_BY_REVOCATION \in Reasons \ {OPEN} BY DEF Reasons, ENDED_BY_REVOCATION, OPEN
      <3>3. f[r] \in Row /\ WellFormed(f[r]) /\ Shortened(f[r], r)
        <4> HIDE DEF cut
        <4> QED BY <2>1, <2>2, <3>1, <3>2, Shorten
      <3>4. f[r].to = cut(r) BY <2>2 DEF Row
      <3>5. f[r].why # ENDED_AFTER_LAST_DAY
        BY <2>2 DEF Row, ENDED_BY_REVOCATION, ENDED_AFTER_LAST_DAY
      <3> QED BY <2>1, <3>3, <3>4, <3>5 DEF EndDay, Forever
    <2>3. CASE ~(r.pass = p /\ r.to > cut(r))
      BY <2>1, <2>3, LeftAlone, RowFields DEF EndDay, Forever
    <2> QED BY <2>2, <2>3
  <1>2. f \in [rows -> Row] BY <1>1
  <1>3. {f[r] : r \in rows} = EndedByRevocation(rows, p, i) BY DEF EndedByRevocation
  <1> HIDE DEF f
  <1>4. Trimmed(rows, EndedByRevocation(rows, p, i))
    BY <1>1, <1>2, <1>3, TrimmedRowByRow
  <1>5. \A s \in EndedByRevocation(rows, p, i) :
          s.pass = p => s.to <= Greatest(DayAt[i][s.garage], s.from)
    <2> SUFFICES ASSUME NEW r \in rows, f[r].pass = p
                 PROVE  f[r].to <= Greatest(DayAt[i][f[r].garage], f[r].from)
      BY <1>3
    <2>1. f[r].pass = r.pass /\ f[r].garage = r.garage /\ f[r].from = r.from
      BY <1>1 DEF Shortened
    <2> QED BY <1>1, <2>1
  <1> QED BY <1>4, <1>5

(* The rows register_vehicle leaves of those that stood before its insert. *)
Kept(rows, p, c, f, t) ==
    { IF r \in Holders(rows, p, c, f, t) THEN GivenWay(r, f) ELSE r : r \in rows }

(* A holder that register_vehicle does not refuse gives way: it loses only *)
(* days from the new registration's first day on, and then only its own    *)
(* last day or days after its pass's valid_to.                             *)
LEMMA GivenWayGivesWay ==
    ASSUME NEW r \in Row, WellFormed(r), NEW p, NEW f \in Day, NEW t \in EndDay,
           Overlaps(r, f, t), Released(r, f) \/ TurnsOver(r, p, f)
    PROVE  LET s == GivenWay(r, f)
           IN  /\ s \in Row /\ WellFormed(s) /\ Shortened(s, r)
               /\ s.why # ENDED_AFTER_LAST_DAY
               /\ ~Overlaps(s, f, t)
               /\ \A d \in Day : Covers(r, d) /\ ~Covers(s, d) =>
                     d > ValidTo[r.pass] \/ d = LastDayOf(r)
  <1> DEFINE s == GivenWay(r, f)
  <1> ValidTo[r.pass] \in Day \cup {Forever} BY PassAssumption, RowFields
  <1>1. CASE Released(r, f)
    <2> DEFINE d == Greatest(ValidTo[r.pass] + 1, r.from)
    <2>1. /\ d \in EndDay \ {Forever} /\ r.from <= d /\ d <= r.to
          /\ d <= f \/ (d = r.from /\ d > ValidTo[r.pass])
      BY <1>1, RowFields DEF Released, ExpiredOn, Greatest, Day, EndDay, Forever
    <2>2. ENDED_BY_EXPIRY \in Reasons \ {OPEN} BY DEF Reasons, ENDED_BY_EXPIRY, OPEN
    <2>3. s = [r EXCEPT !.to = d, !.why = ENDED_BY_EXPIRY] BY <1>1 DEF GivenWay
    <2> HIDE DEF d
    <2>4. s \in Row /\ WellFormed(s) /\ Shortened(s, r)
      <3> HIDE DEF s, d
      <3> QED BY <2>1, <2>2, <2>3, Shorten
    <2>5. s.to = d /\ s.from = r.from /\ s.why # ENDED_AFTER_LAST_DAY
      BY <2>3 DEF Row, ENDED_BY_EXPIRY, ENDED_AFTER_LAST_DAY
    <2>6. ~Overlaps(s, f, t)
      BY <2>1, <2>5, RowFields DEF Overlaps, Day, EndDay, Forever
    <2>7. ASSUME NEW e \in Day, Covers(r, e), ~Covers(s, e)
          PROVE  e > ValidTo[r.pass]
      <3>1. e >= d BY <2>1, <2>5, <2>7, RowFields DEF Covers, Day, EndDay, Forever
      <3>2. d > ValidTo[r.pass]
        BY <1>1, RowFields DEF d, Greatest, Released, ExpiredOn, Day, Forever
      <3> QED BY <2>1, <3>1, <3>2, RowFields DEF Day, EndDay, Forever
    <2> QED BY <2>4, <2>5, <2>6, <2>7
  <1>2. CASE ~Released(r, f) /\ TurnsOver(r, p, f)
    <2> DEFINE d == Greatest(f, r.from)
    <2>1. d = f /\ d \in EndDay \ {Forever} /\ r.from <= d /\ d <= r.to
      BY <1>2, RowFields DEF TurnsOver, Overlaps, Greatest, Day, EndDay, Forever
    <2>2. ENDED_BY_NEXT_STAY \in Reasons \ {OPEN} BY DEF Reasons, ENDED_BY_NEXT_STAY, OPEN
    <2>3. s = [r EXCEPT !.to = d, !.why = ENDED_BY_NEXT_STAY] BY <1>2 DEF GivenWay
    <2>4. s \in Row /\ WellFormed(s) /\ Shortened(s, r)
      <3> HIDE DEF s, d
      <3> QED BY <2>1, <2>2, <2>3, Shorten
    <2>5. s.to = f /\ s.from = r.from /\ s.why # ENDED_AFTER_LAST_DAY
      BY <2>1, <2>3 DEF Row, ENDED_BY_NEXT_STAY, ENDED_AFTER_LAST_DAY
    <2>6. ~Overlaps(s, f, t)
      BY <2>5, RowFields DEF Overlaps, Day, EndDay, Forever
    <2>7. ASSUME NEW e \in Day, Covers(r, e), ~Covers(s, e)
          PROVE  e > ValidTo[r.pass] \/ e = LastDayOf(r)
      <3>1. e >= f /\ e < r.to
        BY <2>5, <2>7, RowFields DEF Covers, Day, EndDay, Forever
      <3>2. LastDayOf(r) <= f BY <1>2 DEF TurnsOver
      <3> QED BY <3>1, <3>2, RowFields DEF LastDayOf, Day, EndDay, Forever
    <2> QED BY <2>4, <2>5, <2>6, <2>7
  <1> QED BY <1>1, <1>2

(* What stands after register_vehicle is the old register trimmed, and     *)
(* none of it meets the new registration.                                  *)
LEMMA KeptTrims ==
    ASSUME NEW rows, SoundRows(rows), UniqueKeys(rows),
           NEW p, NEW c, NEW f \in Day, NEW t \in EndDay, MayRegister(rows, p, c, f, t)
    PROVE  /\ Trimmed(rows, Kept(rows, p, c, f, t))
           /\ \A s \in Kept(rows, p, c, f, t) :
                 s.garage \in GaragesOf[p] /\ s.car = c => ~Overlaps(s, f, t)
           /\ \A s \in Kept(rows, p, c, f, t), r \in rows :
                 s.reg = r.reg /\ s.garage = r.garage =>
                   \A d \in Day : Covers(r, d) /\ ~Covers(s, d) =>
                       d > ValidTo[r.pass] \/ d = LastDayOf(r)
  <1> DEFINE held == Holders(rows, p, c, f, t)
             k == [r \in rows |-> IF r \in held THEN GivenWay(r, f) ELSE r]
  <1>1. ASSUME NEW r \in rows
        PROVE  /\ k[r] \in Row /\ WellFormed(k[r]) /\ Shortened(k[r], r)
               /\ k[r].why = ENDED_AFTER_LAST_DAY => k[r] = r
               /\ r.garage \in GaragesOf[p] /\ r.car = c => ~Overlaps(k[r], f, t)
               /\ \A d \in Day : Covers(r, d) /\ ~Covers(k[r], d) =>
                     d > ValidTo[r.pass] \/ d = LastDayOf(r)
    <2> r \in Row /\ WellFormed(r) BY DEF SoundRows
    <2>1. CASE r \in held
      <3>1. Overlaps(r, f, t) /\ (Released(r, f) \/ TurnsOver(r, p, f))
        BY <2>1 DEF Holders, MayRegister
      <3> QED BY <2>1, <3>1, GivenWayGivesWay
    <2>2. CASE r \notin held BY <2>2, LeftAlone DEF Holders
    <2> QED BY <2>1, <2>2
  <1>2. k \in [rows -> Row] BY <1>1
  <1>3. {k[r] : r \in rows} = Kept(rows, p, c, f, t) BY DEF Kept
  <1> HIDE DEF k
  <1>4. Trimmed(rows, Kept(rows, p, c, f, t)) BY <1>1, <1>2, <1>3, TrimmedRowByRow
  <1>5. ASSUME NEW s \in Kept(rows, p, c, f, t), s.garage \in GaragesOf[p], s.car = c
        PROVE  ~Overlaps(s, f, t)
    <2>1. PICK r \in rows : s = k[r] BY <1>3
    <2> QED BY <1>1, <1>5, <2>1 DEF Shortened
  <1>6. ASSUME NEW s \in Kept(rows, p, c, f, t), NEW r \in rows,
               s.reg = r.reg, s.garage = r.garage
        PROVE  \A d \in Day : Covers(r, d) /\ ~Covers(s, d) =>
                   d > ValidTo[r.pass] \/ d = LastDayOf(r)
    <2>1. PICK q \in rows : s = k[q] BY <1>3
    <2>2. q = r BY <1>1, <1>6, <2>1 DEF Shortened, UniqueKeys
    <2> QED BY <1>1, <2>1, <2>2
  <1> QED BY <1>4, <1>5, <1>6

(* The rows a registration inserts, one per garage of the pass.            *)
LEMMA NewRowsAreRows ==
    ASSUME NEW n \in Nat, NEW p \in Passes, NEW c \in Cars, NEW f \in Day, NEW t \in EndDay,
           NEW w \in Reasons \ {OPEN}, t # Forever => f < t
    PROVE  /\ SoundRows(NewRows(n, p, c, f, t, w))
           /\ \A r \in NewRows(n, p, c, f, t, w) :
                 /\ r.reg = n /\ r.pass = p /\ r.car = c /\ r.from = f /\ r.to = t
                 /\ r.garage \in GaragesOf[p]
           /\ UniqueKeys(NewRows(n, p, c, f, t, w))
  <1>1. GaragesOf[p] \subseteq Garages BY PassAssumption
  <1>2. OPEN \in Reasons BY DEF Reasons
  <1>3. f <= t BY MaxDayAssumption DEF Day, EndDay, Forever
  <1>4. SoundRows(NewRows(n, p, c, f, t, w))
    BY <1>1, <1>2, <1>3 DEF NewRows, SoundRows, Row, WellFormed
  <1>5. \A r \in NewRows(n, p, c, f, t, w) :
          /\ r.reg = n /\ r.pass = p /\ r.car = c /\ r.from = f /\ r.to = t
          /\ r.garage \in GaragesOf[p]
    BY DEF NewRows
  <1>6. UniqueKeys(NewRows(n, p, c, f, t, w)) BY DEF NewRows, UniqueKeys
  <1> QED BY <1>4, <1>5, <1>6

-----------------------------------------------------------------------------
(* The inductive invariant. *)

OneCar(rows) ==
    \A r, s \in rows :
        r # s /\ r.garage = s.garage /\ r.car = s.car => ~Overlaps(r, s.from, s.to)

(* Shortening rows never makes two of them meet.                           *)
LEMMA TrimmedKeepsOneCar ==
    ASSUME NEW rows, NEW rows2, SoundRows(rows), OneCar(rows), Trimmed(rows, rows2)
    PROVE  OneCar(rows2)
  <1> SUFFICES ASSUME NEW a \in rows2, NEW b \in rows2, a # b,
                      a.garage = b.garage, a.car = b.car, Overlaps(a, b.from, b.to)
               PROVE  FALSE
    BY DEF OneCar
  <1> a \in Row /\ b \in Row BY DEF Trimmed, SoundRows
  <1>1. PICK r \in rows : Shortened(a, r) BY DEF Trimmed
  <1>2. PICK q \in rows : Shortened(b, q) BY DEF Trimmed
  <1>3. r # q BY <1>1, <1>2 DEF Trimmed, UniqueKeys, Shortened
  <1>4. r \in Row /\ q \in Row BY DEF SoundRows
  <1>5. Overlaps(r, q.from, q.to)
    BY <1>1, <1>2, <1>4, RowFields DEF Shortened, Overlaps
  <1> QED BY <1>1, <1>2, <1>3, <1>5 DEF OneCar, Shortened

(* Nor does it make a row outlast a stay: a row that still ends with its    *)
(* stay is one that was left alone.                                        *)
LEMMA TrimmedKeepsStays ==
    ASSUME NEW rows, NEW rows2, SoundRows(rows), NothingOutlastsAStay(rows), Trimmed(rows, rows2)
    PROVE  NothingOutlastsAStay(rows2)
  <1> SUFFICES ASSUME NEW r \in rows2, NEW s \in rows2,
                      r.pass = s.pass, r.car = s.car, r.from = s.from,
                      r.why = ENDED_AFTER_LAST_DAY, r.from < r.to
               PROVE  s.to <= r.to
    BY DEF NothingOutlastsAStay
  <1>1. r \in rows BY DEF Trimmed
  <1>2. PICK q \in rows : Shortened(s, q) BY DEF Trimmed
  <1>3. q.to <= r.to BY <1>1, <1>2 DEF NothingOutlastsAStay, Shortened
  <1>4. r \in Row /\ s \in Row /\ q \in Row BY <1>1, <1>2 DEF Trimmed, SoundRows
  <1> QED BY <1>2, <1>3, <1>4, RowFields DEF Shortened

(* A registration's rows end together, and the rows of its pass and car    *)
(* that begin on the same day meet none of its days: they are empty.       *)
LEMMA NewRowsKeepStays ==
    ASSUME NEW kept, NEW new, SoundRows(kept), SoundRows(new), NothingOutlastsAStay(kept),
           NEW p, NEW c, NEW f, NEW t,
           \A r \in new : /\ r.pass = p /\ r.car = c /\ r.from = f /\ r.to = t
                          /\ f < t,
           \A s \in kept : s.garage \in GaragesOf[p] /\ s.car = c => ~Overlaps(s, f, t)
    PROVE  NothingOutlastsAStay(kept \cup new)
  <1> SUFFICES ASSUME NEW r \in kept \cup new, NEW s \in kept \cup new,
                      r.pass = s.pass, r.car = s.car, r.from = s.from,
                      r.why = ENDED_AFTER_LAST_DAY, r.from < r.to
               PROVE  s.to <= r.to
    BY DEF NothingOutlastsAStay
  <1>1. r \in Row /\ s \in Row /\ WellFormed(r) /\ WellFormed(s) BY DEF SoundRows
  <1>2. ASSUME NEW a \in kept, NEW b \in new, a.pass = b.pass, a.car = b.car, a.from = b.from
        PROVE  ~(a.from < a.to) /\ a.to <= b.to
    <2>1. a \in Row /\ b \in Row /\ WellFormed(a) BY DEF SoundRows
    <2>2. ~Overlaps(a, f, t) BY <1>2, <2>1 DEF WellFormed
    <2>3. b.from = f /\ b.to = t /\ f < t BY <1>2
    <2> QED BY <1>2, <2>1, <2>2, <2>3, RowFields DEF Overlaps
  <1>3. CASE r \in kept /\ s \in kept BY <1>3 DEF NothingOutlastsAStay
  <1>4. CASE r \in new /\ s \in new BY <1>1, <1>4, RowFields
  <1>5. CASE r \in kept /\ s \in new BY <1>2, <1>5
  <1>6. CASE r \in new /\ s \in kept BY <1>2, <1>6
  <1> QED BY <1>3, <1>4, <1>5, <1>6

(* A pass's holds, once cut at a bound that depends only on the garage and *)
(* the row's first day, stay cut when rows are only shortened.             *)
LEMMA TrimmedFields ==
    ASSUME NEW rows, NEW rows2, Trimmed(rows, rows2), NEW s \in rows2
    PROVE  \E r \in rows : /\ s.reg = r.reg /\ s.garage = r.garage /\ s.pass = r.pass
                           /\ s.from = r.from /\ s.to <= r.to
BY DEF Trimmed, Shortened

(* The initial register is empty.                                          *)
LEMMA InitIInv == Init => IInv
BY DEF Init, IInv, TypeOK, UniqueKeys, Numbered, OnCreatedPasses, OneCarOnePass,
       RevokedHoldsNothing, NothingOutlastsAStay

(* What every action does to the register: it trims it, or it trims it and *)
(* adds a registration that meets nothing left standing.                   *)
LEMMA CreatePassIInv ==
    ASSUME IInv, NEW p \in Passes, NEW s \in StatesStated, CreatePass(p, s)
    PROVE  IInv'
  <1>1. TypeOK' BY StatesStatedAssumption DEF IInv, TypeOK, CreatePass
  <1>2. \A r \in regs : r.pass \in Passes /\ r.pass # p
    BY RowFields DEF IInv, TypeOK, OnCreatedPasses, CreatePass
  <1>3. UniqueKeys(regs)' /\ Numbered' /\ OneCarOnePass' /\ NothingOutlastsAStay(regs)'
    BY DEF IInv, CreatePass, UniqueKeys, Numbered, OneCarOnePass, NothingOutlastsAStay
  <1>4. OnCreatedPasses' BY <1>2 DEF IInv, TypeOK, CreatePass, OnCreatedPasses
  <1>5. RevokedHoldsNothing' BY <1>2 DEF IInv, TypeOK, CreatePass, RevokedHoldsNothing
  <1> QED BY <1>1, <1>3, <1>4, <1>5 DEF IInv

LEMMA ChangeStateIInv ==
    ASSUME IInv, NEW p \in Passes, NEW to \in States, ChangeState(p, to)
    PROVE  IInv'
  <1>1. TypeOK' BY DEF IInv, TypeOK, ChangeState
  <1>2. UniqueKeys(regs)' /\ Numbered' /\ OneCarOnePass' /\ NothingOutlastsAStay(regs)'
    BY DEF IInv, ChangeState, UniqueKeys, Numbered, OneCarOnePass, NothingOutlastsAStay
  <1>3. OnCreatedPasses'
    <2>1. to # "absent" BY DEF States
    <2> QED BY <2>1 DEF IInv, TypeOK, ChangeState, OnCreatedPasses
  <1>4. RevokedHoldsNothing' BY DEF IInv, TypeOK, ChangeState, RevokedHoldsNothing
  <1> QED BY <1>1, <1>2, <1>3, <1>4 DEF IInv

(* A writer that only trims, and touches no pass, keeps the invariant.     *)
LEMMA TrimIInv ==
    ASSUME IInv, Trimmed(regs, regs'), UNCHANGED <<passState, revokedAt, written>>
    PROVE  IInv'
  <1> SoundRows(regs) /\ OneCar(regs) BY DEF IInv, TypeOK, SoundRows, WellFormed, OneCarOnePass, OneCar
  <1>1. TypeOK' BY DEF IInv, TypeOK, Trimmed, SoundRows, WellFormed
  <1>2. UniqueKeys(regs)' BY DEF Trimmed, UniqueKeys
  <1>3. OneCarOnePass' BY TrimmedKeepsOneCar DEF OneCar, OneCarOnePass
  <1>4. Numbered' BY TrimmedFields DEF IInv, Numbered
  <1>5. OnCreatedPasses' BY TrimmedFields DEF IInv, OnCreatedPasses
  <1>6. RevokedHoldsNothing'
    <2> SUFFICES ASSUME NEW s \in regs', passState[s.pass] = "revoked"
                 PROVE  /\ revokedAt[s.pass] # NoInstant
                        /\ s.to <= Greatest(DayAt[revokedAt[s.pass]][s.garage], s.from)
      BY DEF RevokedHoldsNothing
    <2>1. PICK r \in regs : /\ s.garage = r.garage /\ s.pass = r.pass
                            /\ s.from = r.from /\ s.to <= r.to
      BY TrimmedFields
    <2>2. /\ revokedAt[r.pass] # NoInstant
          /\ r.to <= Greatest(DayAt[revokedAt[r.pass]][r.garage], r.from)
      BY <2>1 DEF IInv, RevokedHoldsNothing
    <2>3. r \in Row /\ s \in Row BY DEF IInv, TypeOK, Trimmed, SoundRows
    <2>4. DayAt[revokedAt[r.pass]][r.garage] \in Day
      BY <2>2, <2>3, RowFields, ClockAssumption DEF IInv, TypeOK
    <2> QED BY <2>1, <2>2, <2>3, <2>4, RowFields DEF Greatest, Day
  <1>7. NothingOutlastsAStay(regs)' BY TrimmedKeepsStays DEF IInv, NothingOutlastsAStay
  <1> QED BY <1>1, <1>2, <1>3, <1>4, <1>5, <1>6, <1>7 DEF IInv

LEMMA EndRegistrationIInv ==
    ASSUME IInv, NEW p \in Passes, NEW c \in Cars, NEW d \in EndDay \ {Forever},
           EndRegistration(p, c, d)
    PROVE  IInv' /\ Trimmed(regs, regs')
  <1>1. PICK r \in Latest(regs, p, c) : MayEnd(r, d) /\ regs' = Ended(regs, r, d)
    BY DEF EndRegistration
  <1>2. r \in regs BY DEF Latest
  <1>3. SoundRows(regs) /\ UniqueKeys(regs) BY DEF IInv, TypeOK, SoundRows, WellFormed
  <1>4. Trimmed(regs, regs') BY <1>1, <1>2, <1>3, EndedTrims
  <1> QED BY <1>4, TrimIInv DEF EndRegistration

LEMMA EndStayIInv ==
    ASSUME IInv, NEW p \in Passes, NEW d \in Day, EndStay(p, d)
    PROVE  IInv' /\ Trimmed(regs, regs')
  <1>1. SoundRows(regs) /\ UniqueKeys(regs) BY DEF IInv, TypeOK, SoundRows, WellFormed
  <1>2. Trimmed(regs, regs') BY <1>1, CheckedOutTrims DEF EndStay
  <1> QED BY <1>2, TrimIInv DEF EndStay

LEMMA RevokeIInv ==
    ASSUME IInv, NEW p \in Passes, NEW i \in Instants, Revoke(p, i)
    PROVE  IInv' /\ Trimmed(regs, regs')
  <1> SoundRows(regs) /\ OneCar(regs) /\ UniqueKeys(regs)
    BY DEF IInv, TypeOK, SoundRows, WellFormed, OneCarOnePass, OneCar
  <1>1. /\ Trimmed(regs, regs')
        /\ \A s \in regs' : s.pass = p => s.to <= Greatest(DayAt[i][s.garage], s.from)
    BY RevocationTrims DEF Revoke
  <1>2. TypeOK' BY <1>1 DEF IInv, TypeOK, Revoke, Trimmed, SoundRows, WellFormed, States
  <1>3. UniqueKeys(regs)' BY <1>1 DEF Trimmed, UniqueKeys
  <1>4. OneCarOnePass' BY <1>1, TrimmedKeepsOneCar DEF OneCar, OneCarOnePass
  <1>5. Numbered' BY <1>1, TrimmedFields DEF IInv, Numbered, Revoke
  <1>6. OnCreatedPasses'
    <2>1. "revoked" # "absent" OBVIOUS
    <2> QED BY <1>1, <2>1, TrimmedFields DEF IInv, TypeOK, OnCreatedPasses, Revoke
  <1>7. RevokedHoldsNothing'
    <2> SUFFICES ASSUME NEW s \in regs', passState'[s.pass] = "revoked"
                 PROVE  /\ revokedAt'[s.pass] # NoInstant
                        /\ s.to <= Greatest(DayAt[revokedAt'[s.pass]][s.garage], s.from)
      BY DEF RevokedHoldsNothing
    <2>1. PICK r \in regs : /\ s.garage = r.garage /\ s.pass = r.pass
                            /\ s.from = r.from /\ s.to <= r.to
      BY <1>1, TrimmedFields
    <2>2. r \in Row /\ s \in Row BY <1>1 DEF IInv, TypeOK, Trimmed, SoundRows
    <2>3. CASE s.pass = p
      BY <1>1, <2>3, NoInstantAssumption DEF IInv, TypeOK, Revoke
    <2>4. CASE s.pass # p
      <3>1. passState[r.pass] = "revoked" /\ revokedAt'[s.pass] = revokedAt[r.pass]
        BY <2>1, <2>2, <2>4, RowFields DEF IInv, TypeOK, Revoke
      <3>2. /\ revokedAt[r.pass] # NoInstant
            /\ r.to <= Greatest(DayAt[revokedAt[r.pass]][r.garage], r.from)
        BY <3>1 DEF IInv, RevokedHoldsNothing
      <3>3. DayAt[revokedAt[r.pass]][r.garage] \in Day
        BY <2>2, <3>2, RowFields, ClockAssumption DEF IInv, TypeOK
      <3> QED BY <2>1, <2>2, <3>1, <3>2, <3>3, RowFields DEF Greatest, Day
    <2> QED BY <2>3, <2>4
  <1>8. NothingOutlastsAStay(regs)' BY <1>1, TrimmedKeepsStays DEF IInv, NothingOutlastsAStay
  <1> QED BY <1>1, <1>2, <1>3, <1>4, <1>5, <1>6, <1>7, <1>8 DEF IInv

(* register_vehicle: what stood is trimmed, and the rows inserted meet     *)
(* none of it.                                                             *)
LEMMA RegisterVehicleSplits ==
    ASSUME IInv, NEW p \in Passes, NEW c \in Cars, NEW f \in Day, NEW t \in EndDay,
           NEW w \in {ENDED_BY_OWNER, ENDED_AFTER_LAST_DAY}, RegisterVehicle(p, c, f, t, w)
    PROVE  LET kept == Kept(regs, p, c, f, t)
               new  == NewRows(written, p, c, f, t, w)
           IN  /\ regs' = kept \cup new
               /\ Trimmed(regs, kept)
               /\ SoundRows(new) /\ UniqueKeys(new)
               /\ \A r \in new : /\ r.reg = written /\ r.pass = p /\ r.car = c
                                 /\ r.from = f /\ r.to = t /\ r.garage \in GaragesOf[p]
               /\ NothingOutlastsAStay(regs')
               /\ \A s \in kept : s.reg < written
               /\ \A s \in kept, r \in new :
                     s.garage = r.garage /\ s.car = r.car =>
                       ~Overlaps(s, r.from, r.to) /\ ~Overlaps(r, s.from, s.to)
  <1> DEFINE kept == Kept(regs, p, c, f, t)
             new  == NewRows(written, p, c, f, t, w)
  <1> SoundRows(regs) /\ UniqueKeys(regs) BY DEF IInv, TypeOK, SoundRows, WellFormed
  <1>1. regs' = kept \cup new BY DEF RegisterVehicle, Registered, Kept
  <1>2. MayRegister(regs, p, c, f, t) BY DEF RegisterVehicle
  <1>3. /\ Trimmed(regs, kept)
        /\ \A s \in kept : s.garage \in GaragesOf[p] /\ s.car = c => ~Overlaps(s, f, t)
    BY <1>2, KeptTrims
  <1>4. w \in Reasons \ {OPEN}
    BY DEF Reasons, ENDED_BY_OWNER, ENDED_AFTER_LAST_DAY, OPEN
  <1>5. t # Forever => f < t BY <1>2 DEF MayRegister
  <1>6. written \in Nat BY DEF IInv, TypeOK
  <1>7. /\ SoundRows(new) /\ UniqueKeys(new)
        /\ \A r \in new : /\ r.reg = written /\ r.pass = p /\ r.car = c
                           /\ r.from = f /\ r.to = t /\ r.garage \in GaragesOf[p]
    BY <1>4, <1>5, <1>6, NewRowsAreRows
  <1>8. \A s \in kept : s.reg < written
    BY <1>3, TrimmedFields DEF IInv, Numbered
  <1>9. ASSUME NEW s \in kept, NEW r \in new, s.garage = r.garage, s.car = r.car
        PROVE  ~Overlaps(s, r.from, r.to) /\ ~Overlaps(r, s.from, s.to)
    <2>1. ~Overlaps(s, r.from, r.to) BY <1>3, <1>7, <1>9
    <2>2. s \in Row /\ r \in Row BY <1>3, <1>7 DEF Trimmed, SoundRows
    <2> QED BY <2>1, <2>2, RowFields DEF Overlaps
  <1>10. NothingOutlastsAStay(regs')
    <2>1. f < t BY <1>5, MaxDayAssumption DEF Day, Forever
    <2>2. SoundRows(kept) /\ NothingOutlastsAStay(kept)
      BY <1>3, TrimmedKeepsStays DEF IInv, Trimmed
    <2> HIDE DEF kept, new
    <2>3. NothingOutlastsAStay(kept \cup new)
      BY <1>3, <1>7, <2>1, <2>2, NewRowsKeepStays
    <2> QED BY <1>1, <2>3
  <1> QED BY <1>1, <1>3, <1>7, <1>8, <1>9, <1>10

LEMMA RegisterVehicleIInv ==
    ASSUME IInv, NEW p \in Passes, NEW c \in Cars, NEW f \in Day, NEW t \in EndDay,
           NEW w \in {ENDED_BY_OWNER, ENDED_AFTER_LAST_DAY}, RegisterVehicle(p, c, f, t, w)
    PROVE  IInv'
  <1> DEFINE kept == Kept(regs, p, c, f, t)
             new  == NewRows(written, p, c, f, t, w)
  <1>1. /\ regs' = kept \cup new
        /\ Trimmed(regs, kept)
        /\ SoundRows(new) /\ UniqueKeys(new)
        /\ \A r \in new : /\ r.reg = written /\ r.pass = p /\ r.car = c
                           /\ r.from = f /\ r.to = t /\ r.garage \in GaragesOf[p]
        /\ NothingOutlastsAStay(regs')
        /\ \A s \in kept : s.reg < written
        /\ \A s \in kept, r \in new :
              s.garage = r.garage /\ s.car = r.car =>
                ~Overlaps(s, r.from, r.to) /\ ~Overlaps(r, s.from, s.to)
    BY RegisterVehicleSplits
  <1>2. /\ UNCHANGED <<passState, revokedAt>> /\ written' = written + 1
        /\ passState[p] \in REGISTRABLE_STATES
    BY DEF RegisterVehicle, passVars
  <1> SoundRows(regs) /\ OneCar(regs) BY DEF IInv, TypeOK, SoundRows, WellFormed, OneCarOnePass, OneCar
  <1> HIDE DEF kept, new
  <1>3. TypeOK'
    BY <1>1, <1>2 DEF IInv, TypeOK, Trimmed, SoundRows, WellFormed
  <1>4. UniqueKeys(regs)'
    <2> SUFFICES ASSUME NEW a \in kept \cup new, NEW b \in kept \cup new,
                        a.reg = b.reg, a.garage = b.garage
                 PROVE  a = b
      BY <1>1 DEF UniqueKeys
    <2>1. \A s \in kept : s.reg # written
      <3> SUFFICES ASSUME NEW s \in kept PROVE s.reg # written OBVIOUS
      <3> s \in Row /\ written \in Nat BY <1>1 DEF Trimmed, SoundRows, IInv, TypeOK
      <3> QED BY <1>1, RowFields
    <2> QED BY <1>1, <2>1 DEF Trimmed, UniqueKeys
  <1>5. Numbered'
    <2> SUFFICES ASSUME NEW s \in kept \cup new PROVE s.reg < written + 1
      BY <1>1, <1>2 DEF Numbered
    <2> s \in Row /\ written \in Nat BY <1>1 DEF Trimmed, SoundRows, IInv, TypeOK
    <2> QED BY <1>1, RowFields
  <1>6. OneCarOnePass'
    <2>1. OneCar(kept) BY <1>1, TrimmedKeepsOneCar
    <2> SUFFICES ASSUME NEW a \in kept \cup new, NEW b \in kept \cup new, a # b,
                        a.garage = b.garage, a.car = b.car
                 PROVE  ~Overlaps(a, b.from, b.to)
      BY <1>1 DEF OneCarOnePass
    <2>2. CASE a \in kept /\ b \in kept BY <2>1, <2>2 DEF OneCar
    <2>3. CASE a \in new /\ b \in new BY <1>1, <2>3 DEF UniqueKeys
    <2>4. CASE a \in kept /\ b \in new BY <1>1, <2>4
    <2>5. CASE a \in new /\ b \in kept BY <1>1, <2>5
    <2> QED BY <2>2, <2>3, <2>4, <2>5
  <1>7. OnCreatedPasses'
    <2> SUFFICES ASSUME NEW s \in kept \cup new PROVE passState[s.pass] # "absent"
      BY <1>1, <1>2 DEF OnCreatedPasses
    <2>1. CASE s \in kept BY <1>1, <2>1, TrimmedFields DEF IInv, OnCreatedPasses
    <2>2. CASE s \in new BY <1>1, <1>2, <2>2 DEF REGISTRABLE_STATES
    <2> QED BY <2>1, <2>2
  <1>8. RevokedHoldsNothing'
    <2> SUFFICES ASSUME NEW s \in kept \cup new, passState[s.pass] = "revoked"
                 PROVE  /\ revokedAt[s.pass] # NoInstant
                        /\ s.to <= Greatest(DayAt[revokedAt[s.pass]][s.garage], s.from)
      BY <1>1, <1>2 DEF RevokedHoldsNothing
    <2>1. s \in kept BY <1>1, <1>2 DEF REGISTRABLE_STATES
    <2>2. PICK r \in regs : /\ s.garage = r.garage /\ s.pass = r.pass
                            /\ s.from = r.from /\ s.to <= r.to
      BY <1>1, <2>1, TrimmedFields
    <2>3. /\ revokedAt[r.pass] # NoInstant
          /\ r.to <= Greatest(DayAt[revokedAt[r.pass]][r.garage], r.from)
      BY <2>2 DEF IInv, RevokedHoldsNothing
    <2>4. r \in Row /\ s \in Row BY <1>1, <2>1 DEF IInv, TypeOK, Trimmed, SoundRows
    <2>5. DayAt[revokedAt[r.pass]][r.garage] \in Day
      BY <2>3, <2>4, RowFields, ClockAssumption DEF IInv, TypeOK
    <2> QED BY <2>2, <2>3, <2>4, <2>5, RowFields DEF Greatest, Day
  <1>9. NothingOutlastsAStay(regs') BY <1>1
  <1> QED BY <1>3, <1>4, <1>5, <1>6, <1>7, <1>8, <1>9 DEF IInv

-----------------------------------------------------------------------------
(* Theorems *)

(* The invariant is inductive: one step per writer of the register.        *)
LEMMA NextKeepsIInv == IInv /\ [Next]_vars => IInv'
  <1> SUFFICES ASSUME IInv, [Next]_vars PROVE IInv' OBVIOUS
  <1>1. CASE UNCHANGED vars
    BY <1>1 DEF vars, IInv, TypeOK, UniqueKeys, Numbered, OnCreatedPasses,
                OneCarOnePass, RevokedHoldsNothing, NothingOutlastsAStay
  <1>2. CASE Next
    <2>1. PICK p \in Passes :
            \/ \E s \in StatesStated : CreatePass(p, s)
            \/ \E c \in Cars, f \in Day, t \in EndDay,
                  why \in {ENDED_BY_OWNER, ENDED_AFTER_LAST_DAY} :
                  RegisterVehicle(p, c, f, t, why)
            \/ \E c \in Cars, d \in EndDay \ {Forever} : EndRegistration(p, c, d)
            \/ \E d \in Day : EndStay(p, d)
            \/ \E i \in Instants : Revoke(p, i)
            \/ \E to \in States : ChangeState(p, to)
      BY <1>2 DEF Next
    <2>2. CASE \E s \in StatesStated : CreatePass(p, s) BY <2>2, CreatePassIInv
    <2>3. CASE \E c \in Cars, f \in Day, t \in EndDay,
                 why \in {ENDED_BY_OWNER, ENDED_AFTER_LAST_DAY} :
                 RegisterVehicle(p, c, f, t, why)
      BY <2>3, RegisterVehicleIInv
    <2>4. CASE \E c \in Cars, d \in EndDay \ {Forever} : EndRegistration(p, c, d)
      BY <2>4, EndRegistrationIInv
    <2>5. CASE \E d \in Day : EndStay(p, d) BY <2>5, EndStayIInv
    <2>6. CASE \E i \in Instants : Revoke(p, i) BY <2>6, RevokeIInv
    <2>7. CASE \E to \in States : ChangeState(p, to) BY <2>7, ChangeStateIInv
    <2> QED BY <2>1, <2>2, <2>3, <2>4, <2>5, <2>6, <2>7
  <1> QED BY <1>1, <1>2

(* The invariant holds whatever the writers do.                            *)
THEOREM Inductive == Spec => []IInv
  <1> QED BY InitIInv, NextKeepsIInv, PTL DEF Spec

(* Every row the register ever holds is a row its schema's checks admit.   *)
THEOREM TypeCorrect == Spec => []TypeOK
  <1>1. IInv => TypeOK BY DEF IInv
  <1> QED BY <1>1, Inductive, PTL

(* One car, one pass per garage, by register_vehicle's own refusals and    *)
(* without the EXCLUDE constraint, whatever writers ran before.            *)
THEOREM OneCarOnePassHolds == Spec => []OneCarOnePass
  <1>1. IInv => OneCarOnePass BY DEF IInv
  <1> QED BY <1>1, Inductive, PTL

(* A revoked pass holds no car from the revocation's day at each garage,   *)
(* and nothing registered afterwards puts one back.                        *)
THEOREM RevokedHoldsNothingHolds == Spec => []RevokedHoldsNothing
  <1>1. IInv => RevokedHoldsNothing BY DEF IInv
  <1> QED BY <1>1, Inductive, PTL

(* What a step does to the rows: nothing, a trim, or a registration.       *)
LEMMA StepOnRows ==
    ASSUME IInv, Next
    PROVE  \/ regs' = regs
           \/ Trimmed(regs, regs')
           \/ \E p \in Passes, c \in Cars, f \in Day, t \in EndDay,
                 why \in {ENDED_BY_OWNER, ENDED_AFTER_LAST_DAY} :
                 RegisterVehicle(p, c, f, t, why)
  <1>1. PICK p \in Passes :
          \/ \E s \in StatesStated : CreatePass(p, s)
          \/ \E c \in Cars, f \in Day, t \in EndDay,
                why \in {ENDED_BY_OWNER, ENDED_AFTER_LAST_DAY} :
                RegisterVehicle(p, c, f, t, why)
          \/ \E c \in Cars, d \in EndDay \ {Forever} : EndRegistration(p, c, d)
          \/ \E d \in Day : EndStay(p, d)
          \/ \E i \in Instants : Revoke(p, i)
          \/ \E to \in States : ChangeState(p, to)
    BY DEF Next
  <1>2. CASE \E s \in StatesStated : CreatePass(p, s) BY <1>2 DEF CreatePass
  <1>3. CASE \E c \in Cars, f \in Day, t \in EndDay,
               why \in {ENDED_BY_OWNER, ENDED_AFTER_LAST_DAY} :
               RegisterVehicle(p, c, f, t, why)
    BY <1>3
  <1>4. CASE \E c \in Cars, d \in EndDay \ {Forever} : EndRegistration(p, c, d)
    BY <1>4, EndRegistrationIInv
  <1>5. CASE \E d \in Day : EndStay(p, d) BY <1>5, EndStayIInv
  <1>6. CASE \E i \in Instants : Revoke(p, i) BY <1>6, RevokeIInv
  <1>7. CASE \E to \in States : ChangeState(p, to) BY <1>7 DEF ChangeState
  <1> QED BY <1>1, <1>2, <1>3, <1>4, <1>5, <1>6, <1>7

(* No row is removed, re-dated at its start or given a later end: each     *)
(* writer trims the register, or trims it and adds to it.                  *)
THEOREM NoHoldGrowsHolds == Spec => NoHoldGrows
  <1>1. IInv /\ [Next]_vars => [NoHoldGrowsStep]_vars
    <2> SUFFICES ASSUME IInv, Next PROVE NoHoldGrowsStep BY DEF vars
    <2>1. CASE regs' = regs
      BY <2>1, LeftAlone DEF NoHoldGrowsStep, IInv, TypeOK
    <2>2. CASE Trimmed(regs, regs')
      BY <2>2 DEF Trimmed, NoHoldGrowsStep
    <2>3. CASE \E p \in Passes, c \in Cars, f \in Day, t \in EndDay,
                 why \in {ENDED_BY_OWNER, ENDED_AFTER_LAST_DAY} :
                 RegisterVehicle(p, c, f, t, why)
      <3>1. PICK p \in Passes, c \in Cars, f \in Day, t \in EndDay :
              Kept(regs, p, c, f, t) \subseteq regs' /\ Trimmed(regs, Kept(regs, p, c, f, t))
        BY <2>3, RegisterVehicleSplits
      <3> QED BY <3>1 DEF Trimmed, NoHoldGrowsStep
    <2> QED BY <2>1, <2>2, <2>3, StepOnRows
  <1> QED BY <1>1, Inductive, PTL DEF Spec, NoHoldGrows

(* A registration on one pass costs a row of another pass only its stay's  *)
(* last day, or days its pass no longer covers.                            *)
THEOREM OnlyTheLastDayTurnsOverHolds == Spec => OnlyTheLastDayTurnsOver
  <1>1. IInv /\ [Next]_vars => [OnlyTheLastDayTurnsOverStep]_vars
    <2> SUFFICES ASSUME IInv, Next, NEW n \in regs' \ regs, NEW r \in regs, NEW s \in regs',
                        n.reg = written, s.reg = r.reg, s.garage = r.garage,
                        NEW d \in Day, Covers(r, d), ~Covers(s, d)
                 PROVE  d > ValidTo[r.pass] \/ d = LastDayOf(r)
      BY DEF OnlyTheLastDayTurnsOverStep, vars
    <2> regs \subseteq Row /\ SoundRows(regs) /\ UniqueKeys(regs) /\ written \in Nat
      BY DEF IInv, TypeOK, SoundRows, WellFormed
    <2>1. \A q \in regs : q.reg # written
      BY RowFields DEF IInv, Numbered
    <2>2. ~(regs' = regs \/ Trimmed(regs, regs'))
      BY <2>1, TrimmedFields
    <2>3. PICK p \in Passes, c \in Cars, f \in Day, t \in EndDay,
               why \in {ENDED_BY_OWNER, ENDED_AFTER_LAST_DAY} :
            RegisterVehicle(p, c, f, t, why)
      BY <2>2, StepOnRows
    <2>4. /\ regs' = Kept(regs, p, c, f, t) \cup NewRows(written, p, c, f, t, why)
          /\ \A q \in NewRows(written, p, c, f, t, why) : q.reg = written
      BY <2>3, RegisterVehicleSplits
    <2>5. s \in Kept(regs, p, c, f, t) BY <2>1, <2>4
    <2>6. MayRegister(regs, p, c, f, t) BY <2>3 DEF RegisterVehicle
    <2> QED BY <2>5, <2>6, KeptTrims
  <1> QED BY <1>1, Inductive, PTL DEF Spec, OnlyTheLastDayTurnsOver


-----------------------------------------------------------------------------
(* The refinement: the rows implement the ledger of seats. *)

(* Whether a row holds the car of a seat on its day.                       *)
Sits(r, g, c, d) ==
    r.garage = g /\ r.car = c /\ Covers(r, d) /\ ~ExpiredOn(r.pass, d)

(* HoldOn of any set of rows.                                              *)
Seat(rows, g, c, d) ==
    LET on == { r \in rows : /\ r.garage = g /\ r.car = c
                             /\ Covers(r, d) /\ ~ExpiredOn(r.pass, d) }
    IN  IF on = {} THEN NoHold ELSE LET r == CHOOSE r \in on : TRUE IN <<r.pass, r.reg>>

(* The hold on a seat is that of the one row that sits on it.              *)
LEMMA TheHoldOfASeat ==
    ASSUME NEW rows, SoundRows(rows), OneCar(rows), NEW g, NEW c, NEW d \in Day
    PROVE  /\ \A r \in rows : Sits(r, g, c, d) => Seat(rows, g, c, d) = <<r.pass, r.reg>>
           /\ (\A r \in rows : ~Sits(r, g, c, d)) => Seat(rows, g, c, d) = NoHold
           /\ Seat(rows, g, c, d) # NoHold => \E r \in rows : Sits(r, g, c, d)
  <1> DEFINE on == { r \in rows : /\ r.garage = g /\ r.car = c
                                  /\ Covers(r, d) /\ ~ExpiredOn(r.pass, d) }
  <1>1. \A r \in rows : r \in on <=> Sits(r, g, c, d) BY DEF Sits
  <1>2. ASSUME NEW r \in on, NEW q \in on PROVE r = q
    <2>1. r \in Row /\ q \in Row BY DEF SoundRows
    <2>2. Overlaps(r, q.from, q.to) BY <2>1, RowFields DEF Covers, Overlaps, Day
    <2> QED BY <2>2 DEF OneCar
  <1>3. on # {} => \A r \in on : (CHOOSE q \in on : TRUE) = r BY <1>2
  <1>4. Seat(rows, g, c, d) =
          IF on = {} THEN NoHold ELSE LET r == CHOOSE r \in on : TRUE IN <<r.pass, r.reg>>
    BY DEF Seat
  <1>5. on \subseteq rows OBVIOUS
  <1> HIDE DEF on
  <1> QED BY <1>1, <1>3, <1>4, <1>5

(* A pass that gives days back trims its own rows and no others.           *)
GivesBack(p) == Trimmed(regs, regs') /\ \A r \in regs : r.pass # p => r \in regs'

LEMMA StepOnSeats ==
    ASSUME IInv, Next
    PROVE  \/ regs' = regs
           \/ \E p \in Passes : GivesBack(p)
           \/ \E p \in Passes, c \in Cars, f \in Day, t \in EndDay,
                 why \in {ENDED_BY_OWNER, ENDED_AFTER_LAST_DAY} :
                 RegisterVehicle(p, c, f, t, why)
  <1>1. PICK p \in Passes :
          \/ \E s \in StatesStated : CreatePass(p, s)
          \/ \E c \in Cars, f \in Day, t \in EndDay,
                why \in {ENDED_BY_OWNER, ENDED_AFTER_LAST_DAY} :
                RegisterVehicle(p, c, f, t, why)
          \/ \E c \in Cars, d \in EndDay \ {Forever} : EndRegistration(p, c, d)
          \/ \E d \in Day : EndStay(p, d)
          \/ \E i \in Instants : Revoke(p, i)
          \/ \E to \in States : ChangeState(p, to)
    BY DEF Next
  <1>2. CASE \E s \in StatesStated : CreatePass(p, s) BY <1>2 DEF CreatePass
  <1>3. CASE \E c \in Cars, f \in Day, t \in EndDay,
               why \in {ENDED_BY_OWNER, ENDED_AFTER_LAST_DAY} :
               RegisterVehicle(p, c, f, t, why)
    BY <1>3
  <1>4. ASSUME NEW c \in Cars, NEW d \in EndDay \ {Forever}, EndRegistration(p, c, d)
        PROVE  GivesBack(p)
    <2>1. PICK r \in Latest(regs, p, c) : regs' = Ended(regs, r, d)
      BY <1>4 DEF EndRegistration
    <2>2. r.pass = p BY DEF Latest
    <2>3. \A s \in regs : s.pass # p => s \in regs' BY <2>1, <2>2 DEF Ended, EndsWith
    <2> QED BY <1>4, <2>3, EndRegistrationIInv DEF GivesBack
  <1>5. ASSUME NEW d \in Day, EndStay(p, d) PROVE GivesBack(p)
    <2>1. \A s \in regs : s.pass # p => s \in regs'
      BY <1>5 DEF EndStay, CheckedOut, InForceFrom
    <2> QED BY <1>5, <2>1, EndStayIInv DEF GivesBack
  <1>6. ASSUME NEW i \in Instants, Revoke(p, i) PROVE GivesBack(p)
    <2>1. \A s \in regs : s.pass # p => s \in regs' BY <1>6 DEF Revoke, EndedByRevocation
    <2> QED BY <1>6, <2>1, RevokeIInv DEF GivesBack
  <1>7. CASE \E to \in States : ChangeState(p, to) BY <1>7 DEF ChangeState
  <1> QED BY <1>1, <1>2, <1>3, <1>4, <1>5, <1>6, <1>7

(* Every number given out is one of the ledger's.                          *)
InBounds == written \in 0..MaxRegistrations

LEMMA BoundsHold == Spec => [](IInv /\ InBounds)
  <1>1. Init => InBounds BY BoundAssumption DEF Init, InBounds
  <1>2. IInv /\ InBounds /\ [Next]_vars => InBounds'
    <2> SUFFICES ASSUME IInv, InBounds, [Next]_vars PROVE InBounds' OBVIOUS
    <2>1. written' = written \/ (written < MaxRegistrations /\ written' = written + 1)
      BY DEF vars, Next, CreatePass, RegisterVehicle, EndRegistration, EndStay, Revoke, ChangeState
    <2> QED BY <2>1, BoundAssumption DEF InBounds
  <1> QED BY <1>1, <1>2, Inductive, PTL DEF Spec

Seated == [s \in Garages \X Cars \X Day |-> HoldOn(s[1], s[2], s[3])]

LEMMA SeatedIsASeat ==
    /\ \A g \in Garages, c \in Cars, d \in Day : Seated[<<g, c, d>>] = Seat(regs, g, c, d)
    /\ \A g \in Garages, c \in Cars, d \in Day : Seated'[<<g, c, d>>] = Seat(regs', g, c, d)
  <1>1. /\ \A g, c, d : HoldOn(g, c, d) = Seat(regs, g, c, d)
        /\ \A g, c, d : HoldOn(g, c, d)' = Seat(regs', g, c, d)
    BY DEF HoldOn, Seat
  <1>2. /\ \A g \in Garages, c \in Cars, d \in Day : Seated[<<g, c, d>>] = HoldOn(g, c, d)
        /\ \A g \in Garages, c \in Cars, d \in Day : Seated'[<<g, c, d>>] = HoldOn(g, c, d)'
    BY DEF Seated
  <1> QED BY <1>1, <1>2

(* The ledger's types, before and after a step.                            *)
LEMMA SeatsAreHolds ==
    ASSUME NEW rows, SoundRows(rows), OneCar(rows), NEW n \in 0..MaxRegistrations,
           \A r \in rows : r.reg < n,
           NEW g, NEW c, NEW d \in Day
    PROVE  Seat(rows, g, c, d) \in (Passes \X (0..(MaxRegistrations - 1))) \cup {NoHold}
  <1>1. CASE Seat(rows, g, c, d) # NoHold
    <2>1. PICK r \in rows : Sits(r, g, c, d) BY <1>1, TheHoldOfASeat
    <2>2. Seat(rows, g, c, d) = <<r.pass, r.reg>> BY <2>1, TheHoldOfASeat
    <2>3. r \in Row /\ r.reg < n BY DEF SoundRows
    <2>4. r.pass \in Passes /\ r.reg \in 0..(MaxRegistrations - 1)
      BY <2>3, RowFields, BoundAssumption
    <2> QED BY <2>2, <2>4
  <1> QED BY <1>1


(* Before and after a step each seat has the hold of the row on it.        *)
LEMMA SeatsOfAStep ==
    ASSUME IInv, IInv', InBounds, InBounds',
           NEW g \in Garages, NEW c \in Cars, NEW d \in Day
    PROVE  LET h == Seated[<<g, c, d>>]
               k == Seated'[<<g, c, d>>] IN
           /\ \A r \in regs : Sits(r, g, c, d) => h = <<r.pass, r.reg>>
           /\ (\A r \in regs : ~Sits(r, g, c, d)) => h = NoHold
           /\ \A r \in regs' : Sits(r, g, c, d) => k = <<r.pass, r.reg>>
           /\ (\A r \in regs' : ~Sits(r, g, c, d)) => k = NoHold
           /\ h \in (Passes \X (0..(MaxRegistrations - 1))) \cup {NoHold}
           /\ k \in (Passes \X (0..(MaxRegistrations - 1))) \cup {NoHold}
  <1>1. /\ SoundRows(regs) /\ OneCar(regs) /\ written \in 0..MaxRegistrations
        /\ \A r \in regs : r.reg < written
    BY DEF IInv, TypeOK, SoundRows, WellFormed, OneCarOnePass, OneCar, Numbered, InBounds
  <1>2. /\ SoundRows(regs') /\ OneCar(regs') /\ written' \in 0..MaxRegistrations
        /\ \A r \in regs' : r.reg < written'
    BY DEF IInv, TypeOK, SoundRows, WellFormed, OneCarOnePass, OneCar, Numbered, InBounds
  <1>3. Seated[<<g, c, d>>] = Seat(regs, g, c, d) /\ Seated'[<<g, c, d>>] = Seat(regs', g, c, d)
    BY SeatedIsASeat
  <1>4. /\ \A r \in regs : Sits(r, g, c, d) => Seat(regs, g, c, d) = <<r.pass, r.reg>>
        /\ (\A r \in regs : ~Sits(r, g, c, d)) => Seat(regs, g, c, d) = NoHold
    BY <1>1, TheHoldOfASeat
  <1>5. /\ \A r \in regs' : Sits(r, g, c, d) => Seat(regs', g, c, d) = <<r.pass, r.reg>>
        /\ (\A r \in regs' : ~Sits(r, g, c, d)) => Seat(regs', g, c, d) = NoHold
    BY <1>2, TheHoldOfASeat
  <1>6. Seat(regs, g, c, d) \in (Passes \X (0..(MaxRegistrations - 1))) \cup {NoHold}
    BY <1>1, SeatsAreHolds
  <1>7. Seat(regs', g, c, d) \in (Passes \X (0..(MaxRegistrations - 1))) \cup {NoHold}
    BY <1>2, SeatsAreHolds
  <1> QED BY <1>3, <1>4, <1>5, <1>6, <1>7

(* Trimming a pass's rows gives back seats from the end of its holds.      *)
LEMMA GivingBack ==
    ASSUME IInv, IInv', InBounds, InBounds', NEW p \in Passes, GivesBack(p)
    PROVE  Ledger!GiveBack(p)
  <1>0. SoundRows(regs) /\ UniqueKeys(regs) /\ UniqueKeys(regs') /\ SoundRows(regs')
    BY DEF IInv, TypeOK, SoundRows, WellFormed
  <1>1. \A q \in regs' : \E r \in regs : Shortened(q, r) BY DEF GivesBack, Trimmed
  <1>2. \A r \in regs : \E q \in regs' : Shortened(q, r) BY DEF GivesBack, Trimmed
  <1>3. ASSUME NEW g \in Garages, NEW c \in Cars, NEW d \in Day,
               Seated'[<<g, c, d>>] # Seated[<<g, c, d>>]
        PROVE  /\ Seated[<<g, c, d>>] # NoHold /\ Seated[<<g, c, d>>][1] = p
               /\ Seated'[<<g, c, d>>] = NoHold
               /\ \A e \in Day : e > d => Seated'[<<g, c, e>>] # Seated[<<g, c, d>>]
    <2>1. \A q \in regs' : ~Sits(q, g, c, d)
      <3> SUFFICES ASSUME NEW q \in regs', Sits(q, g, c, d) PROVE FALSE OBVIOUS
      <3>1. PICK r \in regs : Shortened(q, r) BY <1>1
      <3>2. r \in Row /\ q \in Row BY <1>0 DEF SoundRows
      <3>3. Sits(r, g, c, d) BY <3>1, <3>2, RowFields DEF Sits, Shortened, Covers, Day
      <3>4. Seated[<<g, c, d>>] = <<r.pass, r.reg>> /\ Seated'[<<g, c, d>>] = <<q.pass, q.reg>>
        BY <3>3, SeatsOfAStep
      <3> QED BY <1>3, <3>1, <3>4 DEF Shortened
    <2>2. Seated'[<<g, c, d>>] = NoHold BY <2>1, SeatsOfAStep
    <2>3. PICK r \in regs : Sits(r, g, c, d) BY <1>3, <2>2, SeatsOfAStep
    <2>4. Seated[<<g, c, d>>] = <<r.pass, r.reg>> BY <2>3, SeatsOfAStep
    <2>5. PICK q \in regs' : Shortened(q, r) BY <1>2
    <2>6. r \in Row /\ q \in Row BY <1>0 DEF SoundRows
    <2>7. r.pass = p
      <3>1. r \notin regs' BY <2>1, <2>3
      <3> QED BY <3>1 DEF GivesBack
    <2>8. q.to <= d
      BY <2>1, <2>3, <2>5, <2>6, RowFields DEF Sits, Shortened, Covers, Day
    <2>9. ASSUME NEW e \in Day, e > d, Seated'[<<g, c, e>>] = Seated[<<g, c, d>>] PROVE FALSE
      <3>1. Seated'[<<g, c, e>>] # NoHold BY <2>2, <1>3, <2>9
      <3>2. PICK s \in regs' : Sits(s, g, c, e) BY <3>1, SeatsOfAStep
      <3>3. Seated'[<<g, c, e>>] = <<s.pass, s.reg>> BY <3>2, SeatsOfAStep
      <3>4. s.reg = q.reg /\ s.garage = q.garage
        BY <2>3, <2>4, <2>5, <2>9, <3>2, <3>3 DEF Shortened, Sits
      <3>5. s = q BY <1>0, <3>4 DEF UniqueKeys
      <3> QED BY <2>6, <2>8, <2>9, <3>2, <3>5, RowFields DEF Sits, Covers, Day
    <2> QED BY <1>3, <2>2, <2>4, <2>7, <2>9
  <1>4. Seated' \in [Garages \X Cars \X Day -> (Passes \X (0..(MaxRegistrations - 1))) \cup {NoHold}]
    <2>1. \A g \in Garages, c \in Cars, d \in Day :
            Seated'[<<g, c, d>>] \in (Passes \X (0..(MaxRegistrations - 1))) \cup {NoHold}
      BY SeatsOfAStep
    <2>2. \A s \in Garages \X Cars \X Day :
            Seated'[s] \in (Passes \X (0..(MaxRegistrations - 1))) \cup {NoHold}
      BY <2>1
    <2>3. Seated' = [s \in Garages \X Cars \X Day |-> Seated'[s]] BY DEF Seated
    <2> QED BY <2>2, <2>3
  <1>5. \A s \in Garages \X Cars \X Day : Seated'[s] # Seated[s] =>
          /\ Seated[s] # NoHold /\ Seated[s][1] = p
          /\ Seated'[s] = NoHold
          /\ \A e \in Day : e > s[3] => Seated'[<<s[1], s[2], e>>] # Seated[s]
    BY <1>3
  <1> QED BY <1>4, <1>5 DEF Ledger!GiveBack, Ledger!Seats, Ledger!Holds, Seated


(* A registration takes every day of its range its pass covers, at every   *)
(* garage of the pass: seats that were free, or last days of other passes. *)
LEMMA Claiming ==
    ASSUME IInv, IInv', InBounds, InBounds',
           NEW p \in Passes, NEW c \in Cars, NEW f \in Day, NEW t \in EndDay,
           NEW w \in {ENDED_BY_OWNER, ENDED_AFTER_LAST_DAY}, RegisterVehicle(p, c, f, t, w)
    PROVE  \E h \in Ledger!Holds, D \in SUBSET Day : Ledger!Claim(h, c, D)
  <1> DEFINE D == { d \in Day : f <= d /\ d < t /\ ~ExpiredOn(p, d) }
             h == <<p, written>>
             kept == Kept(regs, p, c, f, t)
             new == NewRows(written, p, c, f, t, w)
             mine(g, e, d) == g \in GaragesOf[p] /\ e = c /\ d \in D
  <1>0. SoundRows(regs) /\ UniqueKeys(regs) /\ regs \subseteq Row
    BY DEF IInv, TypeOK, SoundRows, WellFormed
  <1>1. /\ regs' = kept \cup new /\ Trimmed(regs, kept)
        /\ \A r \in new : /\ r.reg = written /\ r.pass = p /\ r.car = c
                          /\ r.from = f /\ r.to = t /\ r.garage \in GaragesOf[p]
    BY RegisterVehicleSplits
  <1>2. MayRegister(regs, p, c, f, t) /\ written < MaxRegistrations BY DEF RegisterVehicle
  <1>3. h \in Ledger!Holds
    <2>1. written \in 0..(MaxRegistrations - 1) BY <1>2, BoundAssumption DEF InBounds
    <2> QED BY <2>1 DEF Ledger!Holds
  <1>4. ASSUME NEW r \in regs, NEW d \in D, r.garage \in GaragesOf[p], Sits(r, r.garage, c, d)
        PROVE  r \in Holders(regs, p, c, f, t) /\ ~Released(r, f) /\ TurnsOver(r, p, f)
    <2>1. r \in Row BY <1>0
    <2>2. r \in Holders(regs, p, c, f, t)
      BY <1>4, <2>1, RowFields DEF Holders, Sits, Covers, Overlaps, Day, EndDay, Forever
    <2>3. ~Released(r, f)
      <3>1. ValidTo[r.pass] \in Day \cup {Forever} BY <2>1, PassAssumption, RowFields
      <3>2. d \in Int /\ f \in Int /\ f <= d BY DEF Day
      <3>3. ~(ValidTo[r.pass] < d) BY <1>4 DEF Sits, ExpiredOn
      <3>4. ValidTo[r.pass] \in Int BY <3>1, MaxDayAssumption DEF Day, Forever
      <3>5. ~(ValidTo[r.pass] < f) BY <3>2, <3>3, <3>4
      <3> QED BY <3>5 DEF Released, ExpiredOn
    <2> QED BY <1>2, <2>2, <2>3 DEF MayRegister
  <1>5. ASSUME NEW g \in GaragesOf[p], NEW d \in D
        PROVE  \/ Seated[<<g, c, d>>] = NoHold
               \/ /\ Seated[<<g, c, d>>][1] # p
                  /\ d + 1 \in Day => Seated[<<g, c, d + 1>>] # Seated[<<g, c, d>>]
    <2> g \in Garages BY PassAssumption
    <2>1. CASE \A r \in regs : ~Sits(r, g, c, d) BY <2>1, SeatsOfAStep
    <2>2. ASSUME NEW r \in regs, Sits(r, g, c, d)
          PROVE  /\ Seated[<<g, c, d>>][1] # p
                 /\ d + 1 \in Day => Seated[<<g, c, d + 1>>] # Seated[<<g, c, d>>]
      <3>1. r \in Row /\ r.garage = g /\ TurnsOver(r, p, f) BY <1>0, <1>4, <2>2 DEF Sits
      <3>2. Seated[<<g, c, d>>] = <<r.pass, r.reg>> BY <2>2, SeatsOfAStep
      <3>3. r.pass # p /\ LastDayOf(r) <= f BY <3>1 DEF TurnsOver
      <3>4. ASSUME d + 1 \in Day, Seated[<<g, c, d + 1>>] = Seated[<<g, c, d>>] PROVE FALSE
        <4>1. Seated[<<g, c, d + 1>>] # NoHold BY <3>2, <3>4 DEF NoHold
        <4>2. PICK q \in regs : Sits(q, g, c, d + 1) BY <3>4, <4>1, SeatsOfAStep
        <4>3. Seated[<<g, c, d + 1>>] = <<q.pass, q.reg>> BY <3>4, <4>2, SeatsOfAStep
        <4>4. q = r BY <1>0, <3>1, <3>2, <3>4, <4>2, <4>3 DEF UniqueKeys, Sits
        <4>5. r.to > d + 1 /\ ~(ValidTo[r.pass] < d + 1)
          BY <3>1, <4>2, <4>4, RowFields DEF Sits, Covers, ExpiredOn, Day
        <4>6. ValidTo[r.pass] \in Day \cup {Forever} BY <3>1, PassAssumption, RowFields
        <4> QED BY <3>1, <3>3, <4>5, <4>6, RowFields DEF LastDayOf, Day, EndDay, Forever
      <3> QED BY <3>2, <3>3, <3>4
    <2> QED BY <2>1, <2>2
  <1>6. ASSUME NEW g \in Garages, NEW e \in Cars, NEW d \in Day, mine(g, e, d)
        PROVE  Seated'[<<g, e, d>>] = h
    <2>1. PICK r \in new : r.garage = g
      <3> DEFINE n == [reg |-> written, garage |-> g, pass |-> p, car |-> c, from |-> f,
                       to |-> t, why |-> IF t = Forever THEN OPEN ELSE w]
      <3>1. n \in new BY <1>6 DEF NewRows
      <3>2. n.garage = g OBVIOUS
      <3> QED BY <3>1, <3>2
    <2>2. Sits(r, g, e, d) /\ r \in regs' BY <1>1, <1>6, <2>1 DEF Sits, Covers
    <2> QED BY <1>1, <2>1, <2>2, SeatsOfAStep
  <1>7. ASSUME NEW g \in Garages, NEW e \in Cars, NEW d \in Day, ~mine(g, e, d)
        PROVE  Seated'[<<g, e, d>>] = Seated[<<g, e, d>>]
    <2>1. ASSUME NEW q \in regs', Sits(q, g, e, d) PROVE Seated'[<<g, e, d>>] = Seated[<<g, e, d>>]
      <3>1. q \notin new BY <1>1, <1>7, <2>1 DEF Sits, Covers
      <3>2. q \in kept BY <1>1, <3>1
      <3>3. PICK r \in regs : Shortened(q, r) BY <1>1, <3>2 DEF Trimmed
      <3>4. r \in Row /\ q \in Row BY <1>0, <1>1, <3>2 DEF Trimmed, SoundRows
      <3>5. Sits(r, g, e, d) BY <2>1, <3>3, <3>4, RowFields DEF Sits, Shortened, Covers, Day
      <3> QED BY <2>1, <3>3, <3>5, SeatsOfAStep DEF Shortened
    <2>2. ASSUME NEW r \in regs, Sits(r, g, e, d) PROVE \E q \in regs' : Sits(q, g, e, d)
      <3> r \in Row BY <1>0
      <3> ValidTo[r.pass] \in Day \cup {Forever} BY PassAssumption, RowFields
      <3>1. CASE r \notin Holders(regs, p, c, f, t)
        <4>1. r \in kept BY <3>1 DEF Kept
        <4> QED BY <1>1, <2>2, <4>1
      <3>2. CASE r \in Holders(regs, p, c, f, t)
        <4> DEFINE q == GivenWay(r, f)
        <4>1. q \in kept /\ q \in regs' BY <1>1, <3>2 DEF Kept
        <4>2. r.garage \in GaragesOf[p] /\ r.car = c /\ Overlaps(r, f, t)
          BY <3>2 DEF Holders
        <4>3. CASE Released(r, f)
          <5>1. q.to = Greatest(ValidTo[r.pass] + 1, r.from) /\ q.from = r.from /\ q.pass = r.pass
                /\ q.garage = r.garage /\ q.car = r.car
            BY <4>3 DEF GivenWay, Row
          <5>2. q.to >= ValidTo[r.pass] + 1
            BY <4>3, <5>1, RowFields DEF Greatest, Released, ExpiredOn, Day, Forever
          <5>3. Sits(q, g, e, d)
            BY <2>2, <4>3, <5>1, <5>2, RowFields DEF Sits, Covers, ExpiredOn, Released, Greatest, Day, Forever
          <5> QED BY <4>1, <5>3
        <4>4. CASE ~Released(r, f)
          <5>1. TurnsOver(r, p, f) BY <1>2, <3>2, <4>4 DEF MayRegister
          <5>2. q.to = f /\ q.from = r.from /\ q.pass = r.pass /\ q.garage = r.garage
                /\ q.car = r.car
            BY <4>4, <5>1, RowFields DEF GivenWay, TurnsOver, Greatest, Row
          <5>3. CASE d < f
            <6>1. Sits(q, g, e, d) BY <2>2, <5>2, <5>3 DEF Sits, Covers
            <6> QED BY <4>1, <6>1
          <5>4. CASE d >= f
            <6>1. d = f
              <7>1. r.to \in Int /\ d \in Int /\ f \in Int /\ ValidTo[r.pass] \in Int
                BY RowFields, MaxDayAssumption DEF Day, Forever
              <7>2. d < r.to /\ ~(ValidTo[r.pass] < d) BY <2>2 DEF Sits, Covers, ExpiredOn
              <7>3. d <= LastDayOf(r)
                <8>1. CASE r.to = Forever BY <7>1, <7>2, <8>1 DEF LastDayOf
                <8>2. CASE r.to # Forever BY <7>1, <7>2, <8>2 DEF LastDayOf
                <8> QED BY <8>1, <8>2
              <7>4. LastDayOf(r) <= f /\ LastDayOf(r) \in Int
                BY <5>1, <7>1 DEF TurnsOver, LastDayOf
              <7> QED BY <5>4, <7>1, <7>3, <7>4
            <6>2. f < t BY <4>2 DEF Overlaps
            <6>3. ~ExpiredOn(p, f) BY <1>2 DEF MayRegister
            <6>4. f \in D BY <6>2, <6>3 DEF Day
            <6>5. g = r.garage /\ e = c BY <2>2, <4>2 DEF Sits
            <6>6. d \in D BY <6>1, <6>4
            <6> HIDE DEF D
            <6> QED BY <1>7, <4>2, <6>5, <6>6
          <5> QED BY <5>3, <5>4 DEF Day
        <4> QED BY <4>3, <4>4
      <3> QED BY <3>1, <3>2
    <2>3. CASE \E q \in regs' : Sits(q, g, e, d) BY <2>1, <2>3
    <2>4. CASE \A q \in regs' : ~Sits(q, g, e, d)
      <3>1. \A r \in regs : ~Sits(r, g, e, d) BY <2>2, <2>4
      <3> QED BY <2>4, <3>1, SeatsOfAStep
    <2> QED BY <2>3, <2>4
  <1>8. Seated' = [s \in Garages \X Cars \X Day |->
                     IF s[1] \in GaragesOf[p] /\ s[2] = c /\ s[3] \in D THEN h ELSE Seated[s]]
    <2>1. Seated' = [s \in Garages \X Cars \X Day |-> Seated'[s]] BY DEF Seated
    <2>2. ASSUME NEW g \in Garages, NEW e \in Cars, NEW d \in Day
          PROVE  Seated'[<<g, e, d>>] = IF g \in GaragesOf[p] /\ e = c /\ d \in D
                                        THEN h ELSE Seated[<<g, e, d>>]
      BY <1>6, <1>7
    <2>3. \A s \in Garages \X Cars \X Day :
            Seated'[s] = IF s[1] \in GaragesOf[p] /\ s[2] = c /\ s[3] \in D THEN h ELSE Seated[s]
      BY <2>2
    <2> HIDE DEF D, h
    <2> QED BY <2>1, <2>3
  <1>9. D \in SUBSET Day OBVIOUS
  <1> HIDE DEF D
  <1>10. Ledger!Claim(h, c, D)
    <2>1. h[1] = p OBVIOUS
    <2> HIDE DEF h
    <2>2. \A g \in GaragesOf[p], d \in D :
            \/ Seated[<<g, c, d>>] = NoHold
            \/ Seated[<<g, c, d>>][1] # p /\ Ledger!IsLastDay(g, c, d)
      BY <1>5 DEF Ledger!IsLastDay, Seated
    <2>3. \A g \in GaragesOf[h[1]], d \in D :
            \/ Seated[<<g, c, d>>] = NoHold
            \/ Seated[<<g, c, d>>][1] # h[1] /\ Ledger!IsLastDay(g, c, d)
      BY <2>1, <2>2
    <2>4. Seated' = [s \in Garages \X Cars \X Day |->
                       IF s[1] \in GaragesOf[h[1]] /\ s[2] = c /\ s[3] \in D
                       THEN h ELSE Seated[s]]
      BY <1>8, <2>1
    <2> QED BY <2>3, <2>4 DEF Ledger!Claim, Ledger!Seats, Seated
  <1> HIDE DEF h
  <1> QED BY <1>3, <1>9, <1>10

(* The refinement: the register's writers implement the ledger of seats,   *)
(* one registration or one giving back at a time, for any passes, garages, *)
(* cars, days and clocks.                                                  *)
THEOREM RowsImplementTheLedger == Spec => ImplementsCarDays
  <1>1. Init => Ledger!CarDaysInit
    BY DEF Init, Ledger!CarDaysInit, Ledger!Seats, HoldOn
  <1>2. IInv /\ InBounds /\ IInv' /\ InBounds' /\ [Next]_vars => [Ledger!CarDaysNext]_Seated
    <2> SUFFICES ASSUME IInv, InBounds, IInv', InBounds', [Next]_vars, Seated' # Seated
                 PROVE  Ledger!CarDaysNext
      OBVIOUS
    <2>1. regs' # regs
      <3> SUFFICES ASSUME regs' = regs PROVE Seated' = Seated OBVIOUS
      <3>1. \A g, c, d : HoldOn(g, c, d)' = HoldOn(g, c, d) BY DEF HoldOn
      <3> QED BY <3>1 DEF Seated
    <2>2. Next BY <2>1 DEF vars
    <2>3. CASE \E p \in Passes : GivesBack(p) BY <2>3, GivingBack DEF Ledger!CarDaysNext
    <2>4. CASE \E p \in Passes, c \in Cars, f \in Day, t \in EndDay,
                 why \in {ENDED_BY_OWNER, ENDED_AFTER_LAST_DAY} :
                 RegisterVehicle(p, c, f, t, why)
      BY <2>4, Claiming DEF Ledger!CarDaysNext
    <2> QED BY <2>1, <2>2, <2>3, <2>4, StepOnSeats
  <1>3. [Ledger!CarDaysNext]_Seated <=>
          [Ledger!CarDaysNext]_([s \in Garages \X Cars \X Day |-> HoldOn(s[1], s[2], s[3])])
    BY DEF Seated
  <1> QED BY <1>1, <1>2, <1>3, BoundsHold, PTL DEF Spec, ImplementsCarDays, Ledger!CarDaysSpec

-----------------------------------------------------------------------------
(* The credentials on top of the register. *)

(* What register_vehicle and a run-on keep of the rows.                    *)
SoundRegister(rows, n) ==
    /\ SoundRows(rows) /\ UniqueKeys(rows) /\ OneCar(rows) /\ NothingOutlastsAStay(rows)
    /\ n \in Nat /\ \A r \in rows : r.reg < n

(* The rows of every other pass are shortened at most.                     *)
OthersOnlyShorten(rows, rows2, p) ==
    \A s \in rows2 : s.pass # p => \E r \in rows : Shortened(s, r)

(* s is the row r, with r's end or a later one.                            *)
RunsOn(s, r) ==
    /\ s.garage = r.garage /\ s.pass = r.pass /\ s.car = r.car
    /\ s.from = r.from /\ r.to <= s.to

HeldThrough(rows, p, c, x) ==
    \A g \in GaragesOf[p] :
        \E r \in rows : r.garage = g /\ r.pass = p /\ r.car = c /\ Covers(r, x)

-----------------------------------------------------------------------------
(* The two ways of filling a gap. *)

(* A registration on a pass: the rows stay sound, its own rows stay as     *)
(* they are, those of other passes are shortened, and its days are held.   *)
LEMMA RegisteringKeeps ==
    ASSUME NEW rows, NEW n, SoundRegister(rows, n),
           NEW p \in Passes, NEW c \in Cars, NEW f \in Day, NEW t \in EndDay,
           NEW w, w \in Reasons \ {OPEN} \/ t = Forever,
           MayRegister(rows, p, c, f, t)
    PROVE  LET rows2 == Registered(rows, n, p, c, f, t, w) IN
           /\ SoundRegister(rows2, n + 1)
           /\ OthersOnlyShorten(rows, rows2, p)
           /\ \A r \in rows : r.pass = p => r \in rows2
           /\ \A x \in Day : f <= x /\ x < t => HeldThrough(rows2, p, c, x)
  <1> DEFINE kept == Kept(rows, p, c, f, t)
             new  == NewRows(n, p, c, f, t, w)
             v    == IF t = Forever THEN ENDED_BY_OWNER ELSE w
             rows2 == Registered(rows, n, p, c, f, t, w)
  <1> SoundRows(rows) /\ UniqueKeys(rows) /\ OneCar(rows) /\ n \in Nat
    BY DEF SoundRegister
  <1>1. rows2 = kept \cup new BY DEF Registered, Kept
  <1>2. /\ Trimmed(rows, kept)
        /\ \A s \in kept : s.garage \in GaragesOf[p] /\ s.car = c => ~Overlaps(s, f, t)
    BY KeptTrims
  <1>3. new = NewRows(n, p, c, f, t, v) BY DEF NewRows
  <1>4. v \in Reasons \ {OPEN} /\ (t # Forever => f < t)
    BY DEF MayRegister, Reasons, ENDED_BY_OWNER, OPEN
  <1>5. /\ SoundRows(new) /\ UniqueKeys(new)
        /\ \A r \in new : /\ r.reg = n /\ r.pass = p /\ r.car = c
                           /\ r.from = f /\ r.to = t /\ r.garage \in GaragesOf[p]
    <2> HIDE DEF v, new
    <2> QED BY <1>3, <1>4, NewRowsAreRows
  <1>6. \A s \in kept : s \in Row /\ s.reg < n
    BY <1>2, TrimmedFields DEF Trimmed, SoundRows, SoundRegister
  <1>7. \A s \in new : s \in Row BY <1>5 DEF SoundRows
  <1>8. \A r \in rows : r.pass = p => r \in kept
    <2> SUFFICES ASSUME NEW r \in rows, r.pass = p PROVE r \in kept
      OBVIOUS
    <2>1. r \notin Holders(rows, p, c, f, t)
      BY DEF MayRegister, Released, TurnsOver
    <2> QED BY <2>1 DEF Kept
  <1>9. ASSUME NEW g \in GaragesOf[p] PROVE \E r \in new : r.garage = g
    <2> DEFINE e == [reg |-> n, garage |-> g, pass |-> p, car |-> c, from |-> f, to |-> t,
                     why |-> IF t = Forever THEN OPEN ELSE w]
    <2>1. e \in new BY DEF NewRows
    <2> QED BY <2>1
  <1> HIDE DEF kept, new, rows2
  <1>10. SoundRows(rows2) BY <1>1, <1>2, <1>5 DEF Trimmed, SoundRows
  <1>11. UniqueKeys(rows2)
    <2> SUFFICES ASSUME NEW a \in kept \cup new, NEW b \in kept \cup new,
                        a.reg = b.reg, a.garage = b.garage
                 PROVE  a = b
      BY <1>1 DEF UniqueKeys
    <2>1. \A s \in kept : s.reg # n BY <1>6, RowFields
    <2> QED BY <1>2, <1>5, <2>1 DEF Trimmed, UniqueKeys
  <1>12. OneCar(rows2)
    <2>1. OneCar(kept) BY <1>2, TrimmedKeepsOneCar
    <2> SUFFICES ASSUME NEW a \in kept \cup new, NEW b \in kept \cup new, a # b,
                        a.garage = b.garage, a.car = b.car
                 PROVE  ~Overlaps(a, b.from, b.to)
      BY <1>1 DEF OneCar
    <2>2. \A s \in kept, r \in new : s.garage = r.garage /\ s.car = r.car =>
            ~Overlaps(s, r.from, r.to) /\ ~Overlaps(r, s.from, s.to)
      <3> SUFFICES ASSUME NEW s \in kept, NEW r \in new, s.garage = r.garage, s.car = r.car
                   PROVE  ~Overlaps(s, r.from, r.to) /\ ~Overlaps(r, s.from, s.to)
        OBVIOUS
      <3>1. ~Overlaps(s, r.from, r.to) BY <1>2, <1>5
      <3> QED BY <1>6, <1>7, <3>1, RowFields DEF Overlaps
    <2>3. CASE a \in kept /\ b \in kept BY <2>1, <2>3 DEF OneCar
    <2>4. CASE a \in new /\ b \in new BY <1>5, <2>4 DEF UniqueKeys
    <2>5. CASE a \in kept /\ b \in new BY <2>2, <2>5
    <2>6. CASE a \in new /\ b \in kept BY <2>2, <2>6
    <2> QED BY <2>3, <2>4, <2>5, <2>6
  <1>13. \A s \in rows2 : s.reg < n + 1
    <2> SUFFICES ASSUME NEW s \in rows2 PROVE s.reg < n + 1 OBVIOUS
    <2>1. CASE s \in kept BY <1>6, <2>1, RowFields
    <2>2. CASE s \in new BY <1>5, <2>2
    <2> QED BY <1>1, <2>1, <2>2
  <1>14. OthersOnlyShorten(rows, rows2, p)
    BY <1>1, <1>2, <1>5 DEF OthersOnlyShorten, Trimmed
  <1>15. ASSUME NEW x \in Day, f <= x, x < t PROVE HeldThrough(rows2, p, c, x)
    BY <1>1, <1>5, <1>9, <1>15 DEF HeldThrough, Covers
  <1>16. NothingOutlastsAStay(rows2)
    <2>1. f < t BY <1>4, MaxDayAssumption DEF Day, Forever
    <2>2. SoundRows(kept) /\ NothingOutlastsAStay(kept)
      BY <1>2, TrimmedKeepsStays DEF SoundRegister, Trimmed
    <2> QED BY <1>1, <1>2, <1>5, <2>1, <2>2, NewRowsKeepStays
  <1>18. SoundRegister(rows2, n + 1) BY <1>10, <1>11, <1>12, <1>13, <1>16 DEF SoundRegister
  <1>17. \A r \in rows : r.pass = p => r \in rows2 BY <1>1, <1>8
  <1> QED BY <1>14, <1>15, <1>17, <1>18 DEF rows2

RanOn(rows, ending, t) == { IF r \in ending THEN [r EXCEPT !.to = t] ELSE r : r \in rows }

(* A run-on: the rows that ended on d end on t, and as nothing of the car  *)
(* stands on those days at a garage of the pass, none of them meets        *)
(* another row.                                                            *)
LEMMA RunningOnKeeps ==
    ASSUME NEW rows, NEW n, SoundRegister(rows, n),
           NEW p \in Passes, NEW c \in Cars, NEW d \in Day, NEW t \in EndDay \ {Forever}, d < t,
           NEW own, own \subseteq rows,
           \A r \in own : r.pass = p /\ r.garage \in GaragesOf[p] /\ r.car = c,
           MayRunOn(own, p, d), ~Stands(rows, p, c, d, t)
    PROVE  LET rows2 == RanOn(rows, EndingOn(own, d), t) IN
           /\ SoundRegister(rows2, n)
           /\ OthersOnlyShorten(rows, rows2, p)
           /\ \A r \in rows : \E s \in rows2 : RunsOn(s, r)
           /\ \A x \in Day : d <= x /\ x < t => HeldThrough(rows2, p, c, x)
  <1> DEFINE ending == EndingOn(own, d)
             k(r) == IF r \in ending THEN [r EXCEPT !.to = t] ELSE r
             rows2 == RanOn(rows, ending, t)
  <1> SoundRows(rows) /\ UniqueKeys(rows) /\ OneCar(rows) /\ n \in Nat
    BY DEF SoundRegister
  <1>1. rows2 = { k(r) : r \in rows } BY DEF RanOn
  <1>2. \A r \in rows : r \in Row /\ WellFormed(r) BY DEF SoundRows
  <1>3. \A r \in ending : /\ r \in rows /\ r.pass = p /\ r.garage \in GaragesOf[p] /\ r.car = c
                          /\ r.from < d /\ r.to = d /\ r.why = ENDED_AFTER_LAST_DAY
    BY DEF EndingOn, MayRunOn
  <1>4. ASSUME NEW r \in rows
        PROVE  /\ k(r) \in Row /\ WellFormed(k(r)) /\ RunsOn(k(r), r)
               /\ k(r).reg = r.reg /\ (r \in ending => k(r).to = t)
    <2> r \in Row /\ WellFormed(r) BY <1>2
    <2>1. CASE r \in ending
      <3>1. k(r) = [r EXCEPT !.to = t] BY <2>1
      <3>2. k(r) \in Row BY <3>1 DEF Row
      <3>3. /\ k(r).reg = r.reg /\ k(r).garage = r.garage /\ k(r).pass = r.pass
            /\ k(r).car = r.car /\ k(r).from = r.from /\ k(r).why = r.why /\ k(r).to = t
        BY <3>1 DEF Row
      <3>4. r.from < d /\ r.to = d /\ r.why # OPEN
        BY <1>3, <2>1 DEF ENDED_AFTER_LAST_DAY, OPEN
      <3>5. t \in Int /\ d \in Int BY MaxDayAssumption DEF Day, EndDay, Forever
      <3>6. WellFormed(k(r)) BY <3>3, <3>4, <3>5, RowFields DEF WellFormed
      <3> QED BY <3>2, <3>3, <3>4, <3>5, <3>6, RowFields DEF RunsOn
    <2>2. CASE r \notin ending BY <2>2, RowFields DEF RunsOn
    <2> QED BY <2>1, <2>2
  <1>5. ASSUME NEW r \in rows, NEW q \in rows, r # q, r.garage = q.garage, r.car = q.car
        PROVE  ~Overlaps(k(r), k(q).from, k(q).to)
    <2>1. r \in Row /\ q \in Row /\ ~Overlaps(r, q.from, q.to)
      BY <1>2, <1>5 DEF OneCar
    <2>2. t \in Int /\ d \in Int BY MaxDayAssumption DEF Day, EndDay, Forever
    <2>3. CASE r \in ending /\ q \in ending
      BY <1>3, <2>1, <2>2, <2>3, RowFields DEF Overlaps
    <2>4. ASSUME NEW a \in ending, NEW b \in rows \ ending, a.garage = b.garage, a.car = b.car,
                 ~Overlaps(a, b.from, b.to)
          PROVE  ~(b.from < b.to /\ b.from < t /\ a.from < b.to)
      <3>1. b \notin Holders(rows, p, c, d, t) BY DEF Stands
      <3>2. ~Overlaps(b, d, t) BY <1>3, <2>4, <3>1 DEF Holders
      <3>3. a \in Row /\ b \in Row /\ a.from < d /\ a.to = d BY <1>2, <1>3
      <3> QED BY <2>2, <2>4, <3>2, <3>3, RowFields DEF Overlaps
    <2>5. CASE r \in ending /\ q \notin ending
      <3>1. k(r).from = r.from /\ k(r).to = t /\ k(q) = q
        BY <1>4, <2>5 DEF RunsOn
      <3> QED BY <1>5, <2>1, <2>4, <2>5, <3>1 DEF Overlaps
    <2>6. CASE r \notin ending /\ q \in ending
      <3>1. k(q).from = q.from /\ k(q).to = t /\ k(r) = r
        BY <1>4, <2>6 DEF RunsOn
      <3>2. ~Overlaps(q, r.from, r.to) BY <2>1, RowFields DEF Overlaps
      <3>3. q.from \in Int /\ r.from \in Int /\ r.to \in Int BY <2>1, RowFields
      <3> QED BY <1>5, <2>2, <2>4, <2>6, <3>1, <3>2, <3>3 DEF Overlaps
    <2>7. CASE r \notin ending /\ q \notin ending BY <2>1, <2>7
    <2> QED BY <2>3, <2>5, <2>6, <2>7
  <1>6. \A g \in GaragesOf[p] : \E r \in ending : r.garage = g
    <2> SUFFICES ASSUME NEW g \in GaragesOf[p], { r \in ending : r.garage = g } = {}
                 PROVE  FALSE
      OBVIOUS
    <2>1. Cardinality({ r \in ending : r.garage = g }) = 1 BY DEF MayRunOn
    <2> QED BY <2>1, FS_EmptySet
  <1> HIDE DEF k, ending, rows2
  <1>7. SoundRows(rows2) BY <1>1, <1>4 DEF SoundRows
  <1>8. UniqueKeys(rows2)
    <2> SUFFICES ASSUME NEW r \in rows, NEW q \in rows,
                        k(r).reg = k(q).reg, k(r).garage = k(q).garage
                 PROVE  k(r) = k(q)
      BY <1>1 DEF UniqueKeys
    <2>1. r.reg = q.reg /\ r.garage = q.garage BY <1>4 DEF RunsOn
    <2> QED BY <2>1 DEF UniqueKeys
  <1>9. OneCar(rows2)
    <2> SUFFICES ASSUME NEW r \in rows, NEW q \in rows, k(r) # k(q),
                        k(r).garage = k(q).garage, k(r).car = k(q).car
                 PROVE  ~Overlaps(k(r), k(q).from, k(q).to)
      BY <1>1 DEF OneCar
    <2>1. r # q /\ r.garage = q.garage /\ r.car = q.car BY <1>4 DEF RunsOn
    <2> QED BY <1>5, <2>1
  <1>10. \A s \in rows2 : s.reg < n BY <1>1, <1>4 DEF SoundRegister
  <1>11. OthersOnlyShorten(rows, rows2, p)
    <2> SUFFICES ASSUME NEW r \in rows, k(r).pass # p PROVE Shortened(k(r), r)
      BY <1>1 DEF OthersOnlyShorten
    <2>1. r \notin ending BY <1>3, <1>4 DEF RunsOn
    <2> QED BY <1>2, <2>1, LeftAlone DEF k
  <1>12. \A r \in rows : \E s \in rows2 : RunsOn(s, r) BY <1>1, <1>4
  <1>13. ASSUME NEW x \in Day, d <= x, x < t PROVE HeldThrough(rows2, p, c, x)
    <2> SUFFICES ASSUME NEW g \in GaragesOf[p]
                 PROVE  \E s \in rows2 : s.garage = g /\ s.pass = p /\ s.car = c /\ Covers(s, x)
      BY DEF HeldThrough
    <2>1. PICK r \in ending : r.garage = g BY <1>6
    <2>2. r \in rows /\ r \in Row /\ r.from < d /\ k(r) \in rows2 BY <1>1, <1>2, <1>3, <2>1
    <2>3. k(r).from = r.from /\ k(r).to = t /\ k(r).garage = g /\ k(r).pass = p /\ k(r).car = c
      BY <1>3, <1>4, <2>1, <2>2 DEF RunsOn
    <2> QED BY <1>13, <2>2, <2>3, RowFields DEF Covers, Day
  (* A row of the stay that ends with it stands where one that is run on  *)
  (* stands, to the same day: it is that one.                             *)
  <1>14. ASSUME NEW r \in rows, NEW s \in ending, r.pass = s.pass, r.car = s.car,
                r.from = s.from, r.why = ENDED_AFTER_LAST_DAY, r.from < r.to
         PROVE  r \in ending
    <2>1. /\ s \in rows /\ s.pass = p /\ s.car = c /\ s.from < d /\ s.to = d
          /\ s.why = ENDED_AFTER_LAST_DAY /\ r \in Row /\ s \in Row /\ WellFormed(r)
      BY <1>2, <1>3
    <2>2. r.to = d
      <3>1. s.to <= r.to BY <1>14, <2>1 DEF SoundRegister, NothingOutlastsAStay
      <3>2. r.to <= s.to BY <1>14, <2>1 DEF SoundRegister, NothingOutlastsAStay
      <3> QED BY <2>1, <3>1, <3>2, RowFields
    <2>3. PICK y \in ending : y.garage = r.garage BY <1>6, <1>14, <2>1 DEF WellFormed
    <2>4. y \in rows /\ y \in Row /\ y.car = r.car /\ y.from < d /\ y.to = d
      BY <1>2, <1>3, <1>14, <2>1, <2>3
    <2>5. Overlaps(r, y.from, y.to) BY <1>14, <2>1, <2>2, <2>4, RowFields DEF Overlaps
    <2> QED BY <2>3, <2>4, <2>5 DEF OneCar
  <1>15. NothingOutlastsAStay(rows2)
    <2> SUFFICES ASSUME NEW r \in rows, NEW s \in rows, k(r).pass = k(s).pass,
                        k(r).car = k(s).car, k(r).from = k(s).from,
                        k(r).why = ENDED_AFTER_LAST_DAY, k(r).from < k(r).to
                 PROVE  k(s).to <= k(r).to
      BY <1>1 DEF NothingOutlastsAStay
    <2>1. r.pass = s.pass /\ r.car = s.car /\ r.from = s.from
      BY <1>4 DEF RunsOn
    <2>2. t \in Int /\ d \in Int BY MaxDayAssumption DEF Day, EndDay, Forever
    <2>3. r \in Row /\ s \in Row /\ k(r) \in Row /\ k(s) \in Row BY <1>2, <1>4
    <2>4. r.why = ENDED_AFTER_LAST_DAY BY <1>3, <2>3 DEF k
    <2>5. ASSUME NEW q \in rows, q \notin ending PROVE k(q) = q BY <2>5 DEF k
    <2>6. CASE r \in ending
      <3>1. s.to <= d /\ k(r).to = t
        BY <1>3, <1>4, <2>1, <2>6, <2>3, RowFields DEF SoundRegister, NothingOutlastsAStay
      <3>2. CASE s \in ending BY <1>4, <2>2, <3>1, <3>2
      <3>3. CASE s \notin ending BY <2>2, <2>3, <2>5, <3>1, <3>3, RowFields
      <3> QED BY <3>2, <3>3
    <2>7. CASE r \notin ending
      <3>1. k(r) = r BY <2>5, <2>7
      <3>2. s \notin ending BY <1>14, <2>1, <2>4, <2>7, <3>1
      <3> QED BY <2>1, <2>4, <2>5, <3>1, <3>2 DEF SoundRegister, NothingOutlastsAStay
    <2> QED BY <2>6, <2>7
  <1> QED BY <1>7, <1>8, <1>9, <1>10, <1>11, <1>12, <1>13, <1>15 DEF SoundRegister, rows2, ending


-----------------------------------------------------------------------------
(* The gaps of a stay. *)

(* A gap ends where the pass holds the car again, or at the stay's end.    *)
LEMMA GapEndIsTheEnd ==
    ASSUME NEW own, NEW p, NEW f \in Nat, NEW t \in Nat, NEW d \in GapStarts(own, p, f, t)
    PROVE  LET e == GapEnd(own, p, d, t) IN
           /\ e \in (d + 1)..t
           /\ e = t \/ HeldOn(own, p, e)
           /\ \A x \in (d + 1)..(e - 1) : ~HeldOn(own, p, x)
  <1> DEFINE T == { e \in (d + 1)..t : e = t \/ HeldOn(own, p, e) }
             Ends(e) == /\ e = t \/ HeldOn(own, p, e)
                        /\ \A x \in (d + 1)..(e - 1) : ~HeldOn(own, p, x)
  <1>1. d \in f..(t - 1) BY DEF GapStarts
  <1>2. t \in T /\ T \subseteq Nat BY <1>1
  <1>3. PICK e \in T : \A y \in T : e <= y BY <1>2, LeastNatural
  <1>4. ASSUME NEW x \in (d + 1)..(e - 1) PROVE ~HeldOn(own, p, x)
    <2>1. x \in (d + 1)..t /\ ~(e <= x) BY <1>1, <1>3
    <2> QED BY <1>3, <2>1
  <1>5. e \in (d + 1)..t /\ Ends(e) BY <1>3, <1>4
  <1>6. GapEnd(own, p, d, t) = CHOOSE e2 \in (d + 1)..t : Ends(e2) BY DEF GapEnd
  <1> HIDE DEF Ends
  <1>7. GapEnd(own, p, d, t) \in (d + 1)..t /\ Ends(GapEnd(own, p, d, t)) BY <1>5, <1>6
  <1> QED BY <1>7 DEF Ends

(* The next gap starts after that end.                                     *)
LEMMA GapsAreApart ==
    ASSUME NEW own, NEW p, NEW f \in Nat, NEW t \in Nat,
           NEW d \in GapStarts(own, p, f, t), NEW e \in GapStarts(own, p, f, t), d < e
    PROVE  GapEnd(own, p, d, t) < e
  <1> DEFINE stop == GapEnd(own, p, d, t)
  <1>1. /\ stop \in (d + 1)..t /\ (stop = t \/ HeldOn(own, p, stop))
        /\ \A x \in (d + 1)..(stop - 1) : ~HeldOn(own, p, x)
    BY GapEndIsTheEnd
  <1>2. /\ d \in f..(t - 1) /\ ~HeldOn(own, p, d)
        /\ e \in f..(t - 1) /\ ~HeldOn(own, p, e) /\ HeldOn(own, p, e - 1)
    BY DEF GapStarts
  <1> HIDE DEF stop
  <1>3. SUFFICES ASSUME e <= stop PROVE FALSE
    BY <1>1, <1>2 DEF stop
  <1>4. CASE e = stop BY <1>1, <1>2, <1>4
  <1>5. CASE e < stop
    <2>1. e - 1 = d \/ e - 1 \in (d + 1)..(stop - 1) BY <1>1, <1>2, <1>5
    <2> QED BY <1>1, <1>2, <2>1
  <1> QED BY <1>1, <1>2, <1>3, <1>4, <1>5

(* Every day the pass does not hold lies in a gap.                         *)
LEMMA TheGapOfADay ==
    ASSUME NEW own, NEW p, NEW f \in Nat, NEW t \in Nat, NEW x \in f..(t - 1),
           ~HeldOn(own, p, x)
    PROVE  \E d \in GapStarts(own, p, f, t) : d <= x /\ x < GapEnd(own, p, d, t)
  <1> DEFINE T == { k \in 0..(x - f) : k = x - f \/ HeldOn(own, p, x - k - 1) }
  <1>1. x - f \in T /\ T \subseteq Nat OBVIOUS
  <1>2. PICK k \in T : \A y \in T : k <= y BY <1>1, LeastNatural
  <1> DEFINE d == x - k
  <1>3. d \in f..x BY <1>2
  <1>4. ASSUME NEW y \in d..x PROVE ~HeldOn(own, p, y)
    <2>1. CASE y = x BY <2>1
    <2>2. CASE y < x
      <3>1. x - y - 1 \in 0..(x - f) /\ ~(k <= x - y - 1) BY <1>2, <1>3, <2>2
      <3>2. x - y - 1 \notin T BY <1>2, <3>1
      <3>3. x - (x - y - 1) - 1 = y BY <1>3
      <3> QED BY <3>1, <3>2, <3>3
    <2> QED BY <1>3, <2>1, <2>2
  <1>5. d = f \/ HeldOn(own, p, d - 1) BY <1>2
  <1>6. d \in GapStarts(own, p, f, t)
    <2>1. d \in d..x /\ d \in f..(t - 1) BY <1>3
    <2> QED BY <1>4, <1>5, <2>1 DEF GapStarts
  <1> HIDE DEF d
  <1>7. /\ GapEnd(own, p, d, t) \in (d + 1)..t
        /\ GapEnd(own, p, d, t) = t \/ HeldOn(own, p, GapEnd(own, p, d, t))
    BY <1>6, GapEndIsTheEnd
  <1>8. x < GapEnd(own, p, d, t)
    <2> SUFFICES ASSUME GapEnd(own, p, d, t) <= x PROVE FALSE BY <1>3, <1>7
    <2>1. GapEnd(own, p, d, t) \in d..x /\ GapEnd(own, p, d, t) # t BY <1>3, <1>7
    <2> QED BY <1>4, <1>7, <2>1
  <1> QED BY <1>3, <1>6, <1>8

-----------------------------------------------------------------------------
(* The walk. *)

(* What the walk carries past day d.                                       *)
Filled(acc, p, c, f, t, d) ==
    LET own == OwnRows(p, c, f, t)
    IN  IF d < f THEN [rows |-> regs, next |-> written, refused |-> FALSE]
        ELSE IF acc.refused \/ d \notin GapStarts(own, p, f, t) THEN acc
        ELSE FillGap(acc, own, p, c, d, GapEnd(own, p, d, t), t)

(* The recursion of HoldTheWholeStay has a solution, which it chooses: of  *)
(* the finite walks there is one to every day, and any two agree.          *)
LEMMA TheWalk ==
    ASSUME NEW p, NEW c, NEW f \in Day, NEW t \in Nat
    PROVE  \E w : /\ \A d \in Nat : w[d] = Filled(w[d - 1], p, c, f, t, d)
                  /\ HoldTheWholeStay(p, c, f, t) = w[t - 1]
  <1> DEFINE F(acc, d) == Filled(acc, p, c, f, t, d)
             Walk(n, h) == h = [d \in 0..n |-> F(h[d - 1], d)]
  <1>1. \A a, b : F(a, 0) = F(b, 0) BY DEF Filled, Day
  <1>2. \A w : (w = [d \in Nat |-> IF d < f THEN [rows |-> regs, next |-> written, refused |-> FALSE]
            ELSE LET acc == w[d - 1]
                 IN  IF acc.refused \/ d \notin GapStarts(OwnRows(p, c, f, t), p, f, t) THEN acc
                     ELSE FillGap(acc, OwnRows(p, c, f, t), p, c, d,
                                  GapEnd(OwnRows(p, c, f, t), p, d, t), t)])
               <=> w = [d \in Nat |-> F(w[d - 1], d)]
    BY DEF Filled
  <1>3. HoldTheWholeStay(p, c, f, t)
          = (CHOOSE w : w = [d \in Nat |-> F(w[d - 1], d)])[t - 1]
    BY <1>2 DEF HoldTheWholeStay, Filled
  <1> HIDE DEF F
  <1>4. \A n \in Nat : \E h : Walk(n, h)
    <2> DEFINE T == { n \in Nat : ~\E h : Walk(n, h) }
    <2> SUFFICES ASSUME T # {} PROVE FALSE OBVIOUS
    <2>1. PICK n \in T : \A y \in T : n <= y BY LeastNatural
    <2>2. CASE n = 0
      <3> DEFINE h == [d \in 0..0 |-> F(0, 0)]
      <3>1. Walk(0, h)
        <4>1. \A d \in 0..0 : d = 0 OBVIOUS
        <4>2. \A d \in 0..0 : F(h[d - 1], d) = F(0, 0) BY <1>1, <4>1
        <4> QED BY <4>2
      <3> QED BY <2>1, <2>2, <3>1
    <2>3. CASE n # 0
      <3>1. n - 1 \in Nat /\ n - 1 \notin T
        <4>1. n \in Nat /\ n - 1 \in Nat /\ ~(n <= n - 1) BY <2>3
        <4> HIDE DEF T
        <4> QED BY <2>1, <4>1
      <3>2. PICK h : Walk(n - 1, h) BY <3>1
      <3> DEFINE k == [d \in 0..n |-> IF d = n THEN F(h[n - 1], n) ELSE h[d]]
      <3>3. \A d \in 0..(n - 1) : h[d] = F(h[d - 1], d) BY <3>2
      <3>4. ASSUME NEW d \in 0..n PROVE k[d] = F(k[d - 1], d)
        <4>1. CASE d = 0
          <5>1. k[0] = h[0] /\ h[0] = F(h[0 - 1], 0) BY <2>3, <3>1, <3>3
          <5> QED BY <1>1, <4>1, <5>1
        <4>2. CASE d # 0
          <5>1. d - 1 \in 0..n /\ d - 1 # n /\ k[d - 1] = h[d - 1] BY <4>2
          <5>2. CASE d = n BY <5>1, <5>2
          <5>3. CASE d # n
            <6>1. d \in 0..(n - 1) /\ k[d] = h[d] BY <5>3
            <6> QED BY <3>3, <5>1, <6>1
          <5> QED BY <5>2, <5>3
        <4> QED BY <4>1, <4>2
      <3>5. Walk(n, k)
        <4>1. k = [d \in 0..n |-> k[d]] OBVIOUS
        <4> HIDE DEF k
        <4> QED BY <3>4, <4>1
      <3> QED BY <2>1, <3>5
    <2> QED BY <2>2, <2>3
  <1>5. ASSUME NEW n \in Nat, NEW m \in Nat, NEW h, NEW k, Walk(n, h), Walk(m, k)
        PROVE  \A d \in Nat : d <= n /\ d <= m => h[d] = k[d]
    <2> DEFINE T == { d \in Nat : d <= n /\ d <= m /\ h[d] # k[d] }
    <2> SUFFICES ASSUME T # {} PROVE FALSE OBVIOUS
    <2>1. PICK d \in T : \A y \in T : d <= y BY LeastNatural
    <2>2. h[d] = F(h[d - 1], d) /\ k[d] = F(k[d - 1], d) BY <1>5, <2>1
    <2>3. CASE d = 0 BY <1>1, <2>1, <2>2, <2>3
    <2>4. CASE d # 0
      <3>1. d - 1 \in Nat /\ d - 1 \notin T /\ d - 1 <= n /\ d - 1 <= m BY <2>1, <2>4
      <3> QED BY <2>1, <2>2, <3>1
    <2> QED BY <2>3, <2>4
  <1> DEFINE upTo == [n \in Nat |-> CHOOSE h : Walk(n, h)]
             w == [n \in Nat |-> upTo[n][n]]
  <1>6. \A n \in Nat : Walk(n, upTo[n])
    <2> HIDE DEF Walk
    <2> QED BY <1>4
  <1>7. ASSUME NEW d \in Nat PROVE w[d] = F(w[d - 1], d)
    <2>1. w[d] = upTo[d][d] /\ upTo[d][d] = F(upTo[d][d - 1], d)
      <3> HIDE DEF upTo
      <3>1. Walk(d, upTo[d]) /\ d \in 0..d BY <1>6
      <3> QED BY <3>1
    <2>2. CASE d = 0 BY <1>1, <2>1, <2>2
    <2>3. CASE d # 0
      <3>1. d - 1 \in Nat /\ d - 1 <= d BY <2>3
      <3>2. Walk(d, upTo[d]) /\ Walk(d - 1, upTo[d - 1]) BY <1>6, <3>1
      <3>3. upTo[d][d - 1] = upTo[d - 1][d - 1]
        <4> HIDE DEF upTo, Walk
        <4> QED BY <1>5, <3>1, <3>2
      <3>4. w[d - 1] = upTo[d - 1][d - 1] BY <3>1
      <3> QED BY <2>1, <3>3, <3>4
    <2> QED BY <2>2, <2>3
  <1>8. w = [d \in Nat |-> F(w[d - 1], d)]
    <2>1. w = [d \in Nat |-> w[d]] OBVIOUS
    <2> HIDE DEF w
    <2> QED BY <1>7, <2>1
  <1> HIDE DEF w
  <1> DEFINE v == CHOOSE u : u = [d \in Nat |-> F(u[d - 1], d)]
  <1>9. v = [d \in Nat |-> F(v[d - 1], d)] BY <1>8
  <1>10. \A d \in Nat : v[d] = F(v[d - 1], d)
    <2> HIDE DEF v
    <2> QED BY <1>9
  <1> QED BY <1>3, <1>10 DEF F


(* Rows that run on, and rows left alone, hold what they held.             *)
LEMMA RunningOnHolds ==
    ASSUME NEW rows, NEW rows2, SoundRows(rows), SoundRows(rows2), NEW p, NEW c, NEW x \in Int,
           \A r \in rows : r.pass = p => \E s \in rows2 : RunsOn(s, r),
           HeldThrough(rows, p, c, x)
    PROVE  HeldThrough(rows2, p, c, x)
  <1> SUFFICES ASSUME NEW g \in GaragesOf[p]
               PROVE  \E s \in rows2 : s.garage = g /\ s.pass = p /\ s.car = c /\ Covers(s, x)
    BY DEF HeldThrough
  <1>1. PICK r \in rows : r.garage = g /\ r.pass = p /\ r.car = c /\ Covers(r, x)
    BY DEF HeldThrough
  <1>2. PICK s \in rows2 : RunsOn(s, r) BY <1>1
  <1>3. r \in Row /\ s \in Row BY DEF SoundRows
  <1> QED BY <1>1, <1>2, <1>3, RowFields DEF RunsOn, Covers

(* What is true of the walk past day d: the rows are sound, other passes   *)
(* are only shortened, what the pass held it holds still, every gap that   *)
(* started is held to its end, and a stay was run on in the last gap only. *)
WalkKeeps(acc, p, c, f, t, d) ==
    LET own  == OwnRows(p, c, f, t)
        gaps == GapStarts(own, p, f, t)
    IN  /\ acc = [rows |-> acc.rows, next |-> acc.next, refused |-> acc.refused]
        /\ SoundRegister(acc.rows, acc.next)
        /\ OthersOnlyShorten(regs, acc.rows, p)
        /\ \A r \in own : \E s \in acc.rows : RunsOn(s, r)
        /\ \A e \in gaps : e <= d =>
             \A x \in e..(GapEnd(own, p, e, t) - 1) : HeldThrough(acc.rows, p, c, x)
        /\ own \subseteq acc.rows \/ \A e \in gaps : e <= d

(* The rows of other passes are shortened once or twice: shortened.        *)
LEMMA ShorteningTwice ==
    ASSUME NEW rows, NEW rows2, NEW rows3, SoundRows(rows), SoundRows(rows2), SoundRows(rows3),
           NEW p, OthersOnlyShorten(rows, rows2, p), OthersOnlyShorten(rows2, rows3, p)
    PROVE  OthersOnlyShorten(rows, rows3, p)
  <1> SUFFICES ASSUME NEW s \in rows3, s.pass # p PROVE \E r \in rows : Shortened(s, r)
    BY DEF OthersOnlyShorten
  <1>1. PICK q \in rows2 : Shortened(s, q) BY DEF OthersOnlyShorten
  <1>2. q.pass # p BY <1>1 DEF Shortened
  <1>3. PICK r \in rows : Shortened(q, r) BY <1>2 DEF OthersOnlyShorten
  <1>4. s \in Row /\ q \in Row /\ r \in Row BY DEF SoundRows
  <1> QED BY <1>1, <1>3, <1>4, RowFields DEF Shortened

LEMMA FillingKeeps ==
    ASSUME SoundRegister(regs, written), NEW p \in Passes, NEW c \in Cars,
           NEW f \in Day, NEW t \in 2..(MaxDay + 1), NEW d \in Nat, NEW acc,
           f <= d /\ ~acc.refused => WalkKeeps(acc, p, c, f, t, d - 1),
           ~Filled(acc, p, c, f, t, d).refused
    PROVE  WalkKeeps(Filled(acc, p, c, f, t, d), p, c, f, t, d)
  <1> DEFINE own  == OwnRows(p, c, f, t)
             gaps == GapStarts(own, p, f, t)
             b    == Filled(acc, p, c, f, t, d)
  <1>1. \A r \in own : r \in regs /\ r.pass = p /\ r.garage \in GaragesOf[p] /\ r.car = c
    BY DEF OwnRows
  <1>2. /\ \A r \in regs : r \in Row /\ RunsOn(r, r) /\ Shortened(r, r)
        /\ MaxDay \in Nat /\ f \in Nat /\ t \in Nat /\ t \in EndDay \ {Forever}
    BY LeftAlone, RowFields, MaxDayAssumption
    DEF SoundRegister, SoundRows, RunsOn, Day, EndDay, Forever
  <1>3. \A e \in gaps : e \in f..(t - 1) /\ e \in Nat /\ e \in Day /\ ~HeldOn(own, p, e)
    BY <1>2 DEF GapStarts, Day
  <1>4. \A e \in gaps : GapEnd(own, p, e, t) \in (e + 1)..t
    BY <1>2, GapEndIsTheEnd
  <1>5. CASE d < f
    <2>1. b = [rows |-> regs, next |-> written, refused |-> FALSE] BY <1>5 DEF Filled
    <2>2. b.rows = regs /\ b.next = written BY <2>1
    <2>3. \A e \in gaps : ~(e <= d) BY <1>2, <1>3, <1>5
    <2>4. OthersOnlyShorten(regs, regs, p) BY <1>2 DEF OthersOnlyShorten
    <2> HIDE DEF b, own, gaps
    <2>5. own \subseteq regs /\ \A r \in own : \E s \in regs : RunsOn(s, r) BY <1>1, <1>2
    <2>6. b = [rows |-> b.rows, next |-> b.next, refused |-> b.refused] BY <2>1
    <2> QED BY <2>2, <2>3, <2>4, <2>5, <2>6 DEF WalkKeeps, b, own, gaps
  <1>6. CASE f <= d /\ d \notin gaps
    <2>1. b = acc /\ ~acc.refused BY <1>2, <1>6 DEF Filled
    <2>2. WalkKeeps(acc, p, c, f, t, d - 1) BY <1>6, <2>1
    <2>3. \A e \in gaps : e <= d <=> e <= d - 1 BY <1>3, <1>6
    <2> HIDE DEF b, own, gaps
    <2> QED BY <2>1, <2>2, <2>3 DEF WalkKeeps, own, gaps, b
  <1>7. CASE f <= d /\ d \in gaps
    <2> DEFINE stop == GapEnd(own, p, d, t)
    <2>1. ~acc.refused
      <3>1. acc.refused => b = acc BY <1>2, <1>7 DEF Filled
      <3> QED BY <3>1
    <2>2. b = FillGap(acc, own, p, c, d, stop, t) BY <1>2, <1>7, <2>1 DEF Filled
    <2>3. WalkKeeps(acc, p, c, f, t, d - 1) BY <1>7, <2>1
    <2>4. /\ acc = [rows |-> acc.rows, next |-> acc.next, refused |-> acc.refused]
          /\ SoundRegister(acc.rows, acc.next)
          /\ OthersOnlyShorten(regs, acc.rows, p)
          /\ \A r \in own : \E s \in acc.rows : RunsOn(s, r)
          /\ \A e \in gaps : e <= d - 1 =>
               \A x \in e..(GapEnd(own, p, e, t) - 1) : HeldThrough(acc.rows, p, c, x)
          /\ own \subseteq acc.rows \/ \A e \in gaps : e <= d - 1
      BY <2>3 DEF WalkKeeps
    <2>5. d \in Day /\ stop \in (d + 1)..t BY <1>3, <1>4, <1>7
    <2>6. own \subseteq acc.rows BY <1>3, <1>7, <2>4
    <2>7. stop \in EndDay \ {Forever} /\ d < stop /\ stop \in Nat
      BY <1>2, <2>5 DEF Day, EndDay, Forever
    (* What either way of filling the gap does for the days held so far.   *)
    <2>8. ASSUME NEW rows2, SoundRegister(rows2, b.next), b.rows = rows2,
                 b = [rows |-> b.rows, next |-> b.next, refused |-> b.refused],
                 OthersOnlyShorten(acc.rows, rows2, p),
                 \A r \in acc.rows : r.pass = p => \E s \in rows2 : RunsOn(s, r),
                 \A x \in Day : d <= x /\ x < stop => HeldThrough(rows2, p, c, x),
                 own \subseteq rows2 \/ stop = t
          PROVE  WalkKeeps(b, p, c, f, t, d)
      <3>1. SoundRows(regs) /\ SoundRows(acc.rows) /\ SoundRows(rows2)
        BY <2>4, <2>8 DEF SoundRegister
      <3>2. OthersOnlyShorten(regs, rows2, p)
        BY <2>4, <2>8, <3>1, ShorteningTwice
      <3>3. \A r \in own : \E s \in rows2 : RunsOn(s, r) BY <1>1, <2>6, <2>8
      <3>4. ASSUME NEW e \in gaps, e <= d, NEW x \in e..(GapEnd(own, p, e, t) - 1)
            PROVE  HeldThrough(rows2, p, c, x)
        <4>1. x \in Int /\ x \in Day
          BY <1>2, <1>3, <1>4, <3>4 DEF Day
        <4>2. CASE e = d
          <5>1. d <= x /\ x < stop BY <3>4, <4>2, <2>7
          <5> QED BY <2>8, <4>1, <5>1
        <4>3. CASE e # d
          <5>1. e <= d - 1 BY <1>3, <3>4, <4>3
          <5>2. HeldThrough(acc.rows, p, c, x) BY <2>4, <3>4, <5>1
          <5> QED BY <2>8, <3>1, <4>1, <5>2, RunningOnHolds
        <4> QED BY <4>2, <4>3
      <3>5. stop = t => \A e \in gaps : e <= d
        <4> SUFFICES ASSUME stop = t, NEW e \in gaps, ~(e <= d) PROVE FALSE OBVIOUS
        <4>1. d < e BY <1>3
        <4>2. stop < e BY <1>2, <1>7, <4>1, GapsAreApart
        <4> QED BY <1>3, <1>2, <4>2
      <3> HIDE DEF b, own, gaps, stop
      <3> QED BY <2>8, <3>2, <3>3, <3>4, <3>5 DEF WalkKeeps, own, gaps
    <2>9. CASE stop = t /\ MayRunOn(own, p, d) /\ ~Stands(acc.rows, p, c, d, t)
      <3> DEFINE rows2 == RanOn(acc.rows, EndingOn(own, d), t)
      <3>1. b = [acc EXCEPT !.rows = rows2] BY <2>2, <2>9 DEF FillGap, RanOn
      <3>2. b.rows = rows2 /\ b.next = acc.next
            /\ b = [rows |-> b.rows, next |-> b.next, refused |-> b.refused]
        <4> HIDE DEF b, rows2
        <4> QED BY <2>4, <3>1
      <3>3. /\ SoundRegister(rows2, acc.next)
            /\ OthersOnlyShorten(acc.rows, rows2, p)
            /\ \A r \in acc.rows : \E s \in rows2 : RunsOn(s, r)
            /\ \A x \in Day : d <= x /\ x < t => HeldThrough(rows2, p, c, x)
        <4>1. SoundRegister(acc.rows, acc.next) /\ t \in EndDay \ {Forever} /\ d < t
          BY <1>2, <2>4, <2>7, <2>9
        <4> HIDE DEF own
        <4> QED BY <1>1, <2>5, <2>6, <2>9, <4>1, RunningOnKeeps
      <3> HIDE DEF rows2, b, own, gaps, stop
      <3>4. WalkKeeps(b, p, c, f, t, d) BY <2>8, <2>9, <3>2, <3>3
      <3> QED BY <3>4 DEF b
    <2>10. CASE /\ ~(stop = t /\ MayRunOn(own, p, d) /\ ~Stands(acc.rows, p, c, d, t))
                /\ MayRegister(acc.rows, p, c, d, stop)
      <3> DEFINE rows2 == Registered(acc.rows, acc.next, p, c, d, stop, ENDED_AFTER_LAST_DAY)
      <3>1. b = [acc EXCEPT !.rows = rows2, !.next = acc.next + 1]
        BY <2>2, <2>10 DEF FillGap
      <3>2. b.rows = rows2 /\ b.next = acc.next + 1
            /\ b = [rows |-> b.rows, next |-> b.next, refused |-> b.refused]
        <4> HIDE DEF b, rows2
        <4> QED BY <2>4, <3>1
      <3>3. /\ SoundRegister(rows2, acc.next + 1)
            /\ OthersOnlyShorten(acc.rows, rows2, p)
            /\ \A r \in acc.rows : r.pass = p => r \in rows2
            /\ \A x \in Day : d <= x /\ x < stop => HeldThrough(rows2, p, c, x)
        <4>1. ENDED_AFTER_LAST_DAY \in Reasons \ {OPEN}
          BY DEF Reasons, ENDED_AFTER_LAST_DAY, OPEN
        <4> HIDE DEF stop
        <4> QED BY <2>4, <2>5, <2>7, <2>10, <4>1, RegisteringKeeps
      <3>4. \A r \in acc.rows : RunsOn(r, r)
        BY <2>4, RowFields DEF SoundRegister, SoundRows, RunsOn
      <3> HIDE DEF rows2, b, own, gaps, stop
      <3>5. own \subseteq rows2 BY <1>1, <2>6, <3>3
      <3>6. WalkKeeps(b, p, c, f, t, d) BY <2>8, <3>2, <3>3, <3>4, <3>5
      <3> QED BY <3>6 DEF b
    <2>11. CASE /\ ~(stop = t /\ MayRunOn(own, p, d) /\ ~Stands(acc.rows, p, c, d, t))
                /\ ~MayRegister(acc.rows, p, c, d, stop)
      <3>1. b = [acc EXCEPT !.refused = TRUE] BY <2>2, <2>11 DEF FillGap
      <3>2. b.refused
        <4> HIDE DEF b
        <4> QED BY <2>4, <3>1
      <3> QED BY <3>2
    <2> QED BY <2>9, <2>10, <2>11
  <1>8. f <= d \/ d < f BY <1>2
  <1> QED BY <1>5, <1>6, <1>7, <1>8

(* A stay that was not refused is held for every one of its days, at every *)
(* garage of the pass, and costs the other passes' rows later days only.   *)
LEMMA TheWholeStayIsHeld ==
    ASSUME SoundRegister(regs, written), NEW p \in Passes, NEW c \in Cars,
           NEW f \in Day, NEW t \in 2..(MaxDay + 1), ~HoldTheWholeStay(p, c, f, t).refused
    PROVE  LET held == HoldTheWholeStay(p, c, f, t) IN
           /\ SoundRegister(held.rows, held.next)
           /\ OthersOnlyShorten(regs, held.rows, p)
           /\ \A x \in f..(t - 1) : HeldThrough(held.rows, p, c, x)
  <1> DEFINE own  == OwnRows(p, c, f, t)
             held == HoldTheWholeStay(p, c, f, t)
  <1>1. t \in Nat /\ t - 1 \in Nat /\ MaxDay \in Nat /\ f \in Nat /\ t - 1 \in Int
    BY MaxDayAssumption DEF Day
  <1>2. PICK w : /\ \A d \in Nat : w[d] = Filled(w[d - 1], p, c, f, t, d)
                 /\ held = w[t - 1]
    BY <1>1, TheWalk
  <1>3. \A d \in Nat : ~w[d].refused => WalkKeeps(w[d], p, c, f, t, d)
    <2> DEFINE T == { d \in Nat : ~w[d].refused /\ ~WalkKeeps(w[d], p, c, f, t, d) }
    <2> SUFFICES ASSUME T # {} PROVE FALSE OBVIOUS
    <2>1. PICK d \in T : \A y \in T : d <= y BY LeastNatural
    <2>2. f <= d /\ ~w[d - 1].refused => WalkKeeps(w[d - 1], p, c, f, t, d - 1)
      <3> SUFFICES ASSUME f <= d, ~w[d - 1].refused
                   PROVE  WalkKeeps(w[d - 1], p, c, f, t, d - 1)
        OBVIOUS
      <3>1. d - 1 \in Nat /\ ~(d <= d - 1) BY <2>1 DEF Day
      <3> QED BY <2>1, <3>1
    <2>3. d \in Nat /\ ~w[d].refused /\ w[d] = Filled(w[d - 1], p, c, f, t, d) BY <1>2, <2>1
    <2>4. WalkKeeps(w[d], p, c, f, t, d)
      <3>1. \A acc : (f <= d /\ ~acc.refused => WalkKeeps(acc, p, c, f, t, d - 1))
                       /\ ~Filled(acc, p, c, f, t, d).refused
                     => WalkKeeps(Filled(acc, p, c, f, t, d), p, c, f, t, d)
        BY <2>3, FillingKeeps
      <3> QED BY <2>2, <2>3, <3>1
    <2> QED BY <2>1, <2>4
  <1>4. WalkKeeps(held, p, c, f, t, t - 1) BY <1>1, <1>2, <1>3
  <1> HIDE DEF held
  <1>5. ASSUME NEW x \in f..(t - 1) PROVE HeldThrough(held.rows, p, c, x)
    <2>1. x \in Int /\ x \in Nat BY <1>1
    <2>2. CASE HeldOn(own, p, x)
      <3>1. HeldThrough(own, p, c, x)
        BY <2>2 DEF HeldThrough, HeldOn, OwnRows
      <3>2. SoundRows(own) /\ SoundRows(held.rows)
        BY <1>4 DEF WalkKeeps, SoundRegister, SoundRows, OwnRows
      <3>3. \A r \in own : \E s \in held.rows : RunsOn(s, r) BY <1>4 DEF WalkKeeps
      <3> HIDE DEF own
      <3> QED BY <2>1, <3>1, <3>2, <3>3, RunningOnHolds
    <2>3. CASE ~HeldOn(own, p, x)
      <3>1. PICK d \in GapStarts(own, p, f, t) : d <= x /\ x < GapEnd(own, p, d, t)
        BY <1>1, <2>3, TheGapOfADay
      <3>2. GapEnd(own, p, d, t) \in (d + 1)..t /\ d \in f..(t - 1)
        <4>1. d \in f..(t - 1) BY DEF GapStarts
        <4> HIDE DEF own
        <4> QED BY <1>1, <4>1, GapEndIsTheEnd
      <3>3. x \in d..(GapEnd(own, p, d, t) - 1) /\ d <= t - 1 BY <1>1, <3>1, <3>2
      <3> QED BY <1>4, <3>3 DEF WalkKeeps
    <2> QED BY <2>2, <2>3
  <1> QED BY <1>4, <1>5 DEF WalkKeeps, held


-----------------------------------------------------------------------------
(* The register under the credentials' writers. *)

LEMMA TheRegisterIsSound == IInv => SoundRegister(regs, written)
BY DEF IInv, TypeOK, SoundRegister, SoundRows, WellFormed, OneCarOnePass, OneCar, Numbered

(* A writer that adds days on one pass only, a pass that takes them before *)
(* and after, keeps the register's invariant.                              *)
LEMMA AddingDaysIInv ==
    ASSUME IInv, NEW p \in Passes, SoundRegister(regs', written'),
           OthersOnlyShorten(regs, regs', p), UNCHANGED revokedAt,
           passState[p] \in REGISTRABLE_STATES, passState' \in [Passes -> States \cup {"absent"}],
           passState'[p] \in REGISTRABLE_STATES,
           \A q \in Passes \ {p} : passState'[q] = passState[q]
    PROVE  IInv'
  <1>1. TypeOK'
    BY DEF IInv, TypeOK, SoundRegister, SoundRows, WellFormed
  <1>2. UniqueKeys(regs)' BY DEF SoundRegister, UniqueKeys
  <1>3. Numbered' /\ OneCarOnePass' /\ NothingOutlastsAStay(regs)'
    BY DEF SoundRegister, Numbered, OneCarOnePass, OneCar, NothingOutlastsAStay
  <1>4. \A s \in regs' : s \in Row /\ s.pass \in Passes
    BY RowFields DEF SoundRegister, SoundRows
  <1>5. ASSUME NEW s \in regs', s.pass # p
        PROVE  /\ passState'[s.pass] = passState[s.pass] /\ revokedAt' = revokedAt
               /\ \E r \in regs : Shortened(s, r)
    BY <1>4, <1>5 DEF OthersOnlyShorten
  <1>6. OnCreatedPasses'
    <2> SUFFICES ASSUME NEW s \in regs' PROVE passState'[s.pass] # "absent"
      BY DEF OnCreatedPasses
    <2>1. CASE s.pass = p BY <2>1 DEF REGISTRABLE_STATES
    <2>2. CASE s.pass # p
      <3>1. PICK r \in regs : Shortened(s, r) BY <1>5, <2>2
      <3> QED BY <1>5, <2>2, <3>1 DEF Shortened, IInv, OnCreatedPasses
    <2> QED BY <2>1, <2>2
  <1>7. RevokedHoldsNothing'
    <2> SUFFICES ASSUME NEW s \in regs', passState'[s.pass] = "revoked"
                 PROVE  /\ revokedAt'[s.pass] # NoInstant
                        /\ s.to <= Greatest(DayAt[revokedAt'[s.pass]][s.garage], s.from)
      BY DEF RevokedHoldsNothing
    <2>1. s.pass # p BY DEF REGISTRABLE_STATES
    <2>2. PICK r \in regs : Shortened(s, r) BY <1>5, <2>1
    <2>3. /\ s.garage = r.garage /\ s.pass = r.pass /\ s.from = r.from /\ s.to <= r.to
          /\ passState[r.pass] = "revoked" /\ revokedAt'[s.pass] = revokedAt[r.pass]
      BY <1>5, <2>1, <2>2 DEF Shortened
    <2>4. /\ revokedAt[r.pass] # NoInstant
          /\ r.to <= Greatest(DayAt[revokedAt[r.pass]][r.garage], r.from)
      BY <2>3 DEF IInv, RevokedHoldsNothing
    <2>5. r \in Row /\ s \in Row BY <1>4 DEF IInv, TypeOK
    <2>6. DayAt[revokedAt[r.pass]][r.garage] \in Day
      BY <2>4, <2>5, RowFields, ClockAssumption DEF IInv, TypeOK
    <2> QED BY <2>3, <2>4, <2>5, <2>6, RowFields DEF Greatest, Day
  <1> QED BY <1>1, <1>2, <1>3, <1>6, <1>7 DEF IInv

LEMMA StayEndIsADay ==
    ASSUME NEW p \in Passes, NEW last \in Day
    PROVE  StayEnd(p, last) \in 2..(MaxDay + 1)
  <1>1. ValidTo[p] \in Day \cup {Forever} BY PassAssumption
  <1> QED BY <1>1, MaxDayAssumption DEF StayEnd, Day, Forever

(* Issuing a QR for a plate: the register's invariant, and the whole stay. *)
LEMMA MintingIInv ==
    ASSUME IInv, NEW id, NEW p \in Passes, NEW c \in Cars, NEW f \in Day, NEW last \in Day,
           MintForPlate(id, p, c, f, last), UNCHANGED passVars
    PROVE  /\ IInv'
           /\ \A x \in f..(StayEnd(p, last) - 1) : HeldThrough(regs', p, c, x)
  <1> DEFINE held == HoldTheWholeStay(p, c, f, StayEnd(p, last))
  <1>1. ~held.refused /\ regs' = held.rows /\ written' = held.next
    BY DEF MintForPlate
  <1>2. /\ SoundRegister(held.rows, held.next)
        /\ OthersOnlyShorten(regs, held.rows, p)
        /\ \A x \in f..(StayEnd(p, last) - 1) : HeldThrough(held.rows, p, c, x)
    BY <1>1, StayEndIsADay, TheRegisterIsSound, TheWholeStayIsHeld
  <1>3. passState[p] \in REGISTRABLE_STATES /\ UNCHANGED <<passState, revokedAt>>
    BY DEF MintForPlate, Issuable, passVars
  <1> HIDE DEF held
  <1>4. passState' \in [Passes -> States \cup {"absent"}] BY <1>3 DEF IInv, TypeOK
  <1>5. IInv' BY <1>1, <1>2, <1>3, <1>4, AddingDaysIInv
  <1> QED BY <1>1, <1>2, <1>5

(* A first car moves its pass to active, another one nothing.              *)
LEMMA ActivatedMoves ==
    ASSUME NEW p \in Passes, passState \in [Passes -> States \cup {"absent"}]
    PROVE  /\ Activated(p) \in [Passes -> States \cup {"absent"}]
           /\ \A q \in Passes \ {p} : Activated(p)[q] = passState[q]
           /\ passState[p] \in REGISTRABLE_STATES => Activated(p)[p] \in REGISTRABLE_STATES
           /\ Activated(p)[p] = passState[p] \/ (/\ Activated(p)[p] = "active"
                                                 /\ passState[p] \in {"draft", "awaiting_enrolment"})
  <1>1. "active" \in States /\ "active" \in REGISTRABLE_STATES BY DEF States, REGISTRABLE_STATES
  <1>2. CASE passState[p] \in {"draft", "awaiting_enrolment"}
    <2>1. Activated(p) = [passState EXCEPT ![p] = "active"] BY <1>2 DEF Activated
    <2> QED BY <1>1, <1>2, <2>1
  <1>3. CASE passState[p] \notin {"draft", "awaiting_enrolment"}
    <2>1. Activated(p) = passState BY <1>3 DEF Activated
    <2> QED BY <2>1
  <1> QED BY <1>2, <1>3

LEMMA BindingIInv ==
    ASSUME IInv, NEW q, q.pass \in Passes, NEW g \in Garages, NEW i \in Instants, NEW c \in Cars,
           BindOnFirstUse(q, g, i, c)
    PROVE  IInv'
  <1> DEFINE d == DayAt[i][g]
             p == q.pass
  <1>1. /\ d \in Day /\ Forever \in EndDay
    BY ClockAssumption DEF EndDay
  <1>2. /\ passState[p] \in REGISTRABLE_STATES /\ MayRegister(regs, p, c, d, Forever)
        /\ regs' = Registered(regs, written, p, c, d, Forever, OPEN)
        /\ written' = written + 1 /\ passState' = Activated(p) /\ UNCHANGED revokedAt
    BY DEF BindOnFirstUse, Issuable
  <1>3. passState \in [Passes -> States \cup {"absent"}] BY DEF IInv, TypeOK
  <1>4. SoundRegister(regs, written) BY TheRegisterIsSound
  <1> HIDE DEF d, p
  <1>5. p \in Passes BY DEF p
  <1>6. SoundRegister(regs', written') /\ OthersOnlyShorten(regs, regs', p)
    BY <1>1, <1>2, <1>4, <1>5, RegisteringKeeps
  <1> QED BY <1>2, <1>3, <1>5, <1>6, ActivatedMoves, AddingDaysIInv

LEMMA UsingIInv ==
    ASSUME IInv, NEW q, q.pass \in Passes, NEW g, NEW i, NEW dir, UseBoundCode(q, g, i, dir)
    PROVE  IInv'
  <1> DEFINE p == q.pass
  <1>1. passState' = Activated(p) /\ UNCHANGED <<revokedAt, regs, written>>
    BY DEF UseBoundCode
  <1>2. passState \in [Passes -> States \cup {"absent"}] BY DEF IInv, TypeOK
  <1> HIDE DEF p
  <1>3. p \in Passes BY DEF p
  <1>4. \A s \in Passes : \/ passState'[s] = passState[s]
                          \/ passState'[s] = "active" /\ passState[s] # "revoked"
    BY <1>1, <1>2, <1>3, ActivatedMoves
  <1>5. \A r \in regs : r.pass \in Passes BY RowFields DEF IInv, TypeOK
  <1>6. TypeOK' BY <1>1, <1>2, <1>3, ActivatedMoves DEF IInv, TypeOK
  <1>7. UniqueKeys(regs)' /\ Numbered' /\ OneCarOnePass' /\ NothingOutlastsAStay(regs)'
    BY <1>1 DEF IInv, UniqueKeys, Numbered, OneCarOnePass, NothingOutlastsAStay
  <1>8. OnCreatedPasses' BY <1>1, <1>4, <1>5 DEF IInv, OnCreatedPasses
  <1>9. RevokedHoldsNothing' BY <1>1, <1>4, <1>5 DEF IInv, RevokedHoldsNothing
  <1> QED BY <1>6, <1>7, <1>8, <1>9 DEF IInv


-----------------------------------------------------------------------------
(* The QRs. *)

SoundCode(q) ==
    q \in Code /\ (q.state = "redeemed" \/ q.exitOnly => q.plate # NoCar \/ q.car # NoCar)

SoundCodes(cs) ==
    (\A q \in cs : SoundCode(q)) /\ (\A q, u \in cs : q.id = u.id => q = u)

(* v is the QR u later on: of the same stay and the same car, once it has  *)
(* one; never marked exit only and then unmarked; cancelled, or redeemed   *)
(* when it binds its car, and otherwise in the state it was in.            *)
Follows(v, u) ==
    /\ v.id = u.id /\ v.pass = u.pass /\ v.by = u.by /\ v.starts = u.starts /\ v.last = u.last
    /\ Bound(u) # NoCar => Bound(v) = Bound(u)
    /\ u.exitOnly => v.exitOnly
    /\ v.state = u.state \/ v.state = "cancelled" \/ Bound(u) = NoCar

NextCodes(cs, cs2) ==
    /\ SoundCodes(cs2)
    /\ \A u \in cs : \E v \in cs2 : Follows(v, u)
    /\ \A v \in cs2 : (\E u \in cs : Follows(v, u)) \/ (\A u \in cs : u.id # v.id)

LEMMA CodeFields ==
    ASSUME NEW q \in Code
    PROVE  /\ q.id \in CodeIds /\ q.pass \in Passes /\ q.starts \in Day /\ q.last \in Day
           /\ q.by \in LinkIds \cup {Desk} /\ q.plate \in Cars \cup {NoCar}
           /\ q.car \in Cars \cup {NoCar} /\ q.state \in {"issued", "redeemed", "cancelled"}
           /\ q.exitOnly \in BOOLEAN
BY DEF Code

LEMMA FollowsItself ==
    ASSUME NEW q PROVE Follows(q, q)
BY DEF Follows

(* One QR is written, and perhaps another one issued.                      *)
LEMMA OneCodeMoves ==
    ASSUME NEW cs, SoundCodes(cs), NEW q \in cs, NEW v, SoundCode(v), Follows(v, q)
    PROVE  /\ NextCodes(cs, (cs \ {q}) \cup {v})
           /\ \A n : SoundCode(n) /\ (\A u \in cs : u.id # n.id) =>
                NextCodes(cs, (cs \ {q}) \cup {v, n})
  <1>1. v.id = q.id BY DEF Follows
  <1>2. \A u \in cs : u.id = q.id => u = q BY DEF SoundCodes
  <1>3. SoundCodes((cs \ {q}) \cup {v}) BY <1>1, <1>2 DEF SoundCodes
  <1>4. \A u \in cs : u = q \/ u \in (cs \ {q}) \cup {v} OBVIOUS
  <1>5. NextCodes(cs, (cs \ {q}) \cup {v})
    BY <1>3, <1>4, FollowsItself DEF NextCodes
  <1>6. ASSUME NEW n, SoundCode(n), \A u \in cs : u.id # n.id
        PROVE  NextCodes(cs, (cs \ {q}) \cup {v, n})
    <2>1. SoundCodes((cs \ {q}) \cup {v, n})
      BY <1>1, <1>2, <1>6 DEF SoundCodes
    <2> QED BY <1>4, <1>6, <2>1, FollowsItself DEF NextCodes
  <1> QED BY <1>5, <1>6

LEMMA OneCodeIsIssued ==
    ASSUME NEW cs, SoundCodes(cs), NEW n, SoundCode(n), \A u \in cs : u.id # n.id
    PROVE  NextCodes(cs, cs \cup {n})
  <1>1. SoundCodes(cs \cup {n}) BY DEF SoundCodes
  <1> QED BY <1>1, FollowsItself DEF NextCodes

LEMMA NewCodesAreSound ==
    ASSUME NEW id \in CodeIds, NEW p \in Passes, NEW c \in Cars \cup {NoCar}, NEW f \in Day,
           NEW last \in Day, NEW by \in LinkIds \cup {Desk}
    PROVE  /\ SoundCode(NewCode(id, p, c, f, last, by))
           /\ NewCode(id, p, c, f, last, by).id = id
           /\ NewCode(id, p, c, f, last, by).pass = p
           /\ NewCode(id, p, c, f, last, by).by = by
           /\ NewCode(id, p, c, f, last, by).plate = c
           /\ NewCode(id, p, c, f, last, by).starts = f
           /\ NewCode(id, p, c, f, last, by).last = last
BY DEF NewCode, SoundCode, Code

(* A cancellation and a replacement keep the QR's car.                     *)
LEMMA CancellingFollows ==
    ASSUME NEW q, SoundCode(q)
    PROVE  LET v == [q EXCEPT !.state = "cancelled"] IN SoundCode(v) /\ Follows(v, q)
  <1> DEFINE v == [q EXCEPT !.state = "cancelled"]
  <1>1. v \in Code BY DEF SoundCode, Code
  <1>2. /\ v.starts = q.starts /\ v.last = q.last
        /\ v.id = q.id /\ v.pass = q.pass /\ v.by = q.by /\ v.plate = q.plate /\ v.car = q.car
        /\ v.exitOnly = q.exitOnly /\ v.state = "cancelled"
    BY DEF SoundCode, Code
  <1>3. Bound(v) = Bound(q) BY <1>2 DEF Bound
  <1> HIDE DEF v
  <1>4. SoundCode(v) BY <1>1, <1>2 DEF SoundCode
  <1>5. Follows(v, q) BY <1>2, <1>3 DEF Follows
  <1> QED BY <1>4, <1>5 DEF v

LEMMA ReplacingFollows ==
    ASSUME NEW q, SoundCode(q)
    PROVE  SoundCode(Replaced(q)) /\ Follows(Replaced(q), q)
  <1> DEFINE v == [q EXCEPT !.exitOnly = TRUE]
  <1>1. CASE Bound(q) = NoCar BY <1>1, CancellingFollows DEF Replaced
  <1>2. CASE Bound(q) # NoCar
    <2>1. v \in Code BY DEF SoundCode, Code
    <2>2. /\ v.starts = q.starts /\ v.last = q.last
          /\ v.id = q.id /\ v.pass = q.pass /\ v.by = q.by /\ v.plate = q.plate /\ v.car = q.car
          /\ v.exitOnly = TRUE /\ v.state = q.state
      BY DEF SoundCode, Code
    <2>3. Bound(v) = Bound(q) BY <2>2 DEF Bound
    <2>4. Replaced(q) = v BY <1>2 DEF Replaced
    <2> HIDE DEF v
    <2>5. SoundCode(v) BY <1>2, <2>1, <2>2 DEF SoundCode, Bound
    <2>6. Follows(v, q) BY <2>2, <2>3 DEF Follows
    <2> QED BY <2>4, <2>5, <2>6
  <1> QED BY <1>1, <1>2

(* The lane binds a QR to the car it let in.                               *)
LEMMA BindingFollows ==
    ASSUME NEW q, SoundCode(q), Bound(q) = NoCar, NEW c \in Cars
    PROVE  LET v == [q EXCEPT !.state = "redeemed", !.car = c] IN SoundCode(v) /\ Follows(v, q)
  <1> DEFINE w == [q EXCEPT !.state = "redeemed"]
             v == [w EXCEPT !.car = c]
  <1>1. w \in Code BY DEF SoundCode, Code
  <1>2. /\ w.starts = q.starts /\ w.last = q.last
        /\ w.id = q.id /\ w.pass = q.pass /\ w.by = q.by /\ w.plate = q.plate
        /\ w.exitOnly = q.exitOnly /\ w.state = "redeemed"
    BY DEF SoundCode, Code
  <1>3. v = [q EXCEPT !.state = "redeemed", !.car = c] BY DEF SoundCode, Code
  <1> HIDE DEF w
  <1>4. v \in Code BY <1>1 DEF Code
  <1>5. /\ v.starts = q.starts /\ v.last = q.last
        /\ v.id = q.id /\ v.pass = q.pass /\ v.by = q.by /\ v.car = c
        /\ v.exitOnly = q.exitOnly /\ v.state = "redeemed"
    BY <1>1, <1>2 DEF Code
  <1> HIDE DEF v
  <1>6. SoundCode(v) BY <1>4, <1>5, NoCarAssumption DEF SoundCode
  <1>7. Follows(v, q) BY <1>5 DEF Follows
  <1> QED BY <1>3, <1>6, <1>7

(* The revocation cancels the pass's QRs and leaves the others alone.      *)
LEMMA CancelledCodesFollow ==
    ASSUME SoundCodes(codes), NEW p
    PROVE  /\ NextCodes(codes, CancelledCodes(p))
           /\ \A v \in CancelledCodes(p) : \E u \in codes : Follows(v, u)
  <1> DEFINE k(q) == IF q.pass = p /\ q.state \in {"issued", "redeemed"}
                     THEN [q EXCEPT !.state = "cancelled"] ELSE q
  <1>1. CancelledCodes(p) = { k(q) : q \in codes } BY DEF CancelledCodes
  <1>2. \A q \in codes : SoundCode(k(q)) /\ Follows(k(q), q)
    BY CancellingFollows, FollowsItself DEF SoundCodes
  <1> HIDE DEF k
  <1>3. ASSUME NEW q \in codes, NEW u \in codes, k(q).id = k(u).id PROVE k(q) = k(u)
    <2>1. q.id = u.id BY <1>2, <1>3 DEF Follows
    <2> QED BY <2>1 DEF SoundCodes
  <1>4. SoundCodes(CancelledCodes(p)) BY <1>1, <1>2, <1>3 DEF SoundCodes
  <1> QED BY <1>1, <1>2, <1>4 DEF NextCodes


-----------------------------------------------------------------------------
(* The invariant of the credentials and the steps that keep it. *)

SoundLinks(ls) == ls \subseteq Link /\ \A k, u \in ls : k.id = u.id => k = u

(* A QR made over a link spent that link, and is the only one that did;    *)
(* a link that is spent made one.                                          *)
Spending(cs, ls) ==
    /\ \A q \in cs : q.by # Desk => \E k \in ls : k.id = q.by /\ k.state = "redeemed"
    /\ \A q, u \in cs : q.by = u.by /\ q.by # Desk => q.id = u.id
    /\ \A k \in ls : k.state = "redeemed" => \E q \in cs : q.by = k.id

EnrolInv == IInv /\ SoundCodes(codes) /\ SoundLinks(links) /\ Spending(codes, links)

NewCodesHold ==
    \A v \in codes' : v.plate # NoCar /\ (\A u \in codes : u.id # v.id) =>
        \A x \in v.starts..(StayEnd(v.pass, v.last) - 1) :
            HeldThrough(regs', v.pass, v.plate, x)

(* What every step is shown to do.                                         *)
GoodStep == EnrolInv' /\ NextCodes(codes, codes') /\ NewCodesHold

Spends(ls) == { k \in ls : k.state = "redeemed" }

(* Links that are not spent in the step, QRs issued at the desk if at all. *)
LEMMA SpendingStays ==
    ASSUME NEW cs, NEW cs2, NEW ls, NEW ls2, Spending(cs, ls), NextCodes(cs, cs2),
           \A v \in cs2 : (\A u \in cs : u.id # v.id) => v.by = Desk,
           Spends(ls2) = Spends(ls)
    PROVE  Spending(cs2, ls2)
  <1>1. \A k : k \in ls2 /\ k.state = "redeemed" <=> k \in ls /\ k.state = "redeemed"
    BY DEF Spends
  <1>2. \A v \in cs2 : v.by # Desk => \E u \in cs : Follows(v, u) BY DEF NextCodes
  <1>3. \A v \in cs2 : v.by # Desk => \E k \in ls2 : k.id = v.by /\ k.state = "redeemed"
    BY <1>1, <1>2 DEF Follows, Spending
  <1>4. ASSUME NEW v \in cs2, NEW w \in cs2, v.by = w.by, v.by # Desk PROVE v.id = w.id
    <2>1. PICK q \in cs : Follows(v, q) BY <1>2, <1>4
    <2>2. PICK u \in cs : Follows(w, u) BY <1>2, <1>4
    <2>3. q.by = u.by /\ q.by # Desk BY <1>4, <2>1, <2>2 DEF Follows
    <2>4. q.id = u.id BY <2>3 DEF Spending
    <2> QED BY <2>1, <2>2, <2>4 DEF Follows
  <1>5. ASSUME NEW k \in ls2, k.state = "redeemed" PROVE \E v \in cs2 : v.by = k.id
    <2>1. PICK q \in cs : q.by = k.id BY <1>1, <1>5 DEF Spending
    <2>2. PICK v \in cs2 : Follows(v, q) BY DEF NextCodes
    <2> QED BY <2>1, <2>2 DEF Follows
  <1> QED BY <1>3, <1>4, <1>5 DEF Spending

LEMMA NothingOfTheCodesMoves ==
    ASSUME SoundCodes(codes), UNCHANGED codes
    PROVE  NextCodes(codes, codes') /\ NewCodesHold
BY FollowsItself DEF NextCodes, NewCodesHold

(* A QR issued at the desk for a plate: the stay is held, and the link     *)
(* table is not touched.                                                   *)
LEMMA MintedHolds ==
    ASSUME IInv, NEW id, NEW p \in Passes, NEW c \in Cars, NEW f \in Day, NEW last \in Day,
           NEW by, MintForPlate(id, p, c, f, last), UNCHANGED passVars,
           \A v \in codes' : (\A u \in codes : u.id # v.id) => v = NewCode(id, p, c, f, last, by)
    PROVE  IInv' /\ NewCodesHold
  <1>1. /\ IInv' /\ \A x \in f..(StayEnd(p, last) - 1) : HeldThrough(regs', p, c, x)
    BY MintingIInv
  <1>2. LET n == NewCode(id, p, c, f, last, by)
        IN  n.pass = p /\ n.plate = c /\ n.starts = f /\ n.last = last
    BY DEF NewCode
  <1> QED BY <1>1, <1>2 DEF NewCodesHold

LEMMA RegisterStep ==
    ASSUME EnrolInv, RegisterNext PROVE GoodStep
  <1>1. Next /\ UNCHANGED <<codes, links>>
    BY DEF RegisterNext, Next, creds
  <1>2. IInv' BY <1>1, NextKeepsIInv DEF EnrolInv
  <1> QED BY <1>1, <1>2, NothingOfTheCodesMoves DEF GoodStep, EnrolInv

LEMMA RevokeStep ==
    ASSUME EnrolInv, NEW p \in Passes, NEW i \in Instants, RevokePass(p, i) PROVE GoodStep
  <1>1. /\ Revoke(p, i) /\ codes' = CancelledCodes(p) /\ links' = CancelledLinks(p)
    BY DEF RevokePass
  <1>2. IInv' BY <1>1, RevokeIInv DEF EnrolInv
  <1>3. NextCodes(codes, codes') /\ \A v \in codes' : \E u \in codes : Follows(v, u)
    BY <1>1, CancelledCodesFollow DEF EnrolInv
  <1> DEFINE m(k) == IF k.pass = p /\ k.state = "issued" THEN [k EXCEPT !.state = "cancelled"]
                     ELSE k
  <1>4. links' = { m(k) : k \in links } BY <1>1 DEF CancelledLinks
  <1>5. \A k \in links : /\ m(k) \in Link /\ m(k).id = k.id
                         /\ k.state = "redeemed" => m(k) = k
                         /\ m(k).state = "redeemed" => m(k) = k
    BY DEF EnrolInv, SoundLinks, Link
  <1> HIDE DEF m
  <1>6. SoundLinks(links') BY <1>4, <1>5 DEF EnrolInv, SoundLinks
  <1>7. Spends(links') = Spends(links) BY <1>4, <1>5 DEF Spends
  <1>8. \A v \in codes' : ~(\A u \in codes : u.id # v.id) BY <1>3 DEF Follows
  <1>9. Spending(codes', links') BY <1>3, <1>7, <1>8, SpendingStays DEF EnrolInv
  <1> QED BY <1>2, <1>3, <1>6, <1>8, <1>9 DEF GoodStep, EnrolInv, NextCodes, NewCodesHold

LEMMA IssueStep ==
    ASSUME EnrolInv, NEW id \in CodeIds, NEW p \in Passes, NEW c \in Cars, NEW f \in Day,
           NEW last \in Day, IssueEnrolment(id, p, c, f, last)
    PROVE  GoodStep
  <1> DEFINE n == NewCode(id, p, c, f, last, Desk)
  <1>1. /\ MintForPlate(id, p, c, f, last) /\ codes' = codes \cup {n}
        /\ UNCHANGED passVars /\ UNCHANGED links /\ \A u \in codes : u.id # id
    BY DEF IssueEnrolment, MintForPlate
  <1>2. SoundCode(n) /\ n.id = id /\ n.by = Desk BY NewCodesAreSound
  <1>3. IInv' /\ NewCodesHold BY <1>1, MintedHolds DEF EnrolInv
  <1> HIDE DEF n
  <1>4. NextCodes(codes, codes') BY <1>1, <1>2, OneCodeIsIssued DEF EnrolInv
  <1>5. Spending(codes', links') BY <1>1, <1>2, <1>4, SpendingStays DEF EnrolInv
  <1> QED BY <1>1, <1>3, <1>4, <1>5 DEF GoodStep, EnrolInv, NextCodes

LEMMA MintWithoutPlateStep ==
    ASSUME EnrolInv, NEW id \in CodeIds, NEW p \in Passes, NEW f \in Day, NEW last \in Day,
           MintWithoutPlate(id, p, f, last)
    PROVE  GoodStep
  <1> DEFINE n == NewCode(id, p, NoCar, f, last, Desk)
  <1>1. /\ codes' = codes \cup {n} /\ UNCHANGED <<passState, revokedAt, regs, written, links>>
        /\ \A u \in codes : u.id # id
    BY DEF MintWithoutPlate, vars
  <1>2. SoundCode(n) /\ n.id = id /\ n.by = Desk /\ n.plate = NoCar BY NewCodesAreSound
  <1> HIDE DEF n
  <1>3. IInv' BY <1>1, NextKeepsIInv DEF EnrolInv, vars
  <1>4. NextCodes(codes, codes') BY <1>1, <1>2, OneCodeIsIssued DEF EnrolInv
  <1>5. Spending(codes', links') BY <1>1, <1>2, <1>4, SpendingStays DEF EnrolInv
  <1>6. NewCodesHold BY <1>1, <1>2 DEF NewCodesHold
  <1> QED BY <1>1, <1>3, <1>4, <1>5, <1>6 DEF GoodStep, EnrolInv, NextCodes

LEMMA IssueLinkStep ==
    ASSUME EnrolInv, NEW id \in LinkIds, NEW p \in Passes, NEW f \in Day, NEW last \in Day,
           IssueHolderLink(id, p, f, last)
    PROVE  GoodStep
  <1> DEFINE k == [id |-> id, pass |-> p, starts |-> f, last |-> last, state |-> "issued"]
  <1>1. /\ links' = links \cup {k} /\ UNCHANGED <<passState, revokedAt, regs, written, codes>>
        /\ \A u \in links : u.id # id
    BY DEF IssueHolderLink, vars
  <1>2. k \in Link /\ k.id = id /\ k.state # "redeemed" BY DEF Link
  <1> HIDE DEF k
  <1>3. IInv' BY <1>1, NextKeepsIInv DEF EnrolInv, vars
  <1>4. SoundLinks(links') BY <1>1, <1>2 DEF EnrolInv, SoundLinks
  <1>5. Spends(links') = Spends(links) BY <1>1, <1>2 DEF Spends
  <1>6. NextCodes(codes, codes') /\ NewCodesHold
    BY <1>1, NothingOfTheCodesMoves DEF EnrolInv
  <1>7. Spending(codes', links') BY <1>1, <1>5, <1>6, SpendingStays DEF EnrolInv
  <1> QED BY <1>1, <1>3, <1>4, <1>6, <1>7 DEF GoodStep, EnrolInv

(* A link is issued, so no QR came of it yet; it is spent as one does.     *)
LEMMA RedeemLinkStep ==
    ASSUME EnrolInv, NEW k \in links, NEW g \in Garages, NEW i \in Instants, NEW id \in CodeIds,
           NEW c \in Cars, NEW f \in Day, NEW last \in Day,
           RedeemHolderLink(k, g, i, id, c, f, last)
    PROVE  GoodStep
  <1> DEFINE n == NewCode(id, k.pass, c, f, last, k.id)
             s == [k EXCEPT !.state = "redeemed"]
  <1>1. k \in Link /\ k.pass \in Passes /\ k.id \in LinkIds
    BY DEF EnrolInv, SoundLinks, Link
  <1>2. /\ MintForPlate(id, k.pass, c, f, last) /\ codes' = codes \cup {n}
        /\ links' = (links \ {k}) \cup {s} /\ UNCHANGED passVars
        /\ \A u \in codes : u.id # id
    BY DEF RedeemHolderLink, MintForPlate, Spent
  <1>3. k.state = "issued" BY DEF RedeemHolderLink, Redeemable, credential_state
  <1>4. SoundCode(n) /\ n.id = id /\ n.by = k.id /\ k.id # Desk
    BY <1>1, NewCodesAreSound, DeskAssumption
  <1>5. IInv' /\ NewCodesHold BY <1>1, <1>2, MintedHolds DEF EnrolInv
  <1>6. s \in Link /\ s.id = k.id /\ s.state = "redeemed" BY <1>1 DEF Link
  <1> HIDE DEF n, s
  <1>7. NextCodes(codes, codes') BY <1>2, <1>4, OneCodeIsIssued DEF EnrolInv
  <1>8. SoundLinks(links') BY <1>2, <1>6 DEF EnrolInv, SoundLinks
  <1>9. \A q \in codes : q.by # Desk => q.by # k.id
    BY <1>3 DEF EnrolInv, Spending, SoundLinks
  <1>10. Spending(codes', links')
    <2>1. ASSUME NEW q \in codes', q.by # Desk
          PROVE  \E u \in links' : u.id = q.by /\ u.state = "redeemed"
      <3>1. CASE q = n BY <1>2, <1>4, <1>6, <3>1
      <3>2. CASE q \in codes
        <4>1. PICK u \in links : u.id = q.by /\ u.state = "redeemed"
          BY <2>1, <3>2 DEF EnrolInv, Spending
        <4> QED BY <1>2, <1>3, <4>1
      <3> QED BY <1>2, <2>1, <3>1, <3>2
    <2>2. \A q, u \in codes' : q.by = u.by /\ q.by # Desk => q.id = u.id
      BY <1>2, <1>4, <1>9 DEF EnrolInv, Spending
    <2>3. \A u \in links' : u.state = "redeemed" => \E q \in codes' : q.by = u.id
      BY <1>2, <1>4, <1>6 DEF EnrolInv, Spending
    <2> QED BY <2>1, <2>2, <2>3 DEF Spending
  <1> QED BY <1>5, <1>7, <1>8, <1>10 DEF GoodStep, EnrolInv, NextCodes

(* A QR written in place, none issued.                                     *)
LEMMA RewriteStep ==
    ASSUME EnrolInv, IInv', NEW q \in codes, NEW v, SoundCode(v), Follows(v, q),
           codes' = (codes \ {q}) \cup {v}, UNCHANGED links
    PROVE  GoodStep
  <1>1. NextCodes(codes, codes') BY OneCodeMoves DEF EnrolInv
  <1>2. \A w \in codes' : ~(\A u \in codes : u.id # w.id) BY DEF Follows
  <1>3. Spending(codes', links') BY <1>1, <1>2, SpendingStays DEF EnrolInv
  <1> QED BY <1>1, <1>2, <1>3 DEF GoodStep, EnrolInv, NextCodes, NewCodesHold

LEMMA BindStep ==
    ASSUME EnrolInv, NEW q \in codes, NEW g \in Garages, NEW i \in Instants, NEW c \in Cars,
           BindOnFirstUse(q, g, i, c)
    PROVE  GoodStep
  <1> DEFINE v == [q EXCEPT !.state = "redeemed", !.car = c]
  <1>1. /\ codes' = (codes \ {q}) \cup {v} /\ UNCHANGED links /\ Bound(q) = NoCar
    BY DEF BindOnFirstUse
  <1>2. SoundCode(q) /\ q.pass \in Passes BY CodeFields DEF EnrolInv, SoundCodes, SoundCode
  <1>3. SoundCode(v) /\ Follows(v, q) BY <1>1, <1>2, BindingFollows
  <1>4. IInv' BY <1>2, BindingIInv DEF EnrolInv
  <1> HIDE DEF v
  <1> QED BY <1>1, <1>3, <1>4, RewriteStep

LEMMA UseStep ==
    ASSUME EnrolInv, NEW q \in codes, NEW g \in Garages, NEW i \in Instants, NEW dir,
           UseBoundCode(q, g, i, dir)
    PROVE  GoodStep
  <1>1. UNCHANGED <<codes, links>> BY DEF UseBoundCode, creds
  <1>2. q.pass \in Passes BY CodeFields DEF EnrolInv, SoundCodes, SoundCode
  <1>3. IInv' BY <1>2, UsingIInv DEF EnrolInv
  <1> QED BY <1>1, <1>3, NothingOfTheCodesMoves DEF GoodStep, EnrolInv

LEMMA CancelStep ==
    ASSUME EnrolInv, NEW q \in codes, CancelCode(q) PROVE GoodStep
  <1> DEFINE v == [q EXCEPT !.state = "cancelled"]
  <1>1. codes' = (codes \ {q}) \cup {v} /\ UNCHANGED links /\ UNCHANGED vars
    BY DEF CancelCode
  <1>2. SoundCode(v) /\ Follows(v, q) BY CancellingFollows DEF EnrolInv, SoundCodes
  <1>3. IInv' BY <1>1, NextKeepsIInv DEF EnrolInv
  <1> HIDE DEF v
  <1> QED BY <1>1, <1>2, <1>3, RewriteStep

LEMMA ReplaceStep ==
    ASSUME EnrolInv, NEW q \in codes, NEW id \in CodeIds, NEW c \in Cars, NEW f \in Day,
           NEW last \in Day, ReplaceCar(q, id, c, f, last)
    PROVE  GoodStep
  <1> DEFINE v == Replaced(q)
             n == NewCode(id, q.pass, c, f, last, Desk)
  <1>1. /\ MintForPlate(id, q.pass, c, f, last) /\ codes' = (codes \ {q}) \cup {v, n}
        /\ UNCHANGED passVars /\ UNCHANGED links /\ \A u \in codes : u.id # id
    BY DEF ReplaceCar, MintForPlate
  <1>2. SoundCode(q) /\ q.pass \in Passes BY CodeFields DEF EnrolInv, SoundCodes, SoundCode
  <1>3. SoundCode(v) /\ Follows(v, q) BY <1>2, ReplacingFollows
  <1>4. SoundCode(n) /\ n.id = id /\ n.by = Desk BY <1>2, NewCodesAreSound
  <1>5. \A w \in codes' : (\A u \in codes : u.id # w.id) => w = n
    <2> HIDE DEF v, n
    <2> QED BY <1>1, <1>3 DEF Follows
  <1>6. IInv' /\ NewCodesHold BY <1>1, <1>2, <1>5, MintedHolds DEF EnrolInv
  <1> HIDE DEF v, n
  <1>7. NextCodes(codes, codes') BY <1>1, <1>3, <1>4, OneCodeMoves DEF EnrolInv
  <1>8. Spending(codes', links') BY <1>1, <1>4, <1>5, <1>7, SpendingStays DEF EnrolInv
  <1> QED BY <1>1, <1>6, <1>7, <1>8 DEF GoodStep, EnrolInv, NextCodes

LEMMA EveryStepIsGood == EnrolInv /\ EnrolNext => GoodStep
  <1> SUFFICES ASSUME EnrolInv, EnrolNext PROVE GoodStep OBVIOUS
  <1>1. CASE RegisterNext BY <1>1, RegisterStep
  <1>2. CASE \E p \in Passes, i \in Instants : RevokePass(p, i) BY <1>2, RevokeStep
  <1>3. CASE \E id \in CodeIds, p \in Passes, c \in Cars, f, last \in Day :
               IssueEnrolment(id, p, c, f, last)
    BY <1>3, IssueStep
  <1>4. CASE \E id \in CodeIds, p \in Passes, f, last \in Day : MintWithoutPlate(id, p, f, last)
    BY <1>4, MintWithoutPlateStep
  <1>5. CASE \E id \in LinkIds, p \in Passes, f, last \in Day : IssueHolderLink(id, p, f, last)
    BY <1>5, IssueLinkStep
  <1>6. CASE \E k \in links, g \in Garages, i \in Instants, id \in CodeIds, c \in Cars,
                f, last \in Day : RedeemHolderLink(k, g, i, id, c, f, last)
    BY <1>6, RedeemLinkStep
  <1>7. CASE \E q \in codes, g \in Garages, i \in Instants, c \in Cars :
               BindOnFirstUse(q, g, i, c)
    BY <1>7, BindStep
  <1>8. CASE \E q \in codes, g \in Garages, i \in Instants, dir \in {"entry", "exit"} :
               UseBoundCode(q, g, i, dir)
    BY <1>8, UseStep
  <1>9. CASE \E q \in codes, id \in CodeIds, c \in Cars, f, last \in Day :
               ReplaceCar(q, id, c, f, last)
    BY <1>9, ReplaceStep
  <1>10. CASE \E q \in codes : CancelCode(q) BY <1>10, CancelStep
  <1> QED
    BY <1>1, <1>2, <1>3, <1>4, <1>5, <1>6, <1>7, <1>8, <1>9, <1>10 DEF EnrolNext

-----------------------------------------------------------------------------
(* Theorems *)

(* The register and the credentials on top of it stay sound together:      *)
(* whatever was issued, redeemed, replaced, cancelled or revoked.          *)
THEOREM CredentialsAreSound == EnrolSpec => []EnrolInv
  <1>1. EnrolInit => EnrolInv
    BY InitIInv DEF EnrolInit, EnrolInv, SoundCodes, SoundLinks, Spending
  <1>2. EnrolInv /\ [EnrolNext]_allVars => EnrolInv'
    <2>1. ASSUME EnrolInv, UNCHANGED allVars PROVE EnrolInv'
      <3>1. UNCHANGED vars /\ UNCHANGED <<codes, links>> BY <2>1 DEF allVars, creds
      <3>2. IInv' BY <2>1, <3>1, NextKeepsIInv DEF EnrolInv
      <3> QED BY <2>1, <3>1, <3>2 DEF EnrolInv
    <2> QED BY <2>1, EveryStepIsGood DEF GoodStep
  <1> QED BY <1>1, <1>2, PTL DEF EnrolSpec

(* Every QR and link is a row its table's checks admit.                    *)
THEOREM CredentialsTypeCorrect == EnrolSpec => []CredentialsTypeOK
  <1>1. EnrolInv => CredentialsTypeOK
    BY DEF EnrolInv, SoundCodes, SoundCode, SoundLinks, CredentialsTypeOK
  <1> QED BY <1>1, CredentialsAreSound, PTL

(* One car, one pass per garage, with gaps filled, stays run on and QRs    *)
(* bound at the lane: the same property, of the larger system.             *)
THEOREM CredentialsKeepOneCarOnePass == EnrolSpec => []OneCarOnePass
  <1>1. EnrolInv => OneCarOnePass BY DEF EnrolInv, IInv
  <1> QED BY <1>1, CredentialsAreSound, PTL

(* Whatever the writers do one at a time, what they leave of the register  *)
(* is what RegisterRaces starts from: a row per id, at a garage its pass   *)
(* names, one car at a garage a day, and nothing that outlasts a stay --   *)
(* though each garage's row is turned over, released, revoked and checked  *)
(* out on its own, a run-on moves only stays whose rows all still end      *)
(* together (_run_on), so no garage is left with the longer stay.          *)
THEOREM OneWriterLeavesAStart == EnrolSpec => []LeftByOneWriter(regs)
  <1>1. EnrolInv => LeftByOneWriter(regs)
    BY DEF EnrolInv, IInv, TypeOK, UniqueKeys, OneCarOnePass, LeftByOneWriter
  <1> QED BY <1>1, CredentialsAreSound, PTL

(* Nothing carries over: at one garage on one day at most one pass is      *)
(* entered on a QR of the car, because its stay there is a row of the      *)
(* register and one car is on one pass.                                    *)
THEOREM OneStayAnswersHolds == EnrolSpec => []OneStayAnswers
  <1>1. EnrolInv => OneStayAnswers
    <2> SUFFICES ASSUME EnrolInv, NEW q \in codes, NEW u \in codes, NEW g \in Garages,
                        NEW d \in Day, q.pass # u.pass, Bound(q) = Bound(u),
                        Recognised(q, g, d, "entry"), Recognised(u, g, d, "entry")
                 PROVE  FALSE
      BY DEF OneStayAnswers
    <2>1. PICK r \in regs : r.garage = g /\ r.pass = q.pass /\ r.car = Bound(q) /\ Covers(r, d)
      BY DEF Recognised, StayOf
    <2>2. PICK s \in regs : s.garage = g /\ s.pass = u.pass /\ s.car = Bound(u) /\ Covers(s, d)
      BY DEF Recognised, StayOf
    <2>3. ~Overlaps(r, s.from, s.to) BY <2>1, <2>2 DEF EnrolInv, IInv, OneCarOnePass
    <2>4. r \in Row /\ s \in Row /\ d \in Int BY DEF EnrolInv, IInv, TypeOK, Day
    <2> QED BY <2>1, <2>2, <2>3, <2>4, RowFields DEF Covers, Overlaps
  <1> QED BY <1>1, CredentialsAreSound, PTL

(* A holder's link is spent exactly when it issued its one QR.             *)
THEOREM OneLinkOneCodeHolds == EnrolSpec => []OneLinkOneCode
  <1>1. EnrolInv => OneLinkOneCode
    <2> SUFFICES ASSUME EnrolInv, NEW k \in links
                 PROVE  LET made == { q \in codes : q.by = k.id }
                        IN  /\ k.state = "redeemed" => Cardinality(made) = 1
                            /\ k.state = "issued" => made = {}
      BY DEF OneLinkOneCode
    <2> DEFINE made == { q \in codes : q.by = k.id }
    <2>1. k.id # Desk BY DeskAssumption DEF EnrolInv, SoundLinks, Link
    <2>2. \A q, u \in made : q = u
      BY <2>1 DEF EnrolInv, Spending, SoundCodes
    <2>3. ASSUME k.state = "redeemed" PROVE Cardinality(made) = 1
      <3>1. PICK q \in made : TRUE BY <2>3 DEF EnrolInv, Spending
      <3>2. made = {q} BY <2>2
      <3> QED BY <3>2, FS_Singleton
    <2>4. ASSUME k.state = "issued" PROVE made = {}
      BY <2>1, <2>4 DEF EnrolInv, Spending, SoundLinks
    <2> QED BY <2>3, <2>4
  <1> QED BY <1>1, CredentialsAreSound, PTL

(* A QR just issued for a plate holds it for every day of its stay, at     *)
(* every garage of its pass, whatever the pass held before.                *)
THEOREM NewCodesHoldTheirStay == EnrolSpec => ANewCodeHoldsItsStay
  <1>1. EnrolInv /\ [EnrolNext]_allVars => [ANewCodeHoldsItsStayStep]_allVars
    <2> SUFFICES ASSUME EnrolInv, EnrolNext PROVE ANewCodeHoldsItsStayStep
      OBVIOUS
    <2>1. NewCodesHold BY EveryStepIsGood DEF GoodStep
    <2> QED BY <2>1 DEF NewCodesHold, HeldThrough, ANewCodeHoldsItsStayStep
  <1> QED BY <1>1, CredentialsAreSound, PTL DEF EnrolSpec, ANewCodeHoldsItsStay

(* A car replaced on a pass is let in on it again only by a QR made or     *)
(* bound for it since: no cancellation, revocation or end of a stay does.  *)
THEOREM ReplacedCarsStayReplaced == EnrolSpec => AReplacedCarNeedsANewCode
  <1>1. EnrolInv /\ [EnrolNext]_allVars => [AReplacedCarNeedsANewCodeStep]_allVars
    <2> SUFFICES ASSUME EnrolInv, EnrolNext, NEW p \in Passes, NEW c \in Cars, NEW d \in Day,
                        ExitOnlyOn(p, c, d),
                        ~\E q \in codes' : /\ q.pass = p /\ Bound(q) = c
                                           /\ \A u \in codes : u.id = q.id => Bound(u) # c
                 PROVE  ExitOnlyOn(p, c, d)'
      BY DEF AReplacedCarNeedsANewCodeStep
    <2>1. NextCodes(codes, codes') BY EveryStepIsGood DEF GoodStep
    <2>2. c # NoCar BY NoCarAssumption
    <2>3. \E v \in codes' : v.pass = p /\ Bound(v) = c /\ v.exitOnly
      <3>1. PICK q \in codes : q.pass = p /\ Bound(q) = c /\ q.exitOnly
        BY DEF ExitOnlyOn, WasReplaced
      <3>2. PICK v \in codes' : Follows(v, q) BY <2>1 DEF NextCodes
      <3> QED BY <2>2, <3>1, <3>2 DEF Follows
    <2>4. ASSUME NEW v \in codes', LiveFor(v, p, c, d) PROVE FALSE
      <3>1. v.pass = p /\ Bound(v) = c /\ ~v.exitOnly BY <2>4 DEF LiveFor
      <3>2. PICK u \in codes : u.id = v.id /\ Bound(u) = c BY <3>1
      <3>3. Follows(v, u)
        <4>1. PICK w \in codes : Follows(v, w) BY <2>1, <3>2 DEF NextCodes
        <4>2. w = u BY <3>2, <4>1 DEF Follows, EnrolInv, SoundCodes
        <4> QED BY <4>1, <4>2
      <3>4. u.pass = p /\ ~u.exitOnly /\ (v.state = u.state \/ v.state = "cancelled")
        BY <2>2, <3>1, <3>2, <3>3 DEF Follows
      <3> QED BY <2>4, <3>1, <3>2, <3>3, <3>4 DEF ExitOnlyOn, LiveFor, credential_state, Follows
    <2> QED BY <2>3, <2>4 DEF ExitOnlyOn, WasReplaced, LiveFor, credential_state
  <1> QED BY <1>1, CredentialsAreSound, PTL DEF EnrolSpec, AReplacedCarNeedsANewCode
=============================================================================
