# garage-pass in TLA+

A verification project for garage-pass, the module that decides which pass a
car holds at a garage, binds QR codes to cars, and answers the lane. The
modules are translated from the code under `src/src/garage_pass/` and
`src/migrations/`; `PROJECT.json` gives the lines behind every definition.

## 1. The system

| component | state | operations | what makes it correct |
|---|---|---|---|
| vehicle register (`store/records.py`, `states.py`) | `passes.state`, `pass_garages`, `vehicle_registrations`, `pass_state_changes` | `create_pass`, `register_vehicle`, `end_registration`, `end_stay`, `change_state` | one car, one pass per garage; all garages of a pass together; a revoked pass holds nothing; a write on one pass takes nothing but a stay's last day from another |
| enrolments and holder links (`store/enrolments.py`, `enrolment.py`) | `enrolments`, `holder_links` | `issue_enrolment`, `issue_holder_link`, `redeem_enrolment`, `redeem_holder_link`, `replace_car`, `cancel_code`, `confirm_match`, the revocation's cascade | a QR holds its car for its whole stay; one link, one QR; a credential never outlives its pass; an earlier stay's QR never answers for the next |
| concurrent writers (`LOCK_ORDER`, "written as read") | row locks, savepoints, READ COMMITTED snapshots | every verb above, statement by statement | one spend; no lost update; no cut of days another pass now holds; a refusal writes nothing; no deadlock |
| access engine (`access.py`, `store/access.py`) | none (pure) / reads the store | `access`, `answer_in_transaction`, `answer_on_the_stays_last_day` | an exit is never refused; an entry is never guessed; exit-only derived |
| visit ledger (`records.py`, `access.py`) | `visits` | `record_entry`, `record_exit`, `visits_on` | at most one open visit per car, pass and garage; allowance and stay measured on it |
| plates (`enrolment.py`) | none | `plate_key`, `look_alike_key`, `similar_enough` | one normal form; a clearly different car never passes |
| garages, terms, local days | `garages`, `garage_changes`, the terms of a pass | `store_garage`, `set_garage_timezone`, `set_garage_enrols_at`, `check_terms`, `day_of` | contradictions refused at creation; a repair recorded; each garage's own calendar |
| command line | -- | one transaction per verb, committed before the answer is printed | an answer nobody heard can be asked for again |
| documents, typed values, contract, tenancy, migrations | -- | parsing; rendering; catalogue checks | outside the models |

The verbs share the database only. Every verb is one transaction: the command
line commits on success and rolls back on a refusal or a driver error. Writers
lock the pass row, then the credential, then the registrations, and re-read
what they depend on under the lock. A turnover or an expiry release writes
another pass's registration without that pass's lock. Credentials call the
register (`register_vehicle`, `change_state`); the lane's answer is read in the
same transaction as the write. Visits are recorded by commands of their own,
after the answer.

What is hard: a registration is a fan-out over the pass's garages, which later
turnovers take apart garage by garage; ends are half-open days compared with
inclusive last days; one instant is different days at different garages; a
QR's stay is pieced together from whatever the pass holds; two lanes and the
desk write at once, and any of them may die between two statements or lose the
reply after the commit. `PROJECT.json` lists each hazard at its line with the
properties that catch it, or why none does.

## 2. The modules

Three layers. *One writer at a time*: `Register`, `PassRegister`,
`Enrolments`, with every verb a single step, where the questions are about days
and sequences of calls. *Racing transactions*: `RegisterRaces`, `Spends`,
`Visits`, `Garages`, where a verb is the statements it runs. *Decisions*:
`Access`, `Plates`, `Terms`, pure functions and what is asked of them; `Lane`
joins the first and the third.

### One writer at a time

**`Register`** -- no state. The rows of `vehicle_registrations`, what overlaps
what, who holds a car, what turns over, what is released, what each verb makes
of the rows. A row is one garage's row of a registration; `reg` numbers the
write that inserted it (the rows of one fan-out share it), in place of the
row's uuid. SQL's NULL end day is `Forever`. `Latest` is a set: where the
query's order leaves a tie, any of the tied rows may be the first.

**`PassRegister`** -- the register's writers, one committed transaction per
action: `CreatePass`, `RegisterVehicle`, `EndRegistration`, `EndStay`,
`Revoke`, `ChangeState`, each with all its writes. A refused call writes
nothing and is no step. The EXCLUDE constraint is left out on purpose: the
question is whether the code's own checks suffice.

**`CarDays`** -- what the register promises, without rows: seats (a garage, a
car, a day), a claim of free or turned-over days at every garage of a pass
together, a pass giving back days from the end of a hold. `PassRegister`
implements it (`ImplementsCarDays`).

**`Enrolments`** -- extends `PassRegister` with the two credential tables and
every writer of them. `HoldTheWholeStay` is `_hold_the_whole_stay`: a walk over
the days of the stay, a recursive function of the day, in which each gap is run
on or registered where it begins, refused as a whole if one is refused. `Recognised` is the lane's judgement of a bound QR. The token, the
lane, the vehicle description, the holder's name and `enrolments.matches` are
left out here (they add refusals, never steps); where a garage enrols and the
records of matches are in `Spends`.

### Racing transactions

In all four, PostgreSQL is external and modelled from how the store uses it:
a statement sees what is committed when it starts and its own transaction's
writes; a write waits for another transaction's uncommitted write of the same
row or key and then judges the row as committed; a transaction that dies is
rolled back.

**`RegisterRaces`** -- the register's writers again, one statement at a time,
and one row at a time inside an UPDATE, since another writer may commit between
two rows. A connection in `lock` waits for its pass row; `read` and `holders`
are its SELECTs, which fill `plan` with what was read and the writes that
follow; `write` makes one row version (`mine`), `check` is the EXCLUDE looking
it up *after* it was placed, which waits on a clash in progress and refuses on
a committed one. Each write carries its predicate: `as_read` (a turnover, an
end, a run-on), `if_open` (a release), `if_later` (a revocation), `by_id`
(`end_stay`), and `FoundMoved` is the row count the code checks.
`DeadlockDetected` is the database breaking a cycle of waits; `Lost` is a
connection dying at any statement. `hold` is the registration of a stay under a
QR, so the credentials' longest write is raced too.

**`Spends`** -- the transactions around one QR: redeem, confirm, cancel,
replace, issue, revoke. Each connection has its row locks (`LOCK_ORDER`, the
pass then the QR), the savepoints that stand, the rows written and not
committed, the garages still to register. An exception is what the code makes
of it: the handler's ROLLBACK TO the savepoint it names, which loses the locks
taken since and fails if it was released. The QR is glimpsed before the lock
and read again under it. One day only: whether a pass holds a car at a garage,
without its days, which the other modules have. `where_enrolment_happens`
decides at which end of which garage a QR may bind. Holder links are in
`Enrolments` alone.

**`Visits`** -- the ledger of one pass: a lane asks (the allowance is counted
and nothing is written), reads, writes, commits; three transactions for one
car going in. `LoseReply` is the commit whose reply is lost, or the connection
that dies before it: the lane cannot tell and runs the command again.

**`Garages`** -- garages created, their two repairs, and passes created at
them, each read unlocked, written by one statement and committed. `Upgrade` is
another tz database under the program: a garage whose zone it does not carry is
unreadable and takes one write, the repair of its zone. A pass's document is
any of a set that holds every kind of contradiction; `Terms` judges it.

### Decisions

**`Access`** -- no state, like the function it models: `access()` as one
operator, `Answer`, over a question (garage, passes, registrations, visits,
garages handed in, identity, lane, direction, instant). The checks of a pass
are named in `CHECKS`, in the code's order, and the reported reason is the
first that fails. Days and minutes of an instant at a zone, the plate's normal
form and the sort of a pass id are constants. Prose, `detail` and the measured
numbers beside the answer are left out.

**`AccessAnswers`** -- the call: a question chosen from `Questions`, then
answered. Its properties compare the answer with the answers to smaller,
reordered or altered questions.

**`Lane`** -- extends `Enrolments` and instantiates `Access`: what
`answer_in_transaction` loads from the rows of the register and the
credentials, exit-only derivation (`ExitOnlyOn`, in `Enrolments`) and the
checkout's last day included. It has no action; its invariants ask every
question in every reachable state of every writer. Rows that start on one day
are taken in one fixed order, which the query leaves open. A stored row may not
be readable to the system that answers: its tz database has dropped a garage's
zone, or its validators no longer accept a pass's terms (`_pass_from_row`). What
a system reads is a record of `Systems`, the zones it carries and the passes it
strands, and every question is asked of every system: a write that needs what
cannot be read is refused, so an unreadable row brings the store into no state
it is not brought into without it.

**`Plates`** -- the comparison of a plate read at a lane with the plate a QR
was made for, against a plate reader that confuses look-alikes, adds
separators, slips or reads nothing. `OneAway` is the reference definition of
one difference: it makes the change, where `within_one_difference` walks.

**`Terms`** -- no state: `check_terms`, `days_that_occur`,
`refuse_lanes_off_the_pass`, and `Allows`, what a movement needs of terms, as
`access.py` measures it. `Garages` uses both.

### Proofs, and how they compose

`EnrolmentsProofs` (of `PassRegister` and `Enrolments`), `LaneProofs` (of `Lane`
and `Plates`),
`RegisterRacesProofs`, `SpendsProofs`, `VisitsProofs`, `GaragesProofs` and
`AccessProofs` (of `AccessAnswers`) hold the theorems of the module each is
named for. `FiniteOrders` has the facts about order several of them need: the
least and the largest member of a set, the member that comes first under a
measure, a set's members listed by a key (`ListedInOrder`), two sets of one size
by a bijection (`AsMany`), and the places of a set listed in their order
(`PlacesInOrder`).

    Register --+-- PassRegister --+-- Enrolments -- Lane -- (INSTANCE) Access
               |    (INSTANCE     |        |                     |
               |      CarDays)    |        |             AccessAnswers -- AccessProofs
               |                           |
               |                  EnrolmentsProofs -- LaneProofs (with Lane, Plates)
               |
               +-- RegisterRaces -- RegisterRacesProofs

    Terms -- Garages -- GaragesProofs      Visits -- VisitsProofs
    Spends -- SpendsProofs

    FiniteOrders, under EnrolmentsProofs, LaneProofs, RegisterRacesProofs,
    SpendsProofs and AccessProofs

`MCPassRegister`, `MCEnrolments`, `MCAccessAnswers`, `MCLane`,
`MCRegisterRaces`, `MCSpends`, `MCVisits`, `MCPlates` and `MCGarages` give the
constants their values.

## 3. What is checked

| run | properties | bounds | result |
|---|---|---|---|
| `register` | `TypeOK`, `OneCarOnePass`, `RevokedHoldsNothing`, `NoHoldGrows`, `OnlyTheLastDayTurnsOver`, `ImplementsCarDays` | 2 registrations, 2 instants, end days to 4 | pass |
| `stays` | `CredentialsTypeOK`, `OneStayAnswers`, `ANewCodeHoldsItsStay`, `AReplacedCarNeedsANewCode` | 2 QRs, 2 registrations, stays 1-2 and 2-3, 1 instant; 392,741 states | pass |
| `lane` | `OnlyTheUnreadableIsLeftUnanswered`, `ACheckedOutGuestDrivesOut`, `OneLinkOneCode` | 1 QR, 1 link, a stay of days 1-3, 2 registrations, 1 instant, 3 systems; 141,291 states | pass |
| `answers` | `AnswersTypeOK`, `ExitIsNeverRefused`, `AnyPassThatCoversLetsOut`, `AnEntryIsCoveredOnOnePass`, `TheSameOutcomeInAnyOrder`, `AReplacedCarIsOver`, `EachEntryOnItsOwnClock` | about 41,000 questions; 82,600 states | pass |
| `races` | `OneCarOnePass`, `RevokedHoldsNothing`, `OnlyTheLastDayTurnsOver`, `CommitsAsIfAlone`, `AReportedStayIsHeld`, `EveryWriterFinishes` | 2 connections, 3 transactions out of 12 calls, 3 starting registers | pass |
| `spends` | `HeldByItsCode`, `RevokedLeavesNothingLive`, `AQRBindsOneCar`, `ARefusalWritesNothing`, `OpensOnlyWhatStands`, `EveryAnswerIsKept`, `ARetryIsRecognised`, `EveryCallEnds` | 2 connections, 3 transactions, 3 QRs, 3 garages; 132,287 states | pass |
| `visits` | `OneOpenVisit`, `AnExitIsOfItsGarage`, `AnOverrunIsBounded` | 3 lanes, 2 garages, 2 cars, 1 visit allowed, 2 instants, 1 reply lost | pass |
| `plates` | `OnlyASlipIsForgiven` | 4 characters and a separator, plates to 3, reads to 4, 2 slips; 43,746 states | pass |
| `garages` | `TheHistoryEndsAtTheRow`, `AStoredPassCanBeUsed` | 2 desks, 4 calls, 2 garages, 2 zones, about 70 documents; 144,636 states | pass |
| `end_every_garage` | `EndingFreesEveryGarage` | as `register`, passes with no `valid_to` | violated |
| `end_stay_race` | `NothingAlreadyEndedMoves` | as `races` | violated |
| `blank_lane` | `EveryRedemptionIsAnswered` | as `spends`, with a blank lane | violated |

**Why the bounds are enough to be worth something.** *Register, stays, lane*:
two passes, two garages, one car; p1 names both garages, p2 the second alone;
garage 2's calendar is a day ahead of garage 1's at every instant. One car is
enough because no operator relates two cars; two passes over overlapping garage
sets are what a turnover at one garage and not another needs; two registrations
give a holder and a newcomer, and a row that was cut meets the next write. In
`lane`, p1 allows two visits in a day's window and one is recorded at each of
its garages; garage 1 never stated its transient mode; and three systems answer,
one that reads everything, one that strands p1, and one without garage 1's zone
that strands p2, so each reason to leave an entry unanswered occurs; there is
one QR, so one stay is enough for it, registrations are on any days, and the
guest checked out on a day of that stay may have left at either garage. In
`stays` two QRs are interchangeable (symmetry over their ids; every property
there is a safety property). *Races*: three transactions on two connections let
a third writer start after one of the first two ended, which is what a stale
read needs; both passes name the same two garages, so that a writer can be
overtaken between two rows of one statement; the starting registers are what one
writer alone can leave, `StartsAssumption`. *Spends*: p1 at two garages holds a
QR bound to nothing yet and one sold before plates were required, p2 waits for
its first car and names a garage that never stated its transient parking; two of
the three cars have plates that pass for each other. *Visits*: two lanes at one
garage race on one key, the third at another garage shares only the count.
*Answers*: two garages half a day apart, a car under two spellings and another
car, eight passes under two ids (open, revoked, suspended, unreadable,
elsewhere, measured), up to two of eight registrations; every term of one pass
against every pair of five visits; and every input that can be missing.
*Plates*: one character outside every fold, and O, 0 and Q, which the fold and
the look-alike group join in two different ways; plates one shorter than, as
long as and, once a character is added, longer than the minimum. *Garages*: two
desks that race twice each; ranges of one day, six and seven days against
windows on one weekday, asked about on days -2 to 8; lanes stated at one garage
of two.

**Deadlock.** `visits` and `plates` check it. The others turn it off
because at the bound on calls, with every pass revoked, or once a question is
answered, nothing more can happen and the system rightly rests. In `races` and
`spends`, where writers wait for each other, the absence of a lasting wait is
checked as liveness instead, which a resting system does not excuse.

**Fairness.** `races` and `spends` assume weak fairness of each connection's
`Statement`, and nothing else: a command runs its statements one after another
to its commit with nothing in between that waits for a person, and PostgreSQL
grants a lock that is free and breaks a cycle of waits. Nobody is obliged to
call (`Begin`) or to die (`Lost`). Under it every writer finishes
(`EveryWriterFinishes`, `EveryCallEnds`): in `Spends` without any deadlock
detection, because `LOCK_ORDER` is one order; in `RegisterRaces` only thanks to
the database's, because turnovers lock other passes' rows in no pass order.
The remaining modules assume no fairness: their verbs are called by people.

**What the runs show beyond a pass.** `CommitsAsIfAlone` is the strongest
statement about the register's races: what a writer commits is exactly what
`Register` says one writer alone makes of the rows committed before it, though
it read them statements earlier. `AnOverrunIsBounded` puts a number on a race
the code accepts: the allowance is counted in one transaction and the entry
recorded in another, so each *other* lane that asked in time, and each reply
lost, costs one entry over it, and no more.

## 4. What is proved

TLAPS proves the following for every value of the constants, from the named
assumptions of the module that declares them. Each theorem that states a
property of a run names it, and `PROJECT.json` pairs the two.

**The register** (`EnrolmentsProofs`): `TypeCorrect`, `OneCarOnePassHolds`,
`RevokedHoldsNothingHolds` (`Spec => []...`), `NoHoldGrowsHolds`,
`OnlyTheLastDayTurnsOverHolds` (action properties), and the refinement
`RowsImplementTheLedger`. Assumed: non-empty garage sets, `valid_to` a day or
`Forever`, a local day for every instant and garage.
The inductive invariant `IInv` adds to the three invariants that
`(reg, garage)` is a key, that every row's number is below `written`, and that
rows are only on created passes, and that nothing outlasts a stay
(`NothingOutlastsAStay`, which the proofs about racing writers start from: a
run-on is the one write that gives a row a later end, and it takes along every row
that still ends with the stay, since each of those stands where one it moves
stands). The keys are what lets a step be described row
by row: every write but `RegisterVehicle` is a *trim*, which maps each row to
the same row with its end or an earlier one, and a trim keeps every conjunct
but the revocation's day (`TrimIInv`). `RegisterVehicle` is a trim of the
holders followed by new rows on days no other row covers any longer. The
creation conjunct is what makes a revoked pass stay revoked: a pass is never
created twice.
The refinement maps the rows to the seats they hold and each verb to a step of
`CarDays`: the days a new registration covers are a claim of days free or
turned over, at every garage of its pass in one step, and every trim of a
pass's rows gives back days from the end of a hold, or nothing at all, which is
a stutter.

**The credentials** (`EnrolmentsProofs`): `CredentialsTypeCorrect`,
`CredentialsKeepOneCarOnePass`, `OneStayAnswersHolds`, `OneLinkOneCodeHolds`,
`OneWriterLeavesAStart` (invariants), `NewCodesHoldTheirStay`, `ReplacedCarsStayReplaced` (action
properties). Assumed besides the register's: "no car" is no car
(`NoCarAssumption`) and the desk is no link (`DeskAssumption`). `EnrolInv` adds
to the register's `IInv` that QRs and links are keyed by their ids, that a QR
that was redeemed or marked exit only has a car, and how links and QRs pair
(`Spending`: a QR made over a link spent it, no other QR did, and a spent link
made one).
The walk over a stay's days is a recursive function. That it is defined, and
that on every day of the walk the rows are still sound, the other passes' rows
are only shortened, the pass's own only run on, and the days behind it are held
at every garage, is shown by the least day on which it would fail
(`LeastNatural`), since an induction over data cannot be cited. The gaps are
read once and before the walk, so a run-on has to be shown to leave the days of
the gaps after it alone.
`OneStayAnswers` follows from the register: a QR enters on the days its car is
held, and a car is held by one pass.

**The lane** (`LaneProofs`): `TheStoreLacksOnlyWhatItCannotRead` and
`CheckedOutGuestsDriveOut`, the run's two invariants about the answer, for any
register and credentials their writers can reach, any terms, clocks and recorded
visits, and any set of systems. Assumed besides what the register and the
credentials assume: garages and recorded visits are finitely many, a garage
states its transient mode or does not, a visit is at a garage its pass names (the
schema's foreign key `visits_garage_of_pass`), a car without a plate is not the
name of the lane (`LaneAssumption`), the terms of a pass state the `valid_to` the
register knows (`TermsAssumption`), and a system carries zones of garages and
strands passes (`SystemsAssumption`). The invariant is the credentials'
(`EnrolInv`): nothing is assumed of what can be read. What is handed to the
engine is a sequence for each set of rows read, and `Lists` says what the engine
may rely on: every member once, none else. Hence each pass of a row is handed in
exactly once (`OnePassEach`), so nothing dangles and nothing is duplicated
(`NothingIsMissing`); a visit is without a clock only where the system does not
carry the zone of its garage (`OnlyALostClockIsMissing`); and the registrations
in force are exactly the rows covering the day (`TheRowsInForce`), which at an
entry are at most one, by one car on one pass. What is left is the evaluation of
that pass: the first check that fails is named (`WhatIsNamedFails`), so an entry
on it lacks its terms or a lost clock and nothing else (`WhatAnEntryLacks`). At
the exit of a guest who checked out, every row the day is run on for is of that
guest's pass, since two such stays of the car would have shared the day before;
so one pass is the candidate, however many rows of it are in force, and its
evaluation covers because every check either does not apply to an exit or is one
the hypothesis names.

**Plates at the lane** (`LaneProofs`): `OnlyASlipPasses`,
`ReadSpec => []OnlyASlipIsForgiven`, for any characters, separators, folds, plates
and number of slips. Assumed: folding twice is folding once and no separator is
a character (`FoldAssumption`). `PlateInv` says that the stored plate is its own
key (`TheKeyOfAKey`) and that a read that is not blank is the car's plate, in the
form a lane compares, while nothing slipped, and at most `OneAway` from it after
one slip. Everything a reader does is a character put in, left out, or left out
and another put in its place, so one lemma carries the steps: what is put into a
text is put into its key once and at a place of its own, or, a separator, not at
all (`KeyOfAnInsertion`). `plate_key` is a recursive function over the prefixes of
a text; that it is defined, and that the walks over a text and over the text with
one character more stay beside each other, is shown by the least prefix where
they would not (`LeastNatural`). `OneDifference` is that `within_one_difference`
answers `OneAway`: of two sequences, one longer by one, the walk stops at the first
place they differ, and the rest is the same from there exactly when one character
was put in somewhere at or before it.

**The races** (`RegisterRacesProofs`): `RacesKeepOneCarOnePass`,
`RacesLeaveARevokedPassEmpty` (invariants), `RacesTakeTheLastDayOnly`,
`AReportedStayIsCommitted` and `RacesCommitAsIfAlone` (action properties), for
any connections, calls, passes, garages and cars. Assumed: a revocation has an
instant and a hold a last day (`CallsAssumption`; `change_state` takes the one
and a QR is always issued with the other), and the starting rows are finitely
many, numbered below their count, and what one writer at a time leaves
(`StartsAssumption`). The last is not taken from the code but proved of it:
`LeftByOneWriter` says that every row has an id of its own and is at a garage its
pass names, that no two hold a car at a garage on one day, and that no row of a
stay's pass, car and first day ends after the stay's; `OneWriterLeavesAStart`
proves it of every register `Enrolments` reaches.

- *One car, one pass* trusts nothing a writer has read. `IInv` adds to the shape
  of the state (at most one version unlooked-up, and only in `check`) two facts
  about a version the EXCLUDE has looked up: `ClearOfTheCommitted` -- it clashes
  with no committed row its writer does not replace -- and `ClearOfEachOther`
  -- with no other looked-up version, another transaction's included. The second
  is what the wait on a row in progress buys: without it two writers that never
  see each other's rows both pass. A commit turns looked-up versions into
  committed rows, so the two add up to the property, and `Settle` is the only
  step that has to establish them.
- *A revoked pass holds nothing*: `RaceInv` says that two writers past the lock
  never work for one pass (`LocksApart`), so no row joins a pass while it is
  being revoked. Every version of its rows, another transaction's uncommitted
  turnover included, is still to be visited by the revocation or ends by its day
  already (`Clearing`); after it the only writes left on the pass are ends, none
  of them later (`Barred`), and what other passes' writers do to its rows takes
  days and gives none (`Trims`).
- *Only the last day turns over*: `TakeInv` says that a call writes another
  pass's row at most once (`OneWrite`: rows it wrote are over by the range it
  registers, so no later statement of it finds them as holders), that nobody
  else has a version of a row it has written (`MineApart`) and that an id being
  inserted is nobody's (`FreshPuts`). What a turnover or a release takes is
  judged on the row it matched (`ATrimTakesTheLastDay`), and that row is still
  the committed one when the call commits.
- *A reported stay is held*: `HeldInv` says of each day of the stay, at each
  garage of the pass, where it stands while the hold works: held when the rows
  were read, in a gap still to fill, in the range being registered, covered by a
  write still to make, or covered by a version the hold has written (`Served`).
  Every step moves a day on in that list. Two steps could lose one: a write that
  replaces a version written before -- the version it writes covers the same
  days and more -- and an UPDATE that matches no row -- a run-on's is `as_read`,
  so it refuses and rolls the hold back.
- *A commit is what one writer alone would have made*: `AloneInv` compares the
  versions a call has written with the committed rows as they are *now*: each is
  what the call makes of one of them, since nobody else writes that row before the
  call ends. What the call did not write is the harder half. A holder a register
  had not read would clash with a row it adds; a row a revocation passed over ends
  by that day already (`Clearing`). An end reads a last day and writes the rows that
  have it; a row of the same registration that ended later could be turned over
  meanwhile and end on that very day, and one writer alone would have ended it too.
  There is none: no row of a stay's pass, car and first day ends after the stay's
  (`StayEnds`). That is an invariant only because a write that gives a row a later
  end, a run-on, gives it to every row that still ends with the stay (`Abreast`),
  the rows being added are alike at every garage (`Whole`), and all other writes
  shorten a row and take the stay's reason off it (`Shrinks`): `KeptInv`.

**One QR** (`SpendsProofs`): `SpendsTypeCorrect`, `AllOfTheWritesOrNone`,
`ARevokedPassIsEmpty`, `OneCredentialOneSpend`, `RefusalsLeaveNoTrace`,
`OpeningsStand`, `AnswersAccumulate`, `RetriesAreRecognised`: every safety
property of the run, for any connections, QRs, passes, garages and calls.
Assumed: a start in which live bound QRs hold their cars and revoked passes
nothing (`StartAssumption`, `StartStands`), a plate for every issue and
replacement (`CallsAssumption`: `require_plate`), "no car" is no car
(`CarsAssumption`). The argument is the lock of the pass row. Everything a
transaction wrote is of one pass (`OnOnePass`) whose lock it holds from before
its first write to its end (`Stands`), the QR it is about is a QR of that pass
(`OnItsCode`), and no two transactions hold one lock (`LocksApart`). So what it
read under the lock is still committed when it commits; `TellsTheTruth` is that
of its answer. A refusal in the middle is undone because the savepoint that
stands is always one taken before the verb's first write (`CanGoBack`), also
where a replacement issues a QR inside its own savepoint. The rows of a fan-out
under way are accounted garage by garage, so that a commit, which comes with
none left, holds the car at all of them.

**The visit ledger** (`VisitsProofs`): `LedgerHoldsACarOnce`,
`LedgerKeepsGaragesApart`, `OverrunsAreBounded`, for any lanes, garages, cars,
allowance, instants and number of lost replies. `IInv` adds to `TypeOK` that an
uncommitted entry is of a key with no open row and of no other uncommitted
entry (`EntriesAreFresh`: the unique index), and that a lane with an exit to
write still knows a row of its own garage and of an earlier entry, whoever
rewrote its exit (`ExitsKnowTheirRow`). The bound on the overrun has an
invariant of its own: the rows, plus the lanes *entitled* to insert one because
they asked while the count allowed it, plus one, never exceed the allowance, the
lanes and the losses together; it needs at least one lane to exist.

**The garages** (`GaragesProofs`): `NoRepairIsLost`,
`Spec => []TheHistoryEndsAtTheRow`, and `StoredPassesCanBeUsed`,
`Spec => []AStoredPassCanBeUsed`, for any desks, garages and zones. `IInv`
adds that a repair under way is of a garage that stands, that an uncommitted
creation is of a garage that does not stand and that no other creation is
writing, and that every garage in the history stands. Hence no creation can
replace a repaired row; and a repair writes its one field on the row as
committed, so it disturbs no other field's last record. `PassInv` carries a
document that passed `check_terms` from the check to the row unchanged; the rest
is about `Terms` alone: a document without a contradiction has, for each of its
garages and windows, a lane, a day of its range on a weekday of the window and a
minute in it. The day is the hard part: a bounded range is searched day by day,
an unbounded one contains seven days in a row. Assumed: "no garage" is no garage
(`NoGarageAssumption`), documents state values of the right kind
(`DocumentsAssumption`, typed as `TermsStated`), and the movements asked about
include every minute, some lane, and the days of a bounded range or one week of
an unbounded one (`MovementsAssumption`: they are the inputs of the question, not
facts about the code).

**The access engine** (`AccessProofs`): `ExitsAreNeverRefused`, from no
assumption on what is handed in; and `AnswersAreAnswers`, `ReplacedCarsStayOut`,
`TheHolderLeavesOnAnyPass`, `AnEntryHasOneHolder`, `TheOrderDecidesNothing`,
`EntriesAreReadOnTheirOwnClock`, which assume that what is handed in are whole
sequences of passes with an id, a state and the fields of the value type,
instants that are numbers (`QuestionsAssumption`), that pass ids sort
(`PlaceAssumption`) and that "nothing" is none of the values (`NoneAssumption`).
The invariant is that the answer is the one to the question; the work is in
lemmas about `Answer`. Every branch that covers does so by evaluating one copy
of a pass the car is registered on (`AnswerCoversOnACandidate`), and an
evaluation that covers passed every check (`EvaluatedOnACandidate`). That a
failing answer reports a check that fails needs the first failing check to exist
(`LeastNatural`), and that an evaluated copy is one of those handed in needs the
first in the engine's order to exist (`FirstUnder`).
The last four compare two answers. A holder's pass alone, or a covered entry's
registration alone, asks the engine about that one candidate, with every check
on it unchanged (`ACandidateAlone`, `TheHolderAlone`); the ledger without the
entries of other days is the same ledger to every check
(`AnsweredAlikeOnItsOwnClock`). For the order, `AnsweredInAnyOrder` takes *any*
permutation of what is handed in: the counts, the candidates and the failing
checks are the same (by a bijection of places), the copy the engine evaluates
first differs at most by another that reads alike, and passes that read alike
fail alike at the same first check (`FirstFailsAlike`). That is where
`QuestionsAssumption` asks for `ReadAlike`: two copies of one pass whose
description is the same have the same terms. The code sorts on the description
(`terms.py: describe`), which joins lane names with commas; two passes whose lane
lists differ only by a comma inside a name would be told apart by nothing, and
are assumed away.

**Model-checked only.**

- Liveness: `EveryWriterFinishes` and `EveryCallEnds`. Liveness under fairness
  and `ENABLED` are out of the prover's reach.

## 5. What the documents say and the code does not keep

Three runs are violated, each by what the code does against a sentence of the
repository; the findings in `PROJECT.json` quote both.

1. `end_every_garage`: a stay of days 1 to 3 at two garages is turned over at
   garage 2 on its last day by another pass's registration, then ended by the
   owner on day 2. Only the row at garage 1 is ended; the one at garage 2 stands
   until 3, and the car is not free there on day 2. Were the turned-over row the
   first the query returns, the verb would refuse ALREADY_ENDED.
2. `end_stay_race`: `end_stay` updates by id the rows it read; a turnover
   committed in between is overwritten, its end moved or its reason replaced.
3. `blank_lane`: a redemption at a QR recognised by a near read, called with a
   blank lane, dies in a rollback to a savepoint it has released, and answers
   nothing.

More are stated in the modules and can be seen with a small change of a
configuration:

| formula | change | what it shows | against |
|---|---|---|---|
| `Enrolments!OnlyTheCheckoutDayTurnsOver` | `MCEnrolments.cfg` with `Instants = {1}`, `MaxRegistrations = 3`, as a PROPERTY | a stay held as two registrations can lose a day in its middle to another pass | CONTRACT.md:51 |
| `Enrolments!AfterItsLastDayACodeOpensNothing` | `MCEnrolments.cfg` with `Instants = {1}`, as an INVARIANT | a QR that reuses a longer registration opens after its own last day | CONTRACT.md:211, enrolments.py:405 |
| `Lane!TheStoreIsNeverInconsistent` | `MCLane.cfg` with `Instants = {1, 2}`, `StatesStated = {"active"}`, `LinkIds = {}`, as an INVARIANT | a car checked out, registered again from that day on the same pass and checked out again has an empty row and a row both ending today; both are run to the end of the day at an exit, and the answer names an inconsistency the store has not | access.py:644, store/access.py:67 |
| `Visits!AClosedVisitStaysClosed` | `MCVisits.cfg` without its SYMMETRY, as a PROPERTY | two lanes that read one open visit both write its exit; the second replaces the first | records.py:1472, CONTRACT.md:238 |
| `Garages!TheHistoryIsAChain` | `MCGarages.cfg`, as an INVARIANT | of two repairs that race, the second records the old value it read, not the one it replaced | CONTRACT.md:31 (G12), records.py:248 |

And these were met while modelling, without a formula here:
`end_registration` bounds an end by the start and not by the pass's `valid_to`
(records.py:1010); a pass that lost its car at one garage to a turnover refuses
to reissue it there, naming itself as the holder at the others
(enrolments.py:533); where two revoked passes ended alike, the pass an answer
names depends on the order they were handed in (access.py:452), though what the
lane does with it does not (`TheSameOutcomeInAnyOrder`).

## 6. Not modelled

- **Documents, findings, the contract's text.** Parsing and wording: no state.
  Which of several refusals of `check_terms` is named first is left out too.
- **Local days.** `day_of`, `minute_of_day` and `local` are calls into the
  platform's timezone database. Modules take an instant's day and minute at a
  garage as constants, chosen so that one instant is two days; `Garages` models
  a zone the running system does not carry, and `Lane` the answers of a system
  that lacks one.
- **Tenancy, roles, row-level security.** PostgreSQL policies and catalogue
  queries, external to the program's control. Every module is one tenant.
- **Migrations' data changes.** One-off re-keying of text and table rebuilds;
  the constraints they leave are in the modules that rely on them.
- **Test and contract tooling** (`src/scripts/`, `src/tests/`).
- **Parts of modelled components.** `answer_on_the_stays_last_day`, the second
  reading for a QR on its last day, and the instant of a replacement are not in
  `Lane`; visits are constant there and written in `Visits`. What a system can
  read is chosen there when the question is asked, and does not change between
  the writes: for the writers the readable garages are a constant (`Readable`)
  and every pass's terms are read. Holder links are
  redeemed one at a time only (`Enrolments`). `exit_on_unreadable_records` is a
  constant answer. A token whose command dies after the commit and before the
  print leaves a live QR nobody has, which nothing in the store tells from
  another.
