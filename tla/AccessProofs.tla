---------------------------- MODULE AccessProofs ----------------------------
(***************************************************************************)
(* What holds of the access answer for every question that can be asked:   *)
(* any garage, passes, registrations and visits, in any number and order.  *)
(***************************************************************************)
EXTENDS AccessAnswers, FiniteOrders, FunctionTheorems

(* What an answer to an exit may be: one that lets the lane decide.        *)
LetsTheLaneDecide(a) ==
    /\ {"outcome", "missing", "means"} \subseteq DOMAIN a
    /\ a.outcome \in {"covered", "not_covered"}
    /\ a.missing = None
    /\ a.outcome = "not_covered" => a.means = "EXIT_OUT_OF_TERMS"

-----------------------------------------------------------------------------
(* The three answers an exit is given, and what is said on top of one.     *)

LEMMA CoveredLetsTheLaneDecide ==
    ASSUME NEW p, NEW unmeasured
    PROVE  LetsTheLaneDecide(Covered(p, unmeasured))
BY DEF Covered, LetsTheLaneDecide

LEMMA NotCoveredLetsTheLaneDecide ==
    ASSUME NEW q, NEW reason, NEW p, IsExit(q)
    PROVE  LetsTheLaneDecide(NotCovered(q, reason, p))
BY DEF NotCovered, LetsTheLaneDecide

LEMMA NamingChangesNoAnswer ==
    ASSUME NEW a, LetsTheLaneDecide(a)
    PROVE  LetsTheLaneDecide(NamingInconsistency(a))
BY DEF NamingInconsistency, LetsTheLaneDecide

-----------------------------------------------------------------------------
(* One pass *)

(* Check k is the first that the pass fails.                               *)
FirstFailure(q, p, k) ==
    Fails(q, p, CHECKS[k]) /\ \A j \in 1..(k - 1) : ~Fails(q, p, CHECKS[j])

LEMMA ThirteenChecks ==
    /\ DOMAIN CHECKS = 1..13
    /\ \A j, k \in 1..13 : CHECKS[j] = CHECKS[k] => j = k
BY DEF CHECKS

(* The check a pass is said to fail is the first it fails, one of them.    *)
LEMMA TheFailedCheckFails ==
    ASSUME NEW q, NEW p, ~Passed(q, p)
    PROVE  /\ Fails(q, p, FailedCheck(q, p))
           /\ \E k \in DOMAIN CHECKS : FailedCheck(q, p) = CHECKS[k] /\ FirstFailure(q, p, k)
<1> DEFINE S == { k \in 1..13 : Fails(q, p, CHECKS[k]) }
<1>1. DOMAIN CHECKS = 1..13
    BY ThirteenChecks
<1>2. S # {}
    BY <1>1 DEF Passed
<1>3. PICK k \in S : \A j \in S : k <= j
    BY <1>2, LeastNatural
<1>4. \A j \in 1..(k - 1) : j \in 1..13 /\ ~(k <= j)
    BY <1>3
<1>5. FirstFailure(q, p, k)
    BY <1>3, <1>4 DEF FirstFailure
<1>6. FailedCheck(q, p) = CHECKS[CHOOSE m \in DOMAIN CHECKS : FirstFailure(q, p, m)]
    BY DEF FailedCheck, FirstFailure
<1>7. FirstFailure(q, p, CHOOSE m \in DOMAIN CHECKS : FirstFailure(q, p, m))
    BY <1>1, <1>3, <1>5
<1> QED
    BY <1>1, <1>3, <1>5, <1>6, <1>7 DEF FirstFailure

LEMMA OneFirstFailure ==
    ASSUME NEW q, NEW p, NEW j \in 1..13, NEW k \in 1..13,
           FirstFailure(q, p, j), FirstFailure(q, p, k)
    PROVE  j = k
<1>1. ~(j < k)
    BY DEF FirstFailure
<1>2. ~(k < j)
    BY DEF FirstFailure
<1> QED
    BY <1>1, <1>2

(* No entry is read on a clock at an exit, so none lacks one.              *)
LEMMA AnExitNeedsNoClock ==
    ASSUME NEW q, NEW p, IsExit(q)
    PROVE  ~Fails(q, p, "NO_CLOCK")
BY DEF Fails, Unclocked, Counts

LEMMA EvaluateLetsTheLaneDecide ==
    ASSUME NEW q, NEW p, IsExit(q)
    PROVE  LetsTheLaneDecide(Evaluate(q, p))
<1>1. CASE Passed(q, p)
    BY <1>1, CoveredLetsTheLaneDecide DEF Evaluate
<1>2. CASE ~Passed(q, p)
  <2>1. FailedCheck(q, p) # "NO_CLOCK"
      BY <1>2, TheFailedCheckFails, AnExitNeedsNoClock
  <2>2. Evaluate(q, p) = NotCovered(q, FailedCheck(q, p), p.id)
      BY <1>2, <2>1 DEF Evaluate
  <2> QED
      BY <2>2, NotCoveredLetsTheLaneDecide
<1> QED
    BY <1>1, <1>2

-----------------------------------------------------------------------------
(* The whole answer *)

LEMMA EveryCopyLetsTheLaneDecide ==
    ASSUME NEW q, IsExit(q)
    PROVE  LetsTheLaneDecide(EveryCopy(q))
BY EvaluateLetsTheLaneDecide, NotCoveredLetsTheLaneDecide, NamingChangesNoAnswer DEF EveryCopy

LEMMA NobodyHoldsLetsTheLaneDecide ==
    ASSUME NEW q, IsExit(q)
    PROVE  LetsTheLaneDecide(NobodyHolds(q))
BY NotCoveredLetsTheLaneDecide DEF NobodyHolds

LEMMA OfTheRegistrationsLetsTheLaneDecide ==
    ASSUME NEW q, IsExit(q)
    PROVE  LetsTheLaneDecide(OfTheRegistrations(q))
BY EvaluateLetsTheLaneDecide, EveryCopyLetsTheLaneDecide, NobodyHoldsLetsTheLaneDecide,
   NotCoveredLetsTheLaneDecide, NamingChangesNoAnswer
   DEF OfTheRegistrations

LEMMA AnswerLetsTheLaneDecide ==
    ASSUME NEW q, IsExit(q)
    PROVE  LetsTheLaneDecide(Answer(q))
BY OfTheRegistrationsLetsTheLaneDecide, NotCoveredLetsTheLaneDecide DEF Answer, Unanswerable

-----------------------------------------------------------------------------
(* The pass an answer is covered on *)

(* The order of _copy_order is total and transitive, ties or none.         *)
LEMMA InOrderOrders ==
    ASSUME NEW q, IsQuestion(q)
    PROVE  LET Before(i, j) == InOrder(q.passes[i], q.passes[j])
           IN  /\ \A i, j \in DOMAIN q.passes : Before(i, j) \/ Before(j, i)
               /\ \A i, j, k \in DOMAIN q.passes :
                    Before(i, j) /\ Before(j, k) => Before(i, k)
<1>1. \A i \in DOMAIN q.passes :
        /\ StateRank(q.passes[i].state) \in Int
        /\ q.passes[i].state = StateValues[StateRank(q.passes[i].state)]
    BY DEF IsQuestion, IsPass, StateRank, StateValues
<1>2. \A i, j \in DOMAIN q.passes :
        StateRank(q.passes[i].state) = StateRank(q.passes[j].state)
        => q.passes[i].state = q.passes[j].state
    BY <1>1
<1>3. \A i \in DOMAIN q.passes :
        /\ Place[q.passes[i].id] \in Int /\ q.passes[i].text \in Int
        /\ q.passes[i].readable \in BOOLEAN
    BY PlaceAssumption DEF IsQuestion, IsPass
<1>4. \A i, j \in DOMAIN q.passes :
        Place[q.passes[i].id] = Place[q.passes[j].id] <=> q.passes[i].id = q.passes[j].id
    BY PlaceAssumption DEF IsQuestion, IsPass
<1> QED
    BY <1>1, <1>2, <1>3, <1>4 DEF InOrder

LEMMA FirstOfIsTheFirst ==
    ASSUME NEW q, IsQuestion(q), NEW S, S \subseteq DOMAIN q.passes, S # {}
    PROVE  \E k \in S : /\ FirstOf(q, S) = q.passes[k]
                        /\ \A j \in S : InOrder(q.passes[k], q.passes[j])
<1> DEFINE Before(i, j) == InOrder(q.passes[i], q.passes[j])
           R == { ss \in S \X S : Before(ss[1], ss[2]) }
<1>1. IsFiniteSet(S)
  <2>1. Len(q.passes) \in Nat /\ DOMAIN q.passes = 1..Len(q.passes)
      BY DEF IsQuestion, IsSequence
  <2>2. IsFiniteSet(DOMAIN q.passes)
      BY <2>1, FS_Interval
  <2> QED
      BY <2>2, FS_Subset
<1>2. \A i, j \in S : <<i, j>> \in R <=> Before(i, j)
    OBVIOUS
<1>3. /\ \A i, j \in S : Before(i, j) \/ Before(j, i)
      /\ \A i, j, k \in S : Before(i, j) /\ Before(j, k) => Before(i, k)
    BY InOrderOrders
<1> HIDE DEF R, Before
<1>4. \A i, j \in S : <<i, j>> \in R \/ <<j, i>> \in R
    BY <1>2, <1>3, Zenon
<1>5. \A i, j, k \in S : <<i, j>> \in R /\ <<j, k>> \in R => <<i, k>> \in R
    BY <1>2, <1>3, Zenon
<1>6. PICK k \in S : \A j \in S : <<k, j>> \in R
    BY <1>1, <1>4, <1>5, FirstUnder, Zenon
<1>7. \A j \in S : Before(k, j)
    BY <1>2, <1>6
<1> QED
    BY <1>7 DEF FirstOf, Before

LEMMA FirstOfIsOneOfThem ==
    ASSUME NEW q, IsQuestion(q), NEW S, S \subseteq DOMAIN q.passes, S # {}
    PROVE  \E k \in S : FirstOf(q, S) = q.passes[k]
BY FirstOfIsTheFirst

(* Every pass that holds the car is a candidate, and each candidate holds  *)
(* it: the registrations of the car on it that are in force are effective. *)
LEMMA CandidatesHoldTheCar ==
    ASSUME NEW q, IsQuestion(q)
    PROVE  /\ Candidates(q) \subseteq DOMAIN q.passes
           /\ Effective(q) # {} => Candidates(q) # {}
           /\ \A k \in Candidates(q), r \in Matching(q) :
                InForce(q, q.registrations[r]) /\ q.registrations[r].pass = q.passes[k].id
                => r \in Effective(q)
<1>1. \A id : Copies(q, id) \subseteq DOMAIN q.passes /\ Selected(q, id) \subseteq Copies(q, id)
    BY DEF Copies, Selected
<1>2. \A id : Duplicated(q, id) => Copies(q, id) # {}
    BY DEF Duplicated
<1>3. \A k \in Candidates(q) :
        /\ k \in DOMAIN q.passes
        /\ Duplicated(q, q.passes[k].id) \/ Selected(q, q.passes[k].id) # {}
  <2> SUFFICES ASSUME NEW r \in Effective(q),
                      NEW k \in IF Duplicated(q, q.registrations[r].pass)
                               THEN Copies(q, q.registrations[r].pass)
                               ELSE Selected(q, q.registrations[r].pass)
               PROVE  /\ k \in DOMAIN q.passes
                      /\ Duplicated(q, q.passes[k].id) \/ Selected(q, q.passes[k].id) # {}
      BY DEF Candidates
  <2>1. k \in Copies(q, q.registrations[r].pass)
      BY <1>1
  <2>2. q.passes[k].id = q.registrations[r].pass
      BY <2>1 DEF Copies
  <2> QED
      BY <1>1, <2>1, <2>2
<1>4. ASSUME Effective(q) # {} PROVE Candidates(q) # {}
  <2>1. PICK r \in Effective(q) : TRUE
      BY <1>4
  <2>2. \/ Duplicated(q, q.registrations[r].pass)
        \/ Selected(q, q.registrations[r].pass) # {}
      BY <2>1 DEF Effective, Here
  <2> QED
      BY <1>2, <2>1, <2>2 DEF Candidates
<1> QED
    BY <1>3, <1>4 DEF Effective, Here

LEMMA EvaluateCoversWhatPassed ==
    ASSUME NEW q, NEW p, Evaluate(q, p).outcome = "covered"
    PROVE  Passed(q, p) /\ Evaluate(q, p).pass = p.id
BY DEF Evaluate, Covered, NotCovered, Refused

(* What an answer is covered on: a candidate that passes every check.      *)
CoveredByACandidate(q, a) ==
    a.outcome = "covered" =>
        \E k \in Candidates(q) : Passed(q, q.passes[k]) /\ a.pass = q.passes[k].id

LEMMA EvaluatedOnACandidate ==
    ASSUME NEW q, IsQuestion(q), NEW S, S \subseteq Candidates(q), S # {}
    PROVE  CoveredByACandidate(q, Evaluate(q, FirstOf(q, S)))
<1>1. PICK k \in S : FirstOf(q, S) = q.passes[k]
    BY FirstOfIsOneOfThem, CandidatesHoldTheCar
<1> QED
    BY <1>1, EvaluateCoversWhatPassed DEF CoveredByACandidate

LEMMA NotCoveredIsNotCovered ==
    ASSUME NEW q, NEW reason, NEW p
    PROVE  NotCovered(q, reason, p).outcome # "covered"
BY DEF NotCovered

LEMMA RefusedIsNotCovered ==
    ASSUME NEW missing, NEW p
    PROVE  Refused(missing, p).outcome # "covered"
BY DEF Refused

LEMMA AnswersNameTheirPass ==
    ASSUME NEW q, NEW p
    PROVE  {"outcome", "pass"} \subseteq DOMAIN Evaluate(q, p)
BY DEF Evaluate, Covered, NotCovered, Refused

LEMMA NamingKeepsThePass ==
    ASSUME NEW a, {"outcome", "pass"} \subseteq DOMAIN a
    PROVE  /\ NamingInconsistency(a).outcome = a.outcome
           /\ NamingInconsistency(a).pass = a.pass
BY DEF NamingInconsistency

LEMMA EveryCopyCoversOnACandidate ==
    ASSUME NEW q, IsQuestion(q), Effective(q) # {}
    PROVE  CoveredByACandidate(q, EveryCopy(q))
<1> DEFINE covering ==
        { k \in Candidates(q) : Evaluate(q, q.passes[k]).outcome = "covered" }
<1>1. CASE covering # {}
  <2>1. EveryCopy(q) = NamingInconsistency(Evaluate(q, FirstOf(q, covering)))
      BY <1>1 DEF EveryCopy
  <2>2. CoveredByACandidate(q, Evaluate(q, FirstOf(q, covering)))
      BY <1>1, EvaluatedOnACandidate
  <2> QED
      BY <2>1, <2>2, NamingKeepsThePass, AnswersNameTheirPass DEF CoveredByACandidate
<1>2. CASE covering = {} /\ DuplicatedInForce(q) # {} /\ Cardinality(Effective(q)) = 1
                         /\ Dangling(q) = {}
  <2>1. EveryCopy(q) = NamingInconsistency(NotCovered(q, "PASS_DUPLICATED", None))
      BY <1>2 DEF EveryCopy
  <2>2. EveryCopy(q).outcome = "not_covered"
      BY <2>1 DEF NamingInconsistency, NotCovered
  <2> QED
      BY <2>2 DEF CoveredByACandidate
<1>3. CASE covering = {} /\ ~(/\ DuplicatedInForce(q) # {} /\ Cardinality(Effective(q)) = 1
                              /\ Dangling(q) = {})
  <2>1. EveryCopy(q) = NamingInconsistency(Evaluate(q, FirstOf(q, Candidates(q))))
      BY <1>3 DEF EveryCopy
  <2>2. CoveredByACandidate(q, Evaluate(q, FirstOf(q, Candidates(q))))
      BY EvaluatedOnACandidate, CandidatesHoldTheCar
  <2> QED
      BY <2>1, <2>2, NamingKeepsThePass, AnswersNameTheirPass DEF CoveredByACandidate
<1> QED
    BY <1>1, <1>2, <1>3

LEMMA AnswerCoversOnACandidate ==
    ASSUME NEW q, IsQuestion(q)
    PROVE  CoveredByACandidate(q, Answer(q))
<1>1. ASSUME NEW reason, NEW missing
      PROVE  CoveredByACandidate(q, Unanswerable(q, reason, missing))
    BY NotCoveredIsNotCovered, RefusedIsNotCovered DEF CoveredByACandidate, Unanswerable
<1>2. CoveredByACandidate(q, NobodyHolds(q))
    BY NotCoveredIsNotCovered DEF CoveredByACandidate, NobodyHolds
<1>3. CoveredByACandidate(q, NamingInconsistency(NotCovered(q, "PASS_NOT_HANDED_IN", None)))
    BY DEF CoveredByACandidate, NamingInconsistency, NotCovered
<1>4. ASSUME NEW missing PROVE CoveredByACandidate(q, Refused(missing, None))
    BY RefusedIsNotCovered DEF CoveredByACandidate
<1>5. CoveredByACandidate(q, OfTheRegistrations(q))
  <2>1. ASSUME Effective(q) # {}
        PROVE  /\ CoveredByACandidate(q, Evaluate(q, FirstOf(q, Candidates(q))))
               /\ CoveredByACandidate(q, EveryCopy(q))
      BY <2>1, EvaluatedOnACandidate, EveryCopyCoversOnACandidate, CandidatesHoldTheCar
  <2> QED
      BY <1>2, <1>3, <1>4, <2>1 DEF OfTheRegistrations
<1> QED
    BY <1>1, <1>4, <1>5 DEF Answer

-----------------------------------------------------------------------------
(* A replaced car *)

(* The instant of a replacement is that of one of the registrations, and   *)
(* it is not known only where none of them has one.                        *)
LEMMA ReplacedAtIsOneOfThem ==
    ASSUME NEW q, IsQuestion(q), NEW id
    PROVE  \/ /\ \A k \in ReplacementsOf(q, id) : q.registrations[k].exitOnlyAt = None
              /\ ReplacedAt(q, id) = None
           \/ /\ ReplacedAt(q, id) \in Int /\ ReplacedAt(q, id) # None
              /\ \E k \in ReplacementsOf(q, id) :
                    q.registrations[k].exitOnlyAt = ReplacedAt(q, id)
<1> DEFINE at == { q.registrations[k].exitOnlyAt : k \in ReplacementsOf(q, id) }
           known == at \ {None}
<1>1. ReplacementsOf(q, id) \subseteq DOMAIN q.registrations
    BY DEF ReplacementsOf, Effective, Here, Matching
<1>2. CASE known = {}
    BY <1>2 DEF ReplacedAt
<1>3. CASE known # {}
  <2>1. known \subseteq Int
      BY <1>1 DEF IsQuestion, IsInstant
  <2>2. IsFiniteSet(known)
    <3>1. Len(q.registrations) \in Nat /\ DOMAIN q.registrations = 1..Len(q.registrations)
        BY DEF IsQuestion, IsSequence
    <3>2. IsFiniteSet(DOMAIN q.registrations)
        BY <3>1, FS_Interval
    <3>3. IsFiniteSet(ReplacementsOf(q, id))
        BY <1>1, <3>2, FS_Subset
    <3>4. IsFiniteSet(at)
      <4> DEFINE f == [k \in ReplacementsOf(q, id) |-> q.registrations[k].exitOnlyAt]
      <4>1. f \in Surjection(ReplacementsOf(q, id), at)
          BY DEF Surjection
      <4> QED
          BY <3>3, <4>1, FS_Surjection
    <3> QED
        BY <3>4, FS_Subset
  <2>3. \E x \in known : \A y \in known : y <= x
      BY <1>3, <2>1, <2>2, LargestInteger
  <2>4. Largest(known) \in known
      BY <2>3 DEF Largest
  <2>5. ReplacedAt(q, id) = Largest(known)
      BY <1>3 DEF ReplacedAt
  <2> QED
      BY <2>1, <2>4, <2>5
<1> QED
    BY <1>2, <1>3

(* What a pass that covers an answer says of the cars replaced on it.      *)
LEMMA PassedIsNotExitOnly ==
    ASSUME NEW q, NEW p, Passed(q, p), ReplacementsOf(q, p.id) # {}
    PROVE  IsExit(q) /\ ~EnteredAfterReplacement(q, p.id)
<1>1. 7 \in DOMAIN CHECKS /\ CHECKS[7] = "EXIT_ONLY"
    BY DEF CHECKS
<1>2. ~Fails(q, p, "EXIT_ONLY")
    BY <1>1 DEF Passed
<1> QED
    BY <1>2 DEF Fails

(* The registrations on the answer's pass the car was replaced by, as      *)
(* AReplacedCarIsOver reads them from the question.                        *)
ReplacedOn(q, id) ==
    { r \in { q.registrations[k] : k \in DOMAIN q.registrations } :
        /\ r.exitOnly /\ r.pass = id /\ InForce(q, r)
        /\ Key[r.identity] = Key[q.identity] }

LEMMA ReplacedOnACandidate ==
    ASSUME NEW q, IsQuestion(q), NEW k \in Candidates(q)
    PROVE  LET id == q.passes[k].id
           IN  ReplacedOn(q, id) = { q.registrations[m] : m \in ReplacementsOf(q, id) }
<1> DEFINE id == q.passes[k].id
<1>1. ASSUME NEW m \in DOMAIN q.registrations, q.registrations[m].exitOnly,
             q.registrations[m].pass = id, InForce(q, q.registrations[m]),
             Key[q.registrations[m].identity] = Key[q.identity]
      PROVE  m \in ReplacementsOf(q, id)
  <2>1. m \in Matching(q)
      BY <1>1 DEF Matching
  <2>2. m \in Effective(q)
      BY <1>1, <2>1, CandidatesHoldTheCar
  <2> QED
      BY <1>1, <2>2 DEF ReplacementsOf
<1>2. ASSUME NEW m \in ReplacementsOf(q, id)
      PROVE  /\ m \in DOMAIN q.registrations
             /\ q.registrations[m].exitOnly /\ q.registrations[m].pass = id
             /\ InForce(q, q.registrations[m])
             /\ Key[q.registrations[m].identity] = Key[q.identity]
    BY DEF ReplacementsOf, Effective, Here, Matching
<1> QED
    BY <1>1, <1>2 DEF ReplacedOn

LEMMA AnswerKeepsAReplacedCarOut ==
    ASSUME NEW q, IsQuestion(q), Answer(q).outcome = "covered",
           ReplacedOn(q, Answer(q).pass) # {}
    PROVE  /\ IsExit(q)
           /\ \/ q.enteredAt = None
              \/ \A r \in ReplacedOn(q, Answer(q).pass) : r.exitOnlyAt = None
              \/ \E r \in ReplacedOn(q, Answer(q).pass) :
                    r.exitOnlyAt # None /\ q.enteredAt < r.exitOnlyAt
<1>1. PICK k \in Candidates(q) :
        Passed(q, q.passes[k]) /\ Answer(q).pass = q.passes[k].id
    BY AnswerCoversOnACandidate DEF CoveredByACandidate
<1> DEFINE id == q.passes[k].id
<1>2. ReplacedOn(q, Answer(q).pass) = { q.registrations[m] : m \in ReplacementsOf(q, id) }
    BY <1>1, ReplacedOnACandidate
<1>3. ReplacementsOf(q, id) # {}
    BY <1>2
<1>4. IsExit(q) /\ ~EnteredAfterReplacement(q, id)
    BY <1>1, <1>3, PassedIsNotExitOnly
<1>5. CASE \A m \in ReplacementsOf(q, id) : q.registrations[m].exitOnlyAt = None
    BY <1>2, <1>4, <1>5
<1>6. ASSUME NEW m \in ReplacementsOf(q, id),
             q.registrations[m].exitOnlyAt = ReplacedAt(q, id),
             ReplacedAt(q, id) \in Int, ReplacedAt(q, id) # None, q.enteredAt # None
      PROVE  q.enteredAt < q.registrations[m].exitOnlyAt
    BY <1>4, <1>6 DEF EnteredAfterReplacement, IsQuestion, IsInstant
<1> QED
    BY <1>2, <1>4, <1>5, <1>6, ReplacedAtIsOneOfThem

-----------------------------------------------------------------------------
(* Every answer the contract publishes, and no other                       *)

Complete(a) == {"outcome", "missing", "reason", "pass"} \subseteq DOMAIN a /\ IsAnswer(a)

LEMMA NotCoveredIsAnAnswer ==
    ASSUME NEW q, NEW reason \in NOT_COVERED_REASONS, NEW p
    PROVE  Complete(NotCovered(q, reason, p))
BY NoneAssumption DEF NotCovered, Complete, IsAnswer

LEMMA RefusedIsAnAnswer ==
    ASSUME NEW missing \in REFUSED_TO_ANSWER, NEW p
    PROVE  Complete(Refused(missing, p))
BY NoneAssumption DEF Refused, Complete, IsAnswer

LEMMA CoveredIsAnAnswer ==
    ASSUME NEW p \in DOMAIN Place, NEW unmeasured
    PROVE  Complete(Covered(p, unmeasured))
BY NoneAssumption DEF Covered, Complete, IsAnswer

LEMMA NamingIsAnAnswer ==
    ASSUME NEW a, Complete(a)
    PROVE  Complete(NamingInconsistency(a))
BY DEF NamingInconsistency, Complete, IsAnswer

(* An entry refused for its clock lacks one for a named reason.            *)
LEMMA TheClockIsMissing ==
    ASSUME NEW q, IsQuestion(q), NEW p, Fails(q, p, "NO_CLOCK")
    PROVE  NoClock(q, q.visits[Least(Unclocked(q, p))].garage) \in REFUSED_TO_ANSWER
<1>1. Unclocked(q, p) # {}
    BY DEF Fails
<1>2. Unclocked(q, p) \subseteq Nat
    BY DEF Unclocked, OnPass, IsQuestion, IsSequence
<1>3. \E x \in Unclocked(q, p) : \A y \in Unclocked(q, p) : x <= y
    BY <1>1, <1>2, LeastNatural
<1>4. Least(Unclocked(q, p)) \in Unclocked(q, p)
    BY <1>3 DEF Least
<1>5. NoClock(q, q.visits[Least(Unclocked(q, p))].garage) # None
    BY <1>1, <1>4 DEF Unclocked
<1> QED
    BY <1>5 DEF NoClock, REFUSED_TO_ANSWER

LEMMA EvaluateIsAnAnswer ==
    ASSUME NEW q, IsQuestion(q), NEW k \in DOMAIN q.passes
    PROVE  Complete(Evaluate(q, q.passes[k]))
<1> DEFINE p == q.passes[k]
           check == FailedCheck(q, p)
<1>1. CASE Passed(q, p)
  <2>1. p.id \in DOMAIN Place
      BY DEF IsQuestion, IsPass
  <2> QED
      BY <1>1, <2>1, CoveredIsAnAnswer DEF Evaluate
<1>2. CASE ~Passed(q, p) /\ check = "NO_CLOCK"
  <2>1. Fails(q, p, "NO_CLOCK")
      BY <1>2, TheFailedCheckFails
  <2> QED
      BY <1>2, <2>1, TheClockIsMissing, RefusedIsAnAnswer DEF Evaluate
<1>3. CASE ~Passed(q, p) /\ check # "NO_CLOCK"
  <2>1. check \in NOT_COVERED_REASONS
      BY <1>3, TheFailedCheckFails DEF NOT_COVERED_REASONS
  <2>2. "UNREADABLE_TERMS" \in REFUSED_TO_ANSWER
      BY DEF REFUSED_TO_ANSWER
  <2> QED
      BY <1>3, <2>1, <2>2, NotCoveredIsAnAnswer, RefusedIsAnAnswer DEF Evaluate
<1> QED
    BY <1>1, <1>2, <1>3

LEMMA EveryReasonIsPublished ==
    /\ {"GARAGE_UNREADABLE", "BLANK_IDENTITY", "BLANK_LANE", "PASS_NOT_HANDED_IN",
        "PASS_DUPLICATED", "NO_PASS", "REVOKED"} \subseteq NOT_COVERED_REASONS
    /\ {"MISSING_TIMEZONE", "MISSING_VEHICLE_IDENTITY", "MISSING_LANE", "MISSING_TRANSIENT_MODE",
        "MISSING_PASS_HANDED_IN", "DUPLICATED_PASS_ID", "MISSING_ONE_PASS"}
            \subseteq REFUSED_TO_ANSWER
<1>1. 1 \in DOMAIN CHECKS /\ CHECKS[1] = "REVOKED"
    BY DEF CHECKS
<1> QED
    BY <1>1 DEF NOT_COVERED_REASONS, REFUSED_TO_ANSWER

LEMMA AnswerIsAnAnswer ==
    ASSUME NEW q, IsQuestion(q)
    PROVE  Complete(Answer(q))
<1>1. ASSUME NEW S, S \subseteq Candidates(q), S # {}
      PROVE  Complete(Evaluate(q, FirstOf(q, S)))
  <2>1. S \subseteq DOMAIN q.passes
      BY <1>1, CandidatesHoldTheCar
  <2>2. PICK k \in S : FirstOf(q, S) = q.passes[k]
      BY <1>1, <2>1, FirstOfIsOneOfThem
  <2> QED
      BY <2>1, <2>2, EvaluateIsAnAnswer
<1>2. ASSUME NEW reason \in NOT_COVERED_REASONS, NEW missing \in REFUSED_TO_ANSWER
      PROVE  Complete(Unanswerable(q, reason, missing))
    BY NotCoveredIsAnAnswer, RefusedIsAnAnswer DEF Unanswerable
<1>3. Complete(NobodyHolds(q))
    BY NotCoveredIsAnAnswer, EveryReasonIsPublished DEF NobodyHolds
<1>4. ASSUME Effective(q) # {} PROVE Complete(EveryCopy(q))
  <2> DEFINE covering ==
          { k \in Candidates(q) : Evaluate(q, q.passes[k]).outcome = "covered" }
  <2>1. covering # {} => Complete(Evaluate(q, FirstOf(q, covering)))
      BY <1>1
  <2>2. Complete(Evaluate(q, FirstOf(q, Candidates(q))))
      BY <1>1, <1>4, CandidatesHoldTheCar
  <2>3. Complete(NotCovered(q, "PASS_DUPLICATED", None))
      BY NotCoveredIsAnAnswer, EveryReasonIsPublished
  <2> QED
      BY <2>1, <2>2, <2>3, NamingIsAnAnswer DEF EveryCopy
<1>5. Complete(OfTheRegistrations(q))
  <2>1. Effective(q) # {} => Complete(Evaluate(q, FirstOf(q, Candidates(q))))
      BY <1>1, CandidatesHoldTheCar
  <2>2. Complete(NamingInconsistency(NotCovered(q, "PASS_NOT_HANDED_IN", None)))
      BY NotCoveredIsAnAnswer, NamingIsAnAnswer, EveryReasonIsPublished
  <2>3. \A missing \in REFUSED_TO_ANSWER : Complete(Refused(missing, None))
      BY RefusedIsAnAnswer
  <2> QED
      BY <1>3, <1>4, <2>1, <2>2, <2>3, EveryReasonIsPublished DEF OfTheRegistrations
<1> QED
    BY <1>2, <1>5, RefusedIsAnAnswer, EveryReasonIsPublished DEF Answer

-----------------------------------------------------------------------------
(* The call *)

(* The question does not change, so what holds of every answer holds.      *)
AskedWhatIsAsked == question \in Questions /\ (Answered => answer = Answer(question))

LEMMA TheAnswerAnswersTheQuestion == AnswersSpec => []AskedWhatIsAsked
<1>1. AnswersInit => AskedWhatIsAsked
    BY DEF AnswersInit, AskedWhatIsAsked, Answered, NoAnswer
<1>2. AskedWhatIsAsked /\ [Ask]_answerVars => AskedWhatIsAsked'
    BY DEF AskedWhatIsAsked, Ask, answerVars, Answered
<1> QED
    BY <1>1, <1>2, PTL DEF AnswersSpec

(* An exit is never refused: whatever is asked, and whatever is handed in  *)
(* with it, access() answers an exit covered or out of terms and nothing   *)
(* else.  (No assumption on the questions is used.)                        *)
THEOREM ExitsAreNeverRefused == AnswersSpec => []ExitIsNeverRefused
<1>1. AskedWhatIsAsked => ExitIsNeverRefused
    BY AnswerLetsTheLaneDecide DEF AskedWhatIsAsked, ExitIsNeverRefused, LetsTheLaneDecide
<1> QED
    BY <1>1, TheAnswerAnswersTheQuestion, PTL

(* Every answer is one of the three outcomes, with a reason or a missing   *)
(* field the contract publishes for that outcome, and a covered one names  *)
(* its pass.                                                               *)
THEOREM AnswersAreAnswers == AnswersSpec => []AnswersTypeOK
<1>1. AskedWhatIsAsked => AnswersTypeOK
    BY AnswerIsAnAnswer, QuestionsAssumption DEF AskedWhatIsAsked, AnswersTypeOK, Complete
<1> QED
    BY <1>1, TheAnswerAnswersTheQuestion, PTL

(* A car replaced on a pass never enters on it, and leaves on it only for  *)
(* a stay not known to have begun after the replacement.                   *)
THEOREM ReplacedCarsStayOut == AnswersSpec => []AReplacedCarIsOver
<1>1. AskedWhatIsAsked => AReplacedCarIsOver
    BY AnswerKeepsAReplacedCarOut, QuestionsAssumption
    DEF AskedWhatIsAsked, AReplacedCarIsOver, ReplacedOn
<1> QED
    BY <1>1, TheAnswerAnswersTheQuestion, PTL

-----------------------------------------------------------------------------
(* Questions that measure a pass alike *)

SameCall(q, u) ==
    /\ u.garage = q.garage /\ u.identity = q.identity /\ u.lane = q.lane
    /\ u.direction = q.direction /\ u.at = q.at /\ u.enteredAt = q.enteredAt

(* What is measured for pass p in question q is measured for r in u.       *)
MeasuredAlike(q, p, u, r) ==
    /\ ReplacementsOf(u, r.id) = {} <=> ReplacementsOf(q, p.id) = {}
    /\ ReplacedAt(u, r.id) = ReplacedAt(q, p.id)
    /\ Unclocked(u, r) = {} <=> Unclocked(q, p) = {}
    /\ Counts(q, p) /\ Unclocked(q, p) = {} => VisitsUsed(u, r) = VisitsUsed(q, p)
    /\ IsExit(q) => EnteredHere(u, r) = EnteredHere(q, p)

Alike(q, p, u, r) ==
    /\ SameCall(q, u)
    /\ r.id = p.id /\ r.state = p.state /\ r.readable = p.readable
    /\ p.readable => r.terms = p.terms /\ MeasuredAlike(q, p, u, r)

LEMMA CallsReadAlike ==
    ASSUME NEW q, NEW u, SameCall(q, u)
    PROVE  /\ IsExit(u) <=> IsExit(q)
           /\ Today(u) = Today(q) /\ Minute(u) = Minute(q)
           /\ \A r : InForce(u, r) <=> InForce(q, r)
           /\ \A reason, p : NotCovered(u, reason, p) = NotCovered(q, reason, p)
           /\ \A reason, missing : Unanswerable(u, reason, missing) = Unanswerable(q, reason, missing)
BY DEF SameCall, IsExit, Today, Minute, InForce, NotCovered, Unanswerable

(* Alike passes fail alike, but for the allowance of one with no clock.    *)
LEMMA FailsAlike ==
    ASSUME NEW q, NEW p, NEW u, NEW r, Alike(q, p, u, r), p.readable,
           NEW k \in 1..13, CHECKS[k] = "OUT_OF_VISITS" => ~Fails(q, p, "NO_CLOCK")
    PROVE  Fails(u, r, CHECKS[k]) <=> Fails(q, p, CHECKS[k])
<1> DEFINE check == CHECKS[k]
<1>0. /\ r.id = p.id /\ r.state = p.state /\ r.readable = p.readable /\ r.terms = p.terms
      /\ SameCall(q, u) /\ MeasuredAlike(q, p, u, r)
    BY DEF Alike
<1>1. IsExit(u) = IsExit(q) /\ Today(u) = Today(q) /\ Minute(u) = Minute(q)
    BY <1>0 DEF SameCall, IsExit, Today, Minute
<1>2. OpenWindows(u, r) = OpenWindows(q, p)
    BY <1>0, <1>1 DEF OpenWindows
<1>3. Counts(u, r) = Counts(q, p)
    BY <1>0, <1>1 DEF Counts
<1>4. EnteredAfterReplacement(u, r.id) = EnteredAfterReplacement(q, p.id)
    BY <1>0 DEF EnteredAfterReplacement, SameCall, MeasuredAlike
<1>5. IsExit(q) => EnteredHere(u, r) = EnteredHere(q, p) /\ StayMeasured(u, r) = StayMeasured(q, p)
    BY <1>0 DEF StayMeasured, SameCall, MeasuredAlike
<1>6. CASE check \in {"REVOKED", "PASS_UNREADABLE", "EXPIRED", "SUSPENDED", "NOT_ACTIVE",
                      "NOT_STARTED"}
    BY <1>0, <1>1, <1>6 DEF Fails
<1>7. CASE check = "EXIT_ONLY"
    BY <1>0, <1>1, <1>4, <1>7 DEF Fails, MeasuredAlike
<1>8. CASE check \in {"DIRECTION_NOT_ALLOWED", "WRONG_LANE"}
    BY <1>0, <1>8 DEF Fails, SameCall, LanesAt
<1>9. CASE check = "OUTSIDE_WINDOW"
    BY <1>0, <1>2, <1>9 DEF Fails
<1>10. CASE check = "NO_CLOCK"
    BY <1>0, <1>10 DEF Fails, MeasuredAlike
<1>11. CASE check = "OUT_OF_VISITS"
  <2>1. Unclocked(q, p) = {}
      BY <1>11 DEF Fails
  <2> QED
      BY <1>0, <1>3, <1>11, <2>1 DEF Fails, MeasuredAlike
<1>12. CASE check = "OVER_MAX_STAY"
    BY <1>0, <1>1, <1>5, <1>12 DEF Fails, SameCall
<1> QED
    BY <1>6, <1>7, <1>8, <1>9, <1>10, <1>11, <1>12 DEF CHECKS

(* So they fail the same check first, or none.                             *)
LEMMA FirstFailsAlike ==
    ASSUME NEW q, NEW p, NEW u, NEW r, Alike(q, p, u, r)
    PROVE  /\ Passed(u, r) <=> Passed(q, p)
           /\ ~Passed(q, p) => FailedCheck(u, r) = FailedCheck(q, p)
<1>1. ASSUME NEW k \in 1..13
      PROVE  FirstFailure(u, r, k) <=> FirstFailure(q, p, k)
  <2>1. CASE p.readable
    <3>1. \A j \in 1..13 : j # 12 => (Fails(u, r, CHECKS[j]) <=> Fails(q, p, CHECKS[j]))
      <4>1. \A j \in 1..13 : j # 12 => CHECKS[j] # "OUT_OF_VISITS"
          BY DEF CHECKS
      <4> QED
          BY <2>1, <4>1, FailsAlike
    <3>2. ~Fails(q, p, CHECKS[11]) => (Fails(u, r, CHECKS[12]) <=> Fails(q, p, CHECKS[12]))
      <4>1. CHECKS[11] = "NO_CLOCK"
          BY DEF CHECKS
      <4> QED
          BY <2>1, <4>1, FailsAlike
    <3>3. 11 \in 1..13 /\ \A j \in 1..(k - 1) : j \in 1..13
        OBVIOUS
    <3>4. CASE k < 12
      <4>1. k # 12 /\ \A j \in 1..(k - 1) : j # 12
          BY <3>4
      <4> QED
          BY <3>1, <3>3, <4>1 DEF FirstFailure
    <3>5. CASE k >= 12 /\ Fails(q, p, CHECKS[11])
      <4>1. 11 \in 1..(k - 1)
          BY <3>5
      <4> QED
          BY <3>1, <3>5, <4>1 DEF FirstFailure
    <3>6. CASE k >= 12 /\ ~Fails(q, p, CHECKS[11])
      <4>1. \A j \in 1..13 : Fails(u, r, CHECKS[j]) <=> Fails(q, p, CHECKS[j])
          BY <3>1, <3>2, <3>6
      <4> QED
          BY <3>3, <4>1 DEF FirstFailure
    <3> QED
        BY <3>4, <3>5, <3>6
  <2>2. CASE ~p.readable
    <3>1. /\ CHECKS[1] = "REVOKED" /\ CHECKS[2] = "PASS_UNREADABLE"
          /\ r.state = p.state /\ r.readable = p.readable
        BY DEF CHECKS, Alike
    <3>2. /\ Fails(u, r, CHECKS[1]) <=> Fails(q, p, CHECKS[1])
          /\ Fails(u, r, CHECKS[2]) /\ Fails(q, p, CHECKS[2])
        BY <2>2, <3>1 DEF Fails
    <3>3. CASE k = 1
        BY <3>2, <3>3 DEF FirstFailure
    <3>4. CASE k = 2
        BY <3>2, <3>4 DEF FirstFailure
    <3>5. CASE k > 2
      <4>1. 2 \in 1..(k - 1)
          BY <3>5
      <4> QED
          BY <3>2, <4>1 DEF FirstFailure
    <3> QED
        BY <3>3, <3>4, <3>5
  <2> QED
      BY <2>1, <2>2
<1>2. \A k \in 1..13 : FirstFailure(u, r, k) => ~Passed(u, r)
    BY ThirteenChecks DEF FirstFailure, Passed
<1>3. \A k \in 1..13 : FirstFailure(q, p, k) => ~Passed(q, p)
    BY ThirteenChecks DEF FirstFailure, Passed
<1>4. ~Passed(q, p) => \E k \in 1..13 : FirstFailure(q, p, k) /\ FailedCheck(q, p) = CHECKS[k]
    BY ThirteenChecks, TheFailedCheckFails
<1>5. ~Passed(u, r) => \E k \in 1..13 : FirstFailure(u, r, k) /\ FailedCheck(u, r) = CHECKS[k]
    BY ThirteenChecks, TheFailedCheckFails
<1>6. Passed(u, r) <=> Passed(q, p)
    BY <1>1, <1>2, <1>3, <1>4, <1>5
<1>7. ASSUME ~Passed(q, p) PROVE FailedCheck(u, r) = FailedCheck(q, p)
  <2>1. PICK j \in 1..13 : FirstFailure(q, p, j) /\ FailedCheck(q, p) = CHECKS[j]
      BY <1>4, <1>7
  <2>2. PICK k \in 1..13 : FirstFailure(u, r, k) /\ FailedCheck(u, r) = CHECKS[k]
      BY <1>5, <1>6, <1>7
  <2>3. FirstFailure(q, p, k)
      BY <1>1, <2>2
  <2> QED
      BY <2>1, <2>2, <2>3, OneFirstFailure
<1> QED
    BY <1>6, <1>7

(* What the lane does with an answer: all of it but the missing field and  *)
(* the pass.                                                               *)
ActedOnAlike(a, b) ==
    /\ b.outcome = a.outcome /\ b.reason = a.reason /\ b.means = a.means
    /\ b.unmeasured = a.unmeasured /\ b.inconsistent = a.inconsistent

LEMMA EvaluatedAlike ==
    ASSUME NEW q, NEW p, NEW u, NEW r, Alike(q, p, u, r)
    PROVE  /\ ActedOnAlike(Evaluate(q, p), Evaluate(u, r))
           /\ Evaluate(u, r) = Evaluate(q, p)
              \/ /\ FailedCheck(q, p) = "NO_CLOCK" /\ ~Passed(q, p)
                 /\ Evaluate(q, p) = Refused(NoClock(q, q.visits[Least(Unclocked(q, p))].garage), p.id)
                 /\ Evaluate(u, r) = Refused(NoClock(u, u.visits[Least(Unclocked(u, r))].garage), p.id)
<1>1. /\ Passed(u, r) <=> Passed(q, p)
      /\ ~Passed(q, p) => FailedCheck(u, r) = FailedCheck(q, p)
    BY FirstFailsAlike
<1>2. r.id = p.id /\ SameCall(q, u)
    BY DEF Alike
<1>3. IsExit(u) <=> IsExit(q)
    BY <1>2, CallsReadAlike
<1>4. CASE Passed(q, p)
  <2>1. p.readable
    <3>1. 2 \in DOMAIN CHECKS /\ CHECKS[2] = "PASS_UNREADABLE"
        BY DEF CHECKS
    <3>2. ~Fails(q, p, "PASS_UNREADABLE")
        BY <1>4, <3>1 DEF Passed
    <3> QED
        BY <3>2 DEF Fails
  <2>2. r.terms = p.terms /\ MeasuredAlike(q, p, u, r)
      BY <2>1 DEF Alike
  <2>3. Unmeasured(u, r) = Unmeasured(q, p)
    <3>1. CASE ~IsExit(q)
        BY <1>3, <3>1 DEF Unmeasured
    <3>2. CASE IsExit(q)
      <4>1. StayMeasured(u, r) = StayMeasured(q, p)
          BY <1>2, <2>2, <3>2 DEF StayMeasured, MeasuredAlike, SameCall
      <4> QED
          BY <1>2, <1>3, <2>2, <4>1 DEF Unmeasured, MeasuredAlike, SameCall
    <3> QED
        BY <3>1, <3>2
  <2>4. Evaluate(u, r) = Evaluate(q, p)
      BY <1>1, <1>2, <1>4, <2>3 DEF Evaluate
  <2> QED
      BY <2>4 DEF ActedOnAlike
<1>5. CASE ~Passed(q, p) /\ FailedCheck(q, p) = "NO_CLOCK"
    BY <1>1, <1>2, <1>5 DEF Evaluate, ActedOnAlike, Refused
<1>6. CASE ~Passed(q, p) /\ FailedCheck(q, p) # "NO_CLOCK"
  <2>1. Evaluate(u, r) = Evaluate(q, p)
      BY <1>1, <1>2, <1>3, <1>6, CallsReadAlike DEF Evaluate
  <2> QED
      BY <2>1 DEF ActedOnAlike
<1> QED
    BY <1>4, <1>5, <1>6

-----------------------------------------------------------------------------
(* Registrations, as values: where they were handed in is of no account *)

On(q, id) == { k \in DOMAIN q.registrations : q.registrations[k].pass = id }
RecordsOn(q, id) == { q.registrations[k] : k \in On(q, id) }
HeldAt(q, id) == Duplicated(q, id) \/ Selected(q, id) # {}
OfTheCar(q, r) == Key[r.identity] = Key[q.identity] /\ InForce(q, r)

LEMMA EffectiveOn ==
    ASSUME NEW q, NEW k
    PROVE  /\ k \in Effective(q) <=>
                /\ k \in DOMAIN q.registrations
                /\ OfTheCar(q, q.registrations[k]) /\ HeldAt(q, q.registrations[k].pass)
           /\ k \in Dangling(q) <=>
                /\ k \in DOMAIN q.registrations
                /\ OfTheCar(q, q.registrations[k])
                /\ Copies(q, q.registrations[k].pass) = {}
BY DEF Effective, Here, Matching, Dangling, OfTheCar, HeldAt

LEMMA ReplacedAlike ==
    ASSUME NEW q, NEW u, NEW id, SameCall(q, u), RecordsOn(u, id) = RecordsOn(q, id),
           HeldAt(u, id) <=> HeldAt(q, id)
    PROVE  /\ ReplacementsOf(u, id) = {} <=> ReplacementsOf(q, id) = {}
           /\ ReplacedAt(u, id) = ReplacedAt(q, id)
<1> DEFINE Replaced(v) == { r \in RecordsOn(v, id) : OfTheCar(v, r) /\ HeldAt(v, id) /\ r.exitOnly }
<1>1. ASSUME NEW v
      PROVE  /\ Replaced(v) = { v.registrations[k] : k \in ReplacementsOf(v, id) }
             /\ ReplacementsOf(v, id) = {} <=> Replaced(v) = {}
             /\ { v.registrations[k].exitOnlyAt : k \in ReplacementsOf(v, id) }
                  = { r.exitOnlyAt : r \in Replaced(v) }
  <2>1. \A k : k \in ReplacementsOf(v, id) <=>
                /\ k \in On(v, id) /\ OfTheCar(v, v.registrations[k])
                /\ HeldAt(v, id) /\ v.registrations[k].exitOnly
      BY EffectiveOn DEF ReplacementsOf, On
  <2>2. Replaced(v) = { v.registrations[k] : k \in ReplacementsOf(v, id) }
      BY <2>1 DEF RecordsOn
  <2> HIDE DEF Replaced
  <2> QED
      BY <2>2
<1>2. \A r : OfTheCar(u, r) <=> OfTheCar(q, r)
    BY CallsReadAlike DEF OfTheCar, SameCall
<1>3. Replaced(u) = Replaced(q)
    BY <1>2
<1> HIDE DEF Replaced
<1>4. { u.registrations[k].exitOnlyAt : k \in ReplacementsOf(u, id) }
        = { q.registrations[k].exitOnlyAt : k \in ReplacementsOf(q, id) }
    BY <1>1, <1>3
<1> QED
    BY <1>1, <1>3, <1>4 DEF ReplacedAt

(* What is read of the ledger, from the same visits.                       *)
LEMMA MeasuredOnTheSameVisits ==
    ASSUME NEW q, NEW u, NEW p, NEW r, SameCall(q, u), u.visits = q.visits, u.garages = q.garages,
           r.id = p.id, r.terms = p.terms, RecordsOn(u, p.id) = RecordsOn(q, p.id),
           HeldAt(u, p.id) <=> HeldAt(q, p.id)
    PROVE  /\ MeasuredAlike(q, p, u, r)
           /\ \A g : NoClock(u, g) = NoClock(q, g)
           /\ Unclocked(u, r) = Unclocked(q, p)
<1>1. IsExit(u) = IsExit(q) /\ Today(u) = Today(q) /\ Minute(u) = Minute(q)
    BY DEF SameCall, IsExit, Today, Minute
<1>2. \A g : NoClock(u, g) = NoClock(q, g) /\ ZoneOf(u, g) = ZoneOf(q, g)
    BY DEF NoClock, ZoneOf, HandedIn, SameCall
<1>3. OnPass(u, r) = OnPass(q, p) /\ OpenWindows(u, r) = OpenWindows(q, p)
      /\ Counts(u, r) = Counts(q, p)
    BY <1>1 DEF OnPass, OpenWindows, Counts
<1>4. Unclocked(u, r) = Unclocked(q, p)
    BY <1>2, <1>3 DEF Unclocked
<1>5. VisitsUsed(u, r) = VisitsUsed(q, p)
    BY <1>1, <1>2, <1>3 DEF VisitsUsed
<1>6. EnteredHere(u, r) = EnteredHere(q, p)
    BY <1>3 DEF EnteredHere, SameCall
<1> QED
    BY <1>2, <1>4, <1>5, <1>6, ReplacedAlike DEF MeasuredAlike

-----------------------------------------------------------------------------
(* The members of a sequence at some of its places *)

LEMMA MembersAt ==
    ASSUME NEW s, IsSequence(s), NEW S, S \subseteq DOMAIN s
    PROVE  /\ IsSequence(At(s, S)) /\ IsFiniteSet(S)
           /\ DOMAIN At(s, S) = 1..Cardinality(S)
           /\ \E at \in Bijection(DOMAIN At(s, S), S) :
                /\ \A k \in DOMAIN At(s, S) : At(s, S)[k] = s[at[k]]
                /\ \A k, l \in DOMAIN At(s, S) : k < l => at[k] < at[l]
<1> DEFINE at == InTheirOrder(S)
<1>1. /\ IsFiniteSet(S) /\ at \in Bijection(1..Cardinality(S), S)
      /\ \A k, l \in 1..Cardinality(S) : k < l => at[k] < at[l]
  <2>1. Len(s) \in Nat /\ S \subseteq 1..Len(s)
      BY DEF IsSequence
  <2> QED
      BY <2>1, PlacesInOrder
<1>2. Cardinality(S) \in Nat
    BY <1>1, FS_CardinalityType
<1>3. DOMAIN At(s, S) = 1..Cardinality(S) /\ IsSequence(At(s, S))
    BY <1>2 DEF At, IsSequence
<1>4. \A k \in 1..Cardinality(S) : At(s, S)[k] = s[at[k]]
    BY DEF At, InTheirOrder
<1> QED
    BY <1>1, <1>3, <1>4

(* A finite set whose members are one has one member.                      *)
LEMMA OneMember ==
    ASSUME NEW S, IsFiniteSet(S)
    PROVE  /\ Cardinality(S) = 1 <=> \E x : S = {x}
           /\ ~(Cardinality(S) > 1) <=> \A x, y \in S : x = y
<1>1. Cardinality(S) = 1 <=> \E x : S = {x}
    BY FS_Singleton
<1>2. Cardinality(S) \in Nat /\ (Cardinality(S) = 0 <=> S = {})
    BY FS_CardinalityType, FS_EmptySet
<1>3. ~(Cardinality(S) > 1) <=> Cardinality(S) = 0 \/ Cardinality(S) = 1
    BY <1>2
<1>4. (\A x, y \in S : x = y) <=> S = {} \/ \E x : S = {x}
    OBVIOUS
<1> QED
    BY <1>1, <1>2, <1>3, <1>4

LEMMA FinitePlaces ==
    ASSUME NEW q, IsQuestion(q)
    PROVE  /\ IsFiniteSet(DOMAIN q.passes) /\ IsFiniteSet(DOMAIN q.registrations)
           /\ IsFiniteSet(DOMAIN q.visits) /\ IsFiniteSet(DOMAIN q.garages)
           /\ IsFiniteSet(Effective(q)) /\ \A id : IsFiniteSet(Copies(q, id))
           /\ \A id : Copies(q, id) \in SUBSET DOMAIN q.passes
           /\ Effective(q) \in SUBSET DOMAIN q.registrations
<1>1. /\ IsFiniteSet(DOMAIN q.passes) /\ IsFiniteSet(DOMAIN q.registrations)
      /\ IsFiniteSet(DOMAIN q.visits) /\ IsFiniteSet(DOMAIN q.garages)
  <2>1. \A s : IsSequence(s) => IsFiniteSet(DOMAIN s)
      BY FS_Interval DEF IsSequence
  <2> QED
      BY <2>1 DEF IsQuestion
<1>2. Effective(q) \in SUBSET DOMAIN q.registrations
    BY EffectiveOn
<1>3. \A id : Copies(q, id) \in SUBSET DOMAIN q.passes
    BY DEF Copies
<1>4. IsFiniteSet(Effective(q))
    BY <1>1, <1>2, FS_Subset
<1>5. \A id : IsFiniteSet(Copies(q, id))
    BY <1>1, <1>3, FS_Subset
<1> QED
    BY <1>1, <1>2, <1>3, <1>4, <1>5

-----------------------------------------------------------------------------
(* A pass asked about alone *)

LEMMA AloneAsksTheSame ==
    ASSUME NEW q, IsQuestion(q), NEW p \in DOMAIN q.passes
    PROVE  LET u == Alone(q, p)
               id == q.passes[p].id
           IN  /\ IsQuestion(u) /\ SameCall(q, u) /\ u.visits = q.visits /\ u.garages = q.garages
               /\ u.passes = <<q.passes[p]>>
               /\ \E at \in Bijection(DOMAIN u.registrations, On(q, id)) :
                    \A k \in DOMAIN u.registrations : u.registrations[k] = q.registrations[at[k]]
<1> DEFINE id == q.passes[p].id
           u == Alone(q, p)
           v == [q EXCEPT !.registrations = At(q.registrations, On(q, id))]
<1>1. u = [v EXCEPT !.passes = <<q.passes[p]>>]
    BY DEF Alone, On, IsQuestion
<1>2. /\ u.registrations = At(q.registrations, On(q, id)) /\ u.passes = <<q.passes[p]>>
      /\ u.visits = q.visits /\ u.garages = q.garages /\ u.garage = q.garage
      /\ u.identity = q.identity /\ u.lane = q.lane /\ u.direction = q.direction
      /\ u.at = q.at /\ u.enteredAt = q.enteredAt /\ DOMAIN u = DOMAIN q
    BY <1>1 DEF IsQuestion
<1> HIDE DEF u
<1>3. IsSequence(q.registrations) /\ On(q, id) \subseteq DOMAIN q.registrations
    BY DEF IsQuestion, On
<1>4. PICK at \in Bijection(DOMAIN u.registrations, On(q, id)) :
        \A k \in DOMAIN u.registrations : u.registrations[k] = q.registrations[at[k]]
    BY <1>2, <1>3, MembersAt
<1>5. IsSequence(u.registrations)
    BY <1>2, <1>3, MembersAt
<1>6. \A k \in DOMAIN u.registrations : at[k] \in DOMAIN q.registrations
    BY <1>3, <1>4, Fun_BijectionProperties
<1>7. IsSequence(u.passes) /\ DOMAIN u.passes = {1} /\ u.passes[1] = q.passes[p]
    BY <1>2 DEF IsSequence
<1>8. IsQuestion(u)
  <2>1. \A k \in DOMAIN u.passes : IsPass(u.passes[k])
      BY <1>7 DEF IsQuestion
  <2>2. \A j, k \in DOMAIN u.passes : ReadAlike(u.passes[j], u.passes[k])
      BY <1>7 DEF ReadAlike
  <2>3. \A k \in DOMAIN u.registrations : IsInstant(u.registrations[k].exitOnlyAt)
      BY <1>4, <1>6 DEF IsQuestion
  <2>4. /\ DOMAIN q = {"garage", "passes", "registrations", "visits", "garages", "identity",
                       "lane", "direction", "at", "enteredAt"}
        /\ IsSequence(q.visits) /\ IsSequence(q.garages) /\ IsInstant(q.enteredAt)
      BY DEF IsQuestion
  <2> QED
      BY <1>2, <1>5, <1>7, <2>1, <2>2, <2>3, <2>4 DEF IsQuestion
<1> QED
    BY <1>2, <1>4, <1>8 DEF SameCall, u

LEMMA HeldHereAsksTheSame ==
    ASSUME NEW q, IsQuestion(q), DOMAIN q.passes = {1}
    PROVE  LET u == HeldHere(q)
               r == u.passes[1]
               p == q.passes[1]
           IN  /\ IsQuestion(u) /\ SameCall(q, u) /\ u.visits = q.visits /\ u.garages = q.garages
               /\ u.registrations = q.registrations /\ DOMAIN u.passes = {1}
               /\ r.id = p.id /\ r.state = p.state /\ r.readable = p.readable /\ r.terms = p.terms
               /\ q.garage.id \in r.garages
<1> DEFINE u == HeldHere(q)
           p == q.passes[1]
           r == [p EXCEPT !.garages = p.garages \cup {q.garage.id}]
           passes == <<r>>
<1>0. u = [q EXCEPT !.passes = passes]
    BY DEF HeldHere
<1> HIDE DEF u, r, passes
<1>1. /\ u.passes = passes
      /\ u.registrations = q.registrations
      /\ u.visits = q.visits /\ u.garages = q.garages /\ u.garage = q.garage
      /\ u.identity = q.identity /\ u.lane = q.lane /\ u.direction = q.direction
      /\ u.at = q.at /\ u.enteredAt = q.enteredAt /\ DOMAIN u = DOMAIN q
    BY <1>0 DEF IsQuestion
<1>2. IsPass(p)
    BY DEF IsQuestion
<1>3. /\ r.id = p.id /\ r.state = p.state /\ r.readable = p.readable /\ r.terms = p.terms
      /\ r.text = p.text /\ DOMAIN r = DOMAIN p /\ r.garages = p.garages \cup {q.garage.id}
    BY <1>2 DEF IsPass, r
<1>4. IsPass(r)
    BY <1>2, <1>3 DEF IsPass
<1>5. DOMAIN u.passes = {1} /\ u.passes[1] = r
    BY <1>1 DEF passes
<1>6. IsSequence(u.passes)
    BY <1>1 DEF IsSequence, passes
<1>7. IsQuestion(u)
  <2>1. \A j, k \in DOMAIN u.passes : ReadAlike(u.passes[j], u.passes[k])
      BY <1>5 DEF ReadAlike
  <2> QED
      BY <1>1, <1>4, <1>5, <1>6, <2>1 DEF IsQuestion
<1> QED
    BY <1>1, <1>3, <1>5, <1>7 DEF SameCall, u

(* Of one pass, at this garage, everything registered on it is effective   *)
(* while it is in force, and it is the one candidate.                      *)
LEMMA TheOnePass ==
    ASSUME NEW u, IsQuestion(u), DOMAIN u.passes = {1}, u.garage.id \in u.passes[1].garages,
           \A k \in DOMAIN u.registrations : u.registrations[k].pass = u.passes[1].id
    PROVE  /\ HeldAt(u, u.passes[1].id)
           /\ Dangling(u) = {} /\ DuplicatedInForce(u) = {}
           /\ Candidates(u) \subseteq {1}
           /\ Effective(u) # {} => Candidates(u) = {1}
<1> DEFINE id == u.passes[1].id
<1>1. Copies(u, id) = {1} /\ \A other : Copies(u, other) \subseteq {1}
    BY DEF Copies
<1>2. \A other : ~Duplicated(u, other)
  <2> SUFFICES ASSUME NEW other PROVE ~(Cardinality(Copies(u, other)) > 1)
      BY DEF Duplicated
  <2> QED
      BY <1>1, FinitePlaces, OneMember
<1>3. Selected(u, id) = {1}
    BY <1>1, <1>2 DEF Selected
<1>4. HeldAt(u, id)
    BY <1>3 DEF HeldAt
<1>5. Dangling(u) = {}
    BY <1>1, EffectiveOn
<1>6. DuplicatedInForce(u) = {}
    BY <1>2 DEF DuplicatedInForce
<1>7. Candidates(u) \subseteq {1}
    BY CandidatesHoldTheCar
<1>8. Effective(u) # {} => Candidates(u) = {1}
    BY <1>7, CandidatesHoldTheCar
<1> QED
    BY <1>4, <1>5, <1>6, <1>7, <1>8

(* The candidates: the copies of what a registration in force is on.       *)
LEMMA CandidatesAre ==
    ASSUME NEW q, NEW p
    PROVE  p \in Candidates(q) <=>
             \E r \in Effective(q) :
                /\ p \in Copies(q, q.registrations[r].pass)
                /\ \/ Duplicated(q, q.registrations[r].pass)
                   \/ q.garage.id \in q.passes[p].garages
BY DEF Candidates, Selected

LEMMA FirstOfOne ==
    ASSUME NEW q, IsQuestion(q), NEW k \in DOMAIN q.passes
    PROVE  FirstOf(q, {k}) = q.passes[k]
BY FirstOfIsOneOfThem

-----------------------------------------------------------------------------
(* An exit is covered by any candidate *)

LEMMA AnswersHaveAnOutcome ==
    ASSUME NEW q, NEW p
    PROVE  NamingInconsistency(Evaluate(q, p)).outcome = Evaluate(q, p).outcome
BY NamingKeepsThePass, AnswersNameTheirPass

LEMMA AnExitIsCoveredByACandidate ==
    ASSUME NEW q, IsQuestion(q), IsExit(q)
    PROVE  Answer(q).outcome = "covered" <=>
             /\ q.garage.readable /\ q.identity # Blank /\ q.lane # Blank
             /\ Effective(q) # {}
             /\ \E k \in Candidates(q) : Evaluate(q, q.passes[k]).outcome = "covered"
<1> DEFINE covering == { k \in Candidates(q) : Evaluate(q, q.passes[k]).outcome = "covered" }
           said == OfTheRegistrations(q)
<1>1. \A reason, missing : Unanswerable(q, reason, missing).outcome # "covered"
    BY NotCoveredIsNotCovered DEF Unanswerable
<1>2. CASE ~(q.garage.readable /\ q.identity # Blank /\ q.lane # Blank)
    BY <1>1, <1>2 DEF Answer
<1>3. CASE q.garage.readable /\ q.identity # Blank /\ q.lane # Blank
  <2>1. Answer(q) = said
      BY <1>3 DEF Answer
  <2>2. CASE Effective(q) = {}
    <3>1. NobodyHolds(q).outcome # "covered"
        BY NotCoveredIsNotCovered DEF NobodyHolds
    <3>2. NamingInconsistency(NotCovered(q, "PASS_NOT_HANDED_IN", None)).outcome # "covered"
        BY DEF NamingInconsistency, NotCovered
    <3> QED
        BY <2>1, <2>2, <3>1, <3>2 DEF OfTheRegistrations
  <2>3. CASE Effective(q) # {} /\ Cardinality(Effective(q)) = 1 /\ Dangling(q) = {}
             /\ DuplicatedInForce(q) = {}
    <3>1. said = Evaluate(q, FirstOf(q, Candidates(q)))
        BY <2>3 DEF OfTheRegistrations
    <3>2. \A j, k \in Candidates(q) : j = k
      <4> SUFFICES ASSUME NEW j \in Candidates(q), NEW k \in Candidates(q) PROVE j = k
          OBVIOUS
      <4>1. PICK r : Effective(q) = {r}
          BY <2>3, FinitePlaces, OneMember
      <4> DEFINE id == q.registrations[r].pass
      <4>2. ~Duplicated(q, id)
          BY <2>3, <4>1 DEF DuplicatedInForce
      <4>3. /\ j \in Copies(q, id) /\ k \in Copies(q, id)
            /\ q.garage.id \in q.passes[j].garages
          BY <4>1, <4>2, CandidatesAre
      <4>4. ~(Cardinality(Copies(q, id)) > 1)
          BY <4>2, <4>3 DEF Duplicated
      <4> QED
          BY <4>3, <4>4, FinitePlaces, OneMember
    <3>3. PICK k \in Candidates(q) : FirstOf(q, Candidates(q)) = q.passes[k]
        BY <2>3, CandidatesHoldTheCar, FirstOfIsOneOfThem
    <3> QED
        BY <1>3, <2>1, <2>3, <3>1, <3>2, <3>3
  <2>4. CASE Effective(q) # {} /\ ~(/\ Cardinality(Effective(q)) = 1 /\ Dangling(q) = {}
                                    /\ DuplicatedInForce(q) = {})
    <3>1. said = EveryCopy(q)
        BY <2>4 DEF OfTheRegistrations
    <3>2. CASE covering # {}
      <4>1. PICK k \in covering : FirstOf(q, covering) = q.passes[k]
          BY <3>2, CandidatesHoldTheCar, FirstOfIsOneOfThem
      <4>2. said = NamingInconsistency(Evaluate(q, FirstOf(q, covering)))
          BY <3>1, <3>2 DEF EveryCopy
      <4> QED
          BY <1>3, <2>1, <2>4, <4>1, <4>2, AnswersHaveAnOutcome
    <3>3. CASE covering = {}
      <4>1. PICK k \in Candidates(q) : FirstOf(q, Candidates(q)) = q.passes[k]
          BY <2>4, CandidatesHoldTheCar, FirstOfIsOneOfThem
      <4>2. NamingInconsistency(Evaluate(q, q.passes[k])).outcome # "covered"
          BY <3>3, AnswersHaveAnOutcome
      <4>3. NamingInconsistency(NotCovered(q, "PASS_DUPLICATED", None)).outcome # "covered"
          BY DEF NamingInconsistency, NotCovered
      <4>4. said.outcome # "covered"
          BY <3>1, <3>3, <4>1, <4>2, <4>3 DEF EveryCopy
      <4> QED
          BY <2>1, <3>3, <4>4
    <3> QED
        BY <3>2, <3>3
  <2> QED
      BY <2>2, <2>3, <2>4
<1> QED
    BY <1>2, <1>3

(* A candidate asked about alone is measured as it is among the others.    *)
LEMMA ACandidateAlone ==
    ASSUME NEW q, IsQuestion(q), NEW p \in Candidates(q)
    PROVE  LET v == HeldHere(Alone(q, p))
           IN  /\ IsQuestion(v) /\ SameCall(q, v)
               /\ Effective(v) # {} /\ Candidates(v) = {1} /\ 1 \in DOMAIN v.passes
               /\ Alike(q, q.passes[p], v, v.passes[1])
<1> DEFINE u == Alone(q, p)
           v == HeldHere(u)
           id == q.passes[p].id
<1>1. p \in DOMAIN q.passes
    BY CandidatesHoldTheCar
<1>2. /\ IsQuestion(u) /\ SameCall(q, u) /\ u.visits = q.visits /\ u.garages = q.garages
      /\ DOMAIN u.passes = {1} /\ u.passes[1] = q.passes[p]
    BY <1>1, AloneAsksTheSame
<1>3. PICK at \in Bijection(DOMAIN u.registrations, On(q, id)) :
        \A k \in DOMAIN u.registrations : u.registrations[k] = q.registrations[at[k]]
    BY <1>1, AloneAsksTheSame
<1> HIDE DEF u
<1>4. /\ IsQuestion(v) /\ SameCall(u, v) /\ v.visits = u.visits /\ v.garages = u.garages
      /\ v.registrations = u.registrations /\ DOMAIN v.passes = {1}
      /\ v.passes[1].id = id /\ v.passes[1].state = q.passes[p].state
      /\ v.passes[1].readable = q.passes[p].readable
      /\ v.passes[1].terms = q.passes[p].terms
      /\ u.garage.id \in v.passes[1].garages
    BY <1>2, HeldHereAsksTheSame
<1> HIDE DEF v
<1>5. SameCall(q, v) /\ v.visits = q.visits /\ v.garages = q.garages
    BY <1>2, <1>4 DEF SameCall
<1>6. /\ \A k \in DOMAIN v.registrations : v.registrations[k] \in RecordsOn(q, id)
      /\ \A r \in RecordsOn(q, id) : \E k \in DOMAIN v.registrations : v.registrations[k] = r
  <2>1. /\ at \in [DOMAIN v.registrations -> On(q, id)]
        /\ \A j \in On(q, id) : \E k \in DOMAIN v.registrations : at[k] = j
      BY <1>3, <1>4, Fun_BijectionProperties
  <2>2. \A k \in DOMAIN v.registrations : v.registrations[k] = q.registrations[at[k]]
      BY <1>3, <1>4
  <2> QED
      BY <2>1, <2>2 DEF RecordsOn
<1>7. \A k \in DOMAIN v.registrations : v.registrations[k].pass = id
    BY <1>6 DEF RecordsOn, On
<1>8. RecordsOn(v, id) = RecordsOn(q, id)
    BY <1>6, <1>7 DEF RecordsOn, On
<1>9. v.garage.id \in v.passes[1].garages
    BY <1>4 DEF SameCall
<1>10. HeldAt(v, id) /\ (Effective(v) # {} => Candidates(v) = {1})
    BY <1>4, <1>7, <1>9, TheOnePass
<1>11. PICK r \in Effective(q) : q.registrations[r].pass = id
    BY CandidatesAre DEF Copies
<1>12. HeldAt(q, id) /\ OfTheCar(q, q.registrations[r]) /\ r \in On(q, id)
    BY <1>11, EffectiveOn DEF On
<1>13. Effective(v) # {}
  <2>1. q.registrations[r] \in RecordsOn(q, id)
      BY <1>12 DEF RecordsOn
  <2>2. PICK k \in DOMAIN v.registrations : v.registrations[k] = q.registrations[r]
      BY <1>6, <2>1
  <2>3. OfTheCar(v, v.registrations[k])
      BY <1>5, <1>12, <2>2, CallsReadAlike DEF OfTheCar, SameCall
  <2> QED
      BY <1>7, <1>10, <2>2, <2>3, EffectiveOn
<1>14. MeasuredAlike(q, q.passes[p], v, v.passes[1])
    BY <1>4, <1>5, <1>8, <1>10, <1>12, MeasuredOnTheSameVisits
<1>15. Alike(q, q.passes[p], v, v.passes[1])
    BY <1>4, <1>5, <1>14 DEF Alike
<1> QED
    BY <1>4, <1>5, <1>10, <1>13, <1>15 DEF u, v

LEMMA AnyCandidateLetsOut ==
    ASSUME NEW q, IsQuestion(q), IsExit(q), q.garage.readable, q.identity # Blank,
           NEW p \in Candidates(q)
    PROVE  Answer(HeldHere(Alone(q, p))).outcome = "covered" <=>
             q.lane # Blank /\ Evaluate(q, q.passes[p]).outcome = "covered"
<1> DEFINE v == HeldHere(Alone(q, p))
<1>1. /\ IsQuestion(v) /\ SameCall(q, v)
      /\ Effective(v) # {} /\ Candidates(v) = {1} /\ Alike(q, q.passes[p], v, v.passes[1])
    BY ACandidateAlone
<1> HIDE DEF v
<1>2. /\ IsExit(v) /\ v.garage.readable /\ v.identity # Blank /\ v.lane = q.lane
    BY <1>1 DEF SameCall, IsExit
<1>3. Evaluate(v, v.passes[1]).outcome = Evaluate(q, q.passes[p]).outcome
    BY <1>1, EvaluatedAlike DEF ActedOnAlike
<1>4. Answer(v).outcome = "covered" <=>
        v.lane # Blank /\ Evaluate(v, v.passes[1]).outcome = "covered"
    BY <1>1, <1>2, AnExitIsCoveredByACandidate
<1> QED
    BY <1>2, <1>3, <1>4 DEF v

(* No holder is kept in by a second pass, or a second copy of one, that    *)
(* does not cover the car, and none is let out by what would not let it    *)
(* out alone.                                                              *)
THEOREM TheHolderLeavesOnAnyPass == AnswersSpec => []AnyPassThatCoversLetsOut
<1>1. AskedWhatIsAsked => AnyPassThatCoversLetsOut
  <2> SUFFICES ASSUME AskedWhatIsAsked, Answered, IsExit(question)
               PROVE  answer.outcome = "covered" <=>
                        /\ question.garage.readable
                        /\ question.identity # Blank
                        /\ \E r \in Effective(question) :
                             \E p \in Copies(question, question.registrations[r].pass) :
                                /\ Duplicated(question, question.registrations[r].pass)
                                   \/ question.garage.id \in question.passes[p].garages
                                /\ Answer(HeldHere(Alone(question, p))).outcome = "covered"
      BY DEF AnyPassThatCoversLetsOut
  <2>1. IsQuestion(question) /\ answer = Answer(question)
      BY QuestionsAssumption DEF AskedWhatIsAsked
  <2>2. (\E r \in Effective(question) :
           \E p \in Copies(question, question.registrations[r].pass) :
              /\ Duplicated(question, question.registrations[r].pass)
                 \/ question.garage.id \in question.passes[p].garages
              /\ Answer(HeldHere(Alone(question, p))).outcome = "covered")
        <=> \E p \in Candidates(question) :
              Answer(HeldHere(Alone(question, p))).outcome = "covered"
      BY CandidatesAre
  <2>3. \A p \in Candidates(question) : Effective(question) # {}
      BY CandidatesAre
  <2> QED
      BY <2>1, <2>2, <2>3, AnyCandidateLetsOut, AnExitIsCoveredByACandidate
<1> QED
    BY <1>1, TheAnswerAnswersTheQuestion, PTL

-----------------------------------------------------------------------------
(* An entry is covered on one pass *)

(* A covered entry came through every refusal, to one registration on one  *)
(* copy of one pass.                                                       *)
LEMMA ACoveredEntryHasOneHolder ==
    ASSUME NEW q, IsQuestion(q), ~IsExit(q), Answer(q).outcome = "covered"
    PROVE  /\ q.garage.readable /\ q.identity # Blank /\ q.lane # Blank
           /\ q.garage.transient # "unstated" /\ Dangling(q) = {}
           /\ \E r \in Matching(q), p \in DOMAIN q.passes :
                /\ Effective(q) = {r} /\ Copies(q, q.registrations[r].pass) = {p}
                /\ q.garage.id \in q.passes[p].garages /\ p \in Candidates(q)
                /\ Answer(q) = Evaluate(q, q.passes[p])
<1>1. \A missing, p : Refused(missing, p).outcome # "covered"
    BY RefusedIsNotCovered
<1>2. \A reason, missing : Unanswerable(q, reason, missing).outcome # "covered"
    BY <1>1 DEF Unanswerable
<1>3. /\ q.garage.readable /\ q.identity # Blank /\ q.lane # Blank
      /\ q.garage.transient # "unstated" /\ Answer(q) = OfTheRegistrations(q)
    BY <1>1, <1>2 DEF Answer
<1>4. Dangling(q) = {} /\ DuplicatedInForce(q) = {}
    BY <1>1, <1>3 DEF OfTheRegistrations
<1>5. Effective(q) # {}
  <2>1. NobodyHolds(q).outcome # "covered"
      BY NotCoveredIsNotCovered DEF NobodyHolds
  <2> QED
      BY <1>3, <1>4, <2>1 DEF OfTheRegistrations
<1>6. Cardinality(Effective(q)) = 1 /\ Answer(q) = Evaluate(q, FirstOf(q, Candidates(q)))
    BY <1>1, <1>3, <1>4, <1>5 DEF OfTheRegistrations
<1>7. PICK r : Effective(q) = {r}
    BY <1>6, FinitePlaces, OneMember
<1> DEFINE id == q.registrations[r].pass
<1>8. r \in Matching(q) /\ HeldAt(q, id)
    BY <1>7 DEF Effective, Here, HeldAt
<1>9. ~Duplicated(q, id)
    BY <1>4, <1>7 DEF DuplicatedInForce
<1>10. PICK p \in Copies(q, id) : q.garage.id \in q.passes[p].garages
    BY <1>8, <1>9 DEF HeldAt, Selected
<1>11. Copies(q, id) = {p}
  <2>1. ~(Cardinality(Copies(q, id)) > 1)
      BY <1>9, <1>10 DEF Duplicated
  <2> QED
      BY <1>10, <2>1, FinitePlaces, OneMember
<1>12. Candidates(q) = {p}
    BY <1>7, <1>9, <1>10, <1>11, CandidatesAre
<1>13. p \in DOMAIN q.passes
    BY <1>10 DEF Copies
<1>14. FirstOf(q, Candidates(q)) = q.passes[p]
    BY <1>12, <1>13, FirstOfOne
<1> QED
    BY <1>3, <1>4, <1>6, <1>7, <1>8, <1>10, <1>11, <1>12, <1>13, <1>14

LEMMA TheHolderAlone ==
    ASSUME NEW q, IsQuestion(q), ~IsExit(q), Answer(q).outcome = "covered",
           NEW r \in Matching(q), NEW p \in DOMAIN q.passes,
           Effective(q) = {r}, Copies(q, q.registrations[r].pass) = {p},
           q.garage.id \in q.passes[p].garages, Answer(q) = Evaluate(q, q.passes[p])
    PROVE  Answer(Alone(q, p)) = Answer(q)
<1> DEFINE u == Alone(q, p)
           id == q.passes[p].id
<1>1. /\ IsQuestion(u) /\ SameCall(q, u) /\ u.visits = q.visits /\ u.garages = q.garages
      /\ DOMAIN u.passes = {1} /\ u.passes[1] = q.passes[p]
    BY AloneAsksTheSame
<1>2. PICK at \in Bijection(DOMAIN u.registrations, On(q, id)) :
        \A k \in DOMAIN u.registrations : u.registrations[k] = q.registrations[at[k]]
    BY AloneAsksTheSame
<1> HIDE DEF u
<1>3. q.registrations[r].pass = id /\ r \in On(q, id)
    BY DEF Copies, On, Matching
<1>4. /\ at \in [DOMAIN u.registrations -> On(q, id)]
      /\ \A j \in On(q, id) : \E k \in DOMAIN u.registrations : at[k] = j
    BY <1>2, Fun_BijectionProperties
<1>5. \A k \in DOMAIN u.registrations : u.registrations[k].pass = id
    BY <1>2, <1>4 DEF On
<1>6. RecordsOn(u, id) = RecordsOn(q, id)
  <2>1. \A k \in DOMAIN u.registrations : u.registrations[k] \in RecordsOn(q, id)
      BY <1>2, <1>4 DEF RecordsOn
  <2>2. \A s \in RecordsOn(q, id) : \E k \in DOMAIN u.registrations : u.registrations[k] = s
      BY <1>2, <1>4 DEF RecordsOn
  <2>3. On(u, id) = DOMAIN u.registrations
      BY <1>5 DEF On
  <2> QED
      BY <2>1, <2>2, <2>3 DEF RecordsOn
<1>7. u.garage.id \in u.passes[1].garages
    BY <1>1 DEF SameCall
<1>8. /\ HeldAt(u, id) /\ Dangling(u) = {} /\ DuplicatedInForce(u) = {}
      /\ Effective(u) # {} => Candidates(u) = {1}
    BY <1>1, <1>5, <1>7, TheOnePass
<1>9. HeldAt(q, id)
    BY <1>3, EffectiveOn
<1>10. \A k \in DOMAIN u.registrations : k \in Effective(u) <=> at[k] \in {r}
  <2> SUFFICES ASSUME NEW k \in DOMAIN u.registrations
               PROVE  k \in Effective(u) <=> at[k] \in Effective(q)
      OBVIOUS
  <2>1. k \in Effective(u) <=> OfTheCar(u, u.registrations[k])
      BY <1>5, <1>8, EffectiveOn
  <2>2. at[k] \in DOMAIN q.registrations /\ q.registrations[at[k]].pass = id
      BY <1>4 DEF On
  <2>3. at[k] \in Effective(q) <=> OfTheCar(q, q.registrations[at[k]])
      BY <1>9, <2>2, EffectiveOn
  <2>4. \A s : OfTheCar(u, s) <=> OfTheCar(q, s)
      BY <1>1, CallsReadAlike DEF OfTheCar, SameCall
  <2> QED
      BY <1>2, <2>1, <2>3, <2>4
<1>11. Cardinality(Effective(u)) = 1
  <2>1. IsFiniteSet(DOMAIN u.registrations) /\ Effective(u) \subseteq DOMAIN u.registrations
      BY <1>1, FinitePlaces
  <2>2. {r} \subseteq On(q, id)
      BY <1>3
  <2>3. Cardinality(Effective(u)) = Cardinality({r})
      BY <1>2, <1>10, <2>1, <2>2, AsMany
  <2> QED
      BY <2>3, FS_Singleton
<1>12. Effective(u) # {}
  <2>1. Cardinality({}) = 0
      BY FS_EmptySet
  <2> QED
      BY <1>11, <2>1
<1>13. /\ u.garage.readable /\ u.identity # Blank /\ u.lane # Blank /\ ~IsExit(u)
       /\ u.garage.transient # "unstated"
    BY <1>1, ACoveredEntryHasOneHolder DEF SameCall, IsExit
<1>14. Answer(u) = Evaluate(u, FirstOf(u, Candidates(u)))
    BY <1>8, <1>11, <1>12, <1>13 DEF Answer, OfTheRegistrations
<1>15. FirstOf(u, Candidates(u)) = u.passes[1]
    BY <1>1, <1>8, <1>12, FirstOfOne
<1>16. Alike(q, q.passes[p], u, u.passes[1])
    BY <1>1, <1>6, <1>8, <1>9, MeasuredOnTheSameVisits DEF Alike
<1>17. Evaluate(u, u.passes[1]) = Evaluate(q, q.passes[p])
    BY <1>16, EvaluatedAlike, RefusedIsNotCovered
<1> QED
    BY <1>14, <1>15, <1>17 DEF u

(* An entry is never guessed: nothing else handed in has any part in it.   *)
THEOREM AnEntryHasOneHolder == AnswersSpec => []AnEntryIsCoveredOnOnePass
<1>1. AskedWhatIsAsked => AnEntryIsCoveredOnOnePass
  <2> SUFFICES ASSUME AskedWhatIsAsked, Answered, ~IsExit(question), answer.outcome = "covered"
               PROVE  AnEntryIsCoveredOnOnePass
      BY DEF AnEntryIsCoveredOnOnePass
  <2> DEFINE q == question
  <2>1. IsQuestion(q) /\ answer = Answer(q)
      BY QuestionsAssumption DEF AskedWhatIsAsked
  <2>2. PICK r \in Matching(q), p \in DOMAIN q.passes :
          /\ Effective(q) = {r} /\ Copies(q, q.registrations[r].pass) = {p}
          /\ q.garage.id \in q.passes[p].garages /\ p \in Candidates(q)
          /\ Answer(q) = Evaluate(q, q.passes[p])
      BY <2>1, ACoveredEntryHasOneHolder
  <2> DEFINE id == q.registrations[r].pass
             counted(s) == /\ InForce(q, q.registrations[s])
                           /\ \/ Copies(q, q.registrations[s].pass) = {}
                              \/ \E k \in Copies(q, q.registrations[s].pass) :
                                   q.garage.id \in q.passes[k].garages
  <2>3. q.passes[p].id = id
      BY <2>2 DEF Copies
  <2>4. Passed(q, q.passes[p]) /\ Answer(q).pass = id
      BY <2>1, <2>2, <2>3, EvaluateCoversWhatPassed
  <2>5. { s \in Matching(q) : counted(s) } = {r}
    <3>1. \A s \in Matching(q) : counted(s) => s \in Effective(q)
      <4> SUFFICES ASSUME NEW s \in Matching(q), counted(s) PROVE s \in Effective(q)
          OBVIOUS
      <4>1. s \in DOMAIN q.registrations /\ OfTheCar(q, q.registrations[s])
          BY DEF Matching, OfTheCar
      <4>2. Copies(q, q.registrations[s].pass) # {}
          BY <2>1, <4>1, ACoveredEntryHasOneHolder, EffectiveOn
      <4>3. HeldAt(q, q.registrations[s].pass)
          BY <4>2 DEF HeldAt, Selected
      <4> QED
          BY <4>1, <4>3, EffectiveOn
    <3>2. counted(r)
        BY <2>2, EffectiveOn DEF OfTheCar
    <3> QED
        BY <2>2, <3>1, <3>2
  <2>6. Answer(Alone(q, p)) = Answer(q)
      BY <2>1, <2>2, TheHolderAlone
  <2>7. ~q.registrations[r].exitOnly
    <3>1. SUFFICES ASSUME q.registrations[r].exitOnly PROVE FALSE
        OBVIOUS
    <3>2. r \in ReplacementsOf(q, q.passes[p].id)
        BY <2>2, <2>3, <3>1 DEF ReplacementsOf
    <3> QED
        BY <2>4, <3>2, PassedIsNotExitOnly
  <2> HIDE DEF counted
  <2>8. \E s \in Matching(q) :
          /\ q.registrations[s].pass = answer.pass
          /\ { t \in Matching(q) : counted(t) } = {s}
          /\ \E k \in DOMAIN q.passes :
               Copies(q, q.registrations[s].pass) = {k} /\ Answer(Alone(q, k)) = answer
          /\ ~q.registrations[s].exitOnly
      BY <2>1, <2>2, <2>4, <2>5, <2>6, <2>7
  <2> QED
      BY <2>8 DEF AnEntryIsCoveredOnOnePass, counted
<1> QED
    BY <1>1, TheAnswerAnswersTheQuestion, PTL

-----------------------------------------------------------------------------
(* An entry is counted on the clock of its own garage *)

(* The same passes and registrations: only the ledger may differ.          *)
LEMMA SameHands ==
    ASSUME NEW q, NEW w, SameCall(q, w), w.passes = q.passes, w.registrations = q.registrations
    PROVE  /\ \A id : HeldAt(w, id) <=> HeldAt(q, id)
           /\ \A id : RecordsOn(w, id) = RecordsOn(q, id)
           /\ Dangling(w) = Dangling(q) /\ Effective(w) = Effective(q)
           /\ DuplicatedInForce(w) = DuplicatedInForce(q) /\ Candidates(w) = Candidates(q)
           /\ NobodyHolds(w) = NobodyHolds(q) /\ \A S : FirstOf(w, S) = FirstOf(q, S)
<1>1. Today(w) = Today(q) /\ \A r : InForce(w, r) <=> InForce(q, r)
    BY CallsReadAlike
<1>2. \A id : Copies(w, id) = Copies(q, id)
    BY DEF Copies
<1>3. \A id : Duplicated(w, id) <=> Duplicated(q, id)
    BY <1>2 DEF Duplicated, SameCall
<1>4. \A id : Selected(w, id) = Selected(q, id)
    BY <1>2, <1>3 DEF Selected, SameCall
<1>5. Matching(w) = Matching(q)
    BY DEF Matching, SameCall
<1>6. Here(w) = Here(q)
    BY <1>3, <1>4, <1>5 DEF Here
<1>7. Dangling(w) = Dangling(q)
    BY <1>1, <1>2, <1>5 DEF Dangling
<1>8. Effective(w) = Effective(q)
    BY <1>1, <1>6 DEF Effective
<1>9. DuplicatedInForce(w) = DuplicatedInForce(q)
    BY <1>3, <1>8 DEF DuplicatedInForce
<1>10. Candidates(w) = Candidates(q)
    BY <1>2, <1>3, <1>4, <1>8 DEF Candidates
<1>11. NobodyHolds(w) = NobodyHolds(q)
  <2> DEFINE Revoked(v) == { k \in Here(v) : \E j \in Selected(v, v.registrations[k].pass) :
                                                 v.passes[j].state = "revoked" }
             End(v, k) == IF v.registrations[k].to = Forever THEN Today(v)
                          ELSE v.registrations[k].to
             Last(v) == { k \in Revoked(v) : \A j \in Revoked(v) :
                            \/ End(v, j) < End(v, k)
                            \/ /\ End(v, j) = End(v, k)
                               /\ v.registrations[j].from <= v.registrations[k].from }
             Said(v) == IF Revoked(v) # {}
                        THEN NotCovered(v, "REVOKED", v.registrations[Least(Last(v))].pass)
                        ELSE NotCovered(v, "NO_PASS", None)
  <2>1. NobodyHolds(w) = Said(w) /\ NobodyHolds(q) = Said(q)
      BY DEF NobodyHolds
  <2>2. Revoked(w) = Revoked(q)
      BY <1>4, <1>6
  <2>3. \A k : End(w, k) = End(q, k)
      BY <1>1
  <2> HIDE DEF Revoked, End
  <2>4. Last(w) = Last(q)
      BY <2>2, <2>3
  <2> HIDE DEF Last
  <2>5. \A reason, id : NotCovered(w, reason, id) = NotCovered(q, reason, id)
      BY CallsReadAlike
  <2>6. Said(w) = Said(q)
      BY <2>2, <2>4, <2>5
  <2> QED
      BY <2>1, <2>6
<1>12. \A S : FirstOf(w, S) = FirstOf(q, S)
    BY DEF FirstOf
<1>13. \A id : RecordsOn(w, id) = RecordsOn(q, id)
    BY DEF RecordsOn, On
<1> QED
    BY <1>3, <1>4, <1>7, <1>8, <1>9, <1>10, <1>11, <1>12, <1>13 DEF HeldAt

LEMMA SomeVisitsAsked ==
    ASSUME NEW q, IsQuestion(q), NEW S, S \subseteq DOMAIN q.visits
    PROVE  LET w == WithoutVisits(q, S)
           IN  /\ SameCall(q, w) /\ w.passes = q.passes /\ w.registrations = q.registrations
               /\ w.garages = q.garages /\ IsFiniteSet(DOMAIN w.visits)
               /\ DOMAIN w.visits \subseteq Nat
               /\ \E at \in Bijection(DOMAIN w.visits, DOMAIN q.visits \ S) :
                    /\ \A k \in DOMAIN w.visits : w.visits[k] = q.visits[at[k]]
                    /\ \A k, l \in DOMAIN w.visits : k < l => at[k] < at[l]
<1> DEFINE w == WithoutVisits(q, S)
           V == DOMAIN q.visits \ S
<1>1. w = [q EXCEPT !.visits = At(q.visits, V)]
    BY DEF WithoutVisits
<1>2. /\ w.visits = At(q.visits, V) /\ w.passes = q.passes /\ w.registrations = q.registrations
      /\ w.garages = q.garages /\ w.garage = q.garage
      /\ w.identity = q.identity /\ w.lane = q.lane /\ w.direction = q.direction
      /\ w.at = q.at /\ w.enteredAt = q.enteredAt
    BY <1>1 DEF IsQuestion
<1> HIDE DEF w
<1>3. IsSequence(q.visits) /\ V \subseteq DOMAIN q.visits
    BY DEF IsQuestion
<1> HIDE DEF V
<1>4. PICK at \in Bijection(DOMAIN At(q.visits, V), V) :
        /\ \A k \in DOMAIN At(q.visits, V) : At(q.visits, V)[k] = q.visits[at[k]]
        /\ \A k, l \in DOMAIN At(q.visits, V) : k < l => at[k] < at[l]
    BY <1>3, MembersAt
<1>5. IsSequence(w.visits)
    BY <1>2, <1>3, MembersAt
<1>6. IsFiniteSet(DOMAIN w.visits) /\ DOMAIN w.visits \subseteq Nat
    BY <1>5, FS_Interval DEF IsSequence
<1> QED
    BY <1>2, <1>4, <1>6 DEF SameCall, w, V

(* An entry with a clock is read on the one garage of its id.              *)
LEMMA TheClockOfItsGarage ==
    ASSUME NEW q, IsQuestion(q), NEW g, NoClock(q, g) = None,
           NEW z, \E h \in IF g = q.garage.id THEN {q.garage}
                           ELSE { q.garages[j] : j \in DOMAIN q.garages } :
                     h.id = g /\ h.zone = z
    PROVE  ZoneOf(q, g) = z
<1>1. CASE g = q.garage.id
    BY <1>1 DEF ZoneOf
<1>2. CASE g # q.garage.id
  <2>1. PICK j \in DOMAIN q.garages : q.garages[j].id = g /\ q.garages[j].zone = z
      BY <1>2
  <2>2. IsFiniteSet(HandedIn(q, g)) /\ HandedIn(q, g) \subseteq Nat
    <3>1. HandedIn(q, g) \in SUBSET DOMAIN q.garages
        BY DEF HandedIn
    <3>2. DOMAIN q.garages \subseteq Nat
        BY DEF IsQuestion, IsSequence
    <3> QED
        BY <3>1, <3>2, FinitePlaces, FS_Subset
  <2>3. ~(Cardinality(HandedIn(q, g)) > 1)
      BY <1>2, NoneAssumption DEF NoClock, REFUSED_TO_ANSWER
  <2>4. j \in HandedIn(q, g) /\ \A i \in HandedIn(q, g) : i = j
      BY <2>1, <2>2, <2>3, OneMember DEF HandedIn
  <2>5. Least(HandedIn(q, g)) = j
      BY <2>2, <2>4 DEF Least
  <2> QED
      BY <1>2, <2>1, <2>5 DEF ZoneOf
<1> QED
    BY <1>1, <1>2

(* Of a pass whose allowance is per window, no entry of another day counts.*)
LEMMA EntriesOfAnotherDay ==
    ASSUME NEW q, IsQuestion(q), ~IsExit(q), NEW p, p.terms.allowance.per = "window"
    PROVE  LET w == WithoutVisits(q, OnAnotherDay(q)) IN Evaluate(w, p) = Evaluate(q, p)
<1> DEFINE S == OnAnotherDay(q)
           w == WithoutVisits(q, S)
           V == DOMAIN q.visits \ S
<1>1. S \subseteq DOMAIN q.visits
    BY DEF OnAnotherDay
<1>2. /\ SameCall(q, w) /\ w.passes = q.passes /\ w.registrations = q.registrations
      /\ w.garages = q.garages /\ IsFiniteSet(DOMAIN w.visits) /\ DOMAIN w.visits \subseteq Nat
    BY <1>1, SomeVisitsAsked
<1>3. PICK at \in Bijection(DOMAIN w.visits, V) :
        /\ \A k \in DOMAIN w.visits : w.visits[k] = q.visits[at[k]]
        /\ \A k, l \in DOMAIN w.visits : k < l => at[k] < at[l]
    BY <1>1, SomeVisitsAsked
<1> HIDE DEF w, S
<1>4. /\ at \in [DOMAIN w.visits -> V]
      /\ \A j \in V : \E k \in DOMAIN w.visits : at[k] = j
    BY <1>3, Fun_BijectionProperties
<1>5. \A g : NoClock(w, g) = NoClock(q, g) /\ ZoneOf(w, g) = ZoneOf(q, g)
    BY <1>2 DEF NoClock, ZoneOf, HandedIn, SameCall
<1>6. /\ IsExit(w) <=> IsExit(q)
      /\ Today(w) = Today(q) /\ Minute(w) = Minute(q)
    BY <1>2, CallsReadAlike
<1>7. /\ Counts(w, p) <=> Counts(q, p)
      /\ OpenWindows(w, p) = OpenWindows(q, p)
    BY <1>6 DEF Counts, OpenWindows
<1>8. \A k \in DOMAIN w.visits : at[k] \in DOMAIN q.visits
                                 /\ (k \in OnPass(w, p) <=> at[k] \in OnPass(q, p))
    BY <1>3, <1>4 DEF OnPass
<1>9. \A k \in DOMAIN w.visits : k \in Unclocked(w, p) <=> at[k] \in Unclocked(q, p)
    BY <1>3, <1>5, <1>7, <1>8 DEF Unclocked
<1>10. Unclocked(w, p) \subseteq DOMAIN w.visits /\ Unclocked(q, p) \subseteq V
  <2>1. \A k \in Unclocked(q, p) : k \in DOMAIN q.visits /\ NoClock(q, q.visits[k].garage) # None
      BY DEF Unclocked, OnPass
  <2>2. \A k \in S : NoClock(q, q.visits[k].garage) = None
      BY DEF S, OnAnotherDay
  <2>3. Unclocked(w, p) \subseteq DOMAIN w.visits
      BY DEF Unclocked, OnPass
  <2> QED
      BY <2>1, <2>2, <2>3
<1>11. Unclocked(w, p) = {} <=> Unclocked(q, p) = {}
    BY <1>4, <1>9, <1>10
<1>12. VisitsUsed(w, p) = VisitsUsed(q, p)
  <2> DEFINE first == p.terms.windows[Least(OpenWindows(q, p))]
             Used(v, k) == LET e == v.visits[k]
                               read == MinuteAt[e.enteredAt][ZoneOf(v, e.garage)]
                           IN  /\ DayAt[e.enteredAt][ZoneOf(v, e.garage)] = Today(q)
                               /\ first.start <= read /\ read < first.end
             Of(v) == { k \in OnPass(v, p) : Used(v, k) }
  <2>1. VisitsUsed(w, p) = Cardinality(Of(w)) /\ VisitsUsed(q, p) = Cardinality(Of(q))
      BY <1>6, <1>7 DEF VisitsUsed
  <2>2. \A k \in DOMAIN w.visits : Used(w, k) <=> Used(q, at[k])
      BY <1>3, <1>5
  <2>3. ASSUME NEW k \in Of(q) PROVE k \in V
    <3>1. k \in DOMAIN q.visits
        BY DEF OnPass
    <3>2. SUFFICES ASSUME k \in S PROVE FALSE
        BY <3>1
    <3> DEFINE g == q.visits[k].garage
    <3>3. NoClock(q, g) = None
        BY <3>2 DEF S, OnAnotherDay
    <3>4. PICK h \in IF g = q.garage.id THEN {q.garage}
                     ELSE { q.garages[j] : j \in DOMAIN q.garages } :
            h.id = g /\ DayAt[q.visits[k].enteredAt][h.zone] # Today(q)
        BY <3>2 DEF S, OnAnotherDay
    <3>5. ZoneOf(q, g) = h.zone
        BY <3>3, <3>4, TheClockOfItsGarage
    <3> QED
        BY <3>4, <3>5
  <2> HIDE DEF Used
  <2>4. Of(w) \subseteq DOMAIN w.visits /\ \A k \in DOMAIN w.visits : k \in Of(w) <=> at[k] \in Of(q)
      BY <1>8, <2>2 DEF OnPass
  <2>5. Of(q) \subseteq V
      BY <2>3
  <2> HIDE DEF Of
  <2> QED
      BY <1>2, <1>3, <2>1, <2>4, <2>5, AsMany
<1>13. MeasuredAlike(q, p, w, p)
  <2>1. /\ ReplacementsOf(w, p.id) = {} <=> ReplacementsOf(q, p.id) = {}
        /\ ReplacedAt(w, p.id) = ReplacedAt(q, p.id)
    <3>1. RecordsOn(w, p.id) = RecordsOn(q, p.id) /\ (HeldAt(w, p.id) <=> HeldAt(q, p.id))
        BY <1>2, SameHands
    <3> QED
        BY <1>2, <3>1, ReplacedAlike
  <2> QED
      BY <1>11, <1>12, <2>1 DEF MeasuredAlike
<1>14. Alike(q, p, w, p)
    BY <1>2, <1>13 DEF Alike
<1>15. ASSUME Unclocked(q, p) # {}
       PROVE  q.visits[Least(Unclocked(q, p))].garage = w.visits[Least(Unclocked(w, p))].garage
  <2>1. Unclocked(w, p) # {} /\ Unclocked(w, p) \subseteq Nat
      BY <1>2, <1>10, <1>11, <1>15
  <2>2. \E x \in Unclocked(w, p) : \A y \in Unclocked(w, p) : x <= y
      BY <2>1, LeastNatural
  <2> DEFINE k == Least(Unclocked(w, p))
  <2>3. k \in Unclocked(w, p) /\ \A y \in Unclocked(w, p) : k <= y
      BY <2>2 DEF Least
  <2> HIDE DEF k
  <2>4. k \in DOMAIN w.visits /\ at[k] \in Unclocked(q, p)
      BY <1>9, <1>10, <2>3
  <2>5. V \subseteq Nat
      BY DEF IsQuestion, IsSequence
  <2>6. ASSUME NEW j \in Unclocked(q, p) PROVE at[k] <= j
    <3>1. PICK l \in DOMAIN w.visits : at[l] = j
        BY <1>4, <1>10
    <3>2. l \in Unclocked(w, p)
        BY <1>9, <3>1
    <3>3. k <= l /\ k \in Nat /\ l \in Nat
        BY <1>2, <2>3, <2>4, <3>2
    <3>4. k = l \/ k < l
        BY <3>3
    <3>5. at[k] \in Nat /\ at[l] \in Nat
        BY <1>4, <2>4, <2>5
    <3> QED
        BY <1>3, <2>4, <3>1, <3>4, <3>5
  <2>7. Least(Unclocked(q, p)) = at[k]
    <3>1. \A x \in Unclocked(q, p) : (\A y \in Unclocked(q, p) : x <= y) => x = at[k]
      <4> SUFFICES ASSUME NEW x \in Unclocked(q, p), \A y \in Unclocked(q, p) : x <= y
                   PROVE  x = at[k]
          OBVIOUS
      <4>1. x <= at[k] /\ at[k] <= x
          BY <2>4, <2>6
      <4>2. x \in Nat /\ at[k] \in Nat
          BY <1>10, <2>4, <2>5
      <4> QED
          BY <4>1, <4>2
    <3> QED
        BY <2>4, <2>6, <3>1 DEF Least
  <2> QED
      BY <1>3, <2>4, <2>7 DEF k
<1>16. FailedCheck(q, p) = "NO_CLOCK" /\ ~Passed(q, p) => Unclocked(q, p) # {}
    BY TheFailedCheckFails DEF Fails
<1>17. Evaluate(w, p) = Evaluate(q, p)
    BY <1>5, <1>14, <1>15, <1>16, EvaluatedAlike
<1> QED
    BY <1>17 DEF w, S

LEMMA AnsweredAlikeOnItsOwnClock ==
    ASSUME NEW q, IsQuestion(q), ~IsExit(q),
           \A p \in DOMAIN q.passes : q.passes[p].terms.allowance.per = "window"
    PROVE  Answer(WithoutVisits(q, OnAnotherDay(q))) = Answer(q)
<1> DEFINE w == WithoutVisits(q, OnAnotherDay(q))
<1>1. OnAnotherDay(q) \subseteq DOMAIN q.visits
    BY DEF OnAnotherDay
<1>2. SameCall(q, w) /\ w.passes = q.passes /\ w.registrations = q.registrations
    BY <1>1, SomeVisitsAsked
<1>3. \A p \in DOMAIN q.passes : Evaluate(w, q.passes[p]) = Evaluate(q, q.passes[p])
    BY EntriesOfAnotherDay
<1> HIDE DEF w
<1>4. /\ Dangling(w) = Dangling(q) /\ Effective(w) = Effective(q)
      /\ DuplicatedInForce(w) = DuplicatedInForce(q) /\ Candidates(w) = Candidates(q)
      /\ NobodyHolds(w) = NobodyHolds(q) /\ \A S : FirstOf(w, S) = FirstOf(q, S)
    BY <1>2, SameHands
<1>5. ~IsExit(w) /\ w.garage = q.garage /\ w.identity = q.identity /\ w.lane = q.lane
    BY <1>2 DEF SameCall, IsExit
<1>6. \A reason, missing : Unanswerable(w, reason, missing) = Unanswerable(q, reason, missing)
    BY <1>2, CallsReadAlike
<1>7. Effective(q) # {} =>
        Evaluate(w, FirstOf(w, Candidates(w))) = Evaluate(q, FirstOf(q, Candidates(q)))
  <2> SUFFICES ASSUME Effective(q) # {}
               PROVE  Evaluate(w, FirstOf(q, Candidates(q))) = Evaluate(q, FirstOf(q, Candidates(q)))
      BY <1>4
  <2>1. Candidates(q) # {} /\ Candidates(q) \subseteq DOMAIN q.passes
      BY CandidatesHoldTheCar
  <2>2. PICK k \in Candidates(q) : FirstOf(q, Candidates(q)) = q.passes[k]
      BY <2>1, FirstOfIsOneOfThem
  <2> QED
      BY <1>3, <2>1, <2>2
<1>8. OfTheRegistrations(w) = OfTheRegistrations(q)
    BY <1>4, <1>5, <1>7 DEF OfTheRegistrations
<1> QED
    BY <1>5, <1>6, <1>8 DEF Answer, w

(* An allowance per window counts each entry by the day it fell on at its  *)
(* own garage, and admits nobody while one entry has no clock.             *)
THEOREM EntriesAreReadOnTheirOwnClock == AnswersSpec => []EachEntryOnItsOwnClock
<1>1. AskedWhatIsAsked => EachEntryOnItsOwnClock
  <2> SUFFICES ASSUME AskedWhatIsAsked, Answered, ~IsExit(question) PROVE EachEntryOnItsOwnClock
      BY DEF EachEntryOnItsOwnClock
  <2> DEFINE q == question
  <2>1. IsQuestion(q) /\ answer = Answer(q)
      BY QuestionsAssumption DEF AskedWhatIsAsked
  <2>2. (\A p \in DOMAIN q.passes : q.passes[p].terms.allowance.per = "window")
        => Answer(WithoutVisits(q, OnAnotherDay(q))) = answer
      BY <2>1, AnsweredAlikeOnItsOwnClock
  <2>3. ASSUME answer.outcome = "covered", NEW p \in DOMAIN q.passes, NEW v \in DOMAIN q.visits,
               q.passes[p].id = answer.pass, q.visits[v].pass = answer.pass,
               q.passes[p].terms.allowance.count > 0,
               q.passes[p].terms.allowance.per = "window"
        PROVE  NoClock(q, q.visits[v].garage) = None
    <3>1. PICK r \in Matching(q), h \in DOMAIN q.passes :
            /\ Copies(q, q.registrations[r].pass) = {h} /\ Answer(q) = Evaluate(q, q.passes[h])
        BY <2>1, <2>3, ACoveredEntryHasOneHolder
    <3>2. Passed(q, q.passes[h]) /\ answer.pass = q.passes[h].id
        BY <2>1, <2>3, <3>1, EvaluateCoversWhatPassed
    <3>3. q.passes[h].id = q.registrations[r].pass
        BY <3>1 DEF Copies
    <3>4. p = h
        BY <2>3, <3>1, <3>2, <3>3 DEF Copies
    <3>5. ~Fails(q, q.passes[p], "NO_CLOCK")
      <4>1. 11 \in DOMAIN CHECKS /\ CHECKS[11] = "NO_CLOCK"
          BY DEF CHECKS
      <4> QED
          BY <3>2, <3>4, <4>1 DEF Passed
    <3>6. Unclocked(q, q.passes[p]) = {}
        BY <3>5 DEF Fails
    <3>7. Counts(q, q.passes[p]) /\ v \in OnPass(q, q.passes[p])
        BY <2>3 DEF Counts, OnPass
    <3> QED
        BY <2>3, <3>6, <3>7 DEF Unclocked
  <2> QED
      BY <2>2, <2>3 DEF EachEntryOnItsOwnClock
<1> QED
    BY <1>1, TheAnswerAnswersTheQuestion, PTL

-----------------------------------------------------------------------------
(* The same question in another order *)

Reordered(s, t, at) ==
    at \in Bijection(DOMAIN t, DOMAIN s) /\ \A k \in DOMAIN t : t[k] = s[at[k]]

Shuffled(q, u, ps, rs, vs, gs) ==
    /\ IsQuestion(q) /\ IsQuestion(u) /\ SameCall(q, u)
    /\ Reordered(q.passes, u.passes, ps) /\ Reordered(q.registrations, u.registrations, rs)
    /\ Reordered(q.visits, u.visits, vs) /\ Reordered(q.garages, u.garages, gs)

LEMMA ReorderedHasTheSame ==
    ASSUME NEW s, NEW t, NEW at, Reordered(s, t, at)
    PROVE  /\ at \in [DOMAIN t -> DOMAIN s]
           /\ \A j \in DOMAIN s : \E k \in DOMAIN t : at[k] = j
           /\ \A k \in DOMAIN t : t[k] = s[at[k]]
           /\ \A j \in DOMAIN s : \E k \in DOMAIN t : at[k] = j /\ t[k] = s[j]
BY Fun_BijectionProperties DEF Reordered

(* What the places pick by what is there, they pick as often.              *)
LEMMA ReorderedPicks ==
    ASSUME NEW s, NEW t, NEW at, Reordered(s, t, at), IsFiniteSet(DOMAIN t),
           NEW S \in SUBSET DOMAIN s, NEW T \in SUBSET DOMAIN t,
           \A k \in DOMAIN t : k \in T <=> at[k] \in S
    PROVE  Cardinality(T) = Cardinality(S) /\ (T = {} <=> S = {})
<1>1. Cardinality(T) = Cardinality(S)
    BY AsMany DEF Reordered
<1>2. /\ \A k \in T : at[k] \in S
      /\ \A j \in S : \E k \in T : at[k] = j
    BY ReorderedHasTheSame
<1> QED
    BY <1>1, <1>2

LEMMA ReorderedPicksTheSame ==
    ASSUME NEW s, NEW t, NEW at, Reordered(s, t, at),
           NEW S \in SUBSET DOMAIN s, NEW T \in SUBSET DOMAIN t,
           \A k \in DOMAIN t : k \in T <=> at[k] \in S
    PROVE  { t[k] : k \in T } = { s[k] : k \in S }
<1>1. /\ \A k \in T : at[k] \in S /\ t[k] = s[at[k]]
      /\ \A j \in S : \E k \in T : at[k] = j /\ t[k] = s[j]
    BY ReorderedHasTheSame
<1> QED
    BY <1>1

LEMMA ShuffledPasses ==
    ASSUME NEW q, NEW u, NEW ps, NEW rs, NEW vs, NEW gs, Shuffled(q, u, ps, rs, vs, gs), NEW id
    PROVE  /\ \A k \in DOMAIN u.passes : k \in Copies(u, id) <=> ps[k] \in Copies(q, id)
           /\ Copies(u, id) = {} <=> Copies(q, id) = {}
           /\ Duplicated(u, id) <=> Duplicated(q, id)
           /\ \A k \in DOMAIN u.passes : k \in Selected(u, id) <=> ps[k] \in Selected(q, id)
           /\ HeldAt(u, id) <=> HeldAt(q, id)
<1> DEFINE s == q.passes
           t == u.passes
           named(w) == { k \in Copies(w, id) : w.garage.id \in w.passes[k].garages }
<1>1. /\ Reordered(s, t, ps) /\ IsFiniteSet(DOMAIN t) /\ u.garage = q.garage
    BY FinitePlaces DEF Shuffled, SameCall
<1>2. /\ \A k \in DOMAIN t : ps[k] \in DOMAIN s /\ t[k] = s[ps[k]]
      /\ \A j \in DOMAIN s : \E k \in DOMAIN t : ps[k] = j
    BY <1>1, ReorderedHasTheSame
<1>3. \A k \in DOMAIN t : k \in Copies(u, id) <=> ps[k] \in Copies(q, id)
    BY <1>2 DEF Copies
<1>4. Copies(u, id) \in SUBSET DOMAIN t /\ Copies(q, id) \in SUBSET DOMAIN s
    BY DEF Copies
<1>5. /\ Cardinality(Copies(u, id)) = Cardinality(Copies(q, id))
      /\ Copies(u, id) = {} <=> Copies(q, id) = {}
  <2> DEFINE T == Copies(u, id)
             S == Copies(q, id)
  <2>1. \A k \in DOMAIN t : k \in T <=> ps[k] \in S
      BY <1>3
  <2>2. Reordered(s, t, ps) /\ IsFiniteSet(DOMAIN t) /\ T \in SUBSET DOMAIN t /\ S \in SUBSET DOMAIN s
      BY <1>1, <1>4
  <2> HIDE DEF s, t, S, T
  <2>3. Cardinality(T) = Cardinality(S) /\ (T = {} <=> S = {})
      BY <2>1, <2>2, ReorderedPicks
  <2> QED
      BY <2>3 DEF S, T
<1>6. \A k \in DOMAIN t : k \in named(u) <=> ps[k] \in named(q)
    BY <1>1, <1>2, <1>3
<1>7. named(u) \in SUBSET DOMAIN t /\ named(q) \in SUBSET DOMAIN s
    BY <1>4
<1>8. named(u) = {} <=> named(q) = {}
  <2> HIDE DEF named, s, t
  <2> QED
      BY <1>1, <1>6, <1>7, ReorderedPicks
<1>9. Duplicated(u, id) <=> Duplicated(q, id)
    BY <1>5, <1>8 DEF Duplicated
<1>10. \A k \in DOMAIN u.passes : k \in Selected(u, id) <=> ps[k] \in Selected(q, id)
    BY <1>1, <1>2, <1>3, <1>9 DEF Selected
<1>11. Selected(u, id) \in SUBSET DOMAIN t /\ Selected(q, id) \in SUBSET DOMAIN s
    BY <1>4 DEF Selected
<1>12. Selected(u, id) = {} <=> Selected(q, id) = {}
  <2> DEFINE T == Selected(u, id)
             S == Selected(q, id)
  <2>1. \A k \in DOMAIN t : k \in T <=> ps[k] \in S
      BY <1>10
  <2>2. Reordered(s, t, ps) /\ IsFiniteSet(DOMAIN t) /\ T \in SUBSET DOMAIN t /\ S \in SUBSET DOMAIN s
      BY <1>1, <1>11
  <2> HIDE DEF s, t, S, T
  <2>3. T = {} <=> S = {}
      BY <2>1, <2>2, ReorderedPicks
  <2> QED
      BY <2>3 DEF S, T
<1> QED
    BY <1>3, <1>5, <1>9, <1>10, <1>12 DEF HeldAt

LEMMA ShuffledRegistrations ==
    ASSUME NEW q, NEW u, NEW ps, NEW rs, NEW vs, NEW gs, Shuffled(q, u, ps, rs, vs, gs)
    PROVE  /\ Effective(u) = {} <=> Effective(q) = {}
           /\ Cardinality(Effective(u)) = Cardinality(Effective(q))
           /\ Dangling(u) = {} <=> Dangling(q) = {}
           /\ DuplicatedInForce(u) = {} <=> DuplicatedInForce(q) = {}
           /\ \A id : RecordsOn(u, id) = RecordsOn(q, id)
           /\ \A k \in DOMAIN u.passes : k \in Candidates(u) <=> ps[k] \in Candidates(q)
<1> DEFINE s == q.registrations
           t == u.registrations
<1>1. Reordered(s, t, rs) /\ IsFiniteSet(DOMAIN t) /\ SameCall(q, u)
    BY FinitePlaces DEF Shuffled
<1>2. /\ \A k \in DOMAIN t : rs[k] \in DOMAIN s /\ t[k] = s[rs[k]]
      /\ \A j \in DOMAIN s : \E k \in DOMAIN t : rs[k] = j
    BY <1>1, ReorderedHasTheSame
<1>3. \A r : OfTheCar(u, r) <=> OfTheCar(q, r)
    BY <1>1, CallsReadAlike DEF OfTheCar, SameCall
<1>4. \A id : /\ HeldAt(u, id) <=> HeldAt(q, id)
              /\ Copies(u, id) = {} <=> Copies(q, id) = {}
              /\ Duplicated(u, id) <=> Duplicated(q, id)
    BY ShuffledPasses
<1>5. \A w : /\ Effective(w) \in SUBSET DOMAIN w.registrations
             /\ Dangling(w) \in SUBSET DOMAIN w.registrations
             /\ DuplicatedInForce(w) \in SUBSET DOMAIN w.registrations
    BY EffectiveOn DEF DuplicatedInForce
<1>6. ASSUME NEW k \in DOMAIN t
      PROVE  /\ k \in Effective(u) <=> rs[k] \in Effective(q)
             /\ k \in Dangling(u) <=> rs[k] \in Dangling(q)
             /\ k \in DuplicatedInForce(u) <=> rs[k] \in DuplicatedInForce(q)
  <2>1. rs[k] \in DOMAIN s /\ t[k] = s[rs[k]]
      BY <1>2
  <2>2. k \in Effective(u) <=> rs[k] \in Effective(q)
      BY <1>3, <1>4, <2>1, EffectiveOn
  <2>3. k \in Dangling(u) <=> rs[k] \in Dangling(q)
      BY <1>3, <1>4, <2>1, EffectiveOn
  <2> QED
      BY <1>4, <2>1, <2>2, <2>3 DEF DuplicatedInForce
<1>7. /\ Effective(u) = {} <=> Effective(q) = {}
      /\ Cardinality(Effective(u)) = Cardinality(Effective(q))
  <2> DEFINE T == Effective(u)
             S == Effective(q)
  <2>1. \A k \in DOMAIN t : k \in T <=> rs[k] \in S
      BY <1>6
  <2>2. Reordered(s, t, rs) /\ IsFiniteSet(DOMAIN t) /\ T \in SUBSET DOMAIN t /\ S \in SUBSET DOMAIN s
      BY <1>1, <1>5
  <2> HIDE DEF s, t, S, T
  <2>3. Cardinality(T) = Cardinality(S) /\ (T = {} <=> S = {})
      BY <2>1, <2>2, ReorderedPicks
  <2> QED
      BY <2>3 DEF S, T
<1>8. Dangling(u) = {} <=> Dangling(q) = {}
  <2> DEFINE T == Dangling(u)
             S == Dangling(q)
  <2>1. \A k \in DOMAIN t : k \in T <=> rs[k] \in S
      BY <1>6
  <2>2. Reordered(s, t, rs) /\ IsFiniteSet(DOMAIN t) /\ T \in SUBSET DOMAIN t /\ S \in SUBSET DOMAIN s
      BY <1>1, <1>5
  <2> HIDE DEF s, t, S, T
  <2>3. Cardinality(T) = Cardinality(S) /\ (T = {} <=> S = {})
      BY <2>1, <2>2, ReorderedPicks
  <2> QED
      BY <2>3 DEF S, T
<1>9. DuplicatedInForce(u) = {} <=> DuplicatedInForce(q) = {}
  <2> DEFINE T == DuplicatedInForce(u)
             S == DuplicatedInForce(q)
  <2>1. \A k \in DOMAIN t : k \in T <=> rs[k] \in S
      BY <1>6
  <2>2. Reordered(s, t, rs) /\ IsFiniteSet(DOMAIN t) /\ T \in SUBSET DOMAIN t /\ S \in SUBSET DOMAIN s
      BY <1>1, <1>5
  <2> HIDE DEF s, t, S, T
  <2>3. Cardinality(T) = Cardinality(S) /\ (T = {} <=> S = {})
      BY <2>1, <2>2, ReorderedPicks
  <2> QED
      BY <2>3 DEF S, T
<1>10. ASSUME NEW id PROVE RecordsOn(u, id) = RecordsOn(q, id)
  <2>1. On(u, id) \in SUBSET DOMAIN t /\ On(q, id) \in SUBSET DOMAIN s
      BY DEF On
  <2>2. \A k \in DOMAIN t : k \in On(u, id) <=> rs[k] \in On(q, id)
      BY <1>2 DEF On
  <2>3. { t[k] : k \in On(u, id) } = { s[k] : k \in On(q, id) }
    <3>1. Reordered(s, t, rs)
        BY <1>1
    <3> HIDE DEF s, t
    <3> QED
        BY <2>1, <2>2, <3>1, ReorderedPicksTheSame
  <2> QED
      BY <2>3 DEF RecordsOn
<1>11. ASSUME NEW k \in DOMAIN u.passes PROVE k \in Candidates(u) <=> ps[k] \in Candidates(q)
  <2> DEFINE Holds(w, j, r) == /\ j \in Copies(w, w.registrations[r].pass)
                               /\ \/ Duplicated(w, w.registrations[r].pass)
                                  \/ w.garage.id \in w.passes[j].garages
  <2>1. u.passes[k] = q.passes[ps[k]] /\ u.garage = q.garage
      BY ReorderedHasTheSame DEF Shuffled, SameCall
  <2>2. \A id : k \in Copies(u, id) <=> ps[k] \in Copies(q, id)
      BY ShuffledPasses
  <2>3. \A r \in DOMAIN t : Holds(u, k, r) <=> Holds(q, ps[k], rs[r])
      BY <1>2, <1>4, <2>1, <2>2
  <2>4. /\ k \in Candidates(u) <=> \E r \in Effective(u) : Holds(u, k, r)
        /\ ps[k] \in Candidates(q) <=> \E r \in Effective(q) : Holds(q, ps[k], r)
      BY CandidatesAre
  <2> HIDE DEF Holds
  <2> QED
      BY <1>2, <1>5, <1>6, <2>3, <2>4
<1> QED
    BY <1>7, <1>8, <1>9, <1>10, <1>11

(* A garage id is on as many of the garages handed in, and an entry at it  *)
(* is read on the same clock or on none for the same reason.               *)
LEMMA ShuffledGarages ==
    ASSUME NEW q, NEW u, NEW ps, NEW rs, NEW vs, NEW gs, Shuffled(q, u, ps, rs, vs, gs), NEW g
    PROVE  /\ NoClock(u, g) = NoClock(q, g)
           /\ NoClock(q, g) = None => ZoneOf(u, g) = ZoneOf(q, g)
<1> DEFINE s == q.garages
           t == u.garages
<1>1. /\ Reordered(s, t, gs) /\ IsFiniteSet(DOMAIN t) /\ IsFiniteSet(DOMAIN s)
      /\ DOMAIN s \subseteq Nat /\ DOMAIN t \subseteq Nat
      /\ u.garage = q.garage
  <2>1. IsQuestion(q) /\ IsQuestion(u) /\ Reordered(s, t, gs) /\ u.garage = q.garage
      BY DEF Shuffled, SameCall
  <2>2. IsFiniteSet(DOMAIN t) /\ IsFiniteSet(DOMAIN s)
      BY <2>1, FinitePlaces
  <2>3. IsSequence(s) /\ IsSequence(t)
      BY <2>1 DEF IsQuestion
  <2>4. DOMAIN s \subseteq Nat /\ DOMAIN t \subseteq Nat
      BY <2>3 DEF IsSequence
  <2> QED
      BY <2>1, <2>2, <2>4
<1>2. /\ \A k \in DOMAIN t : gs[k] \in DOMAIN s /\ t[k] = s[gs[k]]
      /\ \A j \in DOMAIN s : \E k \in DOMAIN t : gs[k] = j
    BY <1>1, ReorderedHasTheSame
<1>3. /\ HandedIn(u, g) \in SUBSET DOMAIN t /\ HandedIn(q, g) \in SUBSET DOMAIN s
      /\ \A k \in DOMAIN t : k \in HandedIn(u, g) <=> gs[k] \in HandedIn(q, g)
    BY <1>2 DEF HandedIn
<1>4. /\ Cardinality(HandedIn(u, g)) = Cardinality(HandedIn(q, g))
      /\ HandedIn(u, g) = {} <=> HandedIn(q, g) = {}
  <2> DEFINE T == HandedIn(u, g)
             S == HandedIn(q, g)
  <2>1. \A k \in DOMAIN t : k \in T <=> gs[k] \in S
      BY <1>3
  <2>2. Reordered(s, t, gs) /\ IsFiniteSet(DOMAIN t) /\ T \in SUBSET DOMAIN t /\ S \in SUBSET DOMAIN s
      BY <1>1, <1>3
  <2> HIDE DEF s, t, S, T
  <2>3. Cardinality(T) = Cardinality(S) /\ (T = {} <=> S = {})
      BY <2>1, <2>2, ReorderedPicks
  <2> QED
      BY <2>3 DEF S, T
<1>5. ASSUME HandedIn(q, g) # {}, ~(Cardinality(HandedIn(q, g)) > 1)
      PROVE  t[Least(HandedIn(u, g))] = s[Least(HandedIn(q, g))]
  <2>1. IsFiniteSet(HandedIn(q, g)) /\ IsFiniteSet(HandedIn(u, g))
      BY <1>1, <1>3, FS_Subset
  <2>2. PICK k \in DOMAIN t : k \in HandedIn(u, g) /\ gs[k] \in HandedIn(q, g)
      BY <1>3, <1>4, <1>5
  <2>3. HandedIn(u, g) = {k} /\ HandedIn(q, g) = {gs[k]}
      BY <1>4, <1>5, <2>1, <2>2, OneMember
  <2>4. k \in Nat /\ gs[k] \in Nat /\ t[k] = s[gs[k]]
      BY <1>1, <1>2, <2>2
  <2>5. \A x \in Nat : Least({x}) = x
      BY DEF Least
  <2> QED
      BY <2>3, <2>4, <2>5
<1>6. NoClock(u, g) = NoClock(q, g)
    BY <1>1, <1>4, <1>5 DEF NoClock
<1>7. ASSUME NoClock(q, g) = None PROVE ZoneOf(u, g) = ZoneOf(q, g)
  <2>1. CASE g = q.garage.id
      BY <1>1, <2>1 DEF ZoneOf
  <2>2. CASE g # q.garage.id
    <3>1. HandedIn(q, g) # {} /\ ~(Cardinality(HandedIn(q, g)) > 1)
        BY <1>7, <2>2, NoneAssumption DEF NoClock, REFUSED_TO_ANSWER
    <3> QED
        BY <1>1, <1>5, <2>2, <3>1 DEF ZoneOf
  <2> QED
      BY <2>1, <2>2
<1> QED
    BY <1>6, <1>7

LEMMA ShuffledLedger ==
    ASSUME NEW q, NEW u, NEW ps, NEW rs, NEW vs, NEW gs, Shuffled(q, u, ps, rs, vs, gs),
           NEW p, NEW r, r.id = p.id, r.terms = p.terms,
           p.terms.allowance.per \in {"window", "life"}
    PROVE  MeasuredAlike(q, p, u, r)
<1> DEFINE s == q.visits
           t == u.visits
<1>1. Reordered(s, t, vs) /\ IsFiniteSet(DOMAIN t) /\ SameCall(q, u)
    BY FinitePlaces DEF Shuffled
<1>2. /\ \A k \in DOMAIN t : vs[k] \in DOMAIN s /\ t[k] = s[vs[k]]
      /\ \A j \in DOMAIN s : \E k \in DOMAIN t : vs[k] = j
    BY <1>1, ReorderedHasTheSame
<1>3. /\ IsExit(u) <=> IsExit(q)
      /\ Today(u) = Today(q) /\ Minute(u) = Minute(q)
    BY <1>1, CallsReadAlike
<1>4. /\ Counts(u, r) <=> Counts(q, p)
      /\ OpenWindows(u, r) = OpenWindows(q, p)
    BY <1>3 DEF Counts, OpenWindows
<1>5. /\ OnPass(u, r) \in SUBSET DOMAIN t /\ OnPass(q, p) \in SUBSET DOMAIN s
      /\ \A k \in DOMAIN t : k \in OnPass(u, r) <=> vs[k] \in OnPass(q, p)
    BY <1>2 DEF OnPass
<1>6. /\ \A g : NoClock(u, g) = NoClock(q, g)
      /\ \A g : NoClock(q, g) = None => ZoneOf(u, g) = ZoneOf(q, g)
    BY ShuffledGarages
<1>7. Unclocked(u, r) = {} <=> Unclocked(q, p) = {}
  <2> DEFINE T == Unclocked(u, r)
             S == Unclocked(q, p)
  <2>1. \A k \in DOMAIN t : k \in T <=> vs[k] \in S
      BY <1>2, <1>4, <1>5, <1>6 DEF Unclocked
  <2>2. T \in SUBSET DOMAIN t /\ S \in SUBSET DOMAIN s
      BY <1>5 DEF Unclocked
  <2>3. Reordered(s, t, vs) /\ IsFiniteSet(DOMAIN t)
      BY <1>1
  <2> HIDE DEF s, t, S, T
  <2>4. T = {} <=> S = {}
      BY <2>1, <2>2, <2>3, ReorderedPicks
  <2> QED
      BY <2>4 DEF S, T
<1>8. ASSUME Counts(q, p), Unclocked(q, p) = {} PROVE VisitsUsed(u, r) = VisitsUsed(q, p)
  <2>1. CASE p.terms.allowance.per = "life"
    <3>1. Cardinality(OnPass(u, r)) = Cardinality(OnPass(q, p))
      <4> DEFINE T == OnPass(u, r)
                 S == OnPass(q, p)
      <4>1. \A k \in DOMAIN t : k \in T <=> vs[k] \in S
          BY <1>5
      <4>2. Reordered(s, t, vs) /\ IsFiniteSet(DOMAIN t) /\ T \in SUBSET DOMAIN t /\ S \in SUBSET DOMAIN s
          BY <1>1, <1>5
      <4> HIDE DEF s, t, S, T
      <4>3. Cardinality(T) = Cardinality(S)
          BY <4>1, <4>2, ReorderedPicks
      <4> QED
          BY <4>3 DEF S, T
    <3> QED
        BY <2>1, <3>1 DEF VisitsUsed
  <2>2. CASE p.terms.allowance.per = "window"
    <3> DEFINE first == p.terms.windows[Least(OpenWindows(q, p))]
               Used(w, k) == LET e == w.visits[k]
                                 read == MinuteAt[e.enteredAt][ZoneOf(w, e.garage)]
                             IN  /\ DayAt[e.enteredAt][ZoneOf(w, e.garage)] = Today(q)
                                 /\ first.start <= read /\ read < first.end
               Of(w, x) == { k \in OnPass(w, x) : Used(w, k) }
    <3>1. VisitsUsed(u, r) = Cardinality(Of(u, r)) /\ VisitsUsed(q, p) = Cardinality(Of(q, p))
        BY <1>3, <1>4, <2>2 DEF VisitsUsed
    <3>2. \A j \in OnPass(q, p) : NoClock(q, s[j].garage) = None
        BY <1>8, <2>2 DEF Unclocked
    <3>3. \A k \in DOMAIN t : vs[k] \in OnPass(q, p) => (Used(u, k) <=> Used(q, vs[k]))
        BY <1>2, <1>6, <3>2
    <3> HIDE DEF Used
    <3>4. \A k \in DOMAIN t : k \in Of(u, r) <=> vs[k] \in Of(q, p)
        BY <1>5, <3>3
    <3>5. Of(u, r) \in SUBSET DOMAIN t /\ Of(q, p) \in SUBSET DOMAIN s
        BY <1>5
    <3> HIDE DEF Of
    <3>6. Cardinality(Of(u, r)) = Cardinality(Of(q, p))
      <4> DEFINE T == Of(u, r)
                 S == Of(q, p)
      <4>1. \A k \in DOMAIN t : k \in T <=> vs[k] \in S
          BY <3>4
      <4>2. Reordered(s, t, vs) /\ IsFiniteSet(DOMAIN t) /\ T \in SUBSET DOMAIN t /\ S \in SUBSET DOMAIN s
          BY <1>1, <3>5
      <4> HIDE DEF s, t, S, T
      <4>3. Cardinality(T) = Cardinality(S)
          BY <4>1, <4>2, ReorderedPicks
      <4> QED
          BY <4>3 DEF S, T
    <3> QED
        BY <3>1, <3>6
  <2> QED
      BY <2>1, <2>2
<1>9. EnteredHere(u, r) = EnteredHere(q, p)
  <2> DEFINE Open(w, x) == { j \in OnPass(w, x) : /\ w.visits[j].garage = w.garage.id
                                                  /\ Key[w.visits[j].identity] = Key[w.identity]
                                                  /\ w.visits[j].exitedAt = None }
             entered(w, x) == { w.visits[k].enteredAt : k \in Open(w, x) }
  <2>1. \A k \in DOMAIN t : k \in Open(u, r) <=> vs[k] \in Open(q, p)
      BY <1>1, <1>2, <1>5 DEF SameCall
  <2>2. Open(u, r) \in SUBSET DOMAIN t /\ Open(q, p) \in SUBSET DOMAIN s
      BY <1>5
  <2>3. /\ EnteredHere(u, r) = IF entered(u, r) = {} THEN None ELSE Largest(entered(u, r))
        /\ EnteredHere(q, p) = IF entered(q, p) = {} THEN None ELSE Largest(entered(q, p))
      BY DEF EnteredHere
  <2> HIDE DEF Open
  <2>4. /\ \A k \in Open(u, r) : vs[k] \in Open(q, p) /\ t[k] = s[vs[k]]
        /\ \A j \in Open(q, p) : \E k \in Open(u, r) : vs[k] = j /\ t[k] = s[j]
      BY <1>2, <2>1, <2>2
  <2>5. entered(u, r) = entered(q, p)
      BY <2>4
  <2> HIDE DEF entered
  <2> QED
      BY <2>3, <2>5
<1>10. /\ ReplacementsOf(u, r.id) = {} <=> ReplacementsOf(q, p.id) = {}
       /\ ReplacedAt(u, r.id) = ReplacedAt(q, p.id)
  <2>1. RecordsOn(u, p.id) = RecordsOn(q, p.id) /\ (HeldAt(u, p.id) <=> HeldAt(q, p.id))
      BY ShuffledRegistrations, ShuffledPasses
  <2> QED
      BY <1>1, <2>1, ReplacedAlike
<1> QED
    BY <1>7, <1>8, <1>9, <1>10 DEF MeasuredAlike

-----------------------------------------------------------------------------
(* Answers in another order *)

(* Passes that tie read the same: only unreadable ones may yet differ.     *)
LEMMA TiesReadAlike ==
    ASSUME NEW q, IsQuestion(q), NEW j \in DOMAIN q.passes, NEW k \in DOMAIN q.passes,
           InOrder(q.passes[j], q.passes[k]), InOrder(q.passes[k], q.passes[j])
    PROVE  LET p == q.passes[j]
               r == q.passes[k]
           IN  /\ r.id = p.id /\ r.state = p.state /\ r.readable = p.readable
               /\ p.readable => r.terms = p.terms
<1> DEFINE p == q.passes[j]
           r == q.passes[k]
<1>1. IsPass(p) /\ IsPass(r) /\ ReadAlike(p, r)
    BY DEF IsQuestion
<1>2. /\ Place[p.id] \in Int /\ Place[r.id] \in Int
      /\ Place[p.id] = Place[r.id] => p.id = r.id
    BY <1>1, PlaceAssumption DEF IsPass
<1>3. /\ StateRank(p.state) \in Int /\ StateRank(r.state) \in Int
      /\ StateRank(p.state) = StateRank(r.state) => p.state = r.state
    BY <1>1 DEF IsPass, StateRank, StateValues
<1>4. p.readable \in BOOLEAN /\ r.readable \in BOOLEAN /\ p.text \in Int /\ r.text \in Int
    BY <1>1 DEF IsPass
<1>5. InOrder(p, r) /\ InOrder(r, p)
    OBVIOUS
<1> HIDE DEF p, r
<1>6. p.id = r.id
    BY <1>2, <1>5 DEF InOrder
<1>7. p.state = r.state
    BY <1>2, <1>3, <1>5 DEF InOrder
<1>8. p.readable = r.readable /\ p.text = r.text
    BY <1>2, <1>3, <1>4, <1>5 DEF InOrder
<1>9. p.readable => r.terms = p.terms
    BY <1>1, <1>6, <1>8 DEF ReadAlike
<1> QED
    BY <1>6, <1>7, <1>8, <1>9 DEF p, r

LEMMA ShuffledPassesMeasureAlike ==
    ASSUME NEW q, NEW u, NEW ps, NEW rs, NEW vs, NEW gs, Shuffled(q, u, ps, rs, vs, gs),
           NEW p, NEW r, IsPass(p), r.id = p.id, r.state = p.state, r.readable = p.readable,
           p.readable => r.terms = p.terms
    PROVE  Alike(q, p, u, r)
<1>1. SameCall(q, u)
    BY DEF Shuffled
<1>2. p.readable => MeasuredAlike(q, p, u, r)
    BY ShuffledLedger DEF IsPass
<1> QED
    BY <1>1, <1>2 DEF Alike

LEMMA TheFirstIsAlike ==
    ASSUME NEW q, NEW u, NEW ps, NEW rs, NEW vs, NEW gs, Shuffled(q, u, ps, rs, vs, gs),
           NEW S \in SUBSET DOMAIN q.passes, NEW T \in SUBSET DOMAIN u.passes, S # {},
           \A k \in DOMAIN u.passes : k \in T <=> ps[k] \in S
    PROVE  Alike(q, FirstOf(q, S), u, FirstOf(u, T))
<1>1. IsQuestion(q) /\ IsQuestion(u)
    BY DEF Shuffled
<1>2. /\ \A k \in DOMAIN u.passes : ps[k] \in DOMAIN q.passes /\ u.passes[k] = q.passes[ps[k]]
      /\ \A j \in DOMAIN q.passes : \E k \in DOMAIN u.passes : ps[k] = j
    BY ReorderedHasTheSame DEF Shuffled
<1>3. PICK j \in S : /\ FirstOf(q, S) = q.passes[j]
                     /\ \A i \in S : InOrder(q.passes[j], q.passes[i])
    BY <1>1, FirstOfIsTheFirst
<1>4. PICK l \in DOMAIN u.passes : ps[l] = j /\ l \in T
    BY <1>2, <1>3
<1>5. PICK k \in T : /\ FirstOf(u, T) = u.passes[k]
                     /\ \A i \in T : InOrder(u.passes[k], u.passes[i])
    BY <1>1, <1>4, FirstOfIsTheFirst
<1>6. ps[k] \in S /\ u.passes[k] = q.passes[ps[k]] /\ u.passes[l] = q.passes[j]
    BY <1>2, <1>4, <1>5
<1>7. InOrder(q.passes[j], q.passes[ps[k]]) /\ InOrder(q.passes[ps[k]], q.passes[j])
    BY <1>3, <1>4, <1>5, <1>6
<1>8. j \in DOMAIN q.passes /\ ps[k] \in DOMAIN q.passes
    BY <1>3, <1>6
<1> DEFINE p == FirstOf(q, S)
           r == FirstOf(u, T)
<1>9. /\ r.id = p.id /\ r.state = p.state /\ r.readable = p.readable
      /\ p.readable => r.terms = p.terms
    BY <1>1, <1>3, <1>5, <1>6, <1>7, <1>8, TiesReadAlike
<1>10. IsPass(p)
    BY <1>1, <1>3, <1>8 DEF IsQuestion
<1> HIDE DEF p, r
<1>11. Alike(q, p, u, r)
    BY <1>9, <1>10, ShuffledPassesMeasureAlike
<1> QED
    BY <1>11 DEF p, r

(* The fields the lane acts on, which every answer has.                    *)
IsFullAnswer(a) ==
    {"outcome", "reason", "means", "unmeasured", "inconsistent"} \subseteq DOMAIN a

LEMMA AnswersAreFull ==
    /\ \A q, p : IsFullAnswer(Evaluate(q, p))
    /\ \A q, reason, p : IsFullAnswer(NotCovered(q, reason, p))
BY DEF IsFullAnswer, Evaluate, Covered, NotCovered, Refused

LEMMA NamingActsAlike ==
    ASSUME NEW a, NEW b, IsFullAnswer(a), IsFullAnswer(b), ActedOnAlike(a, b)
    PROVE  ActedOnAlike(NamingInconsistency(a), NamingInconsistency(b))
BY DEF IsFullAnswer, ActedOnAlike, NamingInconsistency

LEMMA EveryCopyInAnyOrder ==
    ASSUME NEW q, NEW u, NEW ps, NEW rs, NEW vs, NEW gs, Shuffled(q, u, ps, rs, vs, gs),
           Effective(q) # {}
    PROVE  /\ ActedOnAlike(Evaluate(q, FirstOf(q, Candidates(q))),
                           Evaluate(u, FirstOf(u, Candidates(u))))
           /\ ActedOnAlike(EveryCopy(q), EveryCopy(u))
<1> DEFINE covering(w) == { k \in Candidates(w) : Evaluate(w, w.passes[k]).outcome = "covered" }
           First(w, S) == Evaluate(w, FirstOf(w, S))
<1>1. IsQuestion(q) /\ IsQuestion(u) /\ SameCall(q, u)
    BY DEF Shuffled
<1>2. /\ Candidates(q) \in SUBSET DOMAIN q.passes /\ Candidates(u) \in SUBSET DOMAIN u.passes
      /\ Candidates(q) # {}
    BY <1>1, CandidatesHoldTheCar
<1>3. \A k \in DOMAIN u.passes : k \in Candidates(u) <=> ps[k] \in Candidates(q)
    BY ShuffledRegistrations
<1>4. ActedOnAlike(First(q, Candidates(q)), First(u, Candidates(u)))
    BY <1>2, <1>3, TheFirstIsAlike, EvaluatedAlike
<1>5. \A k \in DOMAIN u.passes : ps[k] \in DOMAIN q.passes /\ u.passes[k] = q.passes[ps[k]]
    BY ReorderedHasTheSame DEF Shuffled
<1>6. ASSUME NEW k \in DOMAIN u.passes
      PROVE  Evaluate(u, u.passes[k]).outcome = Evaluate(q, q.passes[ps[k]]).outcome
  <2>1. IsPass(q.passes[ps[k]])
      BY <1>1, <1>5 DEF IsQuestion
  <2>2. Alike(q, q.passes[ps[k]], u, u.passes[k])
      BY <1>5, <2>1, ShuffledPassesMeasureAlike
  <2> QED
      BY <2>2, EvaluatedAlike DEF ActedOnAlike
<1>7. /\ covering(q) \in SUBSET DOMAIN q.passes /\ covering(u) \in SUBSET DOMAIN u.passes
      /\ \A k \in DOMAIN u.passes : k \in covering(u) <=> ps[k] \in covering(q)
    BY <1>2, <1>3, <1>6
<1>8. covering(u) = {} <=> covering(q) = {}
  <2>1. \A j \in DOMAIN q.passes : \E k \in DOMAIN u.passes : ps[k] = j
      BY ReorderedHasTheSame DEF Shuffled
  <2> HIDE DEF covering
  <2> QED
      BY <1>5, <1>7, <2>1
<1>9. covering(q) # {} => ActedOnAlike(First(q, covering(q)), First(u, covering(u)))
  <2> HIDE DEF covering
  <2> QED
      BY <1>7, TheFirstIsAlike, EvaluatedAlike
<1>10. /\ DuplicatedInForce(u) = {} <=> DuplicatedInForce(q) = {}
       /\ Cardinality(Effective(u)) = Cardinality(Effective(q))
       /\ Dangling(u) = {} <=> Dangling(q) = {}
    BY ShuffledRegistrations
<1> DEFINE Chosen(w) ==
        IF covering(w) # {} THEN First(w, covering(w))
        ELSE IF DuplicatedInForce(w) # {} /\ Cardinality(Effective(w)) = 1 /\ Dangling(w) = {}
        THEN NotCovered(w, "PASS_DUPLICATED", None)
        ELSE First(w, Candidates(w))
<1>11. \A w : EveryCopy(w) = NamingInconsistency(Chosen(w)) /\ IsFullAnswer(Chosen(w))
    BY AnswersAreFull DEF EveryCopy
<1>12. ActedOnAlike(Chosen(q), Chosen(u))
  <2>1. NotCovered(u, "PASS_DUPLICATED", None) = NotCovered(q, "PASS_DUPLICATED", None)
      BY <1>1, CallsReadAlike
  <2>2. \A a : ActedOnAlike(a, a)
      BY DEF ActedOnAlike
  <2> HIDE DEF covering, First
  <2> QED
      BY <1>4, <1>8, <1>9, <1>10, <2>1, <2>2
<1> HIDE DEF Chosen
<1> QED
    BY <1>4, <1>11, <1>12, NamingActsAlike

LEMMA NobodyHoldsInAnyOrder ==
    ASSUME NEW q, NEW u, NEW ps, NEW rs, NEW vs, NEW gs, Shuffled(q, u, ps, rs, vs, gs)
    PROVE  ActedOnAlike(NobodyHolds(q), NobodyHolds(u))
<1> DEFINE Barred(w, id) == \E j \in Selected(w, id) : w.passes[j].state = "revoked"
           Revoked(w) == { k \in Here(w) : Barred(w, w.registrations[k].pass) }
<1>1. SameCall(q, u) /\ Reordered(q.passes, u.passes, ps)
      /\ Reordered(q.registrations, u.registrations, rs)
    BY DEF Shuffled
<1>2. /\ \A k \in DOMAIN u.passes : u.passes[k] = q.passes[ps[k]]
      /\ \A j \in DOMAIN q.passes : \E k \in DOMAIN u.passes : ps[k] = j
    BY <1>1, ReorderedHasTheSame
<1>3. \A id : Barred(u, id) <=> Barred(q, id)
  <2> SUFFICES ASSUME NEW id PROVE Barred(u, id) <=> Barred(q, id)
      OBVIOUS
  <2>1. \A k \in DOMAIN u.passes : k \in Selected(u, id) <=> ps[k] \in Selected(q, id)
      BY ShuffledPasses
  <2>2. Selected(u, id) \subseteq DOMAIN u.passes /\ Selected(q, id) \subseteq DOMAIN q.passes
      BY DEF Selected, Copies
  <2> QED
      BY <1>2, <2>1, <2>2
<1>4. \A w, k : k \in Revoked(w) <=>
        /\ k \in DOMAIN w.registrations /\ Key[w.registrations[k].identity] = Key[w.identity]
        /\ HeldAt(w, w.registrations[k].pass) /\ Barred(w, w.registrations[k].pass)
    BY DEF Here, Matching, HeldAt
<1>5. \A id : HeldAt(u, id) <=> HeldAt(q, id)
    BY ShuffledPasses
<1>6. /\ \A k \in DOMAIN u.registrations : rs[k] \in DOMAIN q.registrations
                                           /\ u.registrations[k] = q.registrations[rs[k]]
      /\ \A j \in DOMAIN q.registrations : \E k \in DOMAIN u.registrations : rs[k] = j
      /\ u.identity = q.identity
    BY <1>1, ReorderedHasTheSame DEF SameCall
<1>7. Revoked(u) = {} <=> Revoked(q) = {}
  <2> HIDE DEF Barred, Revoked
  <2>1. \A k \in DOMAIN u.registrations : k \in Revoked(u) <=> rs[k] \in Revoked(q)
      BY <1>3, <1>4, <1>5, <1>6
  <2>2. Revoked(u) \subseteq DOMAIN u.registrations /\ Revoked(q) \subseteq DOMAIN q.registrations
      BY <1>4
  <2> QED
      BY <1>6, <2>1, <2>2
<1>8. \A w : IF Revoked(w) # {} THEN \E id : NobodyHolds(w) = NotCovered(w, "REVOKED", id)
             ELSE NobodyHolds(w) = NotCovered(w, "NO_PASS", None)
    BY DEF NobodyHolds
<1> HIDE DEF Revoked
<1>9. \A reason, p, r : ActedOnAlike(NotCovered(q, reason, p), NotCovered(u, reason, r))
  <2>1. \A reason, p : NotCovered(u, reason, p) = NotCovered(q, reason, p)
      BY <1>1, CallsReadAlike
  <2>2. \A reason, p, r : ActedOnAlike(NotCovered(q, reason, p), NotCovered(q, reason, r))
      BY DEF ActedOnAlike, NotCovered
  <2> QED
      BY <2>1, <2>2
<1> QED
    BY <1>7, <1>8, <1>9

LEMMA AnsweredInAnyOrder ==
    ASSUME NEW q, NEW u, NEW ps, NEW rs, NEW vs, NEW gs, Shuffled(q, u, ps, rs, vs, gs)
    PROVE  ActedOnAlike(Answer(q), Answer(u))
<1>1. SameCall(q, u) /\ IsQuestion(q)
    BY DEF Shuffled
<1>2. \A a : ActedOnAlike(a, a)
    BY DEF ActedOnAlike
<1>3. /\ Effective(u) = {} <=> Effective(q) = {}
      /\ Cardinality(Effective(u)) = Cardinality(Effective(q))
      /\ Dangling(u) = {} <=> Dangling(q) = {}
      /\ DuplicatedInForce(u) = {} <=> DuplicatedInForce(q) = {}
    BY ShuffledRegistrations
<1>4. /\ u.garage = q.garage /\ u.identity = q.identity /\ u.lane = q.lane
      /\ IsExit(u) <=> IsExit(q)
      /\ \A reason, missing : Unanswerable(u, reason, missing) = Unanswerable(q, reason, missing)
      /\ \A reason, p : NotCovered(u, reason, p) = NotCovered(q, reason, p)
    BY <1>1, CallsReadAlike DEF SameCall
<1> DEFINE Asked(w) == Evaluate(w, FirstOf(w, Candidates(w)))
<1>5. /\ ActedOnAlike(NobodyHolds(q), NobodyHolds(u))
      /\ Effective(q) # {} => /\ ActedOnAlike(Asked(q), Asked(u))
                              /\ ActedOnAlike(EveryCopy(q), EveryCopy(u))
    BY NobodyHoldsInAnyOrder, EveryCopyInAnyOrder
<1>6. \A w : OfTheRegistrations(w) =
        IF Dangling(w) # {} /\ ~IsExit(w) THEN Refused("MISSING_PASS_HANDED_IN", None)
        ELSE IF DuplicatedInForce(w) # {} /\ ~IsExit(w) THEN Refused("DUPLICATED_PASS_ID", None)
        ELSE IF Effective(w) = {}
        THEN IF Dangling(w) # {}
             THEN NamingInconsistency(NotCovered(w, "PASS_NOT_HANDED_IN", None))
             ELSE NobodyHolds(w)
        ELSE IF Cardinality(Effective(w)) = 1 /\ Dangling(w) = {} /\ DuplicatedInForce(w) = {}
        THEN Asked(w)
        ELSE IF ~IsExit(w) THEN Refused("MISSING_ONE_PASS", None)
        ELSE EveryCopy(w)
    BY DEF OfTheRegistrations
<1> HIDE DEF Asked
<1>7. ActedOnAlike(OfTheRegistrations(q), OfTheRegistrations(u))
    BY <1>2, <1>3, <1>4, <1>5, <1>6
<1> QED
    BY <1>2, <1>4, <1>7 DEF Answer

LEMMA BackwardsReorders ==
    ASSUME NEW s, IsSequence(s)
    PROVE  /\ IsSequence(Backwards(s)) /\ DOMAIN Backwards(s) = DOMAIN s
           /\ \E at : Reordered(s, Backwards(s), at)
<1> DEFINE n == Len(s)
           t == Backwards(s)
           at == [k \in 1..n |-> n + 1 - k]
<1>1. n \in Nat /\ DOMAIN s = 1..n
    BY DEF IsSequence
<1>2. DOMAIN t = 1..n /\ \A k \in 1..n : t[k] = s[n + 1 - k]
    BY <1>1 DEF Backwards
<1>3. IsSequence(t)
    BY <1>1 DEF Backwards, IsSequence
<1>4. at \in [1..n -> 1..n] /\ \A j, k \in 1..n : at[j] = at[k] => j = k
    BY <1>1
<1>5. \A j \in 1..n : at[n + 1 - j] = j /\ n + 1 - j \in 1..n
    BY <1>1
<1>6. at \in Bijection(1..n, 1..n)
  <2> HIDE DEF at
  <2> QED
      BY <1>4, <1>5 DEF Bijection, Injection, Surjection, IsInjective
<1>7. Reordered(s, t, at)
    BY <1>1, <1>2, <1>6 DEF Reordered
<1> QED
    BY <1>1, <1>2, <1>3, <1>7

LEMMA ReversedIsShuffled ==
    ASSUME NEW q, IsQuestion(q)
    PROVE  \E ps, rs, vs, gs : Shuffled(q, Reversed(q), ps, rs, vs, gs)
<1> DEFINE u == Reversed(q)
<1>1. /\ u.passes = Backwards(q.passes) /\ u.registrations = Backwards(q.registrations)
      /\ u.visits = Backwards(q.visits) /\ u.garages = Backwards(q.garages)
      /\ DOMAIN u = DOMAIN q /\ SameCall(q, u) /\ u.enteredAt = q.enteredAt
    BY DEF Reversed, IsQuestion, SameCall
<1> HIDE DEF u
<1>2. /\ IsSequence(q.passes) /\ IsSequence(q.registrations)
      /\ IsSequence(q.visits) /\ IsSequence(q.garages)
    BY DEF IsQuestion
<1>3. PICK ps : Reordered(q.passes, u.passes, ps)
    BY <1>1, <1>2, BackwardsReorders
<1>4. PICK rs : Reordered(q.registrations, u.registrations, rs)
    BY <1>1, <1>2, BackwardsReorders
<1>5. PICK vs : Reordered(q.visits, u.visits, vs)
    BY <1>1, <1>2, BackwardsReorders
<1>6. PICK gs : Reordered(q.garages, u.garages, gs)
    BY <1>1, <1>2, BackwardsReorders
<1>7. /\ IsSequence(u.passes) /\ IsSequence(u.registrations)
      /\ IsSequence(u.visits) /\ IsSequence(u.garages)
    BY <1>1, <1>2, BackwardsReorders
<1>8. \A k \in DOMAIN u.passes : ps[k] \in DOMAIN q.passes /\ u.passes[k] = q.passes[ps[k]]
    BY <1>3, ReorderedHasTheSame
<1>9. /\ \A k \in DOMAIN u.passes : IsPass(u.passes[k])
      /\ \A j, k \in DOMAIN u.passes : ReadAlike(u.passes[j], u.passes[k])
  <2>1. /\ \A k \in DOMAIN q.passes : IsPass(q.passes[k])
        /\ \A j, k \in DOMAIN q.passes : ReadAlike(q.passes[j], q.passes[k])
      BY DEF IsQuestion
  <2> QED
      BY <1>8, <2>1
<1>10. \A k \in DOMAIN u.registrations : IsInstant(u.registrations[k].exitOnlyAt)
  <2>1. \A k \in DOMAIN q.registrations : IsInstant(q.registrations[k].exitOnlyAt)
      BY DEF IsQuestion
  <2> QED
      BY <1>4, <2>1, ReorderedHasTheSame
<1>11. IsQuestion(u)
  <2>1. /\ DOMAIN q = {"garage", "passes", "registrations", "visits", "garages", "identity",
                       "lane", "direction", "at", "enteredAt"}
        /\ IsInstant(q.enteredAt)
      BY DEF IsQuestion
  <2> QED
      BY <1>1, <1>7, <1>9, <1>10, <2>1 DEF IsQuestion
<1> QED
    BY <1>1, <1>3, <1>4, <1>5, <1>6, <1>11 DEF Shuffled, u

(* What the lane acts on never depends on the order anything was handed in:*)
(* no entry and no exit turns on how a caller's lists happened to be laid  *)
(* out.  (The lemma above says it of every order, the property of one.)    *)
THEOREM TheOrderDecidesNothing == AnswersSpec => []TheSameOutcomeInAnyOrder
<1>1. AskedWhatIsAsked => TheSameOutcomeInAnyOrder
  <2> SUFFICES ASSUME AskedWhatIsAsked, Answered PROVE TheSameOutcomeInAnyOrder
      BY DEF TheSameOutcomeInAnyOrder
  <2>1. IsQuestion(question) /\ answer = Answer(question)
      BY QuestionsAssumption DEF AskedWhatIsAsked
  <2>2. ActedOnAlike(Answer(question), Answer(Reversed(question)))
      BY <2>1, ReversedIsShuffled, AnsweredInAnyOrder
  <2> QED
      BY <2>1, <2>2 DEF ActedOnAlike, TheSameOutcomeInAnyOrder
<1> QED
    BY <1>1, TheAnswerAnswersTheQuestion, PTL
=============================================================================
