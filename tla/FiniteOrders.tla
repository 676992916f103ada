---------------------------- MODULE FiniteOrders ----------------------------
(***************************************************************************)
(* Least and first elements of finite sets, and lists of their members:    *)
(* what the CHOOSEs of the models rest on.  The induction is the           *)
(* well-foundedness of < on Nat, used through the set of counterexamples.  *)
(***************************************************************************)
EXTENDS Integers, FiniteSets, FiniteSetTheorems, WellFoundedInduction, TLAPS

(* A nonempty set of naturals has a least element.                         *)
LEMMA LeastNatural ==
    ASSUME NEW T, T \subseteq Nat, T # {}
    PROVE  \E x \in T : \A y \in T : x <= y
<1> DEFINE R == { ss \in Nat \X Nat : ss[1] < ss[2] }
<1>1. IsWellFoundedOn(R, Nat)
    BY NatLessThanWellFounded DEF OpToRel
<1>2. PICK x \in T : \A y \in T : <<y, x>> \notin R
    BY <1>1, WFMin
<1>3. ASSUME NEW y \in T PROVE x <= y
  <2>1. <<y, x>> \in Nat \X Nat /\ <<y, x>> \notin R
      BY <1>2
  <2> QED
      BY <2>1
<1> QED
    BY <1>3

(* A nonempty finite set has a first element under every order that is     *)
(* total and transitive on it, ties or none.                               *)
LEMMA FirstUnder ==
    ASSUME NEW S, IsFiniteSet(S), S # {}, NEW R,
           \A x, y \in S : <<x, y>> \in R \/ <<y, x>> \in R,
           \A x, y, z \in S : <<x, y>> \in R /\ <<y, z>> \in R => <<x, z>> \in R
    PROVE  \E x \in S : \A y \in S : <<x, y>> \in R
<1> DEFINE HasFirst(T) == \E x \in T : \A y \in T : <<x, y>> \in R
           Bad == { n \in Nat : \E T \in SUBSET S :
                      T # {} /\ Cardinality(T) = n /\ ~HasFirst(T) }
<1>1. SUFFICES ASSUME Bad # {} PROVE FALSE
    BY FS_CardinalityType
<1>2. PICK n \in Bad : \A m \in Bad : n <= m
    BY <1>1, LeastNatural
<1>3. PICK T \in SUBSET S : T # {} /\ Cardinality(T) = n /\ ~HasFirst(T)
    BY <1>2
<1>4. PICK a \in T : TRUE
    BY <1>3
<1>5. IsFiniteSet(T) /\ IsFiniteSet(T \ {a})
    BY FS_Subset
<1>6. Cardinality(T \ {a}) = n - 1 /\ n - 1 \in Nat
    BY <1>3, <1>4, <1>5, FS_RemoveElement, FS_CardinalityType
<1>7. CASE T \ {a} = {}
    BY <1>3, <1>4, <1>7
<1>8. CASE T \ {a} # {}
  <2>1. PICK x \in T \ {a} : \A y \in T \ {a} : <<x, y>> \in R
      BY <1>2, <1>6, <1>8
  <2>2. CASE <<x, a>> \in R
      BY <1>3, <2>1, <2>2
  <2>3. CASE <<a, x>> \in R
    <3>1. \A y \in T : <<a, y>> \in R
        BY <1>4, <2>1, <2>3
    <3> QED
        BY <1>3, <3>1
  <2> QED
      BY <1>4, <2>1, <2>2, <2>3
<1> QED
    BY <1>7, <1>8

(* A nonempty finite set of integers has a largest element.                *)
LEMMA LargestInteger ==
    ASSUME NEW S, IsFiniteSet(S), S # {}, S \subseteq Int
    PROVE  \E x \in S : \A y \in S : y <= x
<1> DEFINE R == { ss \in S \X S : ss[2] <= ss[1] }
<1>1. /\ \A x, y \in S : y <= x \/ x <= y
      /\ \A x, y, z \in S : y <= x /\ z <= y => z <= x
    OBVIOUS
<1>2. \A x, y \in S : <<x, y>> \in R <=> y <= x
    OBVIOUS
<1> HIDE DEF R
<1>3. \A x, y \in S : <<x, y>> \in R \/ <<y, x>> \in R
    BY <1>1, <1>2, Zenon
<1>4. \A x, y, z \in S : <<x, y>> \in R /\ <<y, z>> \in R => <<x, z>> \in R
    BY <1>1, <1>2, Zenon
<1>5. PICK x \in S : \A y \in S : <<x, y>> \in R
    BY <1>3, <1>4, FirstUnder, Zenon
<1> QED
    BY <1>2, <1>5

(* The members of a finite set can be listed once each in the order of a   *)
(* key, ties in some order.                                                *)
Listing(S, key, s) ==
    /\ s \in [1..Cardinality(S) -> S]
    /\ \A j, k \in 1..Cardinality(S) : s[j] = s[k] => j = k
    /\ \A x \in S : \E k \in 1..Cardinality(S) : s[k] = x
    /\ \A j, k \in 1..Cardinality(S) : j < k => key[s[j]] <= key[s[k]]

LEMMA ListedInOrder ==
    ASSUME NEW S, IsFiniteSet(S), NEW key \in [S -> Int]
    PROVE  \E s : Listing(S, key, s)
<1> DEFINE Bad == { n \in Nat : \E T \in SUBSET S :
                      Cardinality(T) = n /\ ~\E s : Listing(T, key, s) }
<1>1. SUFFICES ASSUME Bad # {} PROVE FALSE
    BY FS_CardinalityType
<1>2. PICK n \in Bad : \A m \in Bad : n <= m
    BY <1>1, LeastNatural
<1>3. PICK T \in SUBSET S : Cardinality(T) = n /\ ~\E s : Listing(T, key, s)
    BY <1>2
<1>4. IsFiniteSet(T) /\ n \in Nat
    BY <1>2, FS_Subset
<1>5. CASE T = {}
  <2>1. Cardinality(T) = 0
      BY <1>5, FS_EmptySet
  <2>2. Listing(T, key, [k \in 1..0 |-> {}])
      BY <1>5, <2>1 DEF Listing
  <2> QED
      BY <1>3, <2>2
<1>6. CASE T # {}
  <2> DEFINE keys == { key[x] : x \in T }
             f == [x \in T |-> key[x]]
  <2>1. IsFiniteSet(keys) /\ keys # {} /\ keys \subseteq Int
    <3>1. f \in Surjection(T, keys)
        BY DEF Surjection
    <3> QED
        BY <1>4, <1>6, <3>1, FS_Surjection
  <2>2. PICK m \in keys : \A y \in keys : y <= m
      BY <2>1, LargestInteger
  <2>3. PICK a \in T : \A x \in T : key[x] <= key[a]
      BY <2>2
  <2> DEFINE U == T \ {a}
  <2>4. IsFiniteSet(U) /\ Cardinality(U) = n - 1 /\ n - 1 \in Nat /\ U \in SUBSET S
    <3>1. IsFiniteSet(U) /\ U \in SUBSET S
        BY <1>4, FS_Subset
    <3>2. Cardinality(U) = n - 1
        BY <1>3, <1>4, <2>3, FS_RemoveElement
    <3> QED
        BY <3>1, <3>2, FS_CardinalityType
  <2>5. PICK s : Listing(U, key, s)
      BY <1>2, <2>4
  <2> DEFINE t == [k \in 1..n |-> IF k = n THEN a ELSE s[k]]
  <2>6. /\ s \in [1..(n - 1) -> U]
        /\ \A j, k \in 1..(n - 1) : s[j] = s[k] => j = k
        /\ \A x \in U : \E k \in 1..(n - 1) : s[k] = x
        /\ \A j, k \in 1..(n - 1) : j < k => key[s[j]] <= key[s[k]]
      BY <2>4, <2>5 DEF Listing
  <2>7. \A k \in 1..n : k = n \/ k \in 1..(n - 1)
      BY <1>4
  <2>8. n \in 1..n /\ n \notin 1..(n - 1) /\ \A k \in 1..(n - 1) : k \in 1..n
      BY <1>4, <2>4
  <2>9. t[n] = a /\ \A k \in 1..(n - 1) : t[k] = s[k] /\ s[k] \in T /\ s[k] # a
      BY <2>6, <2>8
  <2>10. t \in [1..n -> T]
      BY <2>3, <2>6, <2>7
  <2>11. \A j, k \in 1..n : t[j] = t[k] => j = k
    <3> HIDE DEF t
    <3> QED
        BY <2>6, <2>7, <2>9
  <2>12. \A x \in T : \E k \in 1..n : t[k] = x
    <3> HIDE DEF t
    <3> QED
        BY <2>6, <2>8, <2>9
  <2>13. \A j, k \in 1..n : j < k => key[t[j]] <= key[t[k]]
    <3> SUFFICES ASSUME NEW j \in 1..n, NEW k \in 1..n, j < k PROVE key[t[j]] <= key[t[k]]
        OBVIOUS
    <3>1. j \in 1..(n - 1)
        BY <1>4
    <3> HIDE DEF t
    <3>2. CASE k = n
        BY <2>3, <2>9, <3>1, <3>2
    <3>3. CASE k \in 1..(n - 1)
        BY <2>6, <2>9, <3>1, <3>3
    <3> QED
        BY <2>7, <3>2, <3>3
  <2>14. Listing(T, key, t)
    <3> HIDE DEF t
    <3> QED
        BY <1>3, <2>10, <2>11, <2>12, <2>13 DEF Listing
  <2> QED
      BY <1>3, <2>14
<1> QED
    BY <1>5, <1>6

(* Counting members one by one: sets matched by a bijection are as large.  *)
LEMMA AsMany ==
    ASSUME NEW A, NEW B, NEW at \in Bijection(A, B), NEW S, NEW T,
           S \subseteq A, T \subseteq B, IsFiniteSet(A), \A k \in A : k \in S <=> at[k] \in T
    PROVE  IsFiniteSet(S) /\ IsFiniteSet(T) /\ Cardinality(S) = Cardinality(T)
<1> DEFINE f == [k \in S |-> at[k]]
<1>1. /\ at \in [A -> B] /\ \A k, l \in A : at[k] = at[l] => k = l
      /\ \A y \in B : \E k \in A : at[k] = y
    BY DEF Bijection, Injection, Surjection, IsInjective
<1>2. f \in [S -> T] /\ \A k, l \in S : f[k] = f[l] => k = l
    BY <1>1
<1>3. \A y \in T : \E k \in S : f[k] = y
    BY <1>1
<1>4. f \in Bijection(S, T)
  <2> HIDE DEF f
  <2> QED
      BY <1>2, <1>3 DEF Bijection, Injection, Surjection, IsInjective
<1>5. ExistsBijection(S, T)
    BY <1>4 DEF ExistsBijection
<1>6. IsFiniteSet(S)
    BY FS_Subset
<1> QED
    BY <1>5, <1>6, FS_Bijection

(* The members of a set of naturals, counted from 1 in their order.        *)
InTheirOrder(S) ==
    [k \in 1..Cardinality(S) |-> CHOOSE j \in S : Cardinality({ i \in S : i < j }) = k - 1]

LEMMA PlacesInOrder ==
    ASSUME NEW n \in Nat, NEW S, S \subseteq 1..n
    PROVE  /\ IsFiniteSet(S)
           /\ InTheirOrder(S) \in Bijection(1..Cardinality(S), S)
           /\ \A k, l \in 1..Cardinality(S) : k < l => InTheirOrder(S)[k] < InTheirOrder(S)[l]
<1> DEFINE below(j) == { i \in S : i < j }
           c == Cardinality(S)
           rank == [j \in S |-> Cardinality(below(j)) + 1]
           at == [k \in 1..c |-> CHOOSE j \in S : Cardinality(below(j)) = k - 1]
<1>1. IsFiniteSet(S) /\ c \in Nat /\ S \subseteq Int
  <2>1. IsFiniteSet(1..n) /\ S \in SUBSET (1..n)
      BY FS_Interval
  <2>2. IsFiniteSet(S)
      BY <2>1, FS_Subset
  <2> QED
      BY <2>2, FS_CardinalityType
<1>2. ASSUME NEW j \in S
      PROVE  IsFiniteSet(below(j)) /\ Cardinality(below(j)) \in 0..(c - 1)
  <2>1. below(j) \subseteq S \ {j}
      BY <1>1
  <2>2. IsFiniteSet(S \ {j}) /\ Cardinality(S \ {j}) = c - 1
      BY <1>1, FS_RemoveElement
  <2>3. IsFiniteSet(below(j)) /\ Cardinality(below(j)) <= c - 1
      BY <2>1, <2>2, FS_Subset
  <2> QED
      BY <1>1, <2>3, FS_CardinalityType
<1>3. ASSUME NEW i \in S, NEW j \in S, i < j
      PROVE  Cardinality(below(i)) < Cardinality(below(j))
  <2>1. i \notin below(i) /\ below(i) \cup {i} \subseteq below(j)
    <3>1. i \in Int /\ j \in Int /\ \A k \in S : k < i => k < j
        BY <1>1, <1>3
    <3>2. i \notin below(i) /\ i \in below(j)
        BY <1>3, <3>1
    <3>3. \A k \in below(i) : k \in below(j)
        BY <3>1
    <3> QED
        BY <3>2, <3>3
  <2>2. /\ IsFiniteSet(below(i) \cup {i})
        /\ Cardinality(below(i) \cup {i}) = Cardinality(below(i)) + 1
      BY <1>2, <2>1, FS_AddElement
  <2>3. Cardinality(below(i) \cup {i}) <= Cardinality(below(j))
      BY <1>2, <2>1, FS_Subset
  <2> QED
      BY <1>2, <2>2, <2>3
<1> HIDE DEF below
<1>4. \A i, j \in S : Cardinality(below(i)) = Cardinality(below(j)) => i = j
  <2> SUFFICES ASSUME NEW i \in S, NEW j \in S, Cardinality(below(i)) = Cardinality(below(j)),
                      i # j
               PROVE  FALSE
      OBVIOUS
  <2>1. i < j \/ j < i
      BY <1>1
  <2> QED
      BY <1>2, <1>3, <2>1
<1>5. rank \in [S -> 1..c] /\ \A i, j \in S : rank[i] = rank[j] => i = j
  <2>1. \A j \in S : Cardinality(below(j)) + 1 \in 1..c
      BY <1>1, <1>2
  <2>2. \A i, j \in S : rank[i] = rank[j] => Cardinality(below(i)) = Cardinality(below(j))
      BY <1>2
  <2> QED
      BY <1>4, <2>1, <2>2
<1>6. \A k \in 1..c : \E j \in S : Cardinality(below(j)) = k - 1
  <2>1. rank \in Injection(S, 1..c)
    <3> HIDE DEF rank
    <3> QED
        BY <1>5 DEF Injection, IsInjective
  <2>2. IsFiniteSet(1..c) /\ Cardinality(1..c) = c
      BY <1>1, FS_Interval
  <2>3. rank \in Surjection(S, 1..c)
      BY <2>1, <2>2, FS_Injection
  <2>4. \A k \in 1..c : \E j \in S : rank[j] = k
    <3> HIDE DEF rank
    <3> QED
        BY <2>3 DEF Surjection
  <2> QED
      BY <1>2, <2>4
<1>7. \A k \in 1..c : at[k] \in S /\ Cardinality(below(at[k])) = k - 1
    BY <1>6
<1>8. \A j \in S : \E k \in 1..c : at[k] = j
  <2> SUFFICES ASSUME NEW j \in S PROVE \E k \in 1..c : at[k] = j
      OBVIOUS
  <2> DEFINE k == Cardinality(below(j)) + 1
  <2>1. k \in 1..c /\ k - 1 = Cardinality(below(j))
      BY <1>1, <1>2
  <2> HIDE DEF k, at
  <2>2. at[k] = j
      BY <1>4, <1>7, <2>1
  <2> QED
      BY <2>1, <2>2
<1> HIDE DEF at
<1>9. \A k, l \in 1..c : k < l => at[k] < at[l]
  <2> SUFFICES ASSUME NEW k \in 1..c, NEW l \in 1..c, k < l, ~(at[k] < at[l])
               PROVE  FALSE
      OBVIOUS
  <2>1. at[k] \in S /\ at[l] \in S /\ Cardinality(below(at[k])) = k - 1
        /\ Cardinality(below(at[l])) = l - 1
      BY <1>7
  <2>2. at[k] = at[l] \/ at[l] < at[k]
    <3>1. at[k] \in Int /\ at[l] \in Int
        BY <1>1, <2>1
    <3> QED
        BY <3>1
  <2>3. k - 1 < l - 1
      BY <1>1
  <2> QED
    <3>1. Cardinality(below(at[l])) \in Nat /\ Cardinality(below(at[k])) \in Nat
        BY <1>2, <2>1
    <3>2. CASE at[l] < at[k]
      <4>1. Cardinality(below(at[l])) < Cardinality(below(at[k]))
          BY <1>3, <2>1, <3>2
      <4> QED
          BY <2>1, <2>3, <4>1
    <3>3. CASE at[k] = at[l]
        BY <2>1, <2>3, <3>3
    <3> QED
        BY <2>2, <3>2, <3>3
<1>10. at \in Bijection(1..c, S)
  <2>1. \A k, l \in 1..c : at[k] = at[l] => k = l
      BY <1>1, <1>7
  <2>2. at \in [1..c -> S]
      BY <1>7 DEF at
  <2> HIDE DEF c
  <2> QED
      BY <1>8, <2>1, <2>2 DEF Bijection, Injection, Surjection, IsInjective
<1> QED
    BY <1>1, <1>9, <1>10 DEF at, below, InTheirOrder
=============================================================================
