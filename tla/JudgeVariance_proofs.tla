-------------------------- MODULE JudgeVariance_proofs --------------------------
(***************************************************************************)
(* The variance floor of a judge, for any population, number of tasks and  *)
(* calls, thresholds and answers of the endpoint: the choice is balanced,  *)
(* a readable result is of a whole run, and the gate opens on a floor that *)
(* was measured.                                                           *)
(***************************************************************************)
EXTENDS JudgeVariance, FiniteSetTheorems, WellFoundedInduction, TLAPS

-----------------------------------------------------------------------------
\* Extremes and sums.

LEMMA Minimum ==
  ASSUME NEW S \in SUBSET Nat, S # {}
  PROVE  Min(S) \in S /\ \A y \in S : Min(S) <= y
<1> DEFINE R == {p \in Nat \X Nat : p[1] < p[2]}
<1>1. IsWellFoundedOn(R, Nat)
  BY NatLessThanWellFounded DEF OpToRel
<1>2. \A x, y \in Nat : x < y => <<x, y>> \in R
  OBVIOUS
<1> HIDE DEF R
<1>3. PICK x \in S : \A y \in S : <<y, x>> \notin R
  BY <1>1, WFMin
<1>4. \A y \in S : x <= y
  <2>1. \A y \in S : ~(y < x)
    BY <1>2, <1>3
  <2>2. QED
    BY <2>1
<1>5. QED
  BY <1>4 DEF Min

\* A bounded set has a greatest element.
LEMMA Maximum ==
  ASSUME NEW n \in Nat, NEW S \in SUBSET (0..n), S # {}
  PROVE  Max(S) \in S /\ \A y \in S : y <= Max(S)
<1> DEFINE T == {k \in 0..n : n - k \in S}
<1>1. T \in SUBSET Nat
  OBVIOUS
<1>2. T # {}
  <2>1. PICK x \in S : x \in 0..n
    OBVIOUS
  <2>2. n - x \in 0..n /\ n - (n - x) = x
    BY <2>1
  <2>3. QED
    BY <2>1, <2>2
<1>3. Min(T) \in T /\ \A y \in T : Min(T) <= y
  BY <1>1, <1>2, Minimum
<1>4. n - Min(T) \in S /\ Min(T) \in 0..n
  BY <1>3
<1>5. \A y \in S : y <= n - Min(T)
  <2> TAKE y \in S
  <2>1. y \in 0..n /\ n - y \in 0..n /\ n - (n - y) = y
    OBVIOUS
  <2>2. n - y \in T
    BY <2>1
  <2>3. QED
    BY <1>3, <1>4, <2>1, <2>2
<1>6. \E x \in S : \A y \in S : x >= y
  <2>1. \A y \in S : n - Min(T) >= y
    BY <1>4, <1>5
  <2>2. QED
    BY <1>4, <2>1
<1>7. Max(S) \in S /\ \A y \in S : Max(S) >= y
  BY <1>6 DEF Max
<1>8. QED
  BY <1>7

LEMMA Numbered ==
  ASSUME NEW n \in Nat
  PROVE  IsFiniteSet(1..n) /\ Cardinality(1..n) = n
  BY FS_Interval

-----------------------------------------------------------------------------
\* The choice.

\* The tasks of one repository, and how many of them come before another.
LEMMA Ranks ==
  ASSUME NEW pop \in Seq(DOMAIN RepoOf), NEW i \in DOMAIN pop
  PROVE  /\ Places(pop, i) \in SUBSET Nat /\ IsFiniteSet(Places(pop, i))
         /\ i \in Places(pop, i) /\ RankOf(pop, i) \in Nat
         /\ Min(Places(pop, i)) \in Places(pop, i)
<1>1. Places(pop, i) \subseteq 1..Len(pop) /\ Len(pop) \in Nat
  BY DEF Places
<1>2. IsFiniteSet(Places(pop, i)) /\ IsFiniteSet({j \in Places(pop, i) : j < i})
  <2>1. IsFiniteSet(1..Len(pop))
    BY <1>1, FS_Interval
  <2>2. IsFiniteSet(Places(pop, i))
    BY <1>1, <2>1, FS_Subset
  <2>3. {j \in Places(pop, i) : j < i} \subseteq Places(pop, i)
    OBVIOUS
  <2>4. QED
    BY <2>2, <2>3, FS_Subset
<1>3. RankOf(pop, i) \in Nat
  BY <1>2, FS_CardinalityType DEF RankOf
<1>4. i \in Places(pop, i)
  BY DEF Places
<1>5. Min(Places(pop, i)) \in Places(pop, i)
  BY <1>1, <1>4, Minimum
<1>6. QED
  BY <1>1, <1>2, <1>3, <1>4, <1>5

\* Later in the same repository, later in rank.
LEMMA RankGrows ==
  ASSUME NEW pop \in Seq(DOMAIN RepoOf), NEW i \in DOMAIN pop, NEW j \in Places(pop, i), i < j
  PROVE  RankOf(pop, i) < RankOf(pop, j)
<1> DEFINE A == {m \in Places(pop, i) : m < i}
           B == {m \in Places(pop, j) : m < j}
<1>1. j \in DOMAIN pop /\ Places(pop, j) = Places(pop, i)
  BY DEF Places
<1>2. /\ Places(pop, i) \in SUBSET Nat /\ IsFiniteSet(Places(pop, i)) /\ i \in Places(pop, i)
      /\ j \in Nat
  BY <1>1, Ranks
<1>3. A \subseteq B /\ i \in B /\ i \notin A
  BY <1>1, <1>2
<1>4. IsFiniteSet(B) /\ IsFiniteSet(A)
  BY <1>1, <1>2, FS_Subset
<1>5. Cardinality(A) <= Cardinality(B) /\ Cardinality(A) # Cardinality(B)
  BY <1>3, <1>4, FS_Subset
<1>6. Cardinality(A) \in Nat /\ Cardinality(B) \in Nat
  BY <1>4, FS_CardinalityType
<1>7. QED
  BY <1>5, <1>6 DEF RankOf

\* Before is a strict linear order of the population.
LEMMA Order ==
  ASSUME NEW pop \in Seq(DOMAIN RepoOf)
  PROVE  /\ \A i \in DOMAIN pop : ~Before(pop, i, i)
         /\ \A i, j, m \in DOMAIN pop : Before(pop, i, j) /\ Before(pop, j, m) => Before(pop, i, m)
         /\ \A i, j \in DOMAIN pop : i = j \/ Before(pop, i, j) \/ Before(pop, j, i)
<1>1. \A i \in DOMAIN pop : RankOf(pop, i) \in Nat /\ Min(Places(pop, i)) \in Nat
  BY Ranks
<1>2. ASSUME NEW i \in DOMAIN pop, NEW j \in DOMAIN pop, i # j,
             RankOf(pop, i) = RankOf(pop, j), Min(Places(pop, i)) = Min(Places(pop, j))
      PROVE  FALSE
  <2>1. Min(Places(pop, i)) \in Places(pop, i) /\ Min(Places(pop, i)) \in Places(pop, j)
    BY <1>2, Ranks
  <2>2. j \in Places(pop, i) /\ i \in Places(pop, j)
    BY <2>1 DEF Places
  <2>3. CASE i < j
    BY <1>1, <1>2, <2>2, <2>3, RankGrows
  <2>4. CASE j < i
    BY <1>1, <1>2, <2>2, <2>4, RankGrows
  <2>5. i \in Nat /\ j \in Nat
    OBVIOUS
  <2>6. QED
    BY <1>2, <2>3, <2>4, <2>5
<1>3. ASSUME NEW i \in DOMAIN pop, NEW j \in DOMAIN pop
      PROVE  i = j \/ Before(pop, i, j) \/ Before(pop, j, i)
  BY <1>1, <1>2 DEF Before
<1>4. QED
  BY <1>1, <1>3 DEF Before

\* The place of a task in the order: how many come before it.
Place(pop, i) == Cardinality({j \in DOMAIN pop : Before(pop, j, i)})

LEMMA PlaceType ==
  ASSUME NEW pop \in Seq(DOMAIN RepoOf), NEW i \in DOMAIN pop
  PROVE  Place(pop, i) \in 0..(Len(pop) - 1)
<1> DEFINE P == {j \in DOMAIN pop : Before(pop, j, i)}
<1>1. /\ DOMAIN pop = 1..Len(pop) /\ Len(pop) \in Nat
      /\ IsFiniteSet(DOMAIN pop) /\ Cardinality(DOMAIN pop) = Len(pop)
  <2>1. DOMAIN pop = 1..Len(pop) /\ Len(pop) \in Nat
    OBVIOUS
  <2>2. IsFiniteSet(1..Len(pop)) /\ Cardinality(1..Len(pop)) = Len(pop)
    BY <2>1, Numbered
  <2>3. QED
    BY <2>1, <2>2
<1>2. P \subseteq DOMAIN pop /\ i \notin P
  BY Order
<1>3. IsFiniteSet(P) /\ Cardinality(P) <= Len(pop) /\ Cardinality(P) # Len(pop)
  BY <1>1, <1>2, FS_Subset
<1>4. Cardinality(P) \in Nat
  BY <1>3, FS_CardinalityType
<1>5. QED
  BY <1>1, <1>3, <1>4 DEF Place

LEMMA PlaceGrows ==
  ASSUME NEW pop \in Seq(DOMAIN RepoOf), NEW i \in DOMAIN pop, NEW j \in DOMAIN pop,
         Before(pop, i, j)
  PROVE  Place(pop, i) < Place(pop, j)
<1> DEFINE P(k) == {m \in DOMAIN pop : Before(pop, m, k)}
<1>1. IsFiniteSet(DOMAIN pop)
  <2>1. DOMAIN pop = 1..Len(pop) /\ Len(pop) \in Nat
    OBVIOUS
  <2>2. QED
    BY <2>1, FS_Interval
<1>2. P(i) \subseteq P(j) /\ i \in P(j) /\ i \notin P(i)
  BY Order
<1>3. IsFiniteSet(P(j)) /\ P(j) \subseteq DOMAIN pop
  BY <1>1, FS_Subset
<1>4. Cardinality(P(i)) <= Cardinality(P(j)) /\ Cardinality(P(i)) # Cardinality(P(j))
  BY <1>2, <1>3, FS_Subset
<1>5. Place(pop, i) \in Nat /\ Place(pop, j) \in Nat
  BY PlaceType
<1>6. QED
  BY <1>4, <1>5 DEF Place

\* Every place is taken by one task: this is what Select's At(n) names.
LEMMA PlacesTaken ==
  ASSUME NEW pop \in Seq(DOMAIN RepoOf)
  PROVE  /\ \A i, j \in DOMAIN pop : Place(pop, i) = Place(pop, j) => i = j
         /\ \A n \in 1..Len(pop) : \E i \in DOMAIN pop : Place(pop, i) = n - 1
<1> DEFINE D == DOMAIN pop
           N == Len(pop)
           P == 0..(N - 1)
           f == [i \in D |-> Place(pop, i)]
<1>1. D = 1..N /\ N \in Nat
  OBVIOUS
<1>2. \A i, j \in D : Place(pop, i) = Place(pop, j) => i = j
  <2> TAKE i, j \in D
  <2> HAVE Place(pop, i) = Place(pop, j)
  <2>1. Place(pop, i) \in Nat /\ Place(pop, j) \in Nat
    BY PlaceType
  <2>2. ~Before(pop, i, j) /\ ~Before(pop, j, i)
    BY <2>1, PlaceGrows
  <2>3. QED
    BY <2>2, Order
<1>3. \A i \in D : Place(pop, i) \in P
  BY PlaceType
<1>4. IsFiniteSet(P) /\ Cardinality(D) = Cardinality(P)
  <2> HIDE DEF D, N
  <2>1. IsFiniteSet(P)
    BY <1>1, FS_Interval
  <2>2. Cardinality(P) = N
    BY <1>1, FS_Interval
  <2>3. QED
    BY <1>1, <2>1, <2>2, Numbered
<1>5. \A i \in D : f[i] = Place(pop, i)
  OBVIOUS
<1> HIDE DEF D, N, P
<1>6. f \in Injection(D, P)
  BY <1>2, <1>3 DEF Injection, IsInjective
<1> HIDE DEF f
<1>7. f \in Surjection(D, P)
  BY <1>4, <1>6, FS_Injection
<1>8. ASSUME NEW n \in 1..N  PROVE \E i \in D : Place(pop, i) = n - 1
  <2>1. n - 1 \in P
    BY <1>1 DEF P
  <2>2. \E i \in D : f[i] = n - 1
    BY <1>7, <2>1 DEF Surjection
  <2>3. QED
    BY <1>5, <2>2
<1>9. QED
  BY <1>2, <1>8 DEF D, N

\* A task is chosen when its place is among the first k.
LEMMA ChosenByPlace ==
  ASSUME NEW pop \in Seq(DOMAIN RepoOf), IsInjective(pop), NEW k \in Nat, NEW i \in DOMAIN pop
  PROVE  pop[i] \in Range(Select(pop, k)) <=> Place(pop, i) < k
<1> DEFINE size == IF k < Len(pop) THEN k ELSE Len(pop)
           Nth1(n) == CHOOSE m \in DOMAIN pop : Place(pop, m) = n - 1
<1>1. Len(pop) \in Nat /\ size \in Nat /\ size <= k /\ size <= Len(pop)
  OBVIOUS
<1>2. Select(pop, k) = [n \in 1..size |-> pop[Nth1(n)]]
  BY DEF Select, Place
<1>3. \A v : v \in Range(Select(pop, k)) <=> \E n \in 1..size : v = pop[Nth1(n)]
  <2> HIDE DEF size, Nth1
  <2>1. DOMAIN Select(pop, k) = 1..size /\ \A n \in 1..size : Select(pop, k)[n] = pop[Nth1(n)]
    BY <1>2
  <2>2. QED
    BY <2>1 DEF Range
<1>4. \A n \in 1..size : Nth1(n) \in DOMAIN pop /\ Place(pop, Nth1(n)) = n - 1
  <2> TAKE n \in 1..size
  <2>1. n \in 1..Len(pop)
    BY <1>1
  <2>2. QED
    BY <2>1, PlacesTaken
<1>5. Place(pop, i) \in 0..(Len(pop) - 1)
  BY PlaceType
<1> HIDE DEF size, Nth1
<1>6. ASSUME pop[i] \in Range(Select(pop, k)) PROVE Place(pop, i) < k
  <2>1. PICK n \in 1..size : pop[i] = pop[Nth1(n)]
    BY <1>3, <1>6
  <2>2. i = Nth1(n)
    BY <1>4, <2>1 DEF IsInjective
  <2>3. Place(pop, i) = n - 1
    BY <1>4, <2>2
  <2>4. QED
    BY <1>1, <2>3
<1>7. ASSUME Place(pop, i) < k PROVE pop[i] \in Range(Select(pop, k))
  <2>1. Place(pop, i) + 1 \in 1..size
    BY <1>1, <1>5, <1>7 DEF size
  <2>2. Nth1(Place(pop, i) + 1) = i
    <3> DEFINE n == Place(pop, i) + 1
    <3>1. n \in 1..size /\ n - 1 = Place(pop, i)
      BY <1>5, <2>1
    <3> HIDE DEF n
    <3>2. Nth1(n) \in DOMAIN pop /\ Place(pop, Nth1(n)) = Place(pop, i)
      BY <1>4, <3>1
    <3>3. Nth1(n) = i
      BY <3>2, PlacesTaken
    <3>4. QED
      BY <3>3 DEF n
  <2>3. QED
    BY <1>3, <2>1, <2>2
<1>8. QED
  BY <1>6, <1>7

\* select takes the repositories in turn.
LEMMA SelectIsBalanced ==
  ASSUME NEW pop \in Seq(DOMAIN RepoOf), IsInjective(pop), NEW k \in Nat,
         NEW i \in DOMAIN pop, NEW j \in DOMAIN pop
  PROVE  LET Taken(n) == {m \in Places(pop, n) : pop[m] \in Range(Select(pop, k))}
         IN  Cardinality(Taken(i)) + 1 < Cardinality(Taken(j)) => Taken(i) = Places(pop, i)
<1> DEFINE Taken(n) == {m \in Places(pop, n) : pop[m] \in Range(Select(pop, k))}
<1> SUFFICES ASSUME Cardinality(Taken(i)) + 1 < Cardinality(Taken(j)), Taken(i) # Places(pop, i)
             PROVE  FALSE
  OBVIOUS
<1>1. /\ Places(pop, i) \in SUBSET Nat /\ IsFiniteSet(Places(pop, i))
      /\ Places(pop, j) \in SUBSET Nat /\ IsFiniteSet(Places(pop, j))
      /\ Places(pop, i) \subseteq DOMAIN pop /\ Places(pop, j) \subseteq DOMAIN pop
  <2>1. Places(pop, i) \subseteq DOMAIN pop /\ Places(pop, j) \subseteq DOMAIN pop
    BY DEF Places
  <2>2. QED
    BY <2>1, Ranks
<1>2. /\ IsFiniteSet(Taken(i)) /\ Cardinality(Taken(i)) \in Nat
      /\ IsFiniteSet(Taken(j)) /\ Cardinality(Taken(j)) \in Nat
  <2>1. Taken(i) \subseteq Places(pop, i) /\ Taken(j) \subseteq Places(pop, j)
    OBVIOUS
  <2>2. IsFiniteSet(Taken(i)) /\ IsFiniteSet(Taken(j))
    BY <1>1, <2>1, FS_Subset
  <2>3. QED
    BY <2>2, FS_CardinalityType
\* the first task of i's repository that is left out
<1>3. PICK m \in Places(pop, i) \ Taken(i) : \A y \in Places(pop, i) \ Taken(i) : m <= y
  <2>1. Places(pop, i) \ Taken(i) \in SUBSET Nat /\ Places(pop, i) \ Taken(i) # {}
    BY <1>1
  <2>2. QED
    BY <2>1, Minimum
\* and the last task of j's repository that is chosen
<1>4. PICK x \in Taken(j) : \A y \in Taken(j) : y <= x
  <2>1. Taken(j) # {}
    BY <1>2, FS_EmptySet
  <2>2. Taken(j) \in SUBSET (0..Len(pop)) /\ Len(pop) \in Nat
    BY <1>1
  <2>3. QED
    BY <2>1, <2>2, Maximum
<1>5. RankOf(pop, m) <= Cardinality(Taken(i))
  <2> DEFINE A == {y \in Places(pop, m) : y < m}
  <2>1. Places(pop, m) = Places(pop, i)
    BY <1>3 DEF Places
  <2>2. A \subseteq Taken(i)
    BY <1>1, <1>3, <2>1
  <2>3. QED
    BY <1>2, <2>2, FS_Subset DEF RankOf
<1>6. Cardinality(Taken(j)) - 1 <= RankOf(pop, x)
  <2> DEFINE B == {y \in Places(pop, x) : y < x}
  <2>1. Places(pop, x) = Places(pop, j)
    BY <1>4 DEF Places
  <2>2. Taken(j) \ {x} \subseteq B
    BY <1>1, <1>4, <2>1
  <2>3. Cardinality(Taken(j) \ {x}) = Cardinality(Taken(j)) - 1
    BY <1>2, <1>4, FS_RemoveElement
  <2>4. IsFiniteSet(B)
    BY <1>1, <2>1, FS_Subset
  <2>5. QED
    BY <2>2, <2>3, <2>4, FS_Subset DEF RankOf
<1>7. m \in DOMAIN pop /\ x \in DOMAIN pop /\ RankOf(pop, m) \in Nat /\ RankOf(pop, x) \in Nat
  BY <1>1, <1>3, <1>4, Ranks
<1>8. Before(pop, m, x)
  BY <1>2, <1>5, <1>6, <1>7 DEF Before
<1>9. Place(pop, m) < Place(pop, x) /\ Place(pop, x) < k
  BY <1>4, <1>7, <1>8, PlaceGrows, ChosenByPlace
<1>10. Place(pop, m) \in Nat /\ Place(pop, x) \in Nat
  BY <1>7, PlaceType
<1>11. pop[m] \in Range(Select(pop, k))
  BY <1>7, <1>9, <1>10, ChosenByPlace
<1>12. QED
  BY <1>3, <1>11

-----------------------------------------------------------------------------
\* The gate.

\* The n-th smallest value is one that n of the values do not exceed, and the least.
LEMMA NthSmallest ==
  ASSUME NEW C, IsFiniteSet(C), C # {}, NEW f \in [C -> 0..10],
         NEW n \in Nat, n <= Cardinality(C)
  PROVE  /\ Nth(f, n) \in 0..10 /\ Cardinality({i \in C : f[i] <= Nth(f, n)}) >= n
         /\ \A v \in Range(f) : Cardinality({i \in C : f[i] <= v}) >= n => Nth(f, n) <= v
         /\ Nth(f, n) \in Range(f)
<1> DEFINE Below(v) == {i \in C : f[i] <= v}
           U == {v \in Range(f) : Cardinality(Below(v)) >= n}
<1>1. Range(f) \in SUBSET (0..10) /\ Range(f) # {} /\ \A i \in C : f[i] \in Range(f)
  BY DEF Range
<1>2. Max(Range(f)) \in Range(f) /\ \A v \in Range(f) : v <= Max(Range(f))
  BY <1>1, Maximum
<1>3. Below(Max(Range(f))) = C
  BY <1>1, <1>2
<1>4. Max(Range(f)) \in U
  BY <1>2, <1>3
<1>5. U \in SUBSET Nat /\ U # {} /\ U \subseteq 0..10
  <2>1. U \subseteq Range(f)
    OBVIOUS
  <2> HIDE DEF U
  <2>2. QED
    BY <1>1, <1>4, <2>1
<1>6. Nth(f, n) = Min(U)
  BY DEF Nth
<1>7. Min(U) \in U /\ \A v \in U : Min(U) <= v
  BY <1>5, Minimum
<1>8. QED
  BY <1>5, <1>6, <1>7

\* Half of the values do not exceed the median.
LEMMA HalfBelowMedian ==
  ASSUME NEW C, IsFiniteSet(C), C # {}, NEW f \in [C -> 0..10],
         NEW b \in Nat, TwiceMedian(f) <= 2 * b
  PROVE  2 * Cardinality({i \in C : f[i] <= b}) >= Cardinality(C)
<1> DEFINE k == Cardinality(C)
           p == (k + 1) \div 2
           q == (k \div 2) + 1
           Below(v) == {i \in C : f[i] <= v}
<1>1. k \in Nat /\ k # 0
  BY FS_CardinalityType, FS_EmptySet
<1>2. p \in Nat /\ q \in Nat /\ p <= q /\ q <= k /\ 2 * p >= k
  <2> HIDE DEF k
  <2>1. QED
    BY <1>1
<1>3. TwiceMedian(f) = Nth(f, p) + Nth(f, q)
  BY DEF TwiceMedian
<1> HIDE DEF k, p, q
<1>4. /\ Nth(f, p) \in 0..10 /\ Cardinality(Below(Nth(f, p))) >= p
      /\ \A v \in Range(f) : Cardinality(Below(v)) >= p => Nth(f, p) <= v
  <2>1. p <= k
    BY <1>1, <1>2
  <2>2. QED
    BY <1>2, <2>1, NthSmallest DEF k
<1>5. Nth(f, q) \in 0..10 /\ Cardinality(Below(Nth(f, q))) >= q /\ Nth(f, q) \in Range(f)
  BY <1>2, NthSmallest DEF k
<1>6. \A v : IsFiniteSet(Below(v)) /\ Cardinality(Below(v)) \in Nat
  <2> TAKE v
  <2>1. Below(v) \subseteq C
    OBVIOUS
  <2>2. IsFiniteSet(Below(v))
    BY <2>1, FS_Subset
  <2>3. QED
    BY <2>2, FS_CardinalityType
<1>7. Nth(f, p) <= Nth(f, q)
  <2>1. Cardinality(Below(Nth(f, q))) >= p
    <3>1. Cardinality(Below(Nth(f, q))) \in Nat
      BY <1>6
    <3> HIDE DEF Below
    <3>2. QED
      BY <1>2, <1>5, <3>1
  <2>2. QED
    BY <1>4, <1>5, <2>1
<1>8. Nth(f, p) <= b
  BY <1>3, <1>4, <1>5, <1>7
<1>9. Below(Nth(f, p)) \subseteq Below(b)
  BY <1>4, <1>8
<1>10. Cardinality(Below(Nth(f, p))) <= Cardinality(Below(b))
  BY <1>6, <1>9, FS_Subset
<1>11. Cardinality(Below(b)) \in Nat /\ Cardinality(Below(Nth(f, p))) \in Nat
  BY <1>6
<1> HIDE DEF Below
<1>12. 2 * Cardinality(Below(b)) >= k
  BY <1>1, <1>2, <1>4, <1>10, <1>11
<1>13. QED
  BY <1>12 DEF Below, k

\* What a floor is, of the scores of an arm.
Score == [n : 0..Calls, lo : 0..10, hi : 0..10]
Full(of) == {i \in 1..K : of[i].n = Calls}
Floor(of) ==
  /\ Cardinality(Full(of)) >= MIN_COUNTING_TASKS
  /\ 2 * Cardinality({i \in Full(of) : Spread(of[i]) <= 2}) >= Cardinality(Full(of))
  /\ \A i \in Full(of) : Spread(of[i]) <= 4

LEMMA GateReadsFloor ==
  ASSUME Calls <= MIN_USABLE_PER_TASK, NEW of \in [1..K -> Score],
         \A i \in 1..K : of[i].lo <= of[i].hi, Opens(of)
  PROVE  Floor(of)
<1> DEFINE C == Counting(of)
           f == Ranges(of)
<1>1. C \subseteq 1..K /\ IsFiniteSet(C) /\ Cardinality(C) >= MIN_COUNTING_TASKS
  <2>1. C \subseteq 1..K
    BY DEF Counting
  <2>2. IsFiniteSet(1..K)
    BY Sizes, Numbered
  <2>3. QED
    BY <2>1, <2>2, FS_Subset DEF Opens, Covered
<1>2. C # {}
  BY <1>1, Sizes, FS_EmptySet
<1>3. \A i \in 1..K : i \in C <=> of[i].n >= MIN_USABLE_PER_TASK
  BY DEF Counting, Admitted
<1>4. \A i \in 1..K : of[i].n \in 0..Calls /\ Spread(of[i]) \in 0..10
  <2> TAKE i \in 1..K
  <2>1. of[i].n \in 0..Calls /\ of[i].lo \in 0..10 /\ of[i].hi \in 0..10 /\ of[i].lo <= of[i].hi
    BY DEF Score
  <2>2. QED
    BY <2>1 DEF Spread
<1>5. C = Full(of)
  <2>1. PICK i \in C : of[i].n >= MIN_USABLE_PER_TASK
    BY <1>1, <1>2, <1>3
  <2>2. Calls = MIN_USABLE_PER_TASK
    BY <1>1, <1>4, <2>1, Sizes
  <2>3. \A j \in 1..K : j \in C <=> of[j].n = Calls
    BY <1>3, <1>4, <2>2, Sizes
  <2>4. QED
    BY <1>1, <2>3 DEF Full
<1>6. f \in [C -> 0..10] /\ \A i \in C : f[i] = Spread(of[i])
  <2>1. f = [i \in C |-> Spread(of[i])]
    BY DEF Ranges
  <2> HIDE DEF C, f
  <2>2. QED
    BY <1>1, <1>4, <2>1
<1>7. TwiceMedian(f) <= 2 * 2 /\ Max(Range(f)) <= 4
  BY DEF Opens
<1> HIDE DEF C, f
<1>8. 2 * Cardinality({i \in C : f[i] <= 2}) >= Cardinality(C)
  <2>1. \A b \in Nat : TwiceMedian(f) <= 2 * b =>
                           2 * Cardinality({i \in C : f[i] <= b}) >= Cardinality(C)
    BY <1>1, <1>2, <1>6, HalfBelowMedian
  <2>2. QED
    BY <1>7, <2>1
<1>9. {i \in C : f[i] <= 2} = {i \in C : Spread(of[i]) <= 2}
  BY <1>6
<1>10. \A i \in C : f[i] <= 4
  <2>1. Range(f) \in SUBSET (0..10) /\ Range(f) # {} /\ \A i \in C : f[i] \in Range(f)
    BY <1>2, <1>6 DEF Range
  <2>2. Max(Range(f)) \in Range(f) /\ \A v \in Range(f) : v <= Max(Range(f))
    BY <2>1, Maximum
  <2>3. QED
    BY <1>7, <2>1, <2>2
<1>11. QED
  BY <1>1, <1>5, <1>6, <1>8, <1>9, <1>10 DEF Floor

-----------------------------------------------------------------------------
\* The inductive invariant: types, where the loops stand, what came of them.

Payloads == {"asked", "default"}

Types ==
  /\ pc \in {"start", "calling", "checking", "writing", "stopped", "aborted", "written", "killed"}
  /\ population \in Populations /\ (chosen # None => chosen = Select(population, K))
  /\ arm \in 1..2 /\ task \in 1..K /\ call \in 1..(Calls + 1)
  /\ seen \in SUBSET Payloads /\ rejected \in SUBSET Range(Arms)
  /\ scores \in [Range(Arms) -> [1..K -> Score]]
  /\ sent \in [Range(Arms) -> [1..K -> SUBSET Payloads]]
  /\ made \in Nat /\ made <= 2 * (K * Calls) /\ caps \in 0..made
  /\ \A a \in Range(Arms), i \in 1..K : scores[a][i].lo <= scores[a][i].hi

\* The tasks behind and ahead of the loops.
Behind(x, i) == x < arm \/ (x = arm /\ i < task)
Here(x, i)   == x = arm /\ i = task

\* While the loops run, as many calls were made as they have turned, none of a task
\* ahead, and of the task at hand the payloads seen were sent.
Looping ==
  /\ made = (arm - 1) * (K * Calls) + (task - 1) * Calls + (call - 1)
  /\ \A x \in 1..2, i \in 1..K :
       IF Behind(x, i) THEN Cardinality(sent[Arms[x]][i]) <= 1
       ELSE IF Here(x, i) THEN sent[Arms[x]][i] = seen /\ scores[Arms[x]][i].n <= call - 1
       ELSE sent[Arms[x]][i] = {} /\ scores[Arms[x]][i].n = 0

\* After them every call was made, and each task was of one payload.
Whole ==
  /\ made = 2 * (K * Calls)
  /\ \A a \in Range(Arms), i \in 1..K : Cardinality(sent[a][i]) <= 1

Phases ==
  /\ pc \in {"start", "calling"} => Looping
  /\ pc \in {"checking", "writing", "written"} => Whole
  /\ pc \notin {"writing", "written", "killed"} => result = None
  /\ result # None => Whole
  /\ result \notin {None, Torn} => result = [gate |-> Gate, made |-> made]

IInv == Types /\ Phases

LEMMA TwoArms ==
  /\ Len(Arms) = 2 /\ Arms[1] = "0.0" /\ Arms[2] = "1.0" /\ Range(Arms) = {"0.0", "1.0"}
  /\ \A x \in 1..2 : Arms[x] \in Range(Arms)
  /\ \A x, y \in 1..2 : Arms[x] = Arms[y] => x = y
  /\ \A a \in Range(Arms) : \E x \in 1..2 : a = Arms[x]
<1>1. Len(Arms) = 2 /\ Arms[1] = "0.0" /\ Arms[2] = "1.0" /\ DOMAIN Arms = 1..2
  BY DEF Arms
<1>2. Range(Arms) = {"0.0", "1.0"}
  <2>1. DOMAIN Arms = {1, 2}
    BY <1>1
  <2>2. QED
    BY <1>1, <2>1 DEF Range
<1>3. \A x \in 1..2 : x = 1 \/ x = 2
  OBVIOUS
<1>4. QED
  BY <1>1, <1>2, <1>3

\* How many calls there are after a number of tasks.
LEMMA Turns ==
  ASSUME NEW t \in 1..K
  PROVE  /\ K * Calls \in Nat /\ (t - 1) * Calls \in Nat
         /\ (t - 1) * Calls + Calls = t * Calls
         /\ t * Calls <= K * Calls
<1>1. K \in Nat /\ Calls \in Nat /\ t \in Nat /\ t - 1 \in Nat /\ K - t \in Nat
  BY Sizes
<1>2. K * Calls \in Nat /\ (t - 1) * Calls \in Nat /\ (K - t) * Calls \in Nat
  BY <1>1
<1>3. (t - 1) * Calls + Calls = t * Calls /\ t * Calls + (K - t) * Calls = K * Calls
  BY <1>1
<1>4. t * Calls \in Nat
  BY <1>1
<1>5. QED
  BY <1>2, <1>3, <1>4

\* The first task of the first arm: nothing was made.
LEMMA Initial == Init => IInv
<1> SUFFICES ASSUME Init PROVE IInv
  OBVIOUS
<1>1. K \in Nat \ {0} /\ Calls \in Nat \ {0} /\ K * Calls \in Nat
  BY Sizes
<1>2. Unscored \in Score /\ Unscored.lo <= Unscored.hi /\ Unscored.n = 0
  BY <1>1 DEF Unscored, Score
<1>3. Types
  <2>1. scores \in [Range(Arms) -> [1..K -> Score]]
    BY <1>2 DEF Init, Empty
  <2>2. sent \in [Range(Arms) -> [1..K -> SUBSET Payloads]]
    BY DEF Init
  <2>3. \A a \in Range(Arms), i \in 1..K : scores[a][i].lo <= scores[a][i].hi
    BY <1>2 DEF Init, Empty
  <2>4. QED
    BY <1>1, <2>1, <2>2, <2>3 DEF Init, Types
<1>4. Looping
  <2>1. \A x \in 1..2, i \in 1..K : sent[Arms[x]][i] = {} /\ scores[Arms[x]][i].n = 0
    BY <1>2, TwoArms DEF Init, Empty
  <2>2. \A x \in 1..2, i \in 1..K : ~Behind(x, i)
    BY DEF Init, Behind
  <2>3. made = 0 /\ seen = {} /\ call = 1 /\ arm = 1 /\ task = 1
    BY DEF Init
  <2>4. (arm - 1) * (K * Calls) + (task - 1) * Calls + (call - 1) = 0
    BY <1>1, <2>3
  <2>5. QED
    BY <2>1, <2>2, <2>3, <2>4 DEF Looping
<1>5. QED
  BY <1>3, <1>4 DEF Init, IInv, Phases

LEMMA SameGate ==
  ASSUME UNCHANGED data PROVE Gate' = Gate
  BY DEF data, Gate, ParseRateOk, Usable

\* Steps outside the loops leave what was measured as it is.
LEMMA SameData ==
  ASSUME UNCHANGED <<loop, data>>
  PROVE  (Whole <=> Whole') /\ (Looping <=> Looping') /\ Gate' = Gate
<1>1. Gate' = Gate
  BY SameGate DEF data
<1>2. QED
  BY <1>1 DEF loop, data, Whole, Looping, Behind, Here

LEMMA StartStep == IInv /\ Start => IInv'
<1> SUFFICES ASSUME IInv, Start PROVE IInv'
  OBVIOUS
<1>1. (Whole <=> Whole') /\ (Looping <=> Looping') /\ Gate' = Gate
  BY SameData DEF Start
<1>2. Types'
  BY DEF IInv, Types, Start, loop, data
<1>3. Phases'
  BY <1>1 DEF IInv, Phases, Start, data
<1>4. QED
  BY <1>2, <1>3 DEF IInv

LEMMA EndStep == IInv /\ (Open \/ Write \/ Kill) => IInv'
<1> SUFFICES ASSUME IInv, Open \/ Write \/ Kill PROVE IInv'
  OBVIOUS
<1>1. (Whole <=> Whole') /\ (Looping <=> Looping') /\ Gate' = Gate /\ made' = made
  BY SameData DEF Open, Write, Kill, data
<1>2. Types'
  BY DEF IInv, Types, Open, Write, Kill, loop, data
<1>3. CASE Open
  <2>1. pc' = "writing" /\ result' = Torn /\ Whole'
    BY <1>1, <1>3 DEF IInv, Phases, Open
  <2>2. QED
    BY <1>2, <2>1 DEF IInv, Phases
<1>4. CASE Write
  <2>1. pc' = "written" /\ result' = [gate |-> Gate', made |-> made'] /\ Whole'
    BY <1>1, <1>4 DEF IInv, Phases, Write
  <2>2. QED
    BY <1>2, <2>1 DEF IInv, Phases
<1>5. CASE Kill
  <2>1. /\ pc' = "killed" /\ result' = result /\ (result' # None => Whole')
        /\ result' \notin {None, Torn} => result' = [gate |-> Gate', made |-> made']
    BY <1>1, <1>5 DEF IInv, Phases, Kill
  <2>2. QED
    BY <1>2, <2>1 DEF IInv, Phases
<1>6. QED
  BY <1>2, <1>3, <1>4, <1>5 DEF IInv

\* The score of a call goes to the task at hand; no other task is touched.
LEMMA CallStep == IInv /\ Call => IInv'
<1> SUFFICES ASSUME IInv, Call PROVE IInv'
  OBVIOUS
<1>1. Types /\ Looping /\ result = None /\ pc = "calling" /\ pc' = "calling" /\ result' = None
  BY DEF IInv, Phases, Call
<1>2. /\ At \in Range(Arms) /\ K \in Nat /\ Calls \in Nat
      /\ arm \in 1..2 /\ task \in 1..K /\ call \in Nat /\ 1 <= call /\ call <= Calls
      /\ seen \in SUBSET Payloads
  BY <1>1, Sizes, TwoArms DEF Types, At, Call
<1>3. PICK r \in Replies[At] :
       /\ rejected' = IF r.refused THEN rejected \cup {At} ELSE rejected
       /\ made' = made + 1
       /\ IF r.payload = None
            THEN UNCHANGED <<seen, scores, caps, sent>>
            ELSE /\ seen' = seen \cup {r.payload}
                 /\ sent' = [sent EXCEPT ![At][task] = @ \cup {r.payload}]
                 /\ caps' = IF r.cap THEN caps + 1 ELSE caps
                 /\ scores' = IF Parse(r) = None THEN scores
                              ELSE [scores EXCEPT ![At][task] = Scored(@, Parse(r))]
  BY DEF Call, Remember
<1>4. r.payload \in Payloads \cup {None} /\ r.score \in Int
  BY <1>2, Answers DEF Reply, Payloads
<1>5. UNCHANGED <<population, chosen, arm, task>> /\ call' = call + 1
  BY DEF Call
\* what becomes of the scores
<1> DEFINE old == scores[At][task]
<1>6. old \in Score /\ old.lo <= old.hi /\ old.n <= call - 1
  <2>1. ~Behind(arm, task) /\ Here(arm, task)
    BY <1>2 DEF Behind, Here
  <2>2. old.n <= call - 1
    BY <1>1, <1>2, <2>1 DEF Looping, At
  <2>3. QED
    BY <1>1, <1>2, <2>2 DEF Types
<1>7. \/ scores' = scores
      \/ \E v \in 0..10 : scores' = [scores EXCEPT ![At][task] = Scored(old, v)]
  <2>1. Parse(r) = None \/ Parse(r) \in 0..10
    BY DEF Parse
  <2>2. QED
    BY <1>3, <2>1
<1>8. \A v \in 0..10 : /\ Scored(old, v) \in Score /\ Scored(old, v).lo <= Scored(old, v).hi
                        /\ Scored(old, v).n <= call' - 1
  <2> TAKE v \in 0..10
  <2>1. old.n \in 0..Calls /\ old.lo \in 0..10 /\ old.hi \in 0..10
    BY <1>6 DEF Score
  <2>2. CASE old.n = 0
    <3>1. Scored(old, v) = [n |-> 1, lo |-> v, hi |-> v]
      BY <2>2 DEF Scored
    <3>2. QED
      BY <1>2, <1>5, <3>1 DEF Score
  <2>3. CASE old.n # 0
    <3>1. Scored(old, v) = [n |-> old.n + 1, lo |-> Least(old.lo, v), hi |-> Greatest(old.hi, v)]
      BY <2>3 DEF Scored
    <3>2. /\ Least(old.lo, v) \in 0..10 /\ Greatest(old.hi, v) \in 0..10
          /\ Least(old.lo, v) <= Greatest(old.hi, v)
      BY <1>6, <2>1 DEF Least, Greatest
    <3>3. old.n + 1 \in 0..Calls /\ old.n + 1 <= call' - 1
      BY <1>2, <1>5, <1>6, <2>1
    <3>4. QED
      BY <3>1, <3>2, <3>3 DEF Score
  <2>4. QED
    BY <2>2, <2>3
<1>9. /\ scores' \in [Range(Arms) -> [1..K -> Score]]
      /\ \A a \in Range(Arms), i \in 1..K :
           IF a = At /\ i = task
           THEN scores'[a][i].lo <= scores'[a][i].hi /\ scores'[a][i].n <= call' - 1
           ELSE scores'[a][i] = scores[a][i]
  <2>0. scores \in [Range(Arms) -> [1..K -> Score]]
    BY <1>1 DEF Types
  <2>1. CASE scores' = scores
    <3>1. old.n <= call' - 1
      <4>1. old.n \in Int
        BY <1>6 DEF Score
      <4>2. QED
        BY <1>2, <1>5, <1>6, <4>1
    <3>2. QED
      BY <1>6, <2>0, <2>1, <3>1
  <2>2. ASSUME NEW v \in 0..10, scores' = [scores EXCEPT ![At][task] = Scored(old, v)]
        PROVE  /\ scores' \in [Range(Arms) -> [1..K -> Score]]
               /\ \A a \in Range(Arms), i \in 1..K :
                    IF a = At /\ i = task
                    THEN scores'[a][i].lo <= scores'[a][i].hi /\ scores'[a][i].n <= call' - 1
                    ELSE scores'[a][i] = scores[a][i]
    <3> DEFINE new == Scored(old, v)
    <3>1. new \in Score /\ new.lo <= new.hi /\ new.n <= call' - 1
      BY <1>8
    <3> HIDE DEF new, old
    <3>2. scores' = [scores EXCEPT ![At] = [scores[At] EXCEPT ![task] = new]]
      BY <2>2 DEF new
    <3>3. QED
      BY <1>2, <2>0, <3>1, <3>2
  <2>3. QED
    BY <1>7, <2>1, <2>2
\* and of the payloads
<1>10. /\ sent' \in [Range(Arms) -> [1..K -> SUBSET Payloads]] /\ seen' \in SUBSET Payloads
       /\ \A a \in Range(Arms), i \in 1..K :
            IF a = At /\ i = task
            THEN \E new \in SUBSET Payloads : seen' = seen \cup new /\ sent'[a][i] = sent[a][i] \cup new
            ELSE sent'[a][i] = sent[a][i]
  <2>0. sent \in [Range(Arms) -> [1..K -> SUBSET Payloads]]
    BY <1>1 DEF Types
  <2>1. CASE r.payload = None
    <3>1. {} \in SUBSET Payloads /\ seen' = seen \cup {} /\ sent' = sent
      BY <1>3, <2>1
    <3>2. \A a \in Range(Arms), i \in 1..K : sent'[a][i] = sent[a][i] \cup {}
      BY <3>1
    <3>3. QED
      BY <1>2, <2>0, <3>1, <3>2
  <2>2. CASE r.payload # None
    <3>1. {r.payload} \in SUBSET Payloads
      BY <1>4, <2>2
    <3>2. sent' = [sent EXCEPT ![At] = [sent[At] EXCEPT ![task] = sent[At][task] \cup {r.payload}]]
      BY <1>3, <2>2
    <3>3. seen' = seen \cup {r.payload}
      BY <1>3, <2>2
    <3>4. QED
      BY <1>2, <2>0, <3>1, <3>2, <3>3
  <2>3. QED
    BY <2>1, <2>2
<1>11. /\ made' \in Nat /\ caps' \in 0..made'
       /\ made' = (arm' - 1) * (K * Calls) + (task' - 1) * Calls + (call' - 1)
       /\ made' <= 2 * (K * Calls)
  <2>1. K * Calls \in Nat /\ (task - 1) * Calls \in Nat /\ (task - 1) * Calls + Calls <= K * Calls
    BY <1>2, Turns
  <2>2. (arm - 1) * (K * Calls) = 0 \/ (arm - 1) * (K * Calls) = K * Calls
    BY <1>2, <2>1
  <2>3. made = (arm - 1) * (K * Calls) + (task - 1) * Calls + (call - 1) /\ made \in Nat /\ caps \in 0..made
    BY <1>1 DEF Looping, Types
  <2>4. made' = made + 1 /\ (caps' = caps \/ caps' = caps + 1)
    BY <1>3
  <2>5. arm' = arm /\ task' = task
    BY <1>5
  <2>6. QED
    BY <1>2, <1>5, <2>1, <2>2, <2>3, <2>4, <2>5
<1>12. Types'
  <2>1. rejected' \in SUBSET Range(Arms)
    BY <1>1, <1>2, <1>3 DEF Types
  <2>2. call' \in 1..(Calls + 1)
    BY <1>2, <1>5
  <2>3. \A a \in Range(Arms), i \in 1..K : scores'[a][i].lo <= scores'[a][i].hi
    BY <1>1, <1>9 DEF Types
  <2>4. QED
    BY <1>1, <1>5, <1>9, <1>10, <1>11, <2>1, <2>2, <2>3 DEF Types
<1>13. Looping'
  <2>1. ASSUME NEW x \in 1..2, NEW i \in 1..K
        PROVE  IF Behind(x, i)' THEN Cardinality(sent'[Arms[x]][i]) <= 1
               ELSE IF Here(x, i)' THEN sent'[Arms[x]][i] = seen' /\ scores'[Arms[x]][i].n <= call' - 1
               ELSE sent'[Arms[x]][i] = {} /\ scores'[Arms[x]][i].n = 0
    <3>1. (Behind(x, i)' <=> Behind(x, i)) /\ (Here(x, i)' <=> Here(x, i))
      BY <1>5 DEF Behind, Here
    <3>2. Arms[x] \in Range(Arms) /\ (Arms[x] = At <=> x = arm)
      BY <1>2, TwoArms DEF At
    <3>3. IF Behind(x, i) THEN Cardinality(sent[Arms[x]][i]) <= 1
          ELSE IF Here(x, i) THEN sent[Arms[x]][i] = seen /\ scores[Arms[x]][i].n <= call - 1
          ELSE sent[Arms[x]][i] = {} /\ scores[Arms[x]][i].n = 0
      BY <1>1 DEF Looping
    <3>4. CASE Here(x, i)
      <4>1. x = arm /\ i = task /\ ~Behind(x, i)
        BY <1>2, <3>4 DEF Here, Behind
      <4>2. QED
        BY <1>9, <1>10, <3>1, <3>2, <3>3, <3>4, <4>1
    <3>5. CASE ~Here(x, i)
      <4>1. ~(Arms[x] = At /\ i = task)
        BY <3>2, <3>5 DEF Here
      <4>2. sent'[Arms[x]][i] = sent[Arms[x]][i] /\ scores'[Arms[x]][i] = scores[Arms[x]][i]
        BY <1>9, <1>10, <3>2, <4>1
      <4>3. QED
        BY <3>1, <3>3, <3>5, <4>2
    <3>6. QED
      BY <3>4, <3>5
  <2>2. QED
    BY <1>11, <2>1 DEF Looping
<1>14. Phases'
  BY <1>1, <1>13 DEF Phases
<1>15. QED
  BY <1>12, <1>14 DEF IInv

\* A task that is left was of one payload, in every one of its calls.
LEMMA NextTaskStep == IInv /\ NextTask => IInv'
<1> SUFFICES ASSUME IInv, NextTask PROVE IInv'
  OBVIOUS
<1>1. Types /\ Looping /\ result = None /\ pc = "calling" /\ result' = None
  BY DEF IInv, Phases, NextTask
<1>2. /\ K \in Nat /\ Calls \in Nat /\ arm \in 1..2 /\ task \in 1..K /\ call = Calls + 1
      /\ 1 <= K /\ seen \in SUBSET Payloads
  <2>1. call > Calls /\ call \in 1..(Calls + 1)
    BY <1>1 DEF NextTask, Types
  <2>2. QED
    BY <1>1, <2>1, Sizes DEF Types
<1>3. UNCHANGED <<population, chosen, rejected, scores, made, caps, sent>>
  BY DEF NextTask, data
<1>4. CASE Differs \/ Drifted
  <2>1. pc' = "aborted" /\ UNCHANGED <<arm, task, call, seen>>
    BY <1>4 DEF NextTask, loop
  <2>2. Types'
    BY <1>1, <1>3, <2>1 DEF Types
  <2>3. QED
    BY <1>1, <2>1, <2>2 DEF IInv, Phases
<1>5. CASE ~(Differs \/ Drifted)
  <2>1. /\ call' = 1 /\ seen' = {}
        /\ IF task < K THEN task' = task + 1 /\ UNCHANGED <<pc, arm>>
           ELSE /\ task' = 1
                /\ IF arm < 2 THEN arm' = arm + 1 /\ UNCHANGED pc
                   ELSE pc' = "checking" /\ UNCHANGED arm
    BY <1>5, TwoArms DEF NextTask
  <2>2. Cardinality(seen) <= 1
    <3>1. IsFiniteSet(Payloads)
      <4>1. IsFiniteSet({"asked"})
        BY FS_Singleton
      <4>2. Payloads = {"asked"} \cup {"default"}
        BY DEF Payloads
      <4>3. QED
        BY <4>1, <4>2, FS_AddElement
    <3>2. Cardinality(seen) \in Nat
      BY <1>2, <3>1, FS_Subset, FS_CardinalityType
    <3>3. QED
      BY <1>5, <3>2 DEF Differs
  <2>3. \A x \in 1..2, i \in 1..K :
          /\ Behind(x, i) \/ Here(x, i) => Cardinality(sent[Arms[x]][i]) <= 1
          /\ ~Behind(x, i) /\ ~Here(x, i) => sent[Arms[x]][i] = {} /\ scores[Arms[x]][i].n = 0
    BY <1>1, <2>2 DEF Looping
  <2>4. made = (arm - 1) * (K * Calls) + task * Calls
    <3>1. /\ K * Calls \in Nat /\ (task - 1) * Calls \in Nat
          /\ (task - 1) * Calls + Calls = task * Calls
      BY <1>2, Turns
    <3>2. made = (arm - 1) * (K * Calls) + (task - 1) * Calls + Calls
      BY <1>1, <1>2 DEF Looping
    <3>3. (arm - 1) * (K * Calls) \in Nat
      BY <1>2, <3>1
    <3>4. QED
      BY <1>2, <3>1, <3>2, <3>3
  <2>5. Types'
    <3>1. arm' \in 1..2 /\ task' \in 1..K /\ call' \in 1..(Calls + 1)
      BY <1>2, <2>1
    <3>2. pc' \in {"calling", "checking"}
      BY <1>1, <2>1
    <3>3. seen' \in SUBSET Payloads
      BY <2>1
    <3>4. QED
      BY <1>1, <1>3, <3>1, <3>2, <3>3 DEF Types
  <2>6. CASE task < K \/ arm < 2
    <3>1. \A x \in 1..2, i \in 1..K :
            /\ Behind(x, i)' => Behind(x, i) \/ Here(x, i)
            /\ ~Behind(x, i)' => ~Behind(x, i) /\ ~Here(x, i)
      BY <1>2, <2>1, <2>6 DEF Behind, Here
    <3>2. made' = (arm' - 1) * (K * Calls) + (task' - 1) * Calls + (call' - 1)
      <4>1. K * Calls \in Nat /\ task * Calls \in Nat /\ 0 * Calls = 0
        BY <1>2, Turns
      <4>2. CASE task < K
        BY <1>2, <1>3, <2>1, <2>4, <4>1, <4>2
      <4>3. CASE ~(task < K)
        <5>1. task = K /\ arm = 1 /\ arm' = 2 /\ task' = 1 /\ call' = 1
          BY <1>2, <2>1, <2>6, <4>3
        <5>2. QED
          BY <1>3, <2>4, <4>1, <5>1
      <4>4. QED
        BY <4>2, <4>3
    <3>3. Looping'
      BY <1>3, <2>1, <2>3, <3>1, <3>2 DEF Looping
    <3>4. pc' = "calling"
      BY <1>1, <1>2, <2>1, <2>6
    <3>5. QED
      BY <1>1, <2>5, <3>3, <3>4 DEF IInv, Phases
  <2>7. CASE ~(task < K) /\ ~(arm < 2)
    <3>1. task = K /\ arm = 2 /\ pc' = "checking"
      BY <1>2, <2>1, <2>7
    <3>2. made = 2 * (K * Calls)
      <4>1. K * Calls \in Nat
        BY <1>2, Turns
      <4>2. QED
        BY <2>4, <3>1, <4>1
    <3>3. \A x \in 1..2, i \in 1..K : Behind(x, i) \/ Here(x, i)
      BY <1>2, <3>1 DEF Behind, Here
    <3>4. \A a \in Range(Arms), i \in 1..K : Cardinality(sent[a][i]) <= 1
      BY <2>3, <3>3, TwoArms
    <3>5. Whole'
      BY <1>3, <3>2, <3>4 DEF Whole
    <3>6. QED
      BY <1>1, <2>5, <3>1, <3>5 DEF IInv, Phases
  <2>8. QED
    BY <2>6, <2>7
<1>6. QED
  BY <1>4, <1>5

LEMMA Invariance == Spec => []IInv
<1>1. IInv /\ UNCHANGED vars => IInv'
  <2> SUFFICES ASSUME IInv, UNCHANGED vars PROVE IInv'
    OBVIOUS
  <2>1. (Whole <=> Whole') /\ (Looping <=> Looping') /\ Gate' = Gate
    BY SameData DEF vars
  <2>2. Types'
    BY DEF IInv, Types, vars, loop, data
  <2>3. Phases'
    BY <2>1 DEF IInv, Phases, vars, data
  <2>4. QED
    BY <2>2, <2>3 DEF IInv
<1>2. IInv /\ [Next]_vars => IInv'
  BY <1>1, StartStep, CallStep, NextTaskStep, EndStep DEF Next
<1>3. QED
  BY Initial, <1>2, PTL DEF Spec

\* The scored calls are finitely many.
LEMMA UsableCounts == Usable \in Nat
<1> DEFINE X == Range(Arms) \X (1..K) \X (1..Calls)
           Y == (Range(Arms) \X (1..K)) \X (1..Calls)
           f == [q \in Y |-> <<q[1][1], q[1][2], q[2]>>]
<1>1. IsFiniteSet(Y)
  <2>1. IsFiniteSet({"0.0"}) /\ Range(Arms) = {"0.0"} \cup {"1.0"}
    BY TwoArms, FS_Singleton
  <2>2. IsFiniteSet(Range(Arms))
    BY <2>1, FS_AddElement
  <2>3. IsFiniteSet(1..K) /\ IsFiniteSet(1..Calls)
    BY Sizes, Numbered
  <2>4. IsFiniteSet(Range(Arms) \X (1..K))
    BY <2>2, <2>3, FS_Product
  <2>5. QED
    BY <2>3, <2>4, FS_Product
<1>2. f \in [Y -> X]
  OBVIOUS
<1>3. ASSUME NEW x \in X  PROVE \E q \in Y : f[q] = x
  <2>1. <<<<x[1], x[2]>>, x[3]>> \in Y
    OBVIOUS
  <2>2. f[<<<<x[1], x[2]>>, x[3]>>] = <<x[1], x[2], x[3]>>
    BY <2>1
  <2>3. x = <<x[1], x[2], x[3]>>
    OBVIOUS
  <2> HIDE DEF f, X, Y
  <2>4. QED
    BY <2>1, <2>2, <2>3
<1> HIDE DEF f, X, Y
<1>4. f \in Surjection(Y, X)
  BY <1>2, <1>3 DEF Surjection
<1>5. IsFiniteSet(X)
  BY <1>1, <1>4, FS_Surjection
<1> DEFINE S == {p \in X : p[3] <= scores[p[1]][p[2]].n}
<1>6. S \subseteq X
  OBVIOUS
<1>7. Usable = Cardinality(S)
  BY DEF Usable, X
<1> HIDE DEF S
<1>8. IsFiniteSet(S)
  BY <1>5, <1>6, FS_Subset
<1>9. QED
  BY <1>7, <1>8, FS_CardinalityType

\* The gate of a result that can be read is the gate of the scores at hand.
LEMMA ReadGate ==
  ASSUME IInv, result \notin {None, Torn}
  PROVE  /\ result.gate = Gate /\ result.made = made /\ Whole
         /\ Gate.evaluated \in BOOLEAN /\ Gate.opens \in BOOLEAN
         /\ Gate.evaluated => caps = 0 /\ ParseRateOk
         /\ Gate.opens => Gate.evaluated /\ Opens(scores["1.0"])
         /\ result \in [gate : [evaluated : BOOLEAN, opens : BOOLEAN], made : {made}]
<1> DEFINE held == caps > 0 \/ ~ParseRateOk
           open == Opens(scores["1.0"])
<1>1. result = [gate |-> Gate, made |-> made] /\ Whole /\ caps \in Nat
  BY DEF IInv, Phases, Types
<1>2. open \in BOOLEAN
  BY DEF Opens
<1>3. Gate = IF held THEN [evaluated |-> FALSE, opens |-> FALSE]
                     ELSE [evaluated |-> TRUE, opens |-> open]
  BY DEF Gate
<1>4. ~held => caps = 0 /\ ParseRateOk
  BY <1>1
<1> HIDE DEF held, open
<1>5. CASE held
  <2>1. Gate = [evaluated |-> FALSE, opens |-> FALSE]
    BY <1>3, <1>5
  <2>2. QED
    BY <1>1, <2>1
<1>6. CASE ~held
  <2>1. Gate = [evaluated |-> TRUE, opens |-> open]
    BY <1>3, <1>6
  <2>2. Gate.evaluated = TRUE /\ Gate.opens = open
    BY <2>1
  <2>3. Gate \in [evaluated : BOOLEAN, opens : BOOLEAN]
    BY <1>2, <2>1
  <2>4. result.gate = Gate /\ result.made = made
    BY <1>1
  <2>5. result \in [gate : [evaluated : BOOLEAN, opens : BOOLEAN], made : {made}]
    BY <1>1, <2>3
  <2>6. QED
    BY <1>1, <1>2, <1>4, <1>6, <2>2, <2>4, <2>5 DEF open
<1>7. QED
  BY <1>5, <1>6

\* As long as no more calls are made of a task than admit it (the defaults: --n and
\* MIN_USABLE_PER_TASK are both N_CALLS), the gate opens only on a floor measured in
\* every call, and it says nothing of an instrument that failed (main, spread).
THEOREM GateSoundness ==
  ASSUME Calls <= MIN_USABLE_PER_TASK
  PROVE  Spec => []GateIsMeasured
<1>1. IInv => GateIsMeasured
  <2> SUFFICES ASSUME IInv PROVE GateIsMeasured
    OBVIOUS
  <2>1. OpensOnFloor
    <3> SUFFICES ASSUME Opened PROVE Floor(scores["1.0"])
      BY DEF OpensOnFloor, Floor, Full
    <3>1. Opens(scores["1.0"])
      BY ReadGate DEF Opened
    <3>2. /\ scores["1.0"] \in [1..K -> Score]
          /\ \A i \in 1..K : scores["1.0"][i].lo <= scores["1.0"][i].hi
      BY TwoArms DEF IInv, Types
    <3>3. QED
      BY <3>1, <3>2, GateReadsFloor
  <2>2. EvaluatedOnSoundInstrument
    <3> SUFFICES ASSUME result \notin {None, Torn}, result.gate.evaluated
                 PROVE  caps = 0 /\ 100 * (made - Usable) <= (100 - MIN_PARSE_PERCENT) * made
      BY DEF EvaluatedOnSoundInstrument
    <3>1. caps = 0 /\ 100 * Usable >= MIN_PARSE_PERCENT * made
      BY ReadGate DEF ParseRateOk
    <3>2. Usable \in Nat /\ made \in Nat /\ MIN_PARSE_PERCENT \in Nat
      <4>1. Usable \in Nat
        BY UsableCounts
      <4>2. QED
        BY <4>1, Sizes DEF IInv, Types
    <3>3. QED
      BY <3>1, <3>2
  <2>3. QED
    BY <2>1, <2>2 DEF GateIsMeasured
<1>2. QED
  BY Invariance, <1>1, PTL

\* A result that can be read is of a whole run on a balanced choice, one payload behind
\* each spread: a script that was killed, aborted or stopped leaves none (main, select).
THEOREM WholeResult == Spec => []ResultIsWhole
<1>1. IInv => ResultIsWhole
  <2> SUFFICES ASSUME IInv PROVE ResultIsWhole
    OBVIOUS
  <2>0. Types /\ K \in Nat /\ Calls \in Nat /\ K * Calls \in Nat /\ 2 * K * Calls = 2 * (K * Calls)
    BY Sizes DEF IInv
  <2>1. TypeOK
    <3>1. made \in 0..(2 * K * Calls) /\ caps \in 0..made
      BY <2>0 DEF Types
    <3>2. result \in {None, Torn} \cup [gate : [evaluated : BOOLEAN, opens : BOOLEAN],
                                       made : 0..(2 * K * Calls)]
      BY <3>1, ReadGate
    <3>3. arm \in 1..Len(Arms)
      BY <2>0, TwoArms DEF Types
    <3>4. \A a \in Range(Arms), i \in 1..K : scores[a][i] \in [n : 0..Calls, lo : 0..10, hi : 0..10]
      BY <2>0 DEF Types, Score
    <3>5. pc \in {"start", "calling", "checking", "writing"} \/ Over
      BY <2>0 DEF Types, Over
    <3>6. QED
      BY <2>0, <3>1, <3>2, <3>3, <3>4, <3>5 DEF Types, TypeOK, Payloads
  <2>2. ChoiceIsBalanced
    <3> SUFFICES ASSUME chosen # None PROVE ChoiceIsBalanced
      BY DEF ChoiceIsBalanced
    <3>1. /\ population \in Seq(DOMAIN RepoOf) /\ IsInjective(population) /\ K \in Nat
          /\ chosen = Select(population, K)
      BY <2>0, Ids DEF Types
    <3>2. QED
      BY <3>1, SelectIsBalanced DEF ChoiceIsBalanced
  <2>3. OnePayloadPerSpread
    BY DEF IInv, Phases, Whole, OnePayloadPerSpread
  <2>4. result \notin {None, Torn} => result.made = Len(Arms) * K * Calls
    BY <2>0, ReadGate, TwoArms DEF Whole
  <2>5. QED
    BY <2>1, <2>2, <2>3, <2>4 DEF ResultIsWhole
<1>2. QED
  BY Invariance, <1>1, PTL
=============================================================================
