---------------------------- MODULE Campaign_proofs ----------------------------
(***************************************************************************)
(* The campaign for any tasks, workers, family of operators, faults and    *)
(* reruns: what a complete record holds, what --resume never takes away    *)
(* and what it settles, that an invocation comes to its end, the directory *)
(* as the store of RecordStore, and the sums of the report.                *)
(***************************************************************************)
EXTENDS Campaign, FiniteSetTheorems, SequenceTheorems, WellFoundedInduction, TLAPS

Found  == [control : BOOLEAN, rows : Rows, error : BOOLEAN, raised : BOOLEAN]
Stages == {"out", "waiting", "checking", "tail", "open", "dumped", "done"}

-----------------------------------------------------------------------------
\* The inductive invariant, in four parts.

Types ==
  /\ TypeOK
  /\ file \in [Task -> Record \cup {None}] /\ partial \in [Task -> Record \cup {None, Torn}]
  /\ found \in [Task -> Found]

\* No row without a control, in memory and in every record written or read.
Ordered(f) == ~f.control => f.rows = <<>>
Controls ==
  /\ \A t \in Task : Ordered(found[t])
  /\ \A t \in Task : file[t] # None => Ordered(file[t])
  /\ \A t \in DOMAIN loaded : Ordered(loaded[t])

\* A task past its check was cut short, raised or went through the family, and it is that that
\* its record will say.
Closing ==
  /\ \A t \in Task : stage[t] \in {"tail", "open", "dumped"} => found[t].error \/ Whole(found[t])
  /\ \A t \in Task : stage[t] = "dumped" => partial[t] = BuildRecord(found[t])
  /\ \A t \in Task : file[t] # None => (file[t].completed => Whole(file[t]))

\* What --resume has still to write is of no task with a complete record.
Resumed == run = "resume" =>
  \A t \in Task : stage[t] \notin {"out", "done"} => ~IsCompleted(t)

\* The names that the reader has still to open are names of records.
Reading ==
  /\ reader # "raised" /\ (reader = "reading" => unread # {})
  /\ \A t \in unread : file[t] # None

IInv == Types /\ Controls /\ Closing /\ Resumed /\ Reading

-----------------------------------------------------------------------------
\* Lemmas about rows.

\* Rows are sequences, and one more of them is a row too while the family lasts.
LEMMA RowsGrow ==
  /\ Len(Family) \in Nat
  /\ <<>> \in Rows
  /\ \A rs \in Rows : rs \in Seq(Row) /\ Len(rs) \in 0..Len(Family)
  /\ \A rs \in Rows, r \in Row : Len(rs) < Len(Family) => Append(rs, r) \in Rows
<1>1. Len(Family) \in Nat
  BY Operators
<1>2. <<>> \in [1..0 -> Row]
  <2> DEFINE e == [i \in 1..0 |-> i]
  <2>1. e \in Seq(Row) /\ Len(e) = 0 /\ e \in [1..0 -> Row]
    OBVIOUS
  <2>2. e = <<>>
    BY <2>1
  <2>3. QED
    BY <2>1, <2>2
<1>3. <<>> \in Rows
  BY <1>1, <1>2 DEF Rows
<1>4. ASSUME NEW rs \in Rows  PROVE rs \in Seq(Row) /\ Len(rs) \in 0..Len(Family)
  <2>1. PICK k \in 0..Len(Family) : rs \in [1..k -> Row]
    BY DEF Rows
  <2>2. QED
    BY <1>1, <2>1
<1>5. ASSUME NEW rs \in Rows, NEW r \in Row, Len(rs) < Len(Family)
      PROVE  Append(rs, r) \in Rows
  <2>1. Len(rs) + 1 \in 0..Len(Family)
    BY <1>1, <1>4, <1>5
  <2>2. Append(rs, r) \in Seq(Row) /\ Len(Append(rs, r)) = Len(rs) + 1
    BY <1>4, <1>5
  <2>3. Append(rs, r) \in [1..(Len(rs) + 1) -> Row]
    BY <1>4, <2>2, LenProperties
  <2>4. QED
    BY <2>1, <2>3 DEF Rows
<1>6. QED
  BY <1>1, <1>3, <1>4, <1>5

\* The next row of a check is one.
LEMMA NextRow ==
  ASSUME NEW n \in Nat, n < Len(Family), NEW s \in Shows[Family[n + 1]]
  PROVE  [op |-> Family[n + 1], verdict |-> s.verdict, p2p |-> s.p2p] \in Row
<1>1. n + 1 \in 1..Len(Family)
  BY RowsGrow
<1>2. Family[n + 1] \in Range(Family)
  BY <1>1, Operators DEF Range
<1>3. QED
  BY <1>2 DEF Row

LEMMA Least ==
  ASSUME NEW S \in SUBSET Nat, S # {}
  PROVE  Min(S) \in S /\ \A y \in S : Min(S) <= y
<1> DEFINE R == {p \in Nat \X Nat : p[1] < p[2]}
<1>1. IsWellFoundedOn(R, Nat)
  BY NatLessThanWellFounded DEF OpToRel
<1>2. \A x, y \in Nat : x < y => <<x, y>> \in R
  OBVIOUS
<1> HIDE DEF R
<1>3. PICK x \in S : \A y \in S : <<y, x>> \notin R
  BY <1>1, WFMin
<1>4. \A y \in S : x <= y
  <2>1. \A y \in S : ~(y < x)
    BY <1>2, <1>3
  <2>2. QED
    BY <2>1
<1>5. QED
  BY <1>4 DEF Min

-----------------------------------------------------------------------------
\* Sums.  SumOver folds over a set, one element after the other, in the order of
\* CHOOSE; the lemmas say what it sums, by induction on subsets.

Pick(s) == CHOOSE x \in s : TRUE
Sums(f, K) ==
  CHOOSE iter : iter = [s \in SUBSET K |-> IF s = {} THEN 0
                                           ELSE f[Pick(s)] + iter[s \ {Pick(s)}]]

LEMMA SumOverIsSums ==
  ASSUME NEW f
  PROVE  SumOver(f) = Sums(f, DOMAIN f)[DOMAIN f]
  BY DEF SumOver, Sums, MapThenSumSet, MapThenFoldSet, Pick

LEMMA Induct ==
  ASSUME NEW S \in SUBSET Nat, 0 \in S, \A n \in S : n + 1 \in S
  PROVE  S = Nat
<1>1. ASSUME Nat \ S # {}  PROVE FALSE
  <2>1. Min(Nat \ S) \in Nat \ S /\ \A y \in Nat \ S : Min(Nat \ S) <= y
    BY <1>1, Least
  <2>2. Min(Nat \ S) - 1 \in S
    BY <2>1
  <2>3. QED
    BY <2>1, <2>2
<1>2. QED
  BY <1>1

\* What picking an element of a finite set leaves of it.
Pickable(s, K) ==
  /\ IsFiniteSet(s) /\ Cardinality(s) \in Nat /\ Cardinality(s) <= Cardinality(K)
  /\ s = {} <=> Cardinality(s) = 0
  /\ s # {} => /\ Pick(s) \in s /\ s \ {Pick(s)} \in SUBSET K
               /\ Cardinality(s \ {Pick(s)}) = Cardinality(s) - 1

LEMMA PickOne ==
  ASSUME NEW K, IsFiniteSet(K), NEW s \in SUBSET K
  PROVE  Pickable(s, K)
<1>1. IsFiniteSet(s) /\ Cardinality(s) \in Nat /\ Cardinality(s) <= Cardinality(K)
  BY FS_Subset, FS_CardinalityType
<1>2. s = {} <=> Cardinality(s) = 0
  BY <1>1, FS_EmptySet
<1>3. s # {} => Pick(s) \in s
  BY DEF Pick
<1>4. QED
  BY <1>1, <1>2, <1>3, FS_RemoveElement DEF Pickable

LEMMA SetInduct ==
  ASSUME NEW K, IsFiniteSet(K), NEW G \in SUBSET (SUBSET K), {} \in G,
         \A s \in SUBSET K : s # {} /\ s \ {Pick(s)} \in G => s \in G
  PROVE  G = SUBSET K
<1> DEFINE S == {n \in Nat : \A s \in SUBSET K : Cardinality(s) = n => s \in G}
<1>0. \A s \in SUBSET K : Pickable(s, K)
  BY PickOne
<1>1. 0 \in S
  BY <1>0 DEF Pickable
<1>2. ASSUME NEW n \in S  PROVE n + 1 \in S
  <2> SUFFICES ASSUME NEW s \in SUBSET K, Cardinality(s) = n + 1  PROVE s \in G
    OBVIOUS
  <2>1. n \in Nat /\ \A r \in SUBSET K : Cardinality(r) = n => r \in G
    OBVIOUS
  <2>2. Pickable(s, K)
    BY PickOne
  <2> HIDE DEF S
  <2>3. s # {} /\ s \ {Pick(s)} \in SUBSET K /\ Cardinality(s \ {Pick(s)}) = n
    BY <2>1, <2>2 DEF Pickable
  <2>4. QED
    BY <2>1, <2>3
<1> HIDE DEF S
<1>3. S = Nat
  <2>1. S \in SUBSET Nat
    BY DEF S
  <2>2. QED
    BY <1>1, <1>2, <2>1, Induct
<1>4. QED
  BY <1>0, <1>3 DEF S, Pickable

\* The recursion of the fold is met by a function.
LEMMA SumsRecursion ==
  ASSUME NEW K, IsFiniteSet(K), NEW f \in [K -> Int]
  PROVE  /\ Sums(f, K)[{}] = 0
         /\ \A s \in SUBSET K : Sums(f, K)[s] \in Int
         /\ \A s \in SUBSET K :
              s # {} => Sums(f, K)[s] = f[Pick(s)] + Sums(f, K)[s \ {Pick(s)}]
<1> DEFINE Eq(F, s)  == F[s] = IF s = {} THEN 0 ELSE f[Pick(s)] + F[s \ {Pick(s)}]
           Up(n)     == {s \in SUBSET K : Cardinality(s) <= n}
           S         == {n \in Nat : \E F \in [SUBSET K -> Int] : \A s \in Up(n) : Eq(F, s)}
<1>a. \A s \in SUBSET K : Pickable(s, K)
  BY PickOne
<1>0. \A s \in SUBSET K : s # {} => Pick(s) \in K /\ f[Pick(s)] \in Int
  BY <1>a DEF Pickable
<1>1. 0 \in S
  <2> DEFINE F == [s \in SUBSET K |-> 0]
  <2>1. F \in [SUBSET K -> Int]
    OBVIOUS
  <2>2. ASSUME NEW s \in Up(0)  PROVE s = {}
    <3>1. s \in SUBSET K /\ Cardinality(s) <= 0 /\ Pickable(s, K)
      BY <1>a
    <3>2. QED
      BY <3>1 DEF Pickable
  <2>3. \A s \in Up(0) : Eq(F, s)
    BY <2>2
  <2> HIDE DEF F
  <2>4. QED
    BY <2>1, <2>3
<1>2. ASSUME NEW n \in S  PROVE n + 1 \in S
  <2>1. PICK F \in [SUBSET K -> Int] : \A s \in Up(n) : Eq(F, s)
    OBVIOUS
  <2>2. n \in Nat
    OBVIOUS
  <2> DEFINE H == [s \in SUBSET K |-> IF Cardinality(s) <= n THEN F[s]
                                      ELSE f[Pick(s)] + F[s \ {Pick(s)}]]
  <2>3. \A s \in SUBSET K : ~(Cardinality(s) <= n) => s # {} /\ s \ {Pick(s)} \in SUBSET K
    <3> SUFFICES ASSUME NEW s \in SUBSET K, ~(Cardinality(s) <= n)
                 PROVE  s # {} /\ s \ {Pick(s)} \in SUBSET K
      OBVIOUS
    <3>1. Pickable(s, K)
      BY PickOne
    <3> HIDE DEF S, H
    <3>2. QED
      BY <2>2, <3>1 DEF Pickable
  <2>4. H \in [SUBSET K -> Int]
    BY <1>0, <2>3
  <2>5. ASSUME NEW s \in Up(n + 1)  PROVE Eq(H, s)
    <3>1. CASE s = {}
      <4>1. s \in Up(n) /\ Cardinality(s) <= n
        BY <2>2, <3>1, FS_EmptySet
      <4>2. F[s] = 0 /\ H[s] = F[s]
        BY <2>1, <3>1, <4>1
      <4>3. QED
        BY <3>1, <4>2
    <3>2. CASE s # {}
      <4>1. /\ s \in SUBSET K /\ Cardinality(s) \in Nat /\ s \ {Pick(s)} \in SUBSET K
            /\ Cardinality(s \ {Pick(s)}) = Cardinality(s) - 1
        BY <1>a, <3>2 DEF Pickable
      <4>2. H[s \ {Pick(s)}] = F[s \ {Pick(s)}]
        BY <2>2, <4>1
      <4>3. H[s] = f[Pick(s)] + F[s \ {Pick(s)}]
        BY <2>1, <2>2, <3>2, <4>1
      <4>4. QED
        BY <3>2, <4>2, <4>3
    <3>3. QED
      BY <3>1, <3>2
  <2> HIDE DEF H, Eq, Up
  <2>6. QED
    BY <2>2, <2>4, <2>5
<1>3. PICK F \in [SUBSET K -> Int] : \A s \in SUBSET K : Eq(F, s)
  <2>1. Cardinality(K) \in Nat
    BY FS_CardinalityType
  <2>2. Up(Cardinality(K)) = SUBSET K
    BY <1>a DEF Pickable
  <2>3. S \in SUBSET Nat
    OBVIOUS
  <2> HIDE DEF S
  <2>4. S = Nat
    BY <1>1, <1>2, <2>3, Induct
  <2> HIDE DEF Up, Eq
  <2>5. QED
    BY <2>1, <2>2, <2>4 DEF S
<1> DEFINE T(iter) == [s \in SUBSET K |-> IF s = {} THEN 0
                                          ELSE f[Pick(s)] + iter[s \ {Pick(s)}]]
<1>4. F = T(F)
  BY <1>3
<1>5. Sums(f, K) = T(Sums(f, K))
  BY <1>4 DEF Sums
<1> DEFINE J == Sums(f, K)
<1>6. J[{}] = 0 /\ \A s \in SUBSET K : s # {} => J[s] = f[Pick(s)] + J[s \ {Pick(s)}]
  BY <1>5
<1> HIDE DEF J
<1> DEFINE G == {s \in SUBSET K : J[s] \in Int}
<1>7. {} \in G /\ \A s \in SUBSET K : s # {} /\ s \ {Pick(s)} \in G => s \in G
  BY <1>0, <1>6
<1>8. G \in SUBSET (SUBSET K)
  OBVIOUS
<1> HIDE DEF G
<1>9. G = SUBSET K
  BY <1>7, <1>8, SetInduct
<1>10. QED
  BY <1>6, <1>9 DEF G, J

LEMMA DisjointCount ==
  ASSUME NEW A, IsFiniteSet(A), NEW B, IsFiniteSet(B), A \cap B = {}
  PROVE  Cardinality(A \cup B) = Cardinality(A) + Cardinality(B)
<1>1. Cardinality(A \cup B) = Cardinality(A) + Cardinality(B) - Cardinality(A \cap B)
  BY FS_Union
<1>2. Cardinality(A) \in Nat /\ Cardinality(B) \in Nat
  BY FS_CardinalityType
<1>3. QED
  BY <1>1, <1>2, FS_EmptySet

\* Counting a set by a classification h of its elements.
LEMMA CountBy ==
  ASSUME NEW K, IsFiniteSet(K), NEW X, IsFiniteSet(X), NEW h
  PROVE  SumOver([k \in K |-> Cardinality({x \in X : h[x] = k})])
           = Cardinality({x \in X : h[x] \in K})
<1> DEFINE Q(k) == Cardinality({x \in X : h[x] = k})
           f    == [k \in K |-> Q(k)]
           J    == Sums(f, K)
           C(s) == {x \in X : h[x] \in s}
           G    == {s \in SUBSET K : J[s] = Cardinality(C(s))}
<1>1. ASSUME NEW k \in K  PROVE Q(k) \in Nat
  <2>1. {x \in X : h[x] = k} \in SUBSET X
    OBVIOUS
  <2>2. IsFiniteSet({x \in X : h[x] = k})
    BY <2>1, FS_Subset
  <2>3. QED
    BY <2>2, FS_CardinalityType
<1>2. f \in [K -> Int] /\ DOMAIN f = K
  <2> HIDE DEF Q
  <2>1. QED
    BY <1>1
<1>3. /\ J[{}] = 0
      /\ \A s \in SUBSET K : s # {} => J[s] = f[Pick(s)] + J[s \ {Pick(s)}]
  BY <1>2, SumsRecursion
<1>4. {} \in G
  <2>1. C({}) = {}
    OBVIOUS
  <2>2. QED
    BY <1>3, <2>1, FS_EmptySet
<1>5. ASSUME NEW s \in SUBSET K, s # {}, s \ {Pick(s)} \in G  PROVE s \in G
  <2> DEFINE p == Pick(s)
             A == {x \in X : h[x] = p}
             B == C(s \ {p})
  <2>1. p \in s /\ p \in K
    BY <1>5, PickOne DEF Pickable
  <2>2. C(s) = A \cup B /\ A \cap B = {}
    BY <2>1
  <2>3. IsFiniteSet(A) /\ IsFiniteSet(B)
    BY FS_Subset
  <2>4. J[s] = f[p] + J[s \ {p}] /\ J[s \ {p}] = Cardinality(B)
    BY <1>3, <1>5
  <2>5. f[p] = Cardinality(A)
    BY <2>1
  <2> HIDE DEF A, B, f, J
  <2>6. Cardinality(A \cup B) = Cardinality(A) + Cardinality(B)
    BY <2>2, <2>3, DisjointCount
  <2>7. QED
    BY <2>2, <2>4, <2>5, <2>6
<1>6. G \in SUBSET (SUBSET K)
  OBVIOUS
<1> HIDE DEF G
<1>7. K \in G
  BY <1>4, <1>5, <1>6, SetInduct
<1>8. SumOver(f) = J[K]
  BY <1>2, SumOverIsSums
<1>9. QED
  BY <1>7, <1>8 DEF G

-----------------------------------------------------------------------------
\* The invariant holds initially, and every step preserves it.

LEMMA InitInv == Init => IInv
<1> SUFFICES ASSUME Init PROVE IInv
  OBVIOUS
<1>1. Nothing \in Found /\ Ordered(Nothing) /\ ~Nothing.error
  BY RowsGrow DEF Nothing, Found, Ordered
<1> USE DEF Init
<1>2. Types
  BY <1>1, Sizes DEF Types, TypeOK, Found
<1>3. Controls
  BY <1>1 DEF Controls
<1>4. Closing
  BY DEF Closing
<1>5. Resumed /\ Reading
  BY DEF Resumed, Reading
<1>6. QED
  BY <1>2, <1>3, <1>4, <1>5 DEF IInv

\* What a coroutine does before its record is written: it moves on, with what
\* its task now holds.
LEMMA Advance ==
  ASSUME IInv, NEW t \in Task, stage[t] \in {"waiting", "checking"},
         NEW f \in Found, Ordered(f),
         NEW s \in {"checking", "tail", "done"}, s = "tail" => f.error \/ Whole(f),
         found' = [found EXCEPT ![t] = f], stage' = [stage EXCEPT ![t] = s],
         faults' \in 0..FAULTS, UNCHANGED <<sample, disk, run, agg, reruns>>
  PROVE  IInv'
<1> USE DEF IInv, disk, agg
<1>1. /\ found'[t] = f /\ \A u \in Task \ {t} : found'[u] = found[u]
      /\ stage'[t] = s /\ \A u \in Task \ {t} : stage'[u] = stage[u]
      /\ DOMAIN found' = Task
      /\ stage' \in [Task -> Stages]
  BY DEF Types, TypeOK, Stages
<1>2. Types'
  BY <1>1 DEF Types, TypeOK, Found, Stages
<1>3. Controls'
  BY <1>1 DEF Controls
<1>4. Closing'
  BY <1>1 DEF Closing
<1>5. Resumed'
  BY <1>1 DEF Resumed, IsCompleted
<1>6. Reading'
  BY DEF Reading
<1>7. QED
  BY <1>2, <1>3, <1>4, <1>5, <1>6

\* What the task object may become: an error, a control, a row.
LEMMA Marks ==
  ASSUME NEW f \in Found, NEW b \in BOOLEAN
  PROVE  /\ [f EXCEPT !.error = b] \in Found /\ [f EXCEPT !.control = b] \in Found
         /\ [f EXCEPT !.error = b].error = b /\ [f EXCEPT !.control = b].control = b
         /\ [f EXCEPT !.error = b].control = f.control
         /\ [f EXCEPT !.error = b].rows = f.rows
  BY DEF Found

LEMMA MarkError ==
  ASSUME NEW f \in Found, Ordered(f)
  PROVE  LET g == [f EXCEPT !.error = TRUE] IN g \in Found /\ Ordered(g) /\ g.error
<1>1. /\ [f EXCEPT !.error = TRUE] \in Found
      /\ [f EXCEPT !.error = TRUE].error = TRUE
      /\ [f EXCEPT !.error = TRUE].control = f.control
      /\ [f EXCEPT !.error = TRUE].rows = f.rows
  BY Marks, Zenon
<1> DEFINE g == [f EXCEPT !.error = TRUE]
<1> HIDE DEF g
<1>2. g \in Found /\ g.error = TRUE /\ g.control = f.control /\ g.rows = f.rows
  BY <1>1, Zenon DEF g
<1>3. g \in Found /\ Ordered(g) /\ g.error
  BY <1>2 DEF Ordered
<1>4. QED
  BY <1>3 DEF g

LEMMA MarkRaised ==
  ASSUME NEW f \in Found, Ordered(f)
  PROVE  LET g == [f EXCEPT !.raised = TRUE] IN g \in Found /\ Ordered(g) /\ Whole(g)
<1>1. /\ [f EXCEPT !.raised = TRUE] \in Found
      /\ [f EXCEPT !.raised = TRUE].raised = TRUE
      /\ [f EXCEPT !.raised = TRUE].control = f.control
      /\ [f EXCEPT !.raised = TRUE].rows = f.rows
  BY Zenon DEF Found
<1> DEFINE g == [f EXCEPT !.raised = TRUE]
<1> HIDE DEF g
<1>2. g \in Found /\ g.raised = TRUE /\ g.control = f.control /\ g.rows = f.rows
  BY <1>1, Zenon DEF g
<1>3. g \in Found /\ Ordered(g) /\ Whole(g)
  BY <1>2 DEF Ordered, Whole
<1>4. QED
  BY <1>3 DEF g

LEMMA MarkControl ==
  ASSUME NEW f \in Found
  PROVE  LET g == [f EXCEPT !.control = TRUE] IN g \in Found /\ Ordered(g)
<1>1. /\ [f EXCEPT !.control = TRUE] \in Found
      /\ [f EXCEPT !.control = TRUE].control = TRUE
  BY Marks, Zenon
<1> DEFINE g == [f EXCEPT !.control = TRUE]
<1> HIDE DEF g
<1>2. g \in Found /\ g.control = TRUE
  BY <1>1, Zenon DEF g
<1>3. g \in Found /\ Ordered(g)
  BY <1>2 DEF Ordered
<1>4. QED
  BY <1>3 DEF g

LEMMA CheckStep ==
  ASSUME IInv, NEW t \in Task,
         \/ Begin(t) \/ Control(t) \/ MakeRow(t) \/ Checked(t)
         \/ Refused(t) \/ Raises(t) \/ Fails(t)
  PROVE  IInv'
<1> DEFINE f == found[t]
<1>1. /\ f \in Found /\ Ordered(f) /\ found = [found EXCEPT ![t] = f]
      /\ stage = [stage EXCEPT ![t] = stage[t]] /\ faults \in 0..FAULTS
  BY DEF IInv, Types, TypeOK, Controls, Found
<1>2. /\ [f EXCEPT !.error = TRUE] \in Found /\ Ordered([f EXCEPT !.error = TRUE])
      /\ [f EXCEPT !.error = TRUE].error
      /\ [f EXCEPT !.control = TRUE] \in Found /\ Ordered([f EXCEPT !.control = TRUE])
  BY <1>1, MarkError, MarkControl
<1>3. CASE Begin(t)
  <2>1. CASE t \in Untargeted
    BY <1>1, <1>2, <1>3, <2>1, Advance DEF Begin, At, Step
  <2>2. CASE t \notin Untargeted
    BY <1>1, <1>3, <2>2, Advance DEF Begin, At, Step
  <2>3. QED
    BY <2>1, <2>2
<1>4. CASE Control(t)
  <2>1. CASE found' = [found EXCEPT ![t].control = TRUE] /\ UNCHANGED stage
    BY <1>1, <1>2, <1>4, <2>1, Advance DEF Control, At
  <2>2. CASE Step(t, "tail") /\ UNCHANGED found
    <3>1. Whole(f)
      BY <1>1, <1>4 DEF Control, Ordered, Whole
    <3>2. QED
      BY <1>1, <1>4, <2>2, <3>1, Advance DEF Control, At, Step
  <2>3. QED
    BY <1>4, <2>1, <2>2 DEF Control
<1>5. CASE MakeRow(t)
  <2>1. /\ f.control = TRUE /\ f.rows \in Rows /\ Len(f.rows) \in Nat
        /\ Len(f.rows) < Len(Family)
    BY <1>1, <1>5, RowsGrow DEF MakeRow, Found
  <2>2. PICK s \in Shows[Family[Len(f.rows) + 1]] :
          found' = [found EXCEPT ![t].rows = Append(@,
            [op |-> Family[Len(f.rows) + 1], verdict |-> s.verdict, p2p |-> s.p2p])]
    BY <1>5 DEF MakeRow
  <2> DEFINE r == [op |-> Family[Len(f.rows) + 1], verdict |-> s.verdict, p2p |-> s.p2p]
             g == [f EXCEPT !.rows = Append(f.rows, r)]
  <2>3. Append(f.rows, r) \in Rows
    BY <2>1, NextRow, RowsGrow
  <2>4. g \in Found /\ Ordered(g)
    BY <1>1, <2>1, <2>3 DEF Found, Ordered
  <2>5. found' = [found EXCEPT ![t] = g]
    BY <2>2
  <2>6. stage[t] = "checking" /\ stage' = [stage EXCEPT ![t] = "checking"]
        /\ faults' = faults /\ UNCHANGED <<sample, disk, run, agg, reruns>>
    BY <1>1, <1>5 DEF MakeRow, At
  <2> HIDE DEF g
  <2>7. QED
    BY <1>1, <2>4, <2>5, <2>6, Advance
<1>6. CASE Checked(t)
  <2>1. Whole(f)
    BY <1>1, <1>6 DEF Checked, Ordered, Whole
  <2>2. QED
    BY <1>1, <1>6, <2>1, Advance DEF Checked, At, Step
<1>7. CASE Refused(t)
  <2>1. /\ found' = [found EXCEPT ![t] = f]
        /\ stage[t] = "checking" /\ stage' = [stage EXCEPT ![t] = "done"]
        /\ faults' \in 0..FAULTS /\ UNCHANGED <<sample, disk, run, agg, reruns>>
    BY <1>1, <1>7, Sizes DEF Refused, At, Step
  <2>2. QED
    BY <1>1, <2>1, Advance
<1>8. CASE Fails(t)
  <2>1. /\ found' = [found EXCEPT ![t] = [f EXCEPT !.error = TRUE]]
        /\ stage[t] = "checking" /\ stage' = [stage EXCEPT ![t] = "tail"]
        /\ faults' \in 0..FAULTS /\ UNCHANGED <<sample, disk, run, agg, reruns>>
    BY <1>1, <1>8, Sizes DEF Fails, At, Step
  <2>2. QED
    BY <1>2, <2>1, Advance
<1>9. CASE Raises(t)
  <2> DEFINE g == [f EXCEPT !.raised = TRUE]
  <2>1. /\ found' = [found EXCEPT ![t] = g]
        /\ stage[t] = "checking" /\ stage' = [stage EXCEPT ![t] = "tail"]
        /\ faults' \in 0..FAULTS /\ UNCHANGED <<sample, disk, run, agg, reruns>>
    BY <1>1, <1>9, Sizes DEF Raises, At, Step
  <2>2. g \in Found /\ Ordered(g) /\ Whole(g)
    BY <1>1, MarkRaised
  <2> HIDE DEF g
  <2>3. QED
    BY <2>1, <2>2, Advance
<1>10. QED
  BY <1>3, <1>4, <1>5, <1>6, <1>7, <1>8, <1>9

\* The three steps of write_record.
LEMMA WriteStep ==
  ASSUME IInv, NEW t \in Task, Open(t) \/ Dump(t) \/ Replace(t)
  PROVE  IInv'
<1> USE DEF IInv, agg
<1>1. Found \subseteq [control : BOOLEAN, rows : Rows, error : BOOLEAN, raised : BOOLEAN]
  BY DEF Found
<1>2. /\ BuildRecord(found[t]) \in Record
      /\ BuildRecord(found[t]) \notin {None, Torn}
      /\ Ordered(BuildRecord(found[t]))
      /\ BuildRecord(found[t]).completed => ~found[t].error
      /\ Whole(found[t]) => Whole(BuildRecord(found[t]))
  <2>1. found[t] \in Found /\ Ordered(found[t])
    BY DEF Types, Controls
  <2>2. BuildRecord(found[t]) \in Record
    BY <2>1 DEF BuildRecord, Record, Found
  <2>3. QED
    BY <2>1, <2>2, Unreadable DEF BuildRecord, Ordered, Whole, Found
<1> HIDE DEF agg
<1>3. CASE Open(t)
  <2>1. /\ stage[t] = "tail" /\ stage' = [stage EXCEPT ![t] = "open"]
        /\ partial' = [partial EXCEPT ![t] = Torn]
        /\ UNCHANGED <<sample, file, run, found, faults, reruns>>
        /\ UNCHANGED <<reader, unread, loaded>>
        /\ stage' \in [Task -> Stages]
    BY <1>3 DEF Open, At, Step, agg, Types, TypeOK, Stages
  <2>2. Types'
    BY <2>1 DEF Types, TypeOK, Stages
  <2>3. Closing'
    BY <2>1 DEF Closing, Types, TypeOK
  <2>4. Controls' /\ Resumed' /\ Reading'
    BY <2>1 DEF Controls, Resumed, Reading, IsCompleted, Types, TypeOK
  <2>5. QED
    BY <2>2, <2>3, <2>4
<1>4. CASE Dump(t)
  <2>1. /\ stage[t] = "open" /\ stage' = [stage EXCEPT ![t] = "dumped"]
        /\ partial' = [partial EXCEPT ![t] = BuildRecord(found[t])]
        /\ UNCHANGED <<sample, file, run, found, faults, reruns>>
        /\ UNCHANGED <<reader, unread, loaded>>
        /\ stage' \in [Task -> Stages]
    BY <1>4 DEF Dump, At, Step, agg, Types, TypeOK, Stages
  <2>2. Types'
    BY <1>2, <2>1 DEF Types, TypeOK, Stages
  <2>3. Closing'
    BY <2>1 DEF Closing, Types, TypeOK
  <2>4. Controls' /\ Resumed' /\ Reading'
    BY <2>1 DEF Controls, Resumed, Reading, IsCompleted, Types, TypeOK
  <2>5. QED
    BY <2>2, <2>3, <2>4
<1>5. CASE Replace(t)
  <2>1. /\ stage[t] = "dumped" /\ stage' = [stage EXCEPT ![t] = "done"]
        /\ file' = [file EXCEPT ![t] = BuildRecord(found[t])]
        /\ partial' = [partial EXCEPT ![t] = None]
        /\ UNCHANGED <<sample, run, found, faults, reruns>>
        /\ UNCHANGED <<reader, unread, loaded>>
        /\ stage' \in [Task -> Stages]
    BY <1>5 DEF Replace, At, Step, agg, Closing, Types, TypeOK, Stages
  <2>2. Types'
    BY <1>2, <2>1 DEF Types, TypeOK, Stages
  <2>3. /\ file'[t] = BuildRecord(found[t]) /\ \A u \in Task \ {t} : file'[u] = file[u]
        /\ stage'[t] = "done" /\ \A u \in Task \ {t} : stage'[u] = stage[u] /\ partial'[u] = partial[u]
        /\ found[t].error \/ Whole(found[t])
    BY <2>1 DEF Types, TypeOK, Closing
  <2>4. Closing'
    BY <1>2, <2>1, <2>3 DEF Closing
  <2>5. Controls'
    BY <1>2, <2>1, <2>3 DEF Controls
  <2>6. Resumed'
    BY <2>1, <2>3 DEF Resumed, IsCompleted
  <2>7. Reading'
    BY <1>2, <2>1, <2>3 DEF Reading, Types, TypeOK
  <2>8. QED
    BY <2>2, <2>4, <2>5, <2>6, <2>7
<1>6. QED
  BY <1>3, <1>4, <1>5

\* The sample, the invocations and their ends.
LEMMA RunStep ==
  ASSUME IInv, Draw \/ Resume \/ Rerun \/ Return \/ Kill
  PROVE  IInv'
<1> USE DEF IInv
<1>1. Nothing \in Found /\ Ordered(Nothing)
  BY RowsGrow DEF Nothing, Found, Ordered
<1>2. UNCHANGED <<file, partial, reader, unread, loaded>>
  BY DEF Draw, Resume, Rerun, Return, Kill, Invoke, disk, agg
<1>3. sample' = None \/ sample' \in SUBSET Eligible
  BY DEF Draw, Draws, Resume, Rerun, Return, Kill, Invoke, Types, TypeOK
<1>4. faults' \in 0..FAULTS /\ reruns' \in 0..RERUNS
  BY Sizes DEF Draw, Resume, Rerun, Return, Kill, Invoke, Types, TypeOK
<1>5. CASE UNCHANGED <<run, stage, found>>
  <2>1. Types' /\ Controls' /\ Closing'
    BY <1>2, <1>3, <1>4, <1>5 DEF Types, TypeOK, Controls, Closing
  <2>2. Resumed' /\ Reading'
    BY <1>2, <1>5 DEF Resumed, Reading, IsCompleted
  <2>3. QED
    BY <2>1, <2>2
<1>6. ASSUME NEW r \in {"down", "resume", "rerun"}, run' = r,
             stage' \in [Task -> {"waiting", "out"}], found' = [t \in Task |-> Nothing],
             r = "resume" => \A t \in Task : stage'[t] = "waiting" => ~IsCompleted(t)
      PROVE  IInv'
  <2>1. Types'
    BY <1>1, <1>2, <1>3, <1>4, <1>6 DEF Types, TypeOK, Found
  <2>2. Controls' /\ Closing'
    BY <1>1, <1>2, <1>6 DEF Controls, Closing
  <2>3. Resumed' /\ Reading'
    BY <1>2, <1>6 DEF Resumed, Reading, IsCompleted
  <2>4. QED
    BY <2>1, <2>2, <2>3
<1>7. CASE Draw
  BY <1>5, <1>7 DEF Draw, tasks
<1>8. CASE Resume
  <2>1. /\ run' = "resume" /\ found' = [t \in Task |-> Nothing]
        /\ stage' = [t \in Task |-> IF t \in {u \in sample : ~IsComplete(u)}
                                     THEN "waiting" ELSE "out"]
    BY <1>8 DEF Resume, Invoke
  <2>2. \A t \in Task : stage'[t] = "waiting" => ~IsCompleted(t)
    BY <2>1 DEF IsComplete, IsCompleted
  <2>3. QED
    BY <1>6, <2>1, <2>2
<1>9. CASE Rerun
  <2>1. PICK ids : /\ run' = "rerun" /\ found' = [t \in Task |-> Nothing]
                   /\ stage' = [t \in Task |-> IF t \in ids THEN "waiting" ELSE "out"]
    BY <1>9 DEF Rerun, Invoke
  <2>2. QED
    BY <1>6, <2>1
<1>10. CASE Return \/ Kill
  <2>1. /\ run' = "down" /\ found' = [t \in Task |-> Nothing]
        /\ stage' = [t \in Task |-> "out"]
    BY <1>10 DEF Return, Kill
  <2>2. QED
    BY <1>6, <2>1
<1>11. QED
  BY <1>7, <1>8, <1>9, <1>10

\* The process of the aggregate.
LEMMA ReaderStep ==
  ASSUME IInv, List \/ Read \/ Reported
  PROVE  IInv'
<1> USE DEF IInv
<1>1. /\ UNCHANGED <<sample, file, partial, run, stage, found, faults, reruns>>
  BY DEF List, Read, Reported, disk, tasks
<1>2. /\ reader' \in {"idle", "reading", "reported"} /\ unread' \subseteq Task
      /\ reader' = "reading" => unread' # {}
      /\ \A t \in unread' : file[t] # None
      /\ DOMAIN loaded' \subseteq Task
      /\ \A t \in DOMAIN loaded' : loaded'[t] \in Record /\ Ordered(loaded'[t])
  <2>1. CASE List
    BY <2>1 DEF List
  <2>2. CASE Read
    <3>1. Min(unread) \in unread /\ unread \subseteq Task
      BY <2>2, Least, Tasks DEF Read, Reading, Types, TypeOK
    <3>2. file[Min(unread)] \in Record /\ file[Min(unread)] # Torn /\ Ordered(file[Min(unread)])
      BY <3>1, Unreadable DEF Reading, Types, TypeOK, Controls
    <3>3. /\ loaded' = [u \in DOMAIN loaded \cup {Min(unread)} |->
                          IF u = Min(unread) THEN file[Min(unread)] ELSE loaded[u]]
          /\ unread' = unread \ {Min(unread)}
          /\ reader' = IF unread' = {} THEN "reported" ELSE "reading"
      BY <2>2, <3>2 DEF Read
    <3>4. QED
      BY <3>1, <3>2, <3>3 DEF Types, TypeOK, Controls, Reading
  <2>3. CASE Reported
    BY <2>3 DEF Reported, Types, TypeOK, Reading
  <2>4. QED
    BY <2>1, <2>2, <2>3
<1>3. Types'
  BY <1>1, <1>2 DEF Types, TypeOK
<1>4. Controls' /\ Closing' /\ Resumed'
  BY <1>1, <1>2 DEF Controls, Closing, Resumed, IsCompleted
<1>5. Reading'
  BY <1>1, <1>2 DEF Reading
<1>6. QED
  BY <1>3, <1>4, <1>5

LEMMA StepInv == IInv /\ [Next]_vars => IInv'
<1> SUFFICES ASSUME IInv, [Next]_vars PROVE IInv'
  OBVIOUS
<1>1. CASE UNCHANGED vars
  <2>1. /\ UNCHANGED <<sample, file, partial, run, stage, found>>
        /\ UNCHANGED <<reader, unread, loaded, faults, reruns>>
    BY <1>1 DEF vars, disk, tasks, agg
  <2>2. QED
    BY <2>1 DEF IInv, Types, TypeOK, Controls, Closing, Resumed, Reading, IsCompleted
<1>2. CASE Next
  BY <1>2, CheckStep, WriteStep, RunStep, ReaderStep DEF Next, Coroutine
<1>3. QED
  BY <1>1, <1>2

LEMMA Invariance == Spec => []IInv
<1>1. QED
  BY InitInv, StepInv, PTL DEF Spec

\* A record that says it is complete holds a whole check, for any family,
\* faults and reruns.
THEOREM CompleteRecords == Spec => []CompleteIsWhole
<1>1. IInv => CompleteIsWhole
  BY DEF IInv, Types, Closing, CompleteIsWhole
<1>2. QED
  BY <1>1, Invariance, PTL

\* An invocation with --resume never takes away a complete record, whatever
\* fails in it and wherever it is killed.
THEOREM ResumeSafety == Spec => ResumeKeepsComplete
<1>1. ASSUME IInv, [Next]_vars
      PROVE  run = "resume" => \A t \in Task : IsCompleted(t) => file'[t] = file[t]
  <2> SUFFICES ASSUME run = "resume", NEW t \in Task, IsCompleted(t)
               PROVE  file'[t] = file[t]
    OBVIOUS
  <2>1. ASSUME NEW u \in Task, Replace(u)
        PROVE  file'[t] = file[t]
    <3>1. u # t /\ file' = [file EXCEPT ![u] = partial[u]]
      BY <1>1, <2>1 DEF Replace, At, IInv, Resumed
    <3>2. QED
      BY <1>1, <3>1 DEF IInv, Types
  <2>2. ASSUME NEW u \in Task, Coroutine(u), ~Replace(u)
        PROVE  file' = file
    BY <2>2 DEF Coroutine, Begin, Control, MakeRow, Checked, Open, Dump, Refused, Raises, Fails, disk
  <2>3. CASE Draw \/ Resume \/ Rerun \/ Return \/ Kill \/ List \/ Read \/ Reported
    BY <2>3 DEF Draw, Resume, Rerun, Return, Kill, Invoke, List, Read, Reported, disk
  <2>4. CASE UNCHANGED vars
    BY <2>4 DEF vars, disk
  <2>5. QED
    BY <1>1, <2>1, <2>2, <2>3, <2>4 DEF Next, Coroutine
<1>2. QED
  BY <1>1, Invariance, PTL DEF Spec, ResumeKeepsComplete

-----------------------------------------------------------------------------
\* The records directory as a store of registers.

\* A reader that is not reading has opened every name it listed.
ReadUp == reader # "reading" => unread = {}

LEMMA ReadUpStep == IInv /\ ReadUp /\ [Next]_vars => ReadUp'
<1> SUFFICES ASSUME IInv, ReadUp, [Next]_vars PROVE ReadUp'
  OBVIOUS
<1>1. CASE List \/ Reported
  BY <1>1 DEF List, Reported, ReadUp
<1>2. CASE Read
  <2>1. Min(unread) \in unread
    BY <1>2, Least, Tasks DEF Read, IInv, Reading, Types, TypeOK
  <2>2. file[Min(unread)] # Torn
    BY <2>1, Unreadable DEF IInv, Reading, Types, TypeOK
  <2>3. QED
    BY <1>2, <2>2 DEF Read, ReadUp
<1>3. CASE UNCHANGED <<reader, unread>>
  BY <1>3 DEF ReadUp
<1>4. ASSUME NEW t \in Task, Coroutine(t)  PROVE UNCHANGED <<reader, unread>>
  BY <1>4 DEF Coroutine, Begin, Control, MakeRow, Checked, Open, Dump, Replace, Refused, Raises, Fails, agg
<1>5. CASE Draw \/ Resume \/ Rerun \/ Return \/ Kill \/ UNCHANGED vars
  <2>1. UNCHANGED <<reader, unread>>
    BY <1>5 DEF Draw, Resume, Rerun, Return, Kill, Invoke, agg, vars
  <2>2. QED
    BY <1>3, <2>1
<1>6. QED
  BY <1>1, <1>2, <1>3, <1>4, <1>5 DEF Next

\* A coroutine writes its own record, once, or gives its task up.
LEMMA StoreCoroutine ==
  ASSUME IInv, NEW t \in Task, Coroutine(t)
  PROVE  [Store!Next]_(Store!vars)
<1>1. run # "down" /\ t \in Due /\ UNCHANGED <<run, reader, unread, loaded>>
  BY DEF Coroutine, Begin, Control, MakeRow, Checked, Open, Dump, Replace, Refused, Raises, Fails, At, agg, Due
<1>2. stage \in [Task -> Stages]
  BY DEF IInv, Types, TypeOK, Stages
<1>3. CASE Replace(t)
  <2>1. /\ file' = [file EXCEPT ![t] = BuildRecord(found[t])]
        /\ stage' = [stage EXCEPT ![t] = "done"]
    BY <1>3 DEF Replace, At, Step, IInv, Closing
  <2>2. Due' = Due \ {t}
    BY <1>2, <2>1 DEF Due
  <2>3. file \in [Task -> Record \cup {None}]
    BY DEF IInv, Types
  <2>4. file'[t] = BuildRecord(found[t]) /\ file' = [file EXCEPT ![t] = file'[t]]
    BY <2>1, <2>3
  <2>5. BuildRecord(found[t]) \in Honest
    <3>1. found[t] \in Found /\ (found[t].error \/ Whole(found[t]))
      BY <1>3 DEF IInv, Types, Closing, Replace, At
    <3>2. QED
      BY <3>1 DEF Honest, BuildRecord, Record, Found, Whole
  <2>6. Store!Publish(t)
    BY <1>1, <2>2, <2>4, <2>5 DEF Store!Publish
  <2>7. QED
    BY <2>6 DEF Store!Next
<1>4. CASE Refused(t)
  <2>1. file' = file /\ stage' = [stage EXCEPT ![t] = "done"]
    BY <1>4 DEF Refused, Step, disk
  <2>2. Due' = Due \ {t}
    BY <1>2, <2>1 DEF Due
  <2>3. Store!Forgo(t)
    BY <1>1, <2>1, <2>2 DEF Store!Forgo
  <2>4. QED
    BY <2>3 DEF Store!Next
<1>5. CASE Coroutine(t) /\ ~Replace(t) /\ ~Refused(t)
  <2>1. file' = file
    BY <1>5 DEF Coroutine, Begin, Control, MakeRow, Checked, Open, Dump, Raises, Fails, disk
  <2>2. \/ stage' = stage
        \/ \E s \in {"checking", "tail", "open", "dumped"} : stage' = [stage EXCEPT ![t] = s]
    BY <1>5 DEF Coroutine, Begin, Control, MakeRow, Checked, Open, Dump, Raises, Fails, Step
  <2>3. Due' = Due
    BY <1>1, <1>2, <2>2 DEF Due
  <2>4. QED
    BY <1>1, <2>1, <2>3 DEF Store!vars
<1>6. QED
  BY <1>3, <1>4, <1>5

\* Everything else opens or closes an invocation, or reads.
LEMMA StoreStep ==
  ASSUME IInv, ReadUp, Next
  PROVE  [Store!Next]_(Store!vars)
<1> DEFINE Nobody == [t \in Task |-> "out"]
<1>1. CASE Draw
  BY <1>1 DEF Draw, disk, tasks, agg, Due, Store!vars
<1>2. CASE Resume \/ Rerun
  <2> DEFINE Given(how, ids) == /\ Invoke(ids, how)
                                /\ how = "resume" => ids = {t \in sample : ~IsComplete(t)}
  <2>0. \E how \in {"resume", "rerun"} : \E ids : Given(how, ids)
    BY <1>2 DEF Resume, Rerun
  <2>a. PICK how \in {"resume", "rerun"} : \E ids : Given(how, ids)
    BY <2>0
  <2>1. PICK ids : Given(how, ids)
    BY <2>a
  <2>2. Due' = Task \cap ids
    BY <2>1 DEF Invoke, Due
  <2>3. how = "resume" => \A t \in Due' : file[t] \notin {rec \in Record : rec.completed}
    BY <2>1, <2>2, Unreadable DEF IsComplete
  <2>4. Store!Invoke(how)
    BY <2>1, <2>2, <2>3 DEF Store!Invoke, Invoke, disk, agg
  <2>5. QED
    BY <2>4 DEF Store!Next
<1>3. CASE Return \/ Kill
  <2>1. Due' = {} /\ run # "down" /\ run' = "down" /\ UNCHANGED <<file, unread, loaded>>
    BY <1>3 DEF Return, Kill, Due, disk, agg
  <2>2. QED
    BY <2>1 DEF Store!Next, Store!Close
<1>4. CASE List
  <2>1. Due' = Due
    BY <1>4 DEF List, tasks, Due
  <2>2. Store!List
    BY <1>4, <2>1 DEF List, Store!List, ReadUp, disk
  <2>3. QED
    BY <2>2 DEF Store!Next
<1>5. CASE Read
  <2>1. Min(unread) \in unread /\ unread \subseteq Task
    BY <1>5, Least, Tasks DEF Read, IInv, Reading, Types, TypeOK
  <2>2. file[Min(unread)] # Torn
    BY <2>1, Unreadable DEF IInv, Reading, Types, TypeOK
  <2>3. Due' = Due
    BY <1>5 DEF Read, tasks, Due
  <2>4. Store!Read(Min(unread))
    BY <1>5, <2>1, <2>2, <2>3 DEF Read, Store!Read, disk
  <2>5. QED
    BY <2>1, <2>4 DEF Store!Next
<1>6. CASE Reported
  <2>1. Due' = Due
    BY <1>6 DEF Reported, tasks, Due
  <2>2. Store!Forget
    BY <1>6, <2>1 DEF Reported, Store!Forget, ReadUp, disk
  <2>3. QED
    BY <2>2 DEF Store!Next
<1>7. QED
  BY <1>1, <1>2, <1>3, <1>4, <1>5, <1>6, StoreCoroutine DEF Next

\* The directory is the store: whatever the coroutines, kills and readers do, a
\* record is written at once, whole, by the coroutine that was given its task, at
\* most once in an invocation, and never a complete one by a resume.
THEOREM StoreRefinement == Spec => ImplementsStore
<1>1. Init => Store!Init /\ ReadUp
  BY DEF Init, Store!Init, Due, ReadUp
<1>2. IInv /\ ReadUp /\ [Next]_vars => [Store!Next]_(Store!vars)
  <2>1. ASSUME UNCHANGED vars  PROVE UNCHANGED Store!vars
    BY <2>1 DEF vars, disk, tasks, agg, Store!vars, Due
  <2>2. QED
    BY <2>1, StoreStep
<1>3. QED
  BY <1>1, <1>2, ReadUpStep, Invariance, PTL DEF Spec, ImplementsStore, Store!Spec

-----------------------------------------------------------------------------
\* What a resume that comes to its end leaves, and that it comes to its end.

\* Of the tasks of the sample, one that --resume passed over is complete, and one that
\* it is through with is, unless its check was cut short or refused: a check that raised
\* in the middle counts as done.
Settled(t) == IsCompleted(t) \/ found[t].error \/ ~found[t].control
Accounted ==
  /\ run # "down" => sample # None
  /\ run = "resume" => \A t \in sample : /\ stage[t] = "out" => IsCompleted(t)
                                         /\ stage[t] = "done" => Settled(t)

LEMMA AccountedStep == IInv /\ Accounted /\ [Next]_vars => Accounted'
<1> SUFFICES ASSUME IInv, Accounted, [Next]_vars PROVE Accounted'
  OBVIOUS
<1>0. /\ stage \in [Task -> Stages] /\ file \in [Task -> Record \cup {None}]
      /\ found \in [Task -> Found]
      /\ sample # None => sample \in SUBSET Task
  BY DEF IInv, Types, TypeOK, Stages, Task
\* A coroutine changes its own task only.
<1>1. ASSUME NEW t \in Task, Coroutine(t)  PROVE Accounted'
  <2>1. /\ UNCHANGED <<sample, run>> /\ run # "down"
        /\ \A u \in Task : u # t => /\ stage'[u] = stage[u] /\ found'[u] = found[u]
                                    /\ file'[u] = file[u]
    BY <1>0, <1>1 DEF Coroutine, Begin, Control, MakeRow, Checked, Open, Dump, Replace, Refused,
                      Raises, Fails, At, Step, disk
  <2>2. stage'[t] # "out" /\ (stage'[t] = "done" => Replace(t) \/ Refused(t))
    BY <1>0, <1>1 DEF Coroutine, Begin, Control, MakeRow, Checked, Open, Dump, Replace, Refused,
                      Raises, Fails, At, Step
  <2>3. ASSUME Refused(t)  PROVE ~found'[t].control
    BY <2>3 DEF Refused
  <2>4. ASSUME Replace(t)  PROVE IsCompleted(t)' \/ found'[t].error
    <3>1. file'[t] = BuildRecord(found[t]) /\ found' = found
      BY <1>0, <2>4 DEF Replace, At, IInv, Closing
    <3>2. found[t] \in Found
      BY <1>0
    <3>3. BuildRecord(found[t]) \in Record /\ BuildRecord(found[t]).completed = ~found[t].error
      BY <3>2 DEF BuildRecord, Record, Found
    <3>4. QED
      BY <3>1, <3>2, <3>3, Unreadable DEF IsCompleted, Found
  <2>5. ASSUME NEW u \in Task, u # t
        PROVE  (IsCompleted(u)' <=> IsCompleted(u)) /\ (Settled(u)' <=> Settled(u))
    BY <2>1, <2>5 DEF IsCompleted, Settled
  <2>6. stage'[t] = "done" => Settled(t)'
    BY <2>2, <2>3, <2>4 DEF Settled
  <2>7. QED
    BY <1>0, <2>1, <2>2, <2>5, <2>6 DEF Accounted
<1>2. CASE Resume
  <2>1. /\ sample # None /\ UNCHANGED <<sample, file>> /\ run' = "resume"
        /\ stage' = [t \in Task |-> IF t \in {u \in sample : ~IsComplete(u)} THEN "waiting" ELSE "out"]
    BY <1>2 DEF Resume, Invoke, disk
  <2>2. \A t \in sample : stage'[t] = "out" => IsCompleted(t)
    BY <1>0, <2>1 DEF IsComplete, IsCompleted
  <2>3. \A t \in sample : stage'[t] # "done"
    BY <1>0, <2>1
  <2>4. QED
    BY <2>1, <2>2, <2>3 DEF Accounted, IsCompleted
<1>3. CASE Rerun
  BY <1>3 DEF Rerun, Invoke, Accounted
<1>4. CASE Return \/ Kill
  BY <1>4 DEF Return, Kill, Accounted
<1>5. CASE Draw
  BY <1>5 DEF Draw, Accounted
<1>6. CASE UNCHANGED <<sample, run, stage, found, file>>
  BY <1>6 DEF Accounted, Settled, IsCompleted
<1>7. CASE List \/ Read \/ Reported \/ UNCHANGED vars
  <2>1. UNCHANGED <<sample, run, stage, found, file>>
    BY <1>7 DEF List, Read, Reported, vars, disk, tasks
  <2>2. QED
    BY <1>6, <2>1
<1>8. QED
  BY <1>1, <1>2, <1>3, <1>4, <1>5, <1>7 DEF Next

\* One resume is enough for all that goes well in it: when it returns, every task of the
\* sample has its complete record, except those whose check timed out, lost its lease or
\* was refused in this very invocation (--resume, is_complete, run_one).
THEOREM ResumeSettles ==
  Spec => [][run = "resume" /\ Return => \A t \in sample : Settled(t)]_vars
<1>1. Init => Accounted
  BY DEF Init, Accounted
<1>2. ASSUME IInv, Accounted, run = "resume", Return  PROVE \A t \in sample : Settled(t)
  <2>1. sample \in SUBSET Task /\ \A t \in Task : stage[t] \in {"out", "done"}
    BY <1>2 DEF IInv, Types, TypeOK, Accounted, Return, Task
  <2>2. QED
    BY <1>2, <2>1 DEF Accounted, Settled
<1>3. IInv /\ Accounted => [run = "resume" /\ Return => \A t \in sample : Settled(t)]_vars
  BY <1>2
<1>4. QED
  BY <1>1, <1>3, AccountedStep, Invariance, PTL DEF Spec

-----------------------------------------------------------------------------
\* How many steps the coroutine of a task has at most before it, with so many rows
\* still to make.
Distance(s, controlled, rest) ==
  IF s = "waiting" THEN rest + 6 ELSE
  IF s = "checking" THEN (IF controlled THEN rest + 4 ELSE rest + 5) ELSE
  IF s = "tail" THEN 3 ELSE IF s = "open" THEN 2 ELSE IF s = "dumped" THEN 1 ELSE 0
RowsLeft(t) == Len(Family) - Len(found[t].rows)
Steps(t) == Distance(stage[t], found[t].control, RowsLeft(t))
Ahead == {x \in Task \X (1..(Len(Family) + 6)) : x[2] <= Steps(x[1])}
Left  == Cardinality(Ahead)

LEMMA TaskFinite == IsFiniteSet(Task) /\ Cardinality(Task) \in Nat
BY Tasks, FS_CardinalityType

LEMMA AheadFinite ==
  /\ IsFiniteSet(Ahead) /\ IsFiniteSet(Ahead')
  /\ Cardinality(Ahead) \in 0..((Len(Family) + 6) * Cardinality(Task)) /\ Cardinality(Ahead') \in Nat
<1> DEFINE n   == Len(Family) + 6
           All == Task \X (1..n)
<1>1. n \in Nat
  BY RowsGrow
<1>2. Ahead \subseteq All /\ Ahead' \subseteq All
  BY DEF Ahead
<1> HIDE DEF n
<1>3. IsFiniteSet(1..n) /\ Cardinality(1..n) = n
  BY <1>1, FS_Interval
<1>4. IsFiniteSet(All) /\ Cardinality(All) = n * Cardinality(Task)
  <2>1. IsFiniteSet(All) /\ Cardinality(All) = Cardinality(Task) * Cardinality(1..n)
    BY <1>3, TaskFinite, FS_Product
  <2> HIDE DEF All
  <2>2. QED
    BY <1>1, <1>3, <2>1, TaskFinite
<1> HIDE DEF All
<1>5. QED
  BY <1>2, <1>4, FS_Subset, FS_CardinalityType DEF n

LEMMA LongerByOne ==
  ASSUME NEW rs \in Seq(Row), NEW r, Append(rs, r) \in Rows
  PROVE  Len(Append(rs, r)) = Len(rs) + 1
OBVIOUS

LEMMA DistanceType ==
  ASSUME NEW s \in Stages, NEW c \in BOOLEAN, NEW rest \in 0..Len(Family)
  PROVE  Distance(s, c, rest) \in 0..(Len(Family) + 6)
<1>1. Len(Family) \in Nat
  BY RowsGrow
<1>2. CASE s = "waiting" \/ s = "checking"
  BY <1>1, <1>2 DEF Distance
<1>3. CASE s # "waiting" /\ s # "checking"
  BY <1>1, <1>3 DEF Distance, Stages
<1>4. QED
  BY <1>2, <1>3

LEMMA StepsType ==
  ASSUME Types, NEW t \in Task
  PROVE  /\ stage[t] \in Stages /\ found[t].control \in BOOLEAN
         /\ RowsLeft(t) \in 0..Len(Family)
         /\ Steps(t) \in 0..(Len(Family) + 6)
<1>1. found[t].rows \in Rows /\ stage[t] \in Stages /\ found[t].control \in BOOLEAN
  BY DEF Types, TypeOK, Found, Stages
<1>2. Len(Family) \in Nat /\ Len(found[t].rows) \in 0..Len(Family)
  BY <1>1, RowsGrow
<1>3. RowsLeft(t) \in 0..Len(Family)
  BY <1>2 DEF RowsLeft
<1>4. QED
  BY <1>1, <1>3, DistanceType DEF Steps

LEMMA StepsTypeNext ==
  ASSUME Types', NEW t \in Task
  PROVE  Steps(t)' \in 0..(Len(Family) + 6) /\ RowsLeft(t)' \in 0..Len(Family)
<1>1. found'[t].rows \in Rows /\ stage'[t] \in Stages /\ found'[t].control \in BOOLEAN
  BY DEF Types, TypeOK, Found, Stages
<1>2. Len(Family) \in Nat /\ Len(found'[t].rows) \in 0..Len(Family)
  BY <1>1, RowsGrow
<1>3. RowsLeft(t)' \in 0..Len(Family)
  BY <1>2 DEF RowsLeft
<1>4. QED
  BY <1>1, <1>3, DistanceType DEF Steps

\* The coroutine whose turn it is gets nearer to its end, the others stay where they are.
LEMMA CoroutineLowers ==
  ASSUME IInv, IInv', NEW t \in Task, Coroutine(t)
  PROVE  Left' < Left
<1>0. /\ stage \in [Task -> Stages] /\ found \in [Task -> Found] /\ Len(Family) \in Nat
      /\ found[t].rows \in Rows /\ Len(found[t].rows) \in 0..Len(Family)
      /\ found[t].rows \in Seq(Row)
  BY RowsGrow DEF IInv, Types, TypeOK, Stages, Found
<1>1. \A u \in Task : u # t => Steps(u)' = Steps(u)
  <2>1. \A u \in Task : u # t => stage'[u] = stage[u] /\ found'[u] = found[u]
    BY <1>0 DEF Coroutine, Begin, Control, MakeRow, Checked, Open, Dump, Replace, Refused, Raises, Fails, Step
  <2>2. QED
    BY <2>1 DEF Steps, RowsLeft
<1>2. Steps(t)' < Steps(t)
  <2>0. /\ RowsLeft(t) \in Nat /\ RowsLeft(t)' \in Nat
        /\ Steps(t) = Distance(stage[t], found[t].control, RowsLeft(t))
        /\ Steps(t)' = Distance(stage'[t], found'[t].control, RowsLeft(t)')
    BY <1>0, StepsType, StepsTypeNext DEF Steps, IInv
  <2>1. CASE Open(t) \/ Dump(t) \/ Replace(t)
    <3>1. \/ stage[t] = "tail" /\ stage'[t] = "open"
          \/ stage[t] = "open" /\ stage'[t] = "dumped"
          \/ stage[t] = "dumped" /\ stage'[t] = "done"
      BY <1>0, <2>1 DEF Open, Dump, Replace, At, Step
    <3>2. QED
      BY <2>0, <3>1 DEF Distance
  <2>2. CASE stage[t] \in {"waiting", "checking"} /\ stage'[t] \in {"tail", "done"}
    <3>1. Steps(t) >= 4 /\ Steps(t)' <= 3 /\ Steps(t) \in Nat /\ Steps(t)' \in Nat
      BY <2>0, <2>2 DEF Distance
    <3>2. QED
      BY <3>1
  <2>3. CASE stage[t] = "waiting" /\ stage'[t] = "checking" /\ found' = found
    <3>1. RowsLeft(t)' = RowsLeft(t)
      BY <2>3 DEF RowsLeft
    <3>2. QED
      BY <2>0, <2>3, <3>1 DEF Distance
  <2>4. CASE /\ stage[t] = "checking" /\ ~found[t].control /\ stage' = stage
             /\ found' = [found EXCEPT ![t].control = TRUE]
    <3>1. found'[t] = [found[t] EXCEPT !.control = TRUE] /\ found[t] \in Found
      BY <1>0, <2>4
    <3>2. found'[t].control /\ found'[t].rows = found[t].rows
      BY <3>1 DEF Found
    <3>3. RowsLeft(t)' = RowsLeft(t)
      BY <3>2 DEF RowsLeft
    <3>4. QED
      BY <2>0, <2>4, <3>2, <3>3 DEF Distance
  <2>5. CASE MakeRow(t)
    <3>1. stage[t] = "checking" /\ found[t].control /\ stage' = stage
      BY <2>5 DEF MakeRow, At
    <3>2. PICK r : found' = [found EXCEPT ![t].rows = Append(@, r)]
      BY <2>5 DEF MakeRow
    <3>3. found'[t] = [found[t] EXCEPT !.rows = Append(found[t].rows, r)] /\ found[t] \in Found
      BY <1>0, <3>2
    <3>4. found'[t].control = found[t].control /\ found'[t].rows = Append(found[t].rows, r)
      BY <3>3 DEF Found
    <3>5. found'[t].rows \in Rows
      BY DEF IInv, Types, Found
    <3>6. Len(found'[t].rows) = Len(found[t].rows) + 1
      BY <1>0, <3>4, <3>5, LongerByOne
    <3>7. RowsLeft(t)' < RowsLeft(t)
      BY <1>0, <3>6 DEF RowsLeft
    <3>8. QED
      BY <2>0, <3>1, <3>4, <3>7 DEF Distance
  <2>6. CASE Begin(t)
    BY <1>0, <2>2, <2>3, <2>6 DEF Begin, At, Step
  <2>7. CASE Control(t)
    BY <1>0, <2>2, <2>4, <2>7 DEF Control, At, Step
  <2>8. CASE Refused(t) \/ Raises(t) \/ Fails(t) \/ Checked(t)
    BY <1>0, <2>2, <2>8 DEF Refused, Raises, Fails, Checked, At, Step
  <2>9. QED
    BY <2>1, <2>5, <2>6, <2>7, <2>8 DEF Coroutine
<1>3. \A u \in Task : /\ Steps(u) \in 0..(Len(Family) + 6)
                      /\ Steps(u)' \in 0..(Len(Family) + 6)
  BY StepsType, StepsTypeNext DEF IInv
<1>4. Ahead' \subseteq Ahead
  <2>1. \A u \in Task : Steps(u)' <= Steps(u)
    BY <1>1, <1>2, <1>3
  <2>2. Ahead' = {x \in Task \X (1..(Len(Family) + 6)) : x[2] <= Steps(x[1])'}
    BY DEF Ahead
  <2>3. QED
    BY <1>0, <1>3, <2>1, <2>2 DEF Ahead
<1>5. Ahead' # Ahead
  <2>1. <<t, Steps(t)>> \in Ahead
    BY <1>2, <1>3 DEF Ahead
  <2>2. <<t, Steps(t)>> \notin Ahead'
    BY <1>2, <1>3 DEF Ahead
  <2>3. QED
    BY <2>1, <2>2
<1>6. QED
  BY <1>4, <1>5, AheadFinite, FS_Subset DEF Left

\* The guards of the coroutines, and of the end of gather.
CanMove ==
  \/ \A t \in Task : stage[t] \in {"out", "done"}
  \/ \E t \in Task :
       \/ stage[t] = "waiting" /\ Cardinality(InSemaphore) < Workers
       \/ stage[t] = "checking" /\
            \/ ~found[t].control
            \/ Len(found[t].rows) = Len(Family)
            \/ /\ Len(found[t].rows) < Len(Family)
               /\ Shows[Family[Len(found[t].rows) + 1]] # {}
       \/ stage[t] = "tail" /\ NoneWriting
       \/ stage[t] \in {"open", "dumped"}

LEMMA SomethingMoves ==
  ASSUME IInv, \A op \in Range(Family) : Shows[op] # {}
  PROVE  CanMove
<1> SUFFICES ASSUME ~CanMove PROVE FALSE
  OBVIOUS
<1>0. stage \in [Task -> Stages]
  BY DEF IInv, Types, TypeOK, Stages
<1>1. \A t \in Task : stage[t] \notin {"open", "dumped", "tail"}
  BY DEF CanMove, NoneWriting
<1>2. \A t \in Task : stage[t] # "checking"
  <2> SUFFICES ASSUME NEW t \in Task, stage[t] = "checking" PROVE FALSE
    OBVIOUS
  <2>1. Len(Family) \in Nat /\ Len(found[t].rows) \in 0..Len(Family)
    BY RowsGrow DEF IInv, Types, Found
  <2>2. Len(found[t].rows) < Len(Family)
    BY <2>1 DEF CanMove
  <2>3. Len(found[t].rows) + 1 \in 1..Len(Family)
    BY <2>1, <2>2
  <2>4. Family[Len(found[t].rows) + 1] \in Range(Family)
    BY <2>3, Operators DEF Range
  <2>5. QED
    BY <2>2, <2>4 DEF CanMove
<1>3. InSemaphore = {} /\ Cardinality(InSemaphore) = 0
  BY <1>1, <1>2, FS_EmptySet DEF InSemaphore
<1>4. \A t \in Task : stage[t] # "waiting"
  BY <1>3, Sizes DEF CanMove
<1>5. QED
  BY <1>0, <1>1, <1>2, <1>4 DEF CanMove, Stages

\* An invocation comes to its end by itself: each step of a coroutine (guarded, run_one,
\* write_record) lowers a number that the tasks and the family bound, and as long as gather
\* has not returned the guard of such a step, or of its return, holds.
THEOREM InvocationEnds ==
  ASSUME \A op \in Range(Family) : Shows[op] # {}
  PROVE  Spec => /\ [](Left \in 0..((Len(Family) + 6) * Cardinality(Task)))
                 /\ [][(\E t \in Task : Coroutine(t)) => Left' < Left]_vars
                 /\ [](run # "down" => CanMove)
<1>1. IInv => Left \in 0..((Len(Family) + 6) * Cardinality(Task))
  BY AheadFinite DEF Left
<1>2. IInv /\ IInv' => [(\E t \in Task : Coroutine(t)) => Left' < Left]_vars
  BY CoroutineLowers
<1>3. IInv => (run # "down" => CanMove)
  BY SomethingMoves
<1>4. QED
  BY <1>1, <1>2, <1>3, Invariance, PTL

-----------------------------------------------------------------------------
\* The report over whatever the aggregate has read.

\* Records that it may hold.
Readable(R) ==
  /\ DOMAIN R \subseteq Task
  /\ \A t \in DOMAIN R : R[t] \in Record /\ Ordered(R[t])

OpAt(R, x)      == R[x[1]].rows[x[2]].op
VerdictAt(R, x) == R[x[1]].rows[x[2]].verdict
Verdicts        == {r.verdict : r \in Row}

\* The tasks and the rows of a report are finite sets.
LEMMA FiniteReport ==
  ASSUME NEW R, Readable(R)
  PROVE  /\ \A S \in SUBSET (DOMAIN R) : IsFiniteSet(S) /\ Cardinality(S) \in Nat
         /\ \A S \in SUBSET (DOMAIN R) : \A X \in SUBSET RowsOf(R, S) : IsFiniteSet(X)
<1>1. IsFiniteSet(DOMAIN R)
  BY Tasks, FS_Subset DEF Readable
<1>2. ASSUME NEW S \in SUBSET (DOMAIN R)  PROVE IsFiniteSet(S) /\ Cardinality(S) \in Nat
  BY <1>1, FS_Subset, FS_CardinalityType
<1>3. ASSUME NEW S \in SUBSET (DOMAIN R), NEW X \in SUBSET RowsOf(R, S)  PROVE IsFiniteSet(X)
  <2>1. ASSUME NEW t \in S, NEW i \in DOMAIN R[t].rows  PROVE i \in 1..Len(Family)
    <3>1. R[t].rows \in Rows
      BY DEF Readable, Record
    <3>2. /\ R[t].rows \in Seq(Row) /\ Len(R[t].rows) \in 0..Len(Family)
          /\ Len(Family) \in Nat
      BY <3>1, RowsGrow
    <3>3. QED
      BY <3>2
  <2>2. X \in SUBSET (S \X (1..Len(Family)))
    BY <2>1 DEF RowsOf
  <2>3. IsFiniteSet(S \X (1..Len(Family)))
    <3>1. IsFiniteSet(1..Len(Family))
      BY RowsGrow, FS_Interval
    <3>2. QED
      BY <1>2, <3>1, FS_Product
  <2>4. QED
    BY <2>2, <2>3, FS_Subset
<1>4. QED
  BY <1>2, <1>3

\* A row of a report is a row of the family, and its task has a control.
LEMMA RowOfReport ==
  ASSUME NEW R, Readable(R), NEW S \in SUBSET (DOMAIN R), NEW x \in RowsOf(R, S)
  PROVE  /\ x[1] \in S /\ R[x[1]].control
         /\ R[x[1]].rows[x[2]] \in Row
         /\ OpAt(R, x) \in Range(Family) /\ VerdictAt(R, x) \in Verdicts
<1>1. PICK t \in S : \E i \in DOMAIN R[t].rows : x = <<t, i>>
  BY DEF RowsOf
<1>2. PICK i \in DOMAIN R[t].rows : x = <<t, i>>
  BY <1>1
<1>3. R[t].rows \in Rows /\ R[t].rows \in Seq(Row) /\ R[t].control \in BOOLEAN
  BY RowsGrow DEF Readable, Record
<1>4. R[t].rows[i] \in Row
  BY <1>3
<1>5. R[t].rows # <<>>
  BY <1>3
<1>6. R[t].control
  BY <1>5 DEF Readable, Ordered
<1>7. \A r \in Row : r.op \in Range(Family) /\ r.verdict \in Verdicts
  BY DEF Row, Verdicts
<1>8. x[1] = t /\ x[2] = i
  BY <1>2
<1>9. QED
  BY <1>4, <1>6, <1>7, <1>8 DEF OpAt, VerdictAt

\* The strata cut the rates in two.
LEMMA StrataAdd ==
  ASSUME NEW R, Readable(R), NEW op
  PROVE  LET single == WitnessRate(Only(R, Task \ Multi), op)
             multi  == WitnessRate(Only(R, Multi), op)
         IN /\ WitnessRate(R, op).judged  = single.judged + multi.judged
            /\ WitnessRate(R, op).witness = single.witness + multi.witness
<1> DEFINE A == Only(R, Task \ Multi)
           B == Only(R, Multi)
<1>1. /\ DOMAIN A = DOMAIN R \ Multi /\ DOMAIN B = DOMAIN R \cap Multi
      /\ \A t \in DOMAIN A : A[t] = R[t]
      /\ \A t \in DOMAIN B : B[t] = R[t]
  BY DEF Only, Readable
<1> HIDE DEF A, B
<1>2. /\ Judged(R, op) \in SUBSET (DOMAIN R) /\ Witnessing(R, op) \in SUBSET (DOMAIN R)
      /\ Judged(A, op) = Judged(R, op) \ Multi /\ Judged(B, op) = Judged(R, op) \cap Multi
  BY <1>1 DEF Judged, Controlled, Witnessing
<1>3. /\ Witnessing(A, op) = Witnessing(R, op) \ Multi
      /\ Witnessing(B, op) = Witnessing(R, op) \cap Multi
  BY <1>1, <1>2 DEF Witnessing
<1>4. ASSUME NEW S \in SUBSET (DOMAIN R)
      PROVE  Cardinality(S) = Cardinality(S \ Multi) + Cardinality(S \cap Multi)
  <2>1. /\ IsFiniteSet(S \ Multi) /\ IsFiniteSet(S \cap Multi)
    BY FiniteReport
  <2>2. (S \ Multi) \cap (S \cap Multi) = {} /\ (S \ Multi) \cup (S \cap Multi) = S
    OBVIOUS
  <2>3. QED
    BY <2>1, <2>2, DisjointCount
<1>5. QED
  BY <1>2, <1>3, <1>4 DEF WitnessRate, A, B

\* A task judged by an operator is one where the operator found its anchor.
LEMMA JudgedIsAnchored ==
  ASSUME NEW R, Readable(R), NEW op
  PROVE  WitnessRate(R, op).judged <= AnchorAvailability(R, op).anchor
<1> DEFINE S == {t \in Controlled(R) :
                   \E i \in Lines(R[t], op) : R[t].rows[i].verdict # "NOT_APPLICABLE"}
<1>1. Judged(R, op) \in SUBSET S /\ S \in SUBSET (DOMAIN R)
  BY DEF Judged, Says, JUDGED, Controlled
<1>2. Cardinality(Judged(R, op)) <= Cardinality(S)
  BY <1>1, FiniteReport, FS_Subset
<1>3. QED
  BY <1>2 DEF WitnessRate, AnchorAvailability

\* The counts by operator and verdict sum to the rows with such a verdict.
LEMMA TotalCounts ==
  ASSUME NEW R, Readable(R), NEW V, IsFiniteSet(V)
  PROVE  Total(Report(R), V) = CountRows(R, Controlled(R), Range(Family), V)
<1> DEFINE X    == RowsOf(R, Controlled(R))
           Op   == [x \in X |-> OpAt(R, x)]
           Ver  == [x \in X |-> VerdictAt(R, x)]
           K    == Verdicts \cap V
           Of(o) == {x \in X : Op[x] = o}
           XV   == {x \in X : Ver[x] \in V}
<1>1. /\ Controlled(R) \in SUBSET (DOMAIN R)
      /\ \A x \in X : Op[x] \in Range(Family) /\ Ver[x] \in Verdicts
  BY RowOfReport DEF Controlled
<1>2. \A Y \in SUBSET X : IsFiniteSet(Y)
  BY <1>1, FiniteReport
<1>3. IsFiniteSet(K) /\ IsFiniteSet(Range(Family))
  <2>1. IsFiniteSet(1..Len(Family)) /\ DOMAIN Family = 1..Len(Family)
    BY RowsGrow, Operators, FS_Interval
  <2>2. Family \in Surjection(1..Len(Family), Range(Family))
    BY <2>1, Operators DEF Surjection, Range
  <2>3. IsFiniteSet(Range(Family))
    BY <2>1, <2>2, FS_Surjection
  <2>4. K \in SUBSET V
    OBVIOUS
  <2>5. IsFiniteSet(K)
    BY <2>4, FS_Subset
  <2>6. QED
    BY <2>3, <2>5
<1>4. ASSUME NEW o \in Range(Family), NEW v
      PROVE  VerdictCount(R, o, v) = Cardinality({x \in Of(o) : Ver[x] = v})
  <2>1. {x \in X : OpAt(R, x) \in {o} /\ VerdictAt(R, x) \in {v}} = {x \in Of(o) : Ver[x] = v}
    OBVIOUS
  <2>2. QED
    BY <2>1 DEF VerdictCount, CountRows, OpAt, VerdictAt
<1>5. ASSUME NEW o \in Range(Family)
      PROVE  SumOver(Only(Report(R).counts[o], V)) = Cardinality({x \in XV : Op[x] = o})
  <2>1. Only(Report(R).counts[o], V) = [v \in K |-> VerdictCount(R, o, v)]
    BY DEF Only, Report, Verdicts
  <2>2. [v \in K |-> VerdictCount(R, o, v)] = [v \in K |-> Cardinality({x \in Of(o) : Ver[x] = v})]
    BY <1>4
  <2>3. SumOver([v \in K |-> Cardinality({x \in Of(o) : Ver[x] = v})])
          = Cardinality({x \in Of(o) : Ver[x] \in K})
    <3>1. IsFiniteSet(Of(o))
      BY <1>2
    <3> HIDE DEF Of, Ver, K
    <3>2. QED
      BY <1>3, <3>1, CountBy
  <2>4. {x \in Of(o) : Ver[x] \in K} = {x \in XV : Op[x] = o}
    BY <1>1
  <2>5. QED
    BY <2>1, <2>2, <2>3, <2>4
<1>6. Total(Report(R), V) = SumOver([o \in Range(Family) |-> Cardinality({x \in XV : Op[x] = o})])
  BY <1>5 DEF Total
<1>7. SumOver([o \in Range(Family) |-> Cardinality({x \in XV : Op[x] = o})])
        = Cardinality({x \in XV : Op[x] \in Range(Family)})
  <2>1. IsFiniteSet(XV)
    BY <1>2
  <2> HIDE DEF XV, Op
  <2>2. QED
    BY <1>3, <2>1, CountBy
<1>8. {x \in XV : Op[x] \in Range(Family)}
        = {x \in X : OpAt(R, x) \in Range(Family) /\ VerdictAt(R, x) \in V}
  BY <1>1
<1>9. CountRows(R, Controlled(R), Range(Family), V)
        = Cardinality({x \in X : OpAt(R, x) \in Range(Family) /\ VerdictAt(R, x) \in V})
  BY DEF CountRows, OpAt, VerdictAt
<1> HIDE DEF X, Op, XV
<1>10. QED
  BY <1>6, <1>7, <1>8, <1>9

\* The loud and the silent rows are all rows.
LEMMA LoudSilentAdd ==
  ASSUME NEW R, Readable(R), NEW V
  PROVE  CountRows(R, Controlled(R), Loud, V) + CountRows(R, Controlled(R), Range(Family) \ Loud, V)
           = CountRows(R, Controlled(R), Range(Family), V)
<1> DEFINE In(ops) == {x \in RowsOf(R, Controlled(R)) : OpAt(R, x) \in ops /\ VerdictAt(R, x) \in V}
<1>1. \A ops : IsFiniteSet(In(ops))
  <2>1. Controlled(R) \in SUBSET (DOMAIN R)
    BY DEF Controlled
  <2>2. QED
    BY <2>1, FiniteReport
<1>2. /\ In(Loud) \cap In(Range(Family) \ Loud) = {}
      /\ In(Loud) \cup In(Range(Family) \ Loud) = In(Range(Family))
  BY Operators
<1>3. \A ops : CountRows(R, Controlled(R), ops, V) = Cardinality(In(ops))
  BY DEF CountRows, OpAt, VerdictAt
<1> HIDE DEF In
<1>4. QED
  BY <1>1, <1>2, <1>3, DisjointCount

\* The split counts every witness once, and only those of controlled records.
LEMMA SplitAddsUp ==
  ASSUME NEW R, Readable(R)
  PROVE  SumOver([s \in Sides |-> WitnessSplit(R, s)])
           = CountRows(R, Controlled(R), Range(Family), {"WITNESS"})
<1> DEFINE X == {x \in RowsOf(R, DOMAIN R) : VerdictAt(R, x) = "WITNESS"}
           h == [x \in X |-> Side(R[x[1]].rows[x[2]])]
<1>1. IsFiniteSet(X)
  BY FiniteReport
<1>2. [s \in Sides |-> WitnessSplit(R, s)] = [s \in Sides |-> Cardinality({x \in X : h[x] = s})]
  <2>1. ASSUME NEW s \in Sides
        PROVE  WitnessSplit(R, s) = Cardinality({x \in X : h[x] = s})
    <3>1. {x \in RowsOf(R, DOMAIN R) : R[x[1]].rows[x[2]].verdict = "WITNESS"
                                       /\ Side(R[x[1]].rows[x[2]]) = s} = {x \in X : h[x] = s}
      BY DEF VerdictAt
    <3>2. QED
      BY <3>1 DEF WitnessSplit
  <2>2. QED
    BY <2>1
<1>3. IsFiniteSet(Sides)
  <2>1. Sides = ({"f2p_only"} \cup {"p2p_coupling"}) \cup {"p2p_unattributed"}
    BY DEF Sides
  <2>2. QED
    BY <2>1, FS_Singleton, FS_AddElement
<1>4. SumOver([s \in Sides |-> Cardinality({x \in X : h[x] = s})])
        = Cardinality({x \in X : h[x] \in Sides})
  <2> HIDE DEF X, h
  <2>1. QED
    BY <1>1, <1>3, CountBy
<1>5. {x \in X : h[x] \in Sides}
        = {x \in RowsOf(R, Controlled(R)) : OpAt(R, x) \in Range(Family)
                                           /\ VerdictAt(R, x) \in {"WITNESS"}}
  <2>1. \A x \in X : h[x] \in Sides
    BY DEF Side, Sides
  <2>2. RowsOf(R, Controlled(R)) \subseteq RowsOf(R, DOMAIN R)
    BY DEF RowsOf, Controlled
  <2>3. ASSUME NEW x \in RowsOf(R, DOMAIN R)
        PROVE  x \in RowsOf(R, Controlled(R)) /\ OpAt(R, x) \in Range(Family)
    <3>1. x[1] \in DOMAIN R /\ R[x[1]].control /\ OpAt(R, x) \in Range(Family)
      BY RowOfReport
    <3>2. QED
      BY <3>1 DEF RowsOf, Controlled
  <2>4. QED
    BY <2>1, <2>2, <2>3
<1>6. CountRows(R, Controlled(R), Range(Family), {"WITNESS"})
        = Cardinality({x \in RowsOf(R, Controlled(R)) : OpAt(R, x) \in Range(Family)
                                                      /\ VerdictAt(R, x) \in {"WITNESS"}})
  BY DEF CountRows, OpAt, VerdictAt
<1> HIDE DEF X, h
<1>7. QED
  BY <1>2, <1>4, <1>5, <1>6

\* The aggregate reads only whole records, and the counts of its report agree
\* with each other, for any records that any workers write beside it.
THEOREM ReportSoundness == Spec => []ReportAddsUp
<1>1. IInv => ReportAddsUp
  <2> SUFFICES ASSUME IInv, reader = "reported"
               PROVE  LET rep == Report(loaded)
                      IN /\ rep.the_number.judged = rep.single.judged + rep.multi.judged
                         /\ rep.the_number.witness = rep.single.witness + rep.multi.witness
                         /\ rep.the_number.judged <= rep.anchors[THE_NUMBER_OPERATOR].anchor
                         /\ rep.loudsilent.loud.judged + rep.loudsilent.silent.judged
                              = Total(rep, JUDGED)
                         /\ SumOver(rep.split) = Total(rep, {"WITNESS"})
    BY DEF IInv, Reading, ReportAddsUp, ReaderSeesWhole
  <2>1. Readable(loaded)
    BY DEF IInv, Types, TypeOK, Controls, Readable
  <2>2. THE_NUMBER_OPERATOR \in Range(Family)
    BY Operators
  <2> DEFINE rep == Report(loaded)
  <2>3. /\ rep.the_number.judged = rep.single.judged + rep.multi.judged
        /\ rep.the_number.witness = rep.single.witness + rep.multi.witness
    BY <2>1, StrataAdd DEF Report
  <2>4. rep.the_number.judged <= rep.anchors[THE_NUMBER_OPERATOR].anchor
    BY <2>1, <2>2, JudgedIsAnchored DEF Report
  <2>5. rep.loudsilent.loud.judged + rep.loudsilent.silent.judged = Total(rep, JUDGED)
    <3>1. IsFiniteSet(JUDGED)
      <4>1. JUDGED = ({"WITNESS"} \cup {"CLEAN"}) \cup {"INVALID"}
        BY DEF JUDGED
      <4>2. QED
        BY <4>1, FS_Singleton, FS_AddElement
    <3>2. /\ rep.loudsilent.loud.judged = CountRows(loaded, Controlled(loaded), Loud, JUDGED)
          /\ rep.loudsilent.silent.judged
               = CountRows(loaded, Controlled(loaded), Range(Family) \ Loud, JUDGED)
      BY DEF Report, LoudSilent
    <3>3. QED
      BY <2>1, <3>1, <3>2, TotalCounts, LoudSilentAdd
  <2>6. SumOver(rep.split) = Total(rep, {"WITNESS"})
    <3>1. rep.split = [s \in Sides |-> WitnessSplit(loaded, s)]
      BY DEF Report
    <3>2. IsFiniteSet({"WITNESS"})
      BY FS_Singleton
    <3>3. QED
      BY <2>1, <3>1, <3>2, SplitAddsUp, TotalCounts
  <2>7. QED
    BY <2>3, <2>4, <2>5, <2>6
<1>2. QED
  BY <1>1, Invariance, PTL

-----------------------------------------------------------------------------
\* The sample: what largest remainders and the two-level draw give.

\* Sums are linear, and strictly monotonic.
LEMMA SumLinear ==
  ASSUME NEW K, IsFiniteSet(K), NEW f \in [K -> Int], NEW g \in [K -> Int],
         NEW a \in Int, NEW b \in Int
  PROVE  /\ SumOver(f) \in Int
         /\ SumOver([k \in K |-> a * f[k] + b * g[k]]) = a * SumOver(f) + b * SumOver(g)
<1> DEFINE h == [k \in K |-> a * f[k] + b * g[k]]
           F == Sums(f, K)
           H == Sums(g, K)
           J == Sums(h, K)
           G == {s \in SUBSET K : J[s] = a * F[s] + b * H[s]}
<1>1. h \in [K -> Int]
  OBVIOUS
<1>2. /\ F[{}] = 0 /\ H[{}] = 0 /\ J[{}] = 0
      /\ \A s \in SUBSET K : F[s] \in Int /\ H[s] \in Int
      /\ \A s \in SUBSET K : s # {} => /\ F[s] = f[Pick(s)] + F[s \ {Pick(s)}]
                                       /\ H[s] = g[Pick(s)] + H[s \ {Pick(s)}]
                                       /\ J[s] = h[Pick(s)] + J[s \ {Pick(s)}]
  <2> HIDE DEF h
  <2>1. QED
    BY <1>1, SumsRecursion
<1>3. {} \in G
  BY <1>2
<1>4. ASSUME NEW s \in SUBSET K, s # {}, s \ {Pick(s)} \in G  PROVE s \in G
  <2> DEFINE p == Pick(s)
             r == s \ {p}
  <2>1. p \in K /\ r \in SUBSET K
    BY <1>4, PickOne DEF Pickable
  <2>2. /\ F[s] = f[p] + F[r] /\ H[s] = g[p] + H[r] /\ J[s] = h[p] + J[r]
        /\ J[r] = a * F[r] + b * H[r]
        /\ F[r] \in Int /\ H[r] \in Int
    BY <1>2, <1>4, <2>1
  <2>3. h[p] = a * f[p] + b * g[p] /\ f[p] \in Int /\ g[p] \in Int
    BY <2>1
  <2> HIDE DEF F, H, J, h, p, r
  <2>4. J[s] = a * F[s] + b * H[s]
    <3>1. \A x, y, u, v \in Int : (a * x + b * y) + (a * u + b * v) = a * (x + u) + b * (y + v)
      OBVIOUS
    <3>2. QED
      BY <2>2, <2>3, <3>1
  <2>5. QED
    BY <2>4
<1>5. G \in SUBSET (SUBSET K)
  OBVIOUS
<1> HIDE DEF G
<1>6. K \in G
  BY <1>3, <1>4, <1>5, SetInduct
<1>7. SumOver(f) = F[K] /\ SumOver(g) = H[K] /\ SumOver(h) = J[K]
  BY <1>1, SumOverIsSums
<1>8. QED
  BY <1>2, <1>6, <1>7 DEF G

LEMMA SumType ==
  ASSUME NEW K, IsFiniteSet(K), NEW f \in [K -> Int]
  PROVE  SumOver(f) \in Int
  BY SumsRecursion, SumOverIsSums

LEMMA SumPlus ==
  ASSUME NEW K, IsFiniteSet(K), NEW f \in [K -> Int], NEW g \in [K -> Int]
  PROVE  SumOver([k \in K |-> f[k] + g[k]]) = SumOver(f) + SumOver(g)
<1>1. PICK a \in Int : a = 1
  OBVIOUS
<1>2. [k \in K |-> a * f[k] + a * g[k]] = [k \in K |-> f[k] + g[k]]
  BY <1>1
<1>3. /\ SumOver(f) \in Int /\ SumOver(g) \in Int
      /\ SumOver([k \in K |-> a * f[k] + a * g[k]]) = a * SumOver(f) + a * SumOver(g)
  BY SumLinear, SumType
<1>4. a * SumOver(f) = SumOver(f) /\ a * SumOver(g) = SumOver(g)
  BY <1>1, <1>3
<1>5. QED
  BY <1>2, <1>3, <1>4

LEMMA SumTimes ==
  ASSUME NEW K, IsFiniteSet(K), NEW f \in [K -> Int], NEW a \in Int
  PROVE  SumOver([k \in K |-> a * f[k]]) = a * SumOver(f)
<1>1. PICK b \in Int : b = 0
  OBVIOUS
<1>2. [k \in K |-> a * f[k] + b * f[k]] = [k \in K |-> a * f[k]]
  <2>1. \A k \in K : b * f[k] = 0 /\ a * f[k] \in Int
    BY <1>1
  <2>2. \A k \in K : a * f[k] + b * f[k] = a * f[k]
    BY <2>1
  <2>3. QED
    BY <2>2
<1>3. /\ SumOver(f) \in Int
      /\ SumOver([k \in K |-> a * f[k] + b * f[k]]) = a * SumOver(f) + b * SumOver(f)
  BY SumLinear
<1>4. b * SumOver(f) = 0 /\ a * SumOver(f) \in Int
  BY <1>1, <1>3
<1>5. QED
  BY <1>2, <1>3, <1>4

LEMMA SumStrict ==
  ASSUME NEW K, IsFiniteSet(K), NEW f \in [K -> Int], NEW g \in [K -> Int],
         \A k \in K : f[k] <= g[k], NEW x \in K, f[x] < g[x]
  PROVE  SumOver(f) < SumOver(g)
<1> DEFINE F == Sums(f, K)
           H == Sums(g, K)
           G == {s \in SUBSET K : F[s] <= H[s] /\ (x \in s => F[s] < H[s])}
<1>1. /\ F[{}] = 0 /\ H[{}] = 0
      /\ \A s \in SUBSET K : F[s] \in Int /\ H[s] \in Int
      /\ \A s \in SUBSET K : s # {} => /\ F[s] = f[Pick(s)] + F[s \ {Pick(s)}]
                                       /\ H[s] = g[Pick(s)] + H[s \ {Pick(s)}]
  BY SumsRecursion
<1>2. {} \in G
  BY <1>1
<1>3. ASSUME NEW s \in SUBSET K, s # {}, s \ {Pick(s)} \in G  PROVE s \in G
  <2> DEFINE p == Pick(s)
             r == s \ {p}
  <2>1. p \in K /\ r \in SUBSET K
    BY <1>3, PickOne DEF Pickable
  <2>2. /\ F[s] = f[p] + F[r] /\ H[s] = g[p] + H[r]
        /\ F[r] <= H[r] /\ (x \in r => F[r] < H[r])
        /\ F[r] \in Int /\ H[r] \in Int
    BY <1>1, <1>3, <2>1
  <2>3. /\ f[p] \in Int /\ g[p] \in Int /\ f[p] <= g[p]
        /\ p = x => f[p] < g[p]
    BY <2>1
  <2>4. x \in s => x = p \/ x \in r
    OBVIOUS
  <2> HIDE DEF F, H, p, r
  <2>5. QED
    BY <2>2, <2>3, <2>4
<1>4. G \in SUBSET (SUBSET K)
  OBVIOUS
<1> HIDE DEF G
<1>5. K \in G
  BY <1>2, <1>3, <1>4, SetInduct
<1>6. SumOver(f) = F[K] /\ SumOver(g) = H[K]
  BY SumOverIsSums
<1>7. QED
  BY <1>5, <1>6 DEF G

\* The parts of a stratification: they share no task, and are together all tasks.
Parts(K, X) ==
  /\ IsFiniteSet(K) /\ UNION K = X /\ {} \notin K
  /\ \A p, r \in K : p # r => p \cap r = {}

LEMMA SumOfParts ==
  ASSUME NEW X, IsFiniteSet(X), NEW K, Parts(K, X), NEW S \in SUBSET X
  PROVE  SumOver([p \in K |-> Cardinality(S \cap p)]) = Cardinality(S)
<1> DEFINE h == [x \in S |-> CHOOSE p \in K : x \in p]
<1>1. \A x \in S : h[x] \in K /\ x \in h[x]
  BY DEF Parts
<1>2. \A p \in K : S \cap p = {x \in S : h[x] = p}
  BY <1>1 DEF Parts
<1>3. {x \in S : h[x] \in K} = S
  BY <1>1
<1> HIDE DEF h
<1>4. SumOver([p \in K |-> Cardinality({x \in S : h[x] = p})]) = Cardinality({x \in S : h[x] \in K})
  BY FS_Subset, CountBy DEF Parts
<1>5. [p \in K |-> Cardinality(S \cap p)] = [p \in K |-> Cardinality({x \in S : h[x] = p})]
  <2>1. \A p \in K : Cardinality(S \cap p) = Cardinality({x \in S : h[x] = p})
    BY <1>2
  <2>2. QED
    BY <2>1
<1>6. QED
  BY <1>3, <1>4, <1>5

\* The members of a subset, as a sum.
LEMMA SumOfMembers ==
  ASSUME NEW K, IsFiniteSet(K), NEW S \in SUBSET K
  PROVE  SumOver([k \in K |-> IF k \in S THEN 1 ELSE 0]) = Cardinality(S)
<1> DEFINE h == [k \in S |-> k]
<1>1. \A k \in K : {x \in S : h[x] = k} = IF k \in S THEN {k} ELSE {}
  OBVIOUS
<1>2. \A k \in K : Cardinality({x \in S : h[x] = k}) = IF k \in S THEN 1 ELSE 0
  <2> HIDE DEF h
  <2>1. QED
    BY <1>1, FS_Singleton, FS_EmptySet
<1>3. {x \in S : h[x] \in K} = S
  OBVIOUS
<1> HIDE DEF h
<1>4. SumOver([k \in K |-> Cardinality({x \in S : h[x] = k})]) = Cardinality({x \in S : h[x] \in K})
  BY FS_Subset, CountBy
<1>5. [k \in K |-> Cardinality({x \in S : h[x] = k})] = [k \in K |-> IF k \in S THEN 1 ELSE 0]
  BY <1>2
<1>6. QED
  BY <1>3, <1>4, <1>5

\* Division: what flooring takes, and what that says of a share.
LEMMA Flooring ==
  ASSUME NEW a \in Nat, NEW d \in Nat \ {0}
  PROVE  /\ a \div d \in Nat /\ a % d \in Nat /\ a % d < d
         /\ a = d * (a \div d) + (a % d)
<1>1. a \div d \in Int /\ a % d \in 0..(d - 1) /\ a \div d >= 0
  OBVIOUS
<1>2. \A x, y \in Int : y > 0 => x = y * (x \div y) + (x % y)
  OBVIOUS
<1>3. QED
  BY <1>1, <1>2

LEMMA ShareBound ==
  ASSUME NEW part \in Nat, NEW c \in Nat, NEW n \in Nat, NEW d \in Nat \ {0}, n <= d,
         part * d - n * c <= d - 1
  PROVE  part <= c
<1>1. n * c <= d * c
  OBVIOUS
<1>2. part * d <= d * c + (d - 1)
  BY <1>1
<1>3. ASSUME part >= c + 1  PROVE FALSE
  <2>1. part * d >= (c + 1) * d
    BY <1>3
  <2>2. (c + 1) * d = d * c + d
    OBVIOUS
  <2>3. QED
    BY <1>2, <2>1, <2>2
<1>4. QED
  BY <1>3

\* allocate gives out exactly n, each share its exact value rounded down or up,
\* and none more than there is.
LEMMA LargestRemainders ==
  ASSUME NEW K, IsFiniteSet(K), NEW counts \in [K -> Nat], NEW total \in Nat \ {0},
         total = SumOver(counts), NEW n \in Nat, n <= total, NEW q \in Allocate(counts, n)
  PROVE  /\ q \in [K -> Nat] /\ SumOver(q) = n
         /\ \A k \in K : q[k] <= counts[k] /\ Near(q[k], total, counts[k], n)
<1> DEFINE base == [k \in K |-> (counts[k] * n) \div total]
           rest == [k \in K |-> (counts[k] * n) % total]
<1>1. PICK S \in SUBSET K :
         /\ q = [k \in K |-> base[k] + (IF k \in S THEN 1 ELSE 0)]
         /\ Cardinality(S) = n - SumOver(base)
         /\ \A i \in S, j \in K \ S : rest[i] >= rest[j]
  BY DEF Allocate
<1>2. ASSUME NEW k \in K
      PROVE  /\ base[k] \in Nat /\ rest[k] \in Nat /\ rest[k] < total
             /\ n * counts[k] = total * base[k] + rest[k]
  <2>1. counts[k] * n \in Nat /\ counts[k] * n = n * counts[k]
    OBVIOUS
  <2>2. QED
    BY <2>1, Flooring
<1> DEFINE ind == [k \in K |-> IF k \in S THEN 1 ELSE 0]
<1>3. /\ base \in [K -> Int] /\ rest \in [K -> Int] /\ ind \in [K -> Int] /\ counts \in [K -> Int]
  BY <1>2
<1>4. SumOver(ind) = Cardinality(S)
  BY SumOfMembers
<1>5. \A k \in K : ind[k] = IF k \in S THEN 1 ELSE 0
  OBVIOUS
<1>6. q = [k \in K |-> base[k] + ind[k]]
  BY <1>1
<1> HIDE DEF base, rest, ind
<1>7. q \in [K -> Nat]
  BY <1>2, <1>5, <1>6
<1>8. SumOver(base) \in Int /\ SumOver(rest) \in Int /\ SumOver(ind) \in Int /\ SumOver(q) = n
  <2>1. SumOver(q) = SumOver(base) + SumOver(ind)
    BY <1>3, <1>6, SumPlus
  <2>2. SumOver(base) \in Int /\ SumOver(rest) \in Int /\ SumOver(ind) \in Int
    BY <1>3, SumType
  <2>3. QED
    BY <1>1, <1>4, <2>1, <2>2
<1>9. SumOver(rest) = total * SumOver(ind)
  <2>1. [k \in K |-> n * counts[k] + (-total) * base[k]] = rest
    <3>1. \A k \in K : n * counts[k] + (-total) * base[k] = rest[k]
      <4> SUFFICES ASSUME NEW k \in K PROVE n * counts[k] + (-total) * base[k] = rest[k]
        OBVIOUS
      <4>1. /\ base[k] \in Nat /\ rest[k] \in Nat /\ n * counts[k] = total * base[k] + rest[k]
        BY <1>2
      <4>2. (-total) * base[k] = -(total * base[k]) /\ total * base[k] \in Int
        BY <4>1
      <4>3. QED
        BY <4>1, <4>2
    <3>2. QED
      BY <1>3, <3>1
  <2>2. SumOver(rest) = n * SumOver(counts) + (-total) * SumOver(base)
    BY <1>3, <2>1, SumLinear
  <2>3. SumOver(base) = n - SumOver(ind)
    BY <1>1, <1>4, <1>8
  <2>4. n * total + (-total) * (n - SumOver(ind)) = total * SumOver(ind)
    BY <1>8
  <2>5. QED
    BY <2>2, <2>3, <2>4
<1>10. ASSUME NEW k \in S  PROVE rest[k] # 0
  <2> SUFFICES ASSUME rest[k] = 0  PROVE FALSE
    OBVIOUS
  <2> DEFINE full == [j \in K |-> total * ind[j]]
  <2>1. \A j \in K : full[j] = total * ind[j]
    BY <1>5
  <2>2. full \in [K -> Int] /\ SumOver(full) = total * SumOver(ind)
    <3>1. SumOver(full) = total * SumOver(ind)
      BY <1>3, SumTimes
    <3>2. full \in [K -> Int]
      BY <1>3
    <3>3. QED
      BY <3>1, <3>2
  <2> HIDE DEF full
  <2>3. ASSUME NEW j \in K  PROVE rest[j] <= full[j]
    <3>1. CASE j \in S
      BY <1>2, <1>5, <2>1, <3>1
    <3>2. CASE j \notin S
      BY <1>1, <1>2, <1>5, <2>1, <3>2
    <3>3. QED
      BY <3>1, <3>2
  <2>4. k \in K /\ rest[k] < full[k]
    BY <1>5, <2>1
  <2>5. SumOver(rest) < SumOver(full)
    BY <1>3, <2>2, <2>3, <2>4, SumStrict
  <2>6. QED
    BY <1>8, <1>9, <2>2, <2>5
<1>11. ASSUME NEW k \in K
       PROVE  q[k] <= counts[k] /\ Near(q[k], total, counts[k], n)
  <2>1. /\ q[k] = base[k] + ind[k] /\ base[k] \in Nat /\ rest[k] \in Nat /\ rest[k] < total
        /\ n * counts[k] = total * base[k] + rest[k]
        /\ counts[k] \in Nat /\ q[k] \in Nat
    BY <1>2, <1>6, <1>7
  <2>2. ind[k] = 0 \/ (ind[k] = 1 /\ rest[k] # 0)
    BY <1>5, <1>10
  <2>3. counts[k] * n = n * counts[k] /\ q[k] * total = total * base[k] + total * ind[k]
    <3>1. base[k] \in Int /\ ind[k] \in Int
      BY <2>1, <2>2
    <3>2. q[k] * total = (base[k] + ind[k]) * total
      BY <2>1
    <3>3. (base[k] + ind[k]) * total = total * base[k] + total * ind[k]
      BY <3>1
    <3>4. counts[k] * n = n * counts[k]
      BY <2>1
    <3>5. QED
      BY <3>2, <3>3, <3>4
  <2>4. q[k] * total - counts[k] * n = total * ind[k] - rest[k]
    <3>1. total * base[k] \in Int /\ total * ind[k] \in Int
      BY <2>1, <2>2
    <3>2. QED
      BY <2>1, <2>3, <3>1
  <2>5. q[k] * total - counts[k] * n \in (1 - total)..(total - 1)
    BY <2>1, <2>2, <2>4
  <2>6. Near(q[k], total, counts[k], n)
    BY <2>5 DEF Near
  <2>7. q[k] <= counts[k]
    <3>1. q[k] * total - n * counts[k] <= total - 1
      BY <2>1, <2>3, <2>5
    <3>2. QED
      BY <2>1, <3>1, ShareBound
  <2>8. QED
    BY <2>6, <2>7
<1>12. QED
  BY <1>7, <1>8, <1>11

LEMMA StrataAreParts ==
  ASSUME NEW X, IsFiniteSet(X)
  PROVE  Parts(Strata(X), X) /\ Parts(Repos(X), X)
<1>1. ASSUME NEW K \in SUBSET (SUBSET X)  PROVE IsFiniteSet(K)
  BY FS_SUBSET, FS_Subset
<1>2. Strata(X) \in SUBSET (SUBSET X) /\ Repos(X) \in SUBSET (SUBSET X)
  BY DEF Strata, Repos
<1>3. /\ UNION Strata(X) = X /\ {} \notin Strata(X)
      /\ \A p, r \in Strata(X) : p # r => p \cap r = {}
  BY DEF Strata
<1>4. /\ UNION Repos(X) = X /\ {} \notin Repos(X)
      /\ \A p, r \in Repos(X) : p # r => p \cap r = {}
  BY DEF Repos
<1>5. QED
  BY <1>1, <1>2, <1>3, <1>4 DEF Parts

\* allocate over the parts of a set of tasks.
LEMMA PartsAllocation ==
  ASSUME NEW X, IsFiniteSet(X), X # {}, NEW K, Parts(K, X),
         NEW n \in Nat, n <= Cardinality(X), NEW q \in Allocate(Counts(K), n)
  PROVE  /\ q \in [K -> Nat] /\ SumOver(q) = n
         /\ \A p \in K : /\ Cardinality(p) \in Nat /\ q[p] <= Cardinality(p)
                         /\ Near(q[p], Cardinality(X), Cardinality(p), n)
<1>1. \A p \in K : IsFiniteSet(p) /\ Cardinality(p) \in Nat
  <2>1. \A p \in K : p \in SUBSET X
    BY DEF Parts
  <2>2. QED
    BY <2>1, FS_Subset, FS_CardinalityType
<1>2. Counts(K) \in [K -> Nat] /\ \A p \in K : Counts(K)[p] = Cardinality(p)
  BY <1>1 DEF Counts
<1>3. SumOver(Counts(K)) = Cardinality(X)
  <2>1. SumOver([p \in K |-> Cardinality(X \cap p)]) = Cardinality(X)
    BY SumOfParts
  <2>2. \A p \in K : X \cap p = p
    BY DEF Parts
  <2>3. Counts(K) = [p \in K |-> Cardinality(X \cap p)]
    BY <2>2 DEF Counts
  <2>4. QED
    BY <2>1, <2>3
<1>4. Cardinality(X) \in Nat \ {0}
  BY FS_CardinalityType, FS_EmptySet
<1>5. /\ q \in [K -> Nat] /\ SumOver(q) = n
      /\ \A p \in K : q[p] <= Counts(K)[p] /\ Near(q[p], Cardinality(X), Counts(K)[p], n)
  BY <1>2, <1>3, <1>4, LargestRemainders DEF Parts
<1>6. QED
  BY <1>1, <1>2, <1>5

\* A draw of n out of at least n: a share of each group, and of each repository in it.
LEMMA DrawsAreFair ==
  ASSUME NEW X, IsFiniteSet(X), NEW n \in Nat, n <= Cardinality(X), NEW S \in Draws(X, n)
  PROVE  /\ Cardinality(S) = n
         /\ \A g \in Strata(X) :
              /\ Near(Cardinality(S \cap g), Cardinality(X), Cardinality(g), n)
              /\ \A p \in Repos(g) : Near(Cardinality(S \cap p), Cardinality(g),
                                          Cardinality(p), Cardinality(S \cap g))
<1>1. Parts(Strata(X), X) /\ S \in SUBSET X
  BY StrataAreParts DEF Draws
<1>2. CASE X = {}
  <2>1. S = {} /\ Strata(X) = {}
    BY <1>1, <1>2 DEF Strata
  <2>2. Cardinality(X) = 0 /\ Cardinality(S) = 0
    BY <1>2, <2>1, FS_EmptySet
  <2>3. QED
    BY <2>1, <2>2
<1>3. CASE X # {}
  <2>1. PICK quota \in Allocate(Counts(Strata(X)), n) : \A g \in Strata(X) :
          IF quota[g] = 0 THEN S \cap g = {}
          ELSE \E q \in Allocate(Counts(Repos(g)), quota[g]) : \A p \in Repos(g) :
                 Cardinality(S \cap p) =
                   IF q[p] <= Cardinality(p) THEN q[p] ELSE Cardinality(p)
    BY DEF Draws
  <2>2. /\ quota \in [Strata(X) -> Nat] /\ SumOver(quota) = n
        /\ \A g \in Strata(X) : /\ Cardinality(g) \in Nat /\ quota[g] <= Cardinality(g)
                                /\ Near(quota[g], Cardinality(X), Cardinality(g), n)
    BY <1>1, <1>3, <2>1, PartsAllocation
  <2>3. ASSUME NEW g \in Strata(X)
        PROVE  /\ Cardinality(S \cap g) = quota[g]
               /\ \A p \in Repos(g) : Near(Cardinality(S \cap p), Cardinality(g),
                                           Cardinality(p), quota[g])
    <3>1. g \in SUBSET X /\ g # {}
      BY <1>1 DEF Parts
    <3>2. IsFiniteSet(g) /\ Cardinality(g) \in Nat \ {0}
      BY <3>1, FS_Subset, FS_CardinalityType, FS_EmptySet
    <3>3. Parts(Repos(g), g)
      BY <3>2, StrataAreParts
    <3>4. CASE quota[g] = 0
      <4>1. S \cap g = {}
        BY <2>1, <3>4
      <4>2. Cardinality(S \cap g) = 0
        BY <4>1, FS_EmptySet
      <4>3. ASSUME NEW p \in Repos(g)
            PROVE  Near(Cardinality(S \cap p), Cardinality(g), Cardinality(p), quota[g])
        <5>1. p \in SUBSET g /\ S \cap p = {}
          BY <3>3, <4>1 DEF Parts
        <5>2. Cardinality(S \cap p) = 0 /\ Cardinality(p) \in Nat
          BY <3>2, <5>1, FS_EmptySet, FS_Subset, FS_CardinalityType
        <5>3. QED
          BY <3>2, <3>4, <5>2 DEF Near
      <4>4. QED
        BY <3>4, <4>2, <4>3
    <3>5. CASE quota[g] # 0
      <4>1. PICK q \in Allocate(Counts(Repos(g)), quota[g]) : \A p \in Repos(g) :
              Cardinality(S \cap p) = IF q[p] <= Cardinality(p) THEN q[p] ELSE Cardinality(p)
        BY <2>1, <3>5
      <4>2. quota[g] \in Nat /\ quota[g] <= Cardinality(g)
        BY <2>2
      <4>3. /\ q \in [Repos(g) -> Nat] /\ SumOver(q) = quota[g]
            /\ \A p \in Repos(g) : /\ q[p] <= Cardinality(p)
                                   /\ Near(q[p], Cardinality(g), Cardinality(p), quota[g])
        BY <3>1, <3>2, <3>3, <4>1, <4>2, PartsAllocation
      <4>4. \A p \in Repos(g) : Cardinality(S \cap p) = q[p]
        BY <4>1, <4>3
      <4>5. SumOver([p \in Repos(g) |-> Cardinality((S \cap g) \cap p)]) = Cardinality(S \cap g)
        <5> DEFINE D == S \cap g
        <5>1. D \in SUBSET g
          OBVIOUS
        <5> HIDE DEF D
        <5>2. SumOver([p \in Repos(g) |-> Cardinality(D \cap p)]) = Cardinality(D)
          BY <3>2, <3>3, <5>1, SumOfParts
        <5>3. QED
          BY <5>2 DEF D
      <4>6. [p \in Repos(g) |-> Cardinality((S \cap g) \cap p)] = q
        <5>1. \A p \in Repos(g) : (S \cap g) \cap p = S \cap p
          BY <3>3 DEF Parts
        <5>2. \A p \in Repos(g) : Cardinality((S \cap g) \cap p) = q[p]
          BY <4>4, <5>1
        <5>3. QED
          BY <4>3, <5>2
      <4>7. QED
        BY <4>3, <4>4, <4>5, <4>6
    <3>6. QED
      BY <3>4, <3>5
  <2>4. Cardinality(S) = n
    <3>1. SumOver([g \in Strata(X) |-> Cardinality(S \cap g)]) = Cardinality(S)
      BY <1>1, SumOfParts
    <3>2. [g \in Strata(X) |-> Cardinality(S \cap g)] = quota
      BY <2>2, <2>3
    <3>3. QED
      BY <2>2, <3>1, <3>2
  <2>5. QED
    BY <2>2, <2>3, <2>4
<1>4. QED
  BY <1>2, <1>3

\* The frozen sample has exactly N tasks, and each group and each repository in it
\* got its exact share, rounded down or up, for any tasks, provided there are N.
THEOREM SampleFairness ==
  ASSUME N <= Cardinality(Eligible)
  PROVE  Spec => []SampleIsFair
<1> DEFINE Drawn == sample = None \/ sample \in Draws(Eligible, N)
<1>1. Init => Drawn
  BY DEF Init
<1>2. Drawn /\ [Next]_vars => Drawn'
  <2> SUFFICES ASSUME Drawn, [Next]_vars  PROVE Drawn'
    OBVIOUS
  <2>1. CASE Draw
    BY <2>1 DEF Draw
  <2>2. CASE ~Draw
    <3>1. UNCHANGED sample
      BY <2>2 DEF Next, vars, Resume, Rerun, Return, Kill, Invoke, Coroutine, Begin, Control,
        MakeRow, Checked, Open, Dump, Replace, Refused, Raises, Fails, List, Read, Reported
    <3>2. QED
      BY <3>1
  <2>3. QED
    BY <2>1, <2>2
<1>3. Drawn => SampleIsFair
  <2> SUFFICES ASSUME sample \in Draws(Eligible, N)  PROVE SampleIsFair
    BY DEF SampleIsFair
  <2>1. IsFiniteSet(Eligible) /\ N \in Nat
    BY Tasks, Sizes, FS_Subset DEF Task
  <2>2. QED
    BY <2>1, DrawsAreFair DEF SampleIsFair
<1>4. QED
  BY <1>1, <1>2, <1>3, PTL DEF Spec
=============================================================================
