--------------------------- MODULE RepairGate_proofs ---------------------------
(***************************************************************************)
(* The gate for any table of mutants, library, suite and order of faults:  *)
(* each cell was graded on its own tree, PASS is earned, and the gate      *)
(* leaves nothing in docker.                                               *)
(***************************************************************************)
EXTENDS RepairGate, FiniteSetTheorems, TLAPS

CellAt(i) == <<Variant[((i - 1) \div Len(Solution)) + 1],
               Solution[((i - 1) % Len(Solution)) + 1]>>

-----------------------------------------------------------------------------
\* The matrix row by row.

\* The solutions: gold, renamed gold, then the mutants.
LEMMA Solutions ==
  /\ Len(Solution) \in Nat /\ Len(Solution) >= 2
  /\ \A n \in 1..Len(Solution) : Solution[n] \in Range(Solution)
  /\ Range(Solution) = {Solution[n] : n \in 1..Len(Solution)}
  /\ Range(Solution) = {"gold", "gold_renamed"} \cup Range(Mutant)
  <1>1. Mutant \in Seq(Range(Mutant))
    BY Table
  <1>2. /\ Len(Solution) = 2 + Len(Mutant) /\ Len(Mutant) \in Nat
        /\ DOMAIN Solution = 1..(2 + Len(Mutant)) /\ DOMAIN Mutant = 1..Len(Mutant)
        /\ Solution[1] = "gold" /\ Solution[2] = "gold_renamed"
        /\ \A n \in 1..Len(Mutant) : Solution[n + 2] = Mutant[n]
    BY <1>1 DEF Solution
  <1>3. Range(Solution) = {Solution[n] : n \in 1..Len(Solution)}
    BY <1>2 DEF Range
  <1>4. ASSUME NEW n \in 1..Len(Solution)
        PROVE  Solution[n] \in {"gold", "gold_renamed"} \cup Range(Mutant)
    <2>1. CASE n \in {1, 2}
      BY <2>1, <1>2
    <2>2. CASE n \notin {1, 2}
      <3>1. n - 2 \in 1..Len(Mutant) /\ Solution[(n - 2) + 2] = Mutant[n - 2]
        BY <2>2, <1>2
      <3>2. QED
        BY <3>1, <1>2 DEF Range
    <2>3. QED
      BY <2>1, <2>2
  <1>5. ASSUME NEW m \in Range(Mutant)  PROVE m \in Range(Solution)
    <2>1. PICK n \in 1..Len(Mutant) : m = Mutant[n]
      BY <1>2 DEF Range
    <2>2. n + 2 \in 1..Len(Solution) /\ Solution[n + 2] = m
      BY <1>2, <2>1
    <2>3. QED
      BY <1>3, <2>2
  <1>6. {"gold", "gold_renamed"} \subseteq Range(Solution)
    BY <1>2, <1>3
  <1>7. QED
    BY <1>2, <1>3, <1>4, <1>5, <1>6

\* Where the n-th solution of a variant stands, by Euclidean division.
LEMMA Division ==
  ASSUME NEW k \in Nat, k >= 2, NEW i \in 1..(2 * k)
  PROVE  /\ i <= k => (i - 1) \div k = 0 /\ (i - 1) % k = i - 1
         /\ i > k  => (i - 1) \div k = 1 /\ (i - 1) % k = i - 1 - k
  OBVIOUS

LEMMA Position ==
  LET k == Len(Solution)
  IN /\ LastCell = 2 * k
     /\ \A n \in 1..k : /\ CellAt(n) = <<"original", Solution[n]>>
                        /\ CellAt(k + n) = <<"repaired", Solution[n]>>
  <1> DEFINE k == Len(Solution)
  <1>1. k \in Nat /\ k >= 2
    BY Solutions
  <1>2. Len(Variant) = 2 /\ Variant[1] = "original" /\ Variant[2] = "repaired"
    BY DEF Variant
  <1>3. LastCell = 2 * k
    BY <1>1, <1>2 DEF LastCell
  <1>4. ASSUME NEW n \in 1..k
        PROVE  /\ CellAt(n) = <<"original", Solution[n]>>
               /\ CellAt(k + n) = <<"repaired", Solution[n]>>
    <2>1. n \in 1..(2 * k) /\ k + n \in 1..(2 * k) /\ n <= k /\ k + n > k
      BY <1>1
    <2>2. /\ (n - 1) \div k = 0 /\ (n - 1) % k = n - 1
          /\ ((k + n) - 1) \div k = 1 /\ ((k + n) - 1) % k = (k + n) - 1 - k
      <3> HIDE DEF k
      <3> QED BY <1>1, <2>1, Division
    <2>3. /\ ((n - 1) \div k) + 1 = 1 /\ ((n - 1) % k) + 1 = n
          /\ ((k + n - 1) \div k) + 1 = 2 /\ ((k + n - 1) % k) + 1 = n
      BY <1>1, <2>2
    <2>4. QED
      BY <1>2, <2>3 DEF CellAt
  <1>5. QED
    BY <1>3, <1>4

\* The positions are the cells.
LEMMA Matrix ==
  /\ LastCell \in Nat /\ LastCell >= 1
  /\ \A i \in 1..LastCell : CellAt(i) \in Cells
  /\ Cells = {CellAt(i) : i \in 1..LastCell}
  <1> DEFINE k == Len(Solution)
  <1>1. k \in Nat /\ k >= 2 /\ LastCell = 2 * k
    BY Solutions, Position
  <1>2. \A n \in 1..k : /\ CellAt(n) = <<"original", Solution[n]>>
                        /\ CellAt(k + n) = <<"repaired", Solution[n]>>
                        /\ Solution[n] \in Range(Solution)
    BY Position, Solutions
  <1>3. Range(Variant) = {"original", "repaired"}
    BY DEF Range, Variant
  <1>4. ASSUME NEW i \in 1..LastCell  PROVE CellAt(i) \in Cells
    <2>1. CASE i <= k
      BY <2>1, <1>1, <1>2, <1>3 DEF Cells
    <2>2. CASE i > k
      <3>1. i - k \in 1..k /\ k + (i - k) = i
        BY <2>2, <1>1
      <3>2. CellAt(k + (i - k)) = <<"repaired", Solution[i - k]>>
        BY <3>1, <1>2
      <3>3. CellAt(i) = CellAt(k + (i - k))
        BY <3>1
      <3>4. QED
        BY <3>1, <3>2, <3>3, <1>2, <1>3 DEF Cells
    <2>3. QED
      BY <2>1, <2>2, <1>1
  <1>5. ASSUME NEW c \in Cells  PROVE \E i \in 1..LastCell : c = CellAt(i)
    <2>1. PICK v \in {"original", "repaired"}, s \in Range(Solution) : c = <<v, s>>
      BY <1>3 DEF Cells
    <2>2. PICK n \in 1..k : s = Solution[n]
      BY Solutions
    <2>3. n \in 1..LastCell /\ k + n \in 1..LastCell
      BY <1>1
    <2>4. QED
      BY <1>2, <2>1, <2>2, <2>3
  <1>6. QED
    BY <1>1, <1>4, <1>5

-----------------------------------------------------------------------------
\* What build makes of a cell.

\* A base holds the patches of its variant and the files of the gold patch.
LEMMA Bases ==
  ASSUME world \in Worlds, container \in Tree, NEW v \in Range(Variant)
  PROVE  /\ Base(v) \in Tree /\ Base(v).files = world /\ Base(v).edits = {}
         /\ "variant" \in Base(v).patches <=> v = "repaired"
         /\ Base(v).kept = container.kept
  <1>1. world \in [File -> SUBSET Token]
    BY Config
  <1>2. QED
    BY <1>1 DEF Base, Tree

\* The rename raises, or it is whole and touches nothing but the files.
LEMMA Renames ==
  ASSUME NEW tree \in Tree, NEW searched \in BOOLEAN, Renamed(tree, searched) # None
  PROVE  /\ Renamed(tree, searched) \in Tree
         /\ Renamed(tree, searched).patches = tree.patches
         /\ Renamed(tree, searched).edits = tree.edits
         /\ Renamed(tree, searched).kept = tree.kept
         /\ \A f \in File :
              LET now == Renamed(tree, searched).files[f]
              IN /\ Renamed(tree, searched).searched \/ f \in Range(Listed) => "symbol" \notin now
                 /\ IF f \in Range(Listed) THEN "new" \in now \ tree.files[f]
                    ELSE now = tree.files[f]
                 /\ "longer" \in now <=> "longer" \in tree.files[f]
  <1> DEFINE files == [f \in File |-> IF f \in Range(Listed)
                                      THEN Sub(tree.files[f], "symbol", "new")
                                      ELSE tree.files[f]]
  <1>1. tree.files \in [File -> SUBSET Token]
    BY DEF Tree
  <1>2. \A S \in SUBSET Token : Sub(S, "symbol", "new") \in SUBSET Token
    BY DEF Sub, Token
  <1>3. files \in [File -> SUBSET Token]
    BY <1>1, <1>2
  <1>4. /\ Renamed(tree, searched) = [tree EXCEPT !.files = files, !.searched = searched]
        /\ \A f \in Range(Listed) : "symbol" \in tree.files[f] /\ RoundTrips(tree.files[f])
        /\ searched => Residue(files) = {}
    BY DEF Renamed
  <1>5. /\ Renamed(tree, searched) \in Tree /\ Renamed(tree, searched).files = files
        /\ Renamed(tree, searched).patches = tree.patches
        /\ Renamed(tree, searched).edits = tree.edits
        /\ Renamed(tree, searched).kept = tree.kept
        /\ Renamed(tree, searched).searched = searched
    BY <1>3, <1>4 DEF Tree
  <1>6. ASSUME NEW f \in File
        PROVE  /\ searched \/ f \in Range(Listed) => "symbol" \notin files[f]
               /\ IF f \in Range(Listed) THEN "new" \in files[f] \ tree.files[f]
                  ELSE files[f] = tree.files[f]
               /\ "longer" \in files[f] <=> "longer" \in tree.files[f]
    <2>1. searched => "symbol" \notin files[f]
      BY <1>4 DEF Residue
    <2>2. CASE f \in Range(Listed)
      <3>1. /\ "symbol" \in tree.files[f] /\ RoundTrips(tree.files[f])
            /\ files[f] = (tree.files[f] \ {"symbol"}) \cup {"new"}
        BY <1>4, <2>2 DEF Sub
      <3>2. "new" \notin tree.files[f]
        BY <3>1 DEF RoundTrips, Sub
      <3>3. QED
        BY <2>2, <3>1, <3>2
    <2>3. CASE f \notin Range(Listed)
      BY <2>1, <2>3
    <2>4. QED
      BY <2>2, <2>3
  <1>7. QED
    BY <1>5, <1>6

\* A cell that was built is its own: its variant's patches, one mutant in a mutant's
\* cell and none elsewhere, and in the renamed cell a whole rename.
OwnTree(c, tree) ==
  /\ tree \in Tree
  /\ tree.edits = {c[2]} \cap Range(Mutant)
  /\ "variant" \in tree.patches <=> c[1] = "repaired"
  /\ c[2] # "gold_renamed" => tree.files = world
  /\ c[2] = "gold_renamed" =>
       \A f \in File :
         /\ tree.searched \/ f \in Range(Listed) => "symbol" \notin tree.files[f]
         /\ IF f \in Range(Listed) THEN "new" \in tree.files[f] \ world[f]
            ELSE tree.files[f] = world[f]
         /\ "longer" \in tree.files[f] <=> "longer" \in world[f]

LEMMA Builds ==
  ASSUME world \in Worlds, container \in Tree, NEW c \in Cells, NEW searched \in BOOLEAN,
         Built(c[1], c[2], searched) # None
  PROVE  /\ OwnTree(c, Built(c[1], c[2], searched))
         /\ Built(c[1], c[2], searched).kept = container.kept
  <1>1. PICK v \in Range(Variant), s \in Range(Solution) : c = <<v, s>>
    BY DEF Cells
  <1> DEFINE b == Base(v)
  <1>2. /\ b \in Tree /\ b.files = world /\ b.edits = {}
        /\ "variant" \in b.patches <=> v = "repaired"
        /\ b.kept = container.kept
    BY Bases
  <1>3. c[1] = v /\ c[2] = s
    BY <1>1
  <1>4. Built(v, s, searched) # None
    BY <1>3
  <1>5. CASE s = "gold_renamed"
    <2>1. Built(v, s, searched) = Renamed(b, searched) /\ s \notin Range(Mutant)
      BY <1>5, Table DEF Built
    <2> HIDE DEF b
    <2>2. QED
      BY <1>2, <1>3, <1>4, <1>5, <2>1, Renames DEF OwnTree
  <1>6. CASE s \in Range(Mutant)
    <2>1. s # "gold_renamed" /\ Built(v, s, searched) = Edited(b, s)
      BY <1>6, Table DEF Built
    <2> HIDE DEF b
    <2>2. Built(v, s, searched) = [b EXCEPT !.edits = @ \cup {s}]
      BY <1>4, <2>1 DEF Edited
    <2>3. QED
      BY <1>2, <1>3, <1>6, <2>1, <2>2 DEF OwnTree, Tree
  <1>7. CASE s \notin Range(Mutant) /\ s # "gold_renamed"
    <2>1. Built(v, s, searched) = b
      BY <1>7 DEF Built
    <2> HIDE DEF b
    <2>2. QED
      BY <1>2, <1>3, <1>7, <2>1 DEF OwnTree
  <1>8. QED
    BY <1>5, <1>6, <1>7

-----------------------------------------------------------------------------
\* The inductive invariant.

GradedCell == [status : Statuses, names : BOOLEAN, tree : Tree]

Place ==
  /\ cell \in 1..LastCell /\ faults \in 0..FAULTS /\ image \in BOOLEAN
  /\ world \in Worlds /\ container \in Tree \cup {None}
  /\ pc \in {"build", "grade"} => container \in Tree /\ StartsFresh
  /\ verdict \in {None, "PASS", "FAIL"}

\* The loop's position against the matrix.
Filled ==
  /\ DOMAIN results \subseteq {CellAt(i) : i \in 1..cell}
  /\ pc \in {"build", "grade"} => \A i \in 1..(cell - 1) : CellAt(i) \in DOMAIN results
  /\ pc \in {"cleanup", "report", "done"} => DOMAIN results = Cells

\* The container about to be graded is the cell's, and so was every earlier one.
Own ==
  /\ pc = "grade" => OwnTree(CellAt(cell), container)
  /\ \A c \in DOMAIN results : results[c] \in GradedCell /\ OwnTree(c, results[c].tree)

Concluded ==
  /\ verdict # None => pc = "done"
  /\ verdict = "PASS" => C1 /\ G1 /\ \A m \in Range(Mutant) : C2(m) /\ C3(m)

Clean == pc \in {"report", "done", "failed"} => container = None /\ ~image

IInv == Place /\ Filled /\ Own /\ Concluded /\ Clean

LEMMA Initial == Init => IInv
  <1> SUFFICES ASSUME Init PROVE IInv
    OBVIOUS
  <1>1. Place
    <2>1. 1 \in 1..LastCell /\ 0 \in 0..FAULTS
      BY Matrix, Config
    <2>2. QED
      BY <2>1 DEF Init, Place
  <1>2. DOMAIN results = {}
    BY DEF Init, Nowhere
  <1>3. Filled /\ Own
    BY <1>2 DEF Init, Filled, Own
  <1>4. Concluded /\ Clean
    BY Config DEF Init, Concluded, Clean
  <1>5. QED
    BY <1>1, <1>3, <1>4 DEF IInv

LEMMA Inductive == IInv /\ [Next]_vars => IInv'
  <1> SUFFICES ASSUME IInv, [Next]_vars PROVE IInv'
    OBVIOUS
  <1> USE DEF IInv
  <1>1. CASE Start
    <2>1. Place'
      <3>1. world \in [File -> SUBSET Token] /\ 1 \in 1..LastCell
        BY Matrix, Config DEF Place
      <3>2. container' \in Tree /\ StartsFresh'
        BY <1>1, <3>1 DEF Start, Place, Tree, StartsFresh
      <3>3. QED
        BY <1>1, <3>1, <3>2 DEF Start, Place
    <2>2. DOMAIN results' = {} /\ cell' = 1 /\ pc' = "build"
      BY <1>1 DEF Start, Nowhere
    <2>3. Filled' /\ Own'
      BY <2>2 DEF Filled, Own
    <2>4. Concluded' /\ Clean'
      BY <1>1, Config DEF Start, Concluded, Clean
    <2>5. QED
      BY <2>1, <2>3, <2>4
  <1>2. CASE StartFails
    <2>1. Place'
      <3>1. image' \in {image, TRUE} /\ image \in BOOLEAN
        BY <1>2 DEF StartFails, Place
      <3>2. image' \in BOOLEAN
        BY <3>1, Zenon
      <3>3. QED
        BY <1>2, <3>2, Config DEF StartFails, Place
    <2>2. Filled' /\ Own'
      BY <1>2 DEF StartFails, Filled, Own, OwnTree
    <2>3. Concluded' /\ Clean'
      BY <1>2, Config DEF StartFails, Concluded, Clean
    <2>4. QED
      BY <2>1, <2>2, <2>3
  <1>3. CASE Build
    <2>0. PICK searched \in BOOLEAN :
            /\ ~searched => faults < FAULTS
            /\ faults' = IF searched THEN faults ELSE faults + 1
            /\ LET tree == Built(AtCell[1], AtCell[2], searched)
               IN IF tree = None THEN pc' = "raised" /\ UNCHANGED container
                  ELSE pc' = "grade" /\ container' = tree
      BY <1>3 DEF Build
    <2> DEFINE tree == Built(AtCell[1], AtCell[2], searched)
    <2>1. AtCell = CellAt(cell) /\ AtCell \in Cells /\ container \in Tree /\ pc = "build"
      BY <1>3, Matrix DEF AtCell, CellAt, Place, Build
    <2>2. tree # None => OwnTree(CellAt(cell), tree) /\ tree.kept = container.kept
      BY <2>1, Builds DEF Place
    <2>3. /\ pc' \in {"raised", "grade"} /\ pc = "build"
          /\ IF tree = None THEN pc' = "raised" /\ container' = container
             ELSE pc' = "grade" /\ container' = tree
          /\ UNCHANGED <<world, anchors, cell, image, results, verdict>>
      BY <1>3, <2>0 DEF Build
    <2>4. faults' \in 0..FAULTS
      BY <2>0, Config DEF Place
    <2> HIDE DEF tree
    <2>5. Place'
      BY <2>2, <2>3, <2>4 DEF Place, OwnTree, StartsFresh
    <2>6. Filled'
      BY <2>3 DEF Filled
    <2>7. Own'
      BY <2>2, <2>3 DEF Own, OwnTree, CellAt
    <2>8. Concluded' /\ Clean'
      BY <2>3, Config DEF Concluded, Clean
    <2>9. QED
      BY <2>5, <2>6, <2>7, <2>8
  <1>4. CASE Grade
    <2>1. /\ AtCell = CellAt(cell) /\ AtCell \in Cells
          /\ AtCell[2] \in Range(Solution)
      BY Matrix DEF AtCell, CellAt, Place, Cells
    <2>2. PICK g \in [status : Statuses, names : BOOLEAN] :
            results' = [c \in DOMAIN results \cup {AtCell} |->
                          IF c = AtCell THEN [status |-> g.status, names |-> g.names,
                                              tree |-> container]
                          ELSE results[c]]
      <3>1. Gradings[AtCell[2]] \subseteq [status : Statuses, names : BOOLEAN]
        BY <2>1, Ends
      <3>2. QED
        BY <1>4, <3>1 DEF Grade
    <2>3. /\ pc = "grade" /\ OwnTree(AtCell, container)
          /\ UNCHANGED <<world, anchors, image, verdict, faults>>
          /\ IF cell = LastCell THEN pc' = "cleanup" /\ cell' = cell
             ELSE pc' = "build" /\ cell' = cell + 1
      BY <1>4, <2>1 DEF Grade, Own
    <2>10. container' \in Tree
      BY <1>4, <2>3 DEF Grade, OwnTree, Tree
    <2>4. Place'
      BY <2>3, <2>10, Matrix DEF Place, StartsFresh
    <2>5. DOMAIN results' = DOMAIN results \cup {CellAt(cell)}
      BY <2>1, <2>2
    <2>6. Filled'
      <3>1. cell \in 1..LastCell /\ LastCell \in Nat
        BY Matrix DEF Place
      <3>2. \A i \in 1..cell : CellAt(i) \in DOMAIN results'
        BY <2>3, <2>5, <3>1 DEF Filled
      <3>3. DOMAIN results' \subseteq {CellAt(i) : i \in 1..cell}
        BY <2>5, <3>1 DEF Filled
      <3>4. CASE cell = LastCell
        <4>1. Cells \subseteq DOMAIN results' /\ DOMAIN results' \subseteq Cells
          BY <3>2, <3>3, <3>4, Matrix
        <4>2. pc' = "cleanup" /\ cell' = cell
          BY <2>3, <3>4
        <4>3. QED
          BY <3>3, <4>1, <4>2 DEF Filled
      <3>5. CASE cell # LastCell
        <4>1. pc' = "build" /\ cell' = cell + 1
          BY <2>3, <3>5
        <4>2. 1..(cell' - 1) = 1..cell /\ 1..cell \subseteq 1..cell'
          BY <3>1, <4>1
        <4>3. QED
          BY <3>2, <3>3, <4>1, <4>2 DEF Filled
      <3>6. QED
        BY <3>4, <3>5
    <2>7. Own'
      <3>1. results'[AtCell] \in GradedCell /\ results'[AtCell].tree = container
        BY <2>2, <2>3 DEF GradedCell, OwnTree
      <3>2. \A c \in DOMAIN results \ {AtCell} : results'[c] = results[c]
        BY <2>2
      <3>3. \A c \in DOMAIN results' : results'[c] \in GradedCell /\ OwnTree(c, results'[c].tree)
        BY <2>1, <2>3, <2>5, <3>1, <3>2 DEF Own
      <3>4. QED
        BY <2>3, <3>3 DEF Own, OwnTree
    <2>8. Concluded' /\ Clean'
      BY <2>3, Config DEF Concluded, Clean
    <2>9. QED
      BY <2>4, <2>6, <2>7, <2>8
  <1>5. CASE Raise
    <2>1. Place'
      BY <1>5, Config DEF Raise, Place
    <2>2. Filled' /\ Own'
      BY <1>5 DEF Raise, Filled, Own, OwnTree
    <2>3. Concluded' /\ Clean'
      BY <1>5, Config DEF Raise, Concluded, Clean
    <2>4. QED
      BY <2>1, <2>2, <2>3
  <1>6. CASE Cleanup
    <2>1. Place'
      BY <1>6 DEF Cleanup, Place
    <2>2. Filled' /\ Own'
      BY <1>6 DEF Cleanup, Filled, Own, OwnTree
    <2>3. Concluded' /\ Clean'
      BY <1>6, Config DEF Cleanup, Concluded, Clean
    <2>4. QED
      BY <2>1, <2>2, <2>3
  <1>7. CASE Report
    <2>1. Place'
      BY <1>7 DEF Report, Place
    <2>2. Filled' /\ Own'
      BY <1>7 DEF Report, Filled, Own, OwnTree
    <2>3. Concluded' /\ Clean'
      BY <1>7 DEF Report, Concluded, Clean, C1, G1, C2, C3, On
    <2>4. QED
      BY <2>1, <2>2, <2>3
  <1>8. CASE Kill
    <2>1. Place'
      BY <1>8, Config DEF Kill, Place
    <2>2. Filled' /\ Own'
      BY <1>8 DEF Kill, Filled, Own, OwnTree
    <2>3. Concluded' /\ Clean'
      BY <1>8, Config DEF Kill, Concluded, Clean
    <2>4. QED
      BY <2>1, <2>2, <2>3
  <1>9. CASE UNCHANGED vars
    <2>1. Place' /\ Filled' /\ Own' /\ Clean'
      BY <1>9 DEF vars, Place, StartsFresh, Filled, Own, OwnTree, Clean
    <2>2. Concluded'
      BY <1>9 DEF vars, Concluded, C1, G1, C2, C3, On
    <2>3. QED
      BY <2>1, <2>2
  <1>10. QED
    BY <1>1, <1>2, <1>3, <1>4, <1>5, <1>6, <1>7, <1>8, <1>9 DEF Next

\* The loop's position, the container and the matrix agree, whatever raises (run).
THEOREM Invariance == Spec => []IInv
  BY Initial, Inductive, PTL DEF Spec

-----------------------------------------------------------------------------
\* What the invariant says of the matrix and of the verdict.

\* There are no more cells than positions passed.
LEMMA Counted == IInv => Cardinality(DOMAIN results) <= cell
  <1> SUFFICES ASSUME IInv PROVE Cardinality(DOMAIN results) <= cell
    OBVIOUS
  <1> DEFINE S == {i \in 1..cell : CellAt(i) \in DOMAIN results}
             f == [i \in S |-> CellAt(i)]
  <1>1. cell \in Nat
    BY Matrix DEF IInv, Place
  <1>2. IsFiniteSet(1..cell) /\ Cardinality(1..cell) = cell
    BY <1>1, FS_Interval
  <1>3. IsFiniteSet(S) /\ Cardinality(S) <= cell
    BY <1>2, FS_Subset
  <1>4. f \in Surjection(S, DOMAIN results)
    BY DEF IInv, Filled, Surjection
  <1> HIDE DEF f, S
  <1>5. IsFiniteSet(DOMAIN results) /\ Cardinality(DOMAIN results) <= Cardinality(S)
    BY <1>3, <1>4, FS_Surjection
  <1>6. QED
    BY <1>1, <1>3, <1>5, FS_CardinalityType

\* If as many tests are present as there are, all are.
LEMMA AllPresent ==
  ASSUME NEW r, NEW g, r.status \in Statuses,
         \A t \in Graded : g.status[t] # "absent", Present(r) >= Present(g)
  PROVE  \A t \in Graded : r.status[t] # "absent"
  <1> DEFINE S == {t \in Graded : r.status[t] # "absent"}
  <1>1. {t \in Graded : g.status[t] # "absent"} = Graded
    OBVIOUS
  <1>2. Cardinality(S) >= Cardinality(Graded)
    BY <1>1 DEF Present
  <1>3. /\ IsFiniteSet(S) /\ Cardinality(S) <= Cardinality(Graded)
        /\ Cardinality(Graded) = Cardinality(S) => Graded = S
    BY Config, FS_Subset
  <1>4. Cardinality(S) \in Nat /\ Cardinality(Graded) \in Nat
    BY <1>3, Config, FS_CardinalityType
  <1> HIDE DEF S
  <1>5. Graded = S
    BY <1>2, <1>3, <1>4
  <1>6. QED
    BY <1>5 DEF S

\* Whatever was in the container before, every cell was graded on the tree its name
\* promises (build, edit, and the rename's guards, gate.py).
THEOREM CellSoundness == Spec => []CellsAreSound
  <1>1. IInv => CellsAreSound
    <2> SUFFICES ASSUME IInv PROVE CellsAreSound
      OBVIOUS
    <2>1. DOMAIN results \subseteq Cells
      BY Matrix DEF IInv, Place, Filled
    <2>2. \A c \in DOMAIN results : results[c] \in GradedCell /\ OwnTree(c, results[c].tree)
      BY DEF IInv, Own
    <2>3. TypeOK
      BY <2>1, <2>2, Counted DEF IInv, Place, TypeOK, GradedCell
    <2>4. CellsAreTheirOwn
      BY <2>2 DEF CellsAreTheirOwn, OwnTree
    <2>5. RenameIsWhole
      BY <2>2 DEF RenameIsWhole, OwnTree
    <2>6. StartsFresh
      BY DEF IInv, Place, StartsFresh
    <2>7. QED
      BY <2>3, <2>4, <2>5, <2>6 DEF CellsAreSound
  <1>2. QED
    BY <1>1, Invariance, PTL

\* A verdict is of the whole matrix; PASS says that a graded test that ran rejects each
\* mutant and that no detection of the original was given up (C1 to C3, gate.py).
THEOREM PassSoundness == Spec => []PassIsEarned
  <1>1. IInv => PassIsEarned
    <2> SUFFICES ASSUME IInv PROVE PassIsEarned
      OBVIOUS
    <2>1. VerdictOnWholeMatrix
      BY DEF IInv, Filled, Concluded, VerdictOnWholeMatrix
    <2>2. ASSUME verdict = "PASS", NEW m \in Range(Mutant), NEW v \in Range(Variant)
          PROVE  /\ On(v, m).status \in Statuses /\ On(v, "gold").status \in Statuses
                 /\ C2(m) /\ C3(m) /\ G1
      <3>1. <<v, m>> \in DOMAIN results /\ <<v, "gold">> \in DOMAIN results
        BY <2>1, <2>2, Solutions, Config DEF VerdictOnWholeMatrix, Cells
      <3>2. QED
        BY <2>2, <3>1 DEF IInv, Own, Concluded, On, GradedCell, Range, Variant
    <2>3. {"original", "repaired"} = Range(Variant)
      BY DEF Range, Variant
    <2>4. PassMeansDetected
      <3> SUFFICES ASSUME verdict = "PASS", NEW m \in Range(Mutant)
                   PROVE  /\ \E t \in Graded : /\ On("repaired", m).status[t] = "failed"
                                               /\ On("repaired", "gold").status[t] = "passed"
                          /\ \A t \in Graded : On("repaired", m).status[t] # "absent"
                          /\ ~On("repaired", m).names /\ ~On("original", m).names
        BY DEF PassMeansDetected
      <3>1. /\ On("repaired", m).status \in Statuses /\ C2(m) /\ G1
        BY <2>2, <2>3
      <3>2. \A t \in Graded : On("repaired", "gold").status[t] = "passed"
        BY <3>1 DEF G1, Reward
      <3>3. \A t \in Graded : On("repaired", m).status[t] # "absent"
        BY <3>1, <3>2, AllPresent DEF C2
      <3>4. PICK t \in Graded : On("repaired", m).status[t] # "passed"
        BY <3>1 DEF C2, Reward
      <3>5. On("repaired", m).status[t] = "failed"
        BY <3>1, <3>3, <3>4 DEF Statuses
      <3>6. ~On("repaired", m).names /\ ~On("original", m).names
        BY <2>3, <3>1 DEF C2
      <3>7. QED
        BY <3>2, <3>3, <3>4, <3>5, <3>6
    <2>5. PassKeepsDetection
      <3> SUFFICES ASSUME verdict = "PASS", NEW m \in Range(Mutant), NEW t \in Graded,
                          On("original", m).status[t] # "passed"
                   PROVE  On("repaired", m).status[t] # "passed"
        BY DEF PassKeepsDetection
      <3>1. C3(m)
        BY <2>2, <2>3
      <3>2. QED
        BY <3>1 DEF C3, FailingIds
    <2>6. QED
      BY <2>1, <2>4, <2>5 DEF PassIsEarned
  <1>2. QED
    BY <1>1, Invariance, PTL

\* However a run ends that was not killed, no container and no image stay (the finally).
THEOREM CleanEnd == Spec => []LeavesNothing
  <1>1. IInv => LeavesNothing
    BY DEF IInv, Clean, LeavesNothing
  <1>2. QED
    BY <1>1, Invariance, PTL
=============================================================================
