------------------------------- MODULE RepairGate -------------------------------
(***************************************************************************)
(* repair/gate.py: is a repaired test decoupled from a name (C1) and still *)
(* as sharp as the original (C2, C3)?  Every solution, the gold patch, the *)
(* renamed gold and the behavioural mutants, is graded against every test  *)
(* variant in one container, cell by cell, each on a tree built from the   *)
(* base; the verdict is read off the whole matrix.                         *)
(*                                                                         *)
(* A production file is the set of tokens it holds: the symbol, a longer   *)
(* identifier that contains it, the new name.  A call may raise, the gate  *)
(* may be killed and started again.                                        *)
(***************************************************************************)
EXTENDS Integers, Sequences, FiniteSets, SequencesExt

CONSTANTS
  Mutant,      \* the behavioural mutants, in order
  File,        \* production files
  Listed,      \* the files the config's rename lists, in order
  Worlds,      \* what the files hold: set of [File -> SUBSET Token]
  Anchors,     \* how often a mutant's anchor may occur in the target: set of functions
  Graded,      \* graded tests
  Gradings,    \* of each solution, what its runs may end in
  FAULTS,      \* bound: calls that raise, and kills
  None

Token    == {"symbol", "longer", "new"}
Statuses == [Graded -> {"absent", "passed", "failed"}]
Solution == <<"gold", "gold_renamed">> \o Mutant
Variant  == <<"original", "repaired">>
Cells    == Range(Variant) \X Range(Solution)

ASSUME Config == /\ Listed \in Seq(File) /\ Worlds \subseteq [File -> SUBSET Token]
                 /\ Anchors \subseteq [Range(Mutant) -> Nat] /\ FAULTS \in Nat
                 /\ IsFiniteSet(Graded) /\ None \notin {"PASS", "FAIL"}
\* The mutants are the keys of a table that does not hold the two other solutions.
ASSUME Table  == /\ Mutant \in Seq(Range(Mutant))
                 /\ {"gold", "gold_renamed"} \cap Range(Mutant) = {}
ASSUME Ends == \A s \in Range(Solution) :
                 Gradings[s] \subseteq [status : Statuses, names : BOOLEAN]

VARIABLES
  pc,          \* "idle", "build", "grade", "cleanup", "report" or how it ended
  world,       \* the production files under the gold patch
  anchors,     \* occurrences of the mutants' anchors
  cell,        \* position in the matrix
  container,   \* the tree in the container
  image,       \* is the image on the host
  results,     \* the graded cells
  verdict,     \* what report returned
  faults

vars == <<pc, world, anchors, cell, container, image, results, verdict, faults>>

AtCell   == <<Variant[((cell - 1) \div Len(Solution)) + 1],
              Solution[((cell - 1) % Len(Solution)) + 1]>>
LastCell == Len(Variant) * Len(Solution)

-----------------------------------------------------------------------------
\* build.

\* checkout and clean, tests.diff, the variant's diff, gold.diff.  What the clean leaves
\* is what git ignores: it is kept from the runs of earlier cells.
Base(test) ==
  [patches |-> {"tests", "gold"} \cup (IF test = "repaired" THEN {"variant"} ELSE {}),
   files |-> world, edits |-> {}, searched |-> TRUE, kept |-> container.kept]

\* Substitution of one name by another on word boundaries.
Sub(S, old, new) == IF old \in S THEN (S \ {old}) \cup {new} ELSE S

RoundTrips(S) == Sub(Sub(S, "symbol", "new"), "new", "symbol") = S

\* The listed files renamed, or None for a raise: the anchor is missing in one, the
\* rename does not round-trip, or a file that is not listed still has the symbol.  The
\* search for the last is run without check: where its docker exec fails, nothing is found.
Residue_None(files) == {}
Residue(files) == {f \in File : "symbol" \in files[f]}
Renamed(tree, searched) ==
  LET files == [f \in File |-> IF f \in Range(Listed) THEN Sub(tree.files[f], "symbol", "new")
                               ELSE tree.files[f]]
  IN IF /\ \A f \in Range(Listed) : "symbol" \in tree.files[f] /\ RoundTrips(tree.files[f])
        /\ searched => Residue(files) = {}
       THEN [tree EXCEPT !.files = files, !.searched = searched] ELSE None

\* edit: one replacement at the only place the anchor occurs, or a raise.
Edited(tree, m) ==
  IF anchors[m] = 1 THEN [tree EXCEPT !.edits = @ \cup {m}] ELSE None

Built(test, solution, searched) ==
  IF solution = "gold_renamed" THEN Renamed(Base(test), searched)
  ELSE IF solution \in Range(Mutant) THEN Edited(Base(test), solution)
  ELSE Base(test)

-----------------------------------------------------------------------------
Nowhere == [c \in {} |-> None]

Init ==
  /\ pc = "idle" /\ world \in Worlds /\ anchors \in Anchors
  /\ cell = 1 /\ container = None /\ image = FALSE
  /\ results = Nowhere /\ verdict = None /\ faults = 0

\* run: docker rm -f of a leftover, docker run.
Start ==
  /\ pc \in {"idle", "killed", "unstarted"}
  /\ container' = [patches |-> {}, files |-> world, edits |-> {}, searched |-> TRUE,
                   kept |-> FALSE]
  /\ image' = TRUE /\ cell' = 1 /\ results' = Nowhere /\ pc' = "build"
  /\ UNCHANGED <<world, anchors, verdict, faults>>

\* docker run fails, before the try: the image may be there, no finally removes it.
StartFails ==
  /\ pc \in {"idle", "killed"} /\ faults < FAULTS /\ faults' = faults + 1
  /\ container' = None /\ image' \in {image, TRUE}
  /\ pc' = "unstarted"
  /\ UNCHANGED <<world, anchors, cell, results, verdict>>

Build ==
  /\ pc = "build"
  /\ \E searched \in BOOLEAN :
       /\ ~searched => AtCell[2] = "gold_renamed" /\ faults < FAULTS
       /\ faults' = IF searched THEN faults ELSE faults + 1
       /\ LET tree == Built(AtCell[1], AtCell[2], searched)
          IN IF tree = None THEN pc' = "raised" /\ UNCHANGED container
             ELSE pc' = "grade" /\ container' = tree
  /\ UNCHANGED <<world, anchors, cell, image, results, verdict>>

\* graded, whose run may leave files git ignores, and the cell's entry; the tree is in it
\* for the properties.
Grade ==
  /\ pc = "grade"
  /\ \E more \in BOOLEAN : container' = [container EXCEPT !.kept = @ \/ more]
  /\ \E g \in Gradings[AtCell[2]] :
       results' = [c \in DOMAIN results \cup {AtCell} |->
                     IF c = AtCell THEN [status |-> g.status, names |-> g.names,
                                         tree |-> container]
                     ELSE results[c]]
  /\ IF cell = LastCell THEN pc' = "cleanup" /\ UNCHANGED cell
     ELSE pc' = "build" /\ cell' = cell + 1
  /\ UNCHANGED <<world, anchors, image, verdict, faults>>

\* docker exec, put or git apply raises.
Raise ==
  /\ pc \in {"build", "grade"} /\ faults < FAULTS /\ faults' = faults + 1
  /\ pc' = "raised"
  /\ UNCHANGED <<world, anchors, cell, container, image, results, verdict>>

\* The finally, then the exception goes on or the matrix is reported.
Cleanup_NoFinally ==
  /\ pc \in {"raised", "cleanup"}
  /\ IF pc = "raised" THEN pc' = "failed" /\ UNCHANGED <<container, image>>
     ELSE pc' = "report" /\ container' = None /\ image' = FALSE
  /\ UNCHANGED <<world, anchors, cell, results, verdict, faults>>
Cleanup ==
  /\ pc \in {"raised", "cleanup"}
  /\ container' = None /\ image' = FALSE
  /\ pc' = IF pc = "raised" THEN "failed" ELSE "report"
  /\ UNCHANGED <<world, anchors, cell, results, verdict, faults>>

\* report.
Reward(r)   == IF \A t \in Graded : r.status[t] = "passed" THEN 1 ELSE 0
Present(r)  == Cardinality({t \in Graded : r.status[t] # "absent"})
FailingIds(r) == {t \in Graded : r.status[t] # "passed"}
On(v, s)    == results[<<v, s>>]

C1 == Reward(On("repaired", "gold_renamed")) = 1
G1 == Reward(On("repaired", "gold")) = 1
C2_Rewards(m) == Reward(On("repaired", m)) = 0
C2(m) ==
  /\ Reward(On("repaired", m)) = 0
  /\ \A v \in Range(Variant) : ~On(v, m).names
  /\ Present(On("repaired", m)) >= Present(On("repaired", "gold"))
C3(m) == FailingIds(On("original", m)) = FailingIds(On("repaired", m))

Report ==
  /\ pc = "report"
  /\ verdict' = IF C1 /\ G1 /\ \A m \in Range(Mutant) : C2(m) /\ C3(m) THEN "PASS" ELSE "FAIL"
  /\ pc' = "done"
  /\ UNCHANGED <<world, anchors, cell, container, image, results, faults>>

Kill ==
  /\ pc \in {"build", "grade", "cleanup", "report", "raised"}
  /\ faults < FAULTS /\ faults' = faults + 1
  /\ pc' = "killed"
  /\ UNCHANGED <<world, anchors, cell, container, image, results, verdict>>

Next == Start \/ StartFails \/ Build \/ Grade \/ Raise \/ Cleanup \/ Report \/ Kill
Spec == Init /\ [][Next]_vars

-----------------------------------------------------------------------------
Tree == [patches : SUBSET {"tests", "variant", "gold"}, files : [File -> SUBSET Token],
         edits : SUBSET Range(Mutant), searched : BOOLEAN, kept : BOOLEAN]

\* Types; and no cell is graded before its predecessors.
TypeOK ==
  /\ cell \in 1..LastCell /\ faults \in 0..FAULTS /\ image \in BOOLEAN
  /\ container \in Tree \cup {None}
  /\ \A c \in DOMAIN results :
       c \in Cells /\ results[c] \in [status : Statuses, names : BOOLEAN, tree : Tree]
  /\ verdict \in {None, "PASS", "FAIL"}
  /\ Cardinality(DOMAIN results) <= cell

\* Every cell was graded on the tree its name promises, whatever was built in the
\* container before: one mutant in a mutant's cell, none elsewhere (build, edit).
CellsAreTheirOwn ==
  \A c \in DOMAIN results :
    /\ results[c].tree.edits = {c[2]} \cap Range(Mutant)
    /\ "variant" \in results[c].tree.patches <=> c[1] = "repaired"
    /\ c[2] # "gold_renamed" => results[c].tree.files = world

\* A renamed cell was graded on an alpha-rename of the whole library: no production
\* file keeps the symbol if the search for one was run, no listed file does or held the
\* new name before, longer identifiers and the files that are not listed stay (build;
\* they are not searched for the new name).
RenameIsWhole ==
  \A c \in DOMAIN results :
    c[2] = "gold_renamed" =>
      \A f \in File :
        LET now == results[c].tree.files[f]
        IN /\ results[c].tree.searched \/ f \in Range(Listed) => "symbol" \notin now
           /\ IF f \in Range(Listed) THEN "new" \in now \ world[f] ELSE now = world[f]
           /\ "longer" \in now <=> "longer" \in world[f]

\* What git ignores stays from cell to cell, but none of it from an earlier gate (run).
StartsFresh == cell = 1 /\ pc \in {"build", "grade"} => ~container.kept

\* Whatever came before it in the container, a cell is graded on its own tree, the files
\* git ignores apart.
CellsAreSound == TypeOK /\ CellsAreTheirOwn /\ RenameIsWhole /\ StartsFresh

\* PASS says that each mutant is rejected by a test that ran and that the gold patch
\* passes, not by a module that did not load, and not by naming the symbol (C2, G1).
PassMeansDetected ==
  verdict = "PASS" =>
    \A m \in Range(Mutant) :
      /\ \E t \in Graded : /\ On("repaired", m).status[t] = "failed"
                           /\ On("repaired", "gold").status[t] = "passed"
      /\ \A t \in Graded : On("repaired", m).status[t] # "absent"
      /\ ~On("repaired", m).names /\ ~On("original", m).names

\* PASS says that the repair gave up nothing: test by test, what the original
\* variant rejects in a mutant the repaired one rejects too (C3).
PassKeepsDetection ==
  verdict = "PASS" =>
    \A m \in Range(Mutant), t \in Graded :
      On("original", m).status[t] # "passed" => On("repaired", m).status[t] # "passed"

\* There is no verdict without the whole matrix: an exception or a kill between two
\* cells leaves none (run).
VerdictOnWholeMatrix == verdict # None => DOMAIN results = Cells

\* A verdict is of the whole matrix, and PASS of a repair that detects what the
\* original detected (report).
PassIsEarned == VerdictOnWholeMatrix /\ PassMeansDetected /\ PassKeepsDetection

\* Once the gate has ended, by a verdict or by an exception, docker is clean, also
\* after earlier runs that were killed (run's rm -f, its finally).
LeavesNothing == pc \in {"done", "failed"} => container = None /\ ~image
=============================================================================
