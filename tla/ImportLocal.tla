------------------------------ MODULE ImportLocal ------------------------------
(***************************************************************************)
(* repair/scan/import_local_run.py: for every (task, symbol) whose tests   *)
(* all failed, the symbol's import is moved from the test module into the  *)
(* functions that use it, and the task is graded again: once with the      *)
(* rename alone, as a control, once with both.  The rows are written after *)
(* every pair; a run that is started again goes on behind them.            *)
(*                                                                         *)
(* One container and one image at a time; a call to docker may raise, the  *)
(* process may be killed at any point.  A tree is what is applied to it; a *)
(* grading is what became of each graded test, and is not a function of    *)
(* the tree (tests may be flaky).                                          *)
(***************************************************************************)
EXTENDS Integers, Sequences, FiniteSets, SequencesExt

CONSTANTS
  Pair,        \* (task, symbol)
  Witnesses,   \* all_fail_witnesses: pairs in the order of the records, with repeats
  TaskOf,      \* the task of a pair
  Modules,     \* of each pair, the shapes of the test files that name its symbol
  Graded,      \* graded tests
  FAULTS,      \* bound: calls that raise, and kills
  None, Torn

ASSUME Input == Witnesses \in Seq(Pair) /\ FAULTS \in Nat /\ IsFiniteSet(Graded)

\* A test file: does it import the symbol at module scope, where is it used.
\* A use in a default of a parameter lies within the lines of its function.
Uses   == {"body", "default", "oneline", "module"}
Module == [imported : BOOLEAN, uses : SUBSET Uses]
ASSUME Shapes == \A p \in Pair : Modules[p] \subseteq Module

Endings  == {"absent", "passed", "names", "silent"}   \* its failure block names the symbol, or not
Gradings == [Graded -> Endings]
Trees    == [patched : BOOLEAN, local : BOOLEAN, renamed : BOOLEAN]
ASSUME Outside == None \notin [tree : Trees, grading : Gradings]
Bad      == {"control_did_not_reproduce", "error", "recovery_zero_defect"}
Outcomes == Bad \cup {"not_applicable", "measured", "helper_coupled"}

VARIABLES
  pc,          \* where the process is
  at,          \* position in Witnesses
  done,        \* pairs that are not run (again)
  rows,        \* the rows in memory
  out,         \* import_local_run.json
  row,         \* the row under way, with the gradings it rests on
  container,   \* the tree of the one container, of the task it runs
  images,      \* tasks whose image is on the host
  kept,        \* history: the last whole contents of out
  begun,       \* history: how many rows this invocation took over
  unstarted,   \* history: tasks whose docker run failed
  faults

docker == <<container, images>>
vars   == <<pc, at, done, rows, out, row, docker, kept, begun, unstarted, faults>>

Reported(g) == {t \in Graded : g[t] # "absent"}
Failing(g)  == {t \in Graded : g[t] # "passed"}

-----------------------------------------------------------------------------
\* import_local: moved, not applicable, or no longer Python (the import goes to
\* the column of the first statement, also when that is on the line of the def).
MoveImport(m) ==
  IF ~m.imported \/ "module" \in m.uses \/ m.uses = {} THEN "not_applicable"
  ELSE IF "oneline" \in m.uses THEN "syntax_error" ELSE "moved"

\* rename_everywhere: all production files, or it raises (nothing to rename, not an
\* alpha-rename, residue).
Rename(tree) == [tree EXCEPT !.renamed = TRUE]

\* classify_zero: four checks, of which two are that the rename did not raise.
ClassifyZero(g) ==
  IF Reported(g) # {} /\ \A t \in Graded : g[t] = "names"
    THEN "helper_coupled" ELSE "recovery_zero_defect"

Blank(p) == [pair |-> p, outcome |-> "error", control |-> None, measured |-> None]

Init ==
  /\ pc = "idle" /\ at = 1 /\ done = {} /\ rows = <<>> /\ out = None /\ row = None
  /\ container = None /\ images = {} /\ kept = <<>> /\ begun = 0 /\ unstarted = {} /\ faults = 0

\* Start, and start again: the rows of the file are taken over; a torn file ends it.
Start_Fresh ==
  /\ pc \in {"idle", "killed", "exit1"}
  /\ pc' = "pick" /\ at' = 1 /\ rows' = <<>> /\ done' = {}
  /\ begun' = 0
  /\ UNCHANGED <<out, row, docker, kept, unstarted, faults>>
Start ==
  /\ pc \in {"idle", "killed", "exit1"}
  /\ IF out = Torn
       THEN pc' = "broken" /\ UNCHANGED <<at, done, rows, begun>>
       ELSE /\ pc' = "pick" /\ at' = 1
            /\ rows' = (IF out = None THEN <<>> ELSE out)
            /\ done' = {rows'[i].pair : i \in DOMAIN rows'}
            /\ begun' = Len(rows')
  /\ UNCHANGED <<out, row, docker, kept, unstarted, faults>>

Pick ==
  /\ pc = "pick"
  /\ IF at > Len(Witnesses) THEN pc' = "exit0" /\ UNCHANGED <<at, done, row>>
     ELSE /\ at' = at + 1
          /\ done' = done \cup {Witnesses[at]}
          /\ IF Witnesses[at] \in done THEN UNCHANGED <<pc, row>>
             ELSE pc' = "run" /\ row' = Blank(Witnesses[at])
  /\ UNCHANGED <<rows, out, docker, kept, begun, unstarted, faults>>

-----------------------------------------------------------------------------
\* run_task.

Task == TaskOf[row.pair]
Pristine == [patched |-> FALSE, local |-> FALSE, renamed |-> FALSE]

\* docker rm -f of a leftover, docker run of the image.
Run ==
  /\ pc = "run"
  /\ container' = [task |-> Task, tree |-> Pristine]
  /\ images' = images \cup {Task}
  /\ pc' = "prepare"
  /\ UNCHANGED <<at, done, rows, out, row, kept, begun, unstarted, faults>>

\* docker run fails, before the try: no finally; the image may have been pulled and
\* the container created.
RunFails ==
  /\ pc = "run" /\ faults < FAULTS /\ faults' = faults + 1
  /\ \/ container' = None /\ UNCHANGED images
     \/ container' \in {None, [task |-> Task, tree |-> Pristine]}
        /\ images' = images \cup {Task}
  /\ unstarted' = unstarted \cup {Task}
  /\ pc' = "record"
  /\ UNCHANGED <<at, done, rows, out, row, kept, begun>>

\* reset: the checkout, cleaned, with tests.diff and gold.diff and, if given, the
\* moved imports.
Reset_Stale(local) == [container.tree EXCEPT !.patched = TRUE, !.renamed = FALSE]
Reset(local) == [patched |-> TRUE, local |-> local, renamed |-> FALSE]

Finish(outcome) == row' = [row EXCEPT !.outcome = outcome] /\ pc' = "finally"

\* Which test files name the symbol, and can the import be moved in all of them.
Prepare ==
  /\ pc = "prepare"
  /\ container' = [container EXCEPT !.tree = Reset(FALSE)]
  /\ IF Modules[row.pair] # {} /\ \A m \in Modules[row.pair] : MoveImport(m) = "moved"
       THEN pc' = "control" /\ UNCHANGED row
       ELSE Finish("not_applicable")
  /\ UNCHANGED <<at, done, rows, out, images, kept, begun, unstarted, faults>>

\* One grading: reset, rename, run the graded tests.  container' is the tree
\* it is of; g what became of the tests.
Grade(local, g) ==
  /\ container' = [container EXCEPT !.tree = Rename(Reset(local))]
  /\ g \in Gradings

Seen(g) == [tree |-> container'.tree, grading |-> g]

Control ==
  /\ pc = "control"
  /\ \E g \in Gradings :
       /\ Grade(FALSE, g)
       /\ IF Reported(g) # {}
            THEN /\ row' = [row EXCEPT !.control = Seen(g),
                                       !.outcome = "control_did_not_reproduce"]
                 /\ pc' = "finally"
            ELSE row' = [row EXCEPT !.control = Seen(g)] /\ pc' = "measure"
  /\ UNCHANGED <<at, done, rows, out, images, kept, begun, unstarted, faults>>

Measure ==
  /\ pc = "measure"
  /\ \E g \in Gradings :
       /\ Grade(TRUE, g)
       /\ row' = [row EXCEPT !.measured = Seen(g),
                             !.outcome = IF Failing(g) = Graded THEN ClassifyZero(g)
                                         ELSE "measured"]
  /\ pc' = "finally"
  /\ UNCHANGED <<at, done, rows, out, images, kept, begun, unstarted, faults>>

\* A call inside the try raises: the row is an error.
Raise ==
  /\ pc \in {"prepare", "control", "measure"} /\ faults < FAULTS
  /\ faults' = faults + 1
  /\ row' = Blank(row.pair) /\ pc' = "finally"
  /\ UNCHANGED <<at, done, rows, out, docker, kept, begun, unstarted>>

\* The finally: docker rm -f, then docker rmi, which a container would refuse.
RemoveContainer_Left ==
  /\ pc = "finally"
  /\ pc' = "rmi"
  /\ UNCHANGED <<at, done, rows, out, row, docker, kept, begun, unstarted, faults>>
RemoveContainer ==
  /\ pc = "finally"
  /\ container' = None /\ pc' = "rmi"
  /\ UNCHANGED <<at, done, rows, out, row, images, kept, begun, unstarted, faults>>

RemoveImage ==
  /\ pc = "rmi"
  /\ images' = IF container = None THEN images \ {Task} ELSE images
  /\ pc' = "record"
  /\ UNCHANGED <<at, done, rows, out, row, container, kept, begun, unstarted, faults>>

-----------------------------------------------------------------------------
\* main's loop, after the row: the file is opened, which empties it, and dumped.

Record ==
  /\ pc = "record"
  /\ rows' = Append(rows, row) /\ out' = Torn /\ pc' = "dump"
  /\ UNCHANGED <<at, done, row, docker, kept, begun, unstarted, faults>>

Stops(o) == o \in Bad

Dump ==
  /\ pc = "dump"
  /\ out' = rows /\ kept' = rows
  /\ pc' = IF Stops(row.outcome) THEN "exit1" ELSE "pick"
  /\ UNCHANGED <<at, done, rows, row, docker, begun, unstarted, faults>>

Kill ==
  /\ pc \in {"pick", "run", "prepare", "control", "measure", "finally", "rmi", "record", "dump"}
  /\ faults < FAULTS /\ faults' = faults + 1
  /\ pc' = "killed" /\ row' = None
  /\ UNCHANGED <<at, done, rows, out, docker, kept, begun, unstarted>>

Next == \/ Start \/ Pick \/ Run \/ RunFails \/ Prepare \/ Control \/ Measure
        \/ Raise \/ RemoveContainer \/ RemoveImage \/ Record \/ Dump \/ Kill
Spec == Init /\ [][Next]_vars

-----------------------------------------------------------------------------
RowType == [pair : Pair, outcome : Outcomes,
            control : {None} \cup [tree : Trees, grading : Gradings],
            measured : {None} \cup [tree : Trees, grading : Gradings]]

\* No file, half a file and a list of rows are three different things.
ASSUME Contents == None # Torn /\ None \notin Seq(RowType) /\ Torn \notin Seq(RowType)

\* Types; and a container runs only on an image that is there.
TypeOK ==
  /\ at \in 1..(Len(Witnesses) + 1) /\ done \subseteq Pair /\ faults \in 0..FAULTS
  /\ \A i \in DOMAIN rows : rows[i] \in RowType
  /\ out \notin {None, Torn} => \A i \in DOMAIN out : out[i] \in RowType
  /\ row # None => row \in RowType
  /\ container # None => container.task \in images /\ container.tree \in Trees

\* Each pair is measured once, although it may stand twice in the witnesses and
\* the run is killed and started again (done, updated in the loop).
OnePerPair == \A i, j \in DOMAIN rows : rows[i].pair = rows[j].pair => i = j

\* A measured row compares two trees that differ by the moved import and nothing
\* else, and its control had shown the witness on this very tree (run_task).
MeasuredAgainstControl ==
  \A i \in DOMAIN rows :
    rows[i].measured # None =>
      /\ rows[i].control # None /\ Reported(rows[i].control.grading) = {}
      /\ rows[i].control.tree = [patched |-> TRUE, local |-> FALSE, renamed |-> TRUE]
      /\ rows[i].measured.tree = [rows[i].control.tree EXCEPT !.local = TRUE]

\* A verdict of helper coupling is never absence: the module loaded, and every
\* graded test failed in a block of its own that names the symbol (classify_zero).
CoupledIsMeasured ==
  \A i \in DOMAIN rows :
    rows[i].outcome = "helper_coupled" =>
      \A t \in Graded : rows[i].measured.grading[t] = "names"

\* What the artifact may be counted by: a row per pair, its measurement a comparison,
\* its verdict not an absence.
RowsAreSound == TypeOK /\ OnePerPair /\ MeasuredAgainstControl /\ CoupledIsMeasured

\* The file only ever grows, through kills and restarts, until a kill tears it.
RowsAreKept ==
  [][out' \notin {None, Torn} => IsPrefix(kept, out')]_vars

\* A run that ends well met no defect on its walk and leaves neither container nor
\* image behind, nor those of the runs that were killed before it (main's returns, the
\* rm -f at the start, the finally); except of a task that docker did not start, which
\* no finally covers and no rerun repeats.
CleanExit ==
  pc = "exit0" =>
    /\ \A i \in (begun + 1)..Len(rows) : rows[i].outcome \notin Bad
    /\ images \subseteq unstarted
    /\ container # None => container.task \in unstarted
=============================================================================
