------------------------------- MODULE PatchScope -------------------------------
(***************************************************************************)
(* What the gold patch licenses (scale/eligibility.py and the task          *)
(* specification of scale/container_task.py): is a dataset row eligible,    *)
(* may its test-side overlay be applied, which post-patch lines does the    *)
(* diff change, and which symbols, by name, do those lines put in scope.    *)
(*                                                                         *)
(* A file is a sequence of lines; a line of a patched file is kept, added   *)
(* or deleted and belongs to definitions (a method's to its class too).     *)
(* The diff is read one line at a time, as changed_lines reads it.          *)
(***************************************************************************)
EXTENDS Naturals, Sequences, FiniteSets, SequencesExt

CONSTANTS
  Definition,  \* definitions: functions, classes, methods
  NameOf,      \* [Definition -> the identifier]: two definitions may share one
  Instances,   \* dataset rows
  None

(* A dataset row: the gold patch (a sequence of patched files), the files of *)
(* the test patch, those of the overlay or None, the names the issue uses.   *)
(* A patched file: its path, its lines, the lines the diff leaves out, and   *)
(* whether the patch deletes the file.                                       *)
Line == [op : {"keep", "add", "del"}, own : SUBSET Definition]

ASSUME Naming == DOMAIN NameOf = Definition
ASSUME Rows == \A i \in Instances :
  /\ Len(i.gold) \in Nat /\ DOMAIN i.gold = 1..Len(i.gold)
  /\ \A k \in DOMAIN i.gold :
       /\ i.gold[k].lines \in Seq(Line) /\ i.gold[k].hidden \subseteq DOMAIN i.gold[k].lines
       /\ \A j \in i.gold[k].hidden : i.gold[k].lines[j].op = "keep"
       /\ \A j \in DOMAIN i.gold : i.gold[j].path = i.gold[k].path => j = k

VARIABLES
  inst,        \* the dataset row
  pc,          \* "spec", "diff", "scope", ... or how the task ended
  spec,        \* build_task_spec: targets and test files
  pos,         \* changed_lines: lines of the diff already read
  current,     \* the file the lines read belong to
  newLine,     \* the post-patch line number
  changed,     \* [path -> post-patch lines the diff changes]
  scope        \* the names in scope

patchVars == <<inst, pc, spec, pos, current, newLine, changed, scope>>

-----------------------------------------------------------------------------
\* Paths: [dir, leaf], the directory and the leaf by what the predicates tell apart.

TestHints == {"tests", "docs"}

\* .py, not under a test, doc or dot directory, not named as a test; case is ignored.
IsProductionPython(p) ==
  /\ p.leaf # "text" /\ p.dir \notin (TestHints \cup {"Tests", ".ci"})
  /\ p.leaf \notin {"test_", "Test_", "_test", "conftest"}

\* _READ_TREE: the walk that reads the production sources; only directories ignore case.
InScan(p) ==
  /\ p.leaf # "text" /\ p.dir \notin (TestHints \cup {"Tests", ".ci"})
  /\ p.leaf \notin {"test_", "_test", "conftest"}

Private(p) == p.dir = "_pkg"

\* The entries of a file that are lines of it after the patch, and how many of them are
\* before entry i: a line's number then is one more.
Survives(line)      == line.op # "del"
Left(file)          == {i \in DOMAIN file.lines : Survives(file.lines[i])}
PostBefore(file, i) == Cardinality({j \in 1..(i - 1) : Survives(file.lines[j])})

\* Where entry i is, in lines of the file after the patch: a file without any has line 0.
LineOf(file, i) == IF Left(file) = {} THEN 0 ELSE PostBefore(file, i) + 1

(* git diff: per file a header, the file marks, and hunks of the lines shown *)
Shown(file)      == DOMAIN file.lines \ file.hidden
Entry(file, i)   ==
  IF i \in file.hidden THEN <<>>
  ELSE (IF i - 1 \in Shown(file) THEN <<>> ELSE << [k |-> "hunk", at |-> LineOf(file, i)] >>)
       \o << [k |-> file.lines[i].op] >>
DiffOfFile(file) ==
  << [k |-> "git", path |-> file.path], [k |-> "mark"], [k |-> "mark"] >>
  \o FlattenSeq([i \in DOMAIN file.lines |-> Entry(file, i)])

Diff == FlattenSeq([k \in DOMAIN inst.gold |-> DiffOfFile(inst.gold[k])])

\* touched_files, patched_files: the paths of the headers, in order, each once.
GoldFiles == [k \in DOMAIN inst.gold |-> inst.gold[k].path]
Targets   == {p \in Range(GoldFiles) : IsProductionPython(p)}
Eligible  == Targets # {}
FirstTarget ==
  LET hits == {k \in DOMAIN GoldFiles : IsProductionPython(GoldFiles[k])}
  IN GoldFiles[CHOOSE k \in hits : \A j \in hits : k <= j]

\* check_tests_overlay, or FALSE where it raises.
OverlayAllowed_Listed(touched, tests) == touched # {} /\ touched \subseteq tests
OverlayAllowed(touched, tests) ==
  touched # {} /\ touched \subseteq tests /\ \A f \in touched : ~IsProductionPython(f)

\* symbols_covering, over the post-patch file.
SymbolsCovering(file, lines) ==
  {NameOf[d] : d \in {e \in Definition : \E i \in Left(file) :
                     e \in file.lines[i].own /\ PostBefore(file, i) + 1 \in lines}}

FileAt(p) == CHOOSE f \in Range(inst.gold) : f.path = p

-----------------------------------------------------------------------------
Nowhere == [p \in {} |-> {}]

PatchInit ==
  /\ inst \in Instances /\ pc = "spec" /\ spec = None
  /\ pos = 0 /\ current = None /\ newLine = 0
  /\ changed = Nowhere /\ scope = {}

\* classify and build_task_spec: an ineligible row is never run, an overlay out of
\* scope raises.
BuildSpec ==
  /\ pc = "spec"
  /\ spec' = [targets |-> Targets, tests |-> inst.tests, overlay |-> inst.overlay]
  /\ pc' = IF ~Eligible THEN "ineligible"
           ELSE IF inst.overlay # None /\ ~OverlayAllowed(inst.overlay, inst.tests)
                THEN "overlay_refused" ELSE "diff"
  /\ UNCHANGED <<inst, pos, current, newLine, changed, scope>>

\* changed_lines reads one line.
Read(k) ==
  /\ pc = "diff" /\ pos < Len(Diff) /\ Diff[pos + 1].k = k
  /\ pos' = pos + 1
  /\ UNCHANGED <<inst, pc, spec, scope>>

ReadHeader ==
  /\ Read("git")
  /\ current' = Diff[pos + 1].path
  /\ changed' = [p \in DOMAIN changed \cup {current'} |->
                   IF p \in DOMAIN changed THEN changed[p] ELSE {}]
  /\ UNCHANGED newLine

ReadMark == Read("mark") /\ UNCHANGED <<current, newLine, changed>>

ReadHunk == Read("hunk") /\ newLine' = Diff[pos + 1].at /\ UNCHANGED <<current, changed>>

ReadAdded ==
  /\ Read("add")
  /\ changed' = [changed EXCEPT ![current] = @ \cup {newLine}]
  /\ newLine' = newLine + 1 /\ UNCHANGED current

ReadRemoved_Counts ==
  /\ Read("del")
  /\ changed' = [changed EXCEPT ![current] = @ \cup {newLine}]
  /\ newLine' = newLine + 1 /\ UNCHANGED current
ReadRemoved ==
  /\ Read("del")
  /\ changed' = [changed EXCEPT ![current] = @ \cup {newLine}]
  /\ UNCHANGED <<current, newLine>>

ReadContext == Read("keep") /\ newLine' = newLine + 1 /\ UNCHANGED <<current, changed>>

DiffRead ==
  /\ pc = "diff" /\ pos = Len(Diff) /\ pc' = "scope"
  /\ UNCHANGED <<inst, spec, pos, current, newLine, changed, scope>>

\* _scope: the union over the targets, by bare name; a deleted file has no lines.
Scope ==
  /\ pc = "scope"
  /\ scope' = UNION {SymbolsCovering(FileAt(p), changed[p]) : p \in spec.targets}
  /\ pc' = "read"
  /\ UNCHANGED <<inst, spec, pos, current, newLine, changed>>

PatchNext ==
  \/ BuildSpec
  \/ ReadHeader \/ ReadMark \/ ReadHunk \/ ReadAdded \/ ReadRemoved \/ ReadContext
  \/ DiffRead
  \/ Scope

-----------------------------------------------------------------------------
Read_ == pc \notin {"spec", "diff", "ineligible", "overlay_refused"}

(* The arithmetic over hunks, files and lines not shown gives exactly the    *)
(* lines of the post-patch file that were added and those that follow a      *)
(* deletion (container_task.py changed_lines): no drift between two hunks or *)
(* from one file into the next.                                              *)
ChangedIsTheDiff ==
  Read_ => \A f \in Range(inst.gold) :
    changed[f.path] = {LineOf(f, i) : i \in {j \in DOMAIN f.lines : f.lines[j].op # "keep"}}

TargetLines == UNION {{<<f, i>> : i \in DOMAIN f.lines} : f \in {FileAt(p) : p \in spec.targets}}
LinesOf(op) == {l \in TargetLines : l[1].lines[l[2]].op = op}
NamesAt(S)  == UNION {{NameOf[d] : d \in l[1].lines[l[2]].own} : l \in S}

(* The lines are those of the diff, and a name is in scope exactly if an     *)
(* added line of a target is of it, or the line that a deletion moved up to  *)
(* its place, which may be of the next definition (changed_lines,            *)
(* symbols_covering, _scope).                                                *)
ScopeIsPatched ==
  ChangedIsTheDiff /\ (pc \notin {"scope"} /\ Read_ =>
    LET moved == {l \in TargetLines : /\ Survives(l[1].lines[l[2]])
                                      /\ \E j \in 1..(l[2] - 1) :
                                           \A m \in j..(l[2] - 1) : l[1].lines[m].op = "del"}
    IN scope = NamesAt(LinesOf("add") \cup moved))

(* What container_task.py changed_lines says of a deletion: the position it  *)
(* is given is inside the definition it is of, so that only a definition     *)
(* with an added or a deleted line gives a name to the scope.                *)
ScopeInsidePatch ==
  pc \notin {"scope"} /\ Read_ => scope \subseteq NamesAt(LinesOf("add") \cup LinesOf("del"))

(* An overlay that is applied touches no target of the gold patch and no     *)
(* file the scan reads as production (but for one named as a test in another *)
(* case), even where the test patch names such a file: the tree that is      *)
(* graded holds the gold solution and nothing else                           *)
(* (container_task.py check_tests_overlay).                                  *)
OverlayKeepsSolution ==
  pc \notin {"spec", "ineligible", "overlay_refused"} /\ spec.overlay # None =>
    /\ spec.overlay \cap spec.targets = {}
    /\ \A f \in spec.overlay : ~InScan(f) \/ f.leaf = "Test_"
=============================================================================
