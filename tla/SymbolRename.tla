------------------------------ MODULE SymbolRename ------------------------------
(***************************************************************************)
(* The symbol_rename operator (repro/f2_operators.py) on an anchor that the *)
(* gold patch puts in scope: read the production tree, pick a module-level  *)
(* definition of a target, scan every file in the order the directory walk  *)
(* yields, and either rewrite the whole tree or refuse and touch nothing.   *)
(*                                                                         *)
(* A file is what the operator tells apart: the kinds of occurrence of the  *)
(* name in it, each with the identifier now written there.                  *)
(***************************************************************************)
EXTENDS PatchScope

CONSTANTS
  Sort,        \* [Definition -> "def", "class", "async" or "nested"]
  Others,      \* production files the gold patch does not touch
  Trees(_, _)  \* Trees(instance, paths): set of [paths -> SUBSET Occurrence]

VARIABLES
  anchor,      \* [file, name], or None
  before,      \* the production files as a reset leaves them: [path -> what is written]
  tree,        \* the production files
  todo,        \* files the scan has not reached, in the order of the walk
  out,         \* the files rewritten so far
  dynamic,     \* string literals that name the symbol outside an annotation
  answer,      \* what apply returned or raised
  first        \* the tree the oracle judged, or None

renameVars == <<anchor, before, tree, todo, out, dynamic, answer, first>>

-----------------------------------------------------------------------------
(* Occurrences.  "name": the name in an expression; "import": imported on    *)
(* the line of the statement; "import_as": imported under another name;      *)
(* "qualified": an attribute of the defining module where that is imported;  *)
(* "attr": of anything else; "ann": in a string that annotates; "literal",   *)
(* "all": in another string, in an entry of __all__; "param": a parameter of *)
(* that name; "longer": inside a longer identifier; "new": the new name;     *)
(* "_multi": over several lines; "syntax": the file does not parse.          *)
Edited_Bare      == {"def", "name", "import", "qualified"}
Edited     == {"def", "name", "import", "qualified", "ann"}
Raising    == {"ann_multi", "import_multi", "qual_multi", "attr"}
Dynamic    == {"literal", "all"}
Occurrence == {"def", "name", "import", "qualified", "ann", "import_as", "param", "longer",
               "new", "syntax"} \cup Raising \cup Dynamic

Written(o) == IF o \in {"longer", "new"} THEN o ELSE "name"
Source(S)  == [o \in S |-> Written(o)]

\* A file with its edits made; each is at the span the parser gives the reference.
Rewrite(src) == [o \in DOMAIN src |-> IF o \in Edited THEN "new" ELSE src[o]]

\* The new name replaced by the old on word boundaries.
Back(src) == [o \in DOMAIN src |-> IF src[o] = "new" THEN "name" ELSE src[o]]

Files(i) == Others \cup {i.gold[k].path : k \in DOMAIN i.gold}
ASSUME Paths == IsFiniteSet(Others) /\ \A i \in Instances : \A p \in Files(i) : p.id \in Nat
ASSUME TreesOfFiles ==
  \A i \in Instances : \A ps \in SUBSET Files(i) :
    /\ Trees(i, ps) \subseteq [ps -> SUBSET Occurrence]
    /\ \A t \in Trees(i, ps) : None # [p \in ps |-> Rewrite(Source(t[p]))]

-----------------------------------------------------------------------------
Gone(p)   == Left(FileAt(p)) = {}
Scanned   == {p \in Range(GoldFiles) : InScan(p) /\ ~Gone(p)} \cup Others

\* formcheck_read: what the walk reads, and the first target if the walk left it out.
Sources   == Scanned \cup (IF Gone(FirstTarget) THEN {} ELSE {FirstTarget})

\* Module-level def and class of a file; an async def is no anchor.
AnchorsOf(file) ==
  {NameOf[d] : d \in {e \in Definition : /\ Sort[e] \in {"def", "class"}
                                         /\ \E i \in Left(file) : e \in file.lines[i].own}}

NoAnswer == [v |-> "none", why |-> "none", cite |-> None]
RenameInit ==
  /\ anchor = None /\ before = Nowhere /\ tree = Nowhere /\ todo = <<>> /\ out = Nowhere
  /\ dynamic = {} /\ answer = NoAnswer /\ first = None

\* A target that is deleted, or is no production source of the walk, raises: cat of
\* the first, the lookup of another in anchors.
ReadTree ==
  /\ pc = "read"
  /\ pc' = IF spec.targets \subseteq Sources THEN "anchors" ELSE "raised"
  /\ UNCHANGED <<inst, spec, pos, current, newLine, changed, scope, renameVars>>

InScopeAnchors == {a \in [file : spec.targets, name : Range(NameOf)] :
                     a.name \in AnchorsOf(FileAt(a.file)) /\ a.name \in scope}

NoAnchor ==
  /\ pc = "anchors" /\ InScopeAnchors = {} /\ pc' = "not_applicable"
  /\ UNCHANGED <<inst, spec, pos, current, newLine, changed, scope, renameVars>>

\* apply starts: the issue must not name the symbol; the scan is of every file read.
Start(order) ==
  /\ order \in SetToSeqs(DOMAIN before')
  /\ out' = before' /\ dynamic' = {}
  /\ IF anchor'.name \in inst.issue
     THEN /\ answer' = [v |-> "refused", why |-> "contract", cite |-> None]
          /\ todo' = <<>> /\ pc' = "refused"
     ELSE answer' = NoAnswer /\ todo' = order /\ pc' = "scan"

Pick ==
  /\ pc = "anchors"
  /\ \E a \in InScopeAnchors, t \in Trees(inst, Sources) :
       /\ "def" \in t[a.file]
       /\ anchor' = a /\ before' = [p \in Sources |-> Source(t[p])] /\ tree' = before'
  /\ \E order \in SetToSeqs(Sources) : Start(order)
  /\ UNCHANGED <<inst, spec, pos, current, newLine, changed, scope, first>>

Refuse(why, cite) ==
  /\ answer' = [v |-> "refused", why |-> why, cite |-> cite]
  /\ pc' = IF first = None THEN "refused" ELSE "escaped"

Hits(p) == {[file |-> p, all |-> o = "all"] : o \in Dynamic \cap DOMAIN tree[p]}

\* One file: what cannot be rewritten is raised at once, a dynamic hit is kept for the
\* end and stops only the rewriting.
ScanRaises ==
  /\ pc = "scan" /\ todo # <<>>
  /\ LET kinds == DOMAIN tree[Head(todo)]
         why   == IF "syntax" \in kinds THEN {"syntax"}
                  ELSE IF "ann_multi" \in kinds THEN {"ann_multi"} ELSE Raising \cap kinds
     IN \E w \in why : Refuse(w, Head(todo))
  /\ UNCHANGED <<inst, spec, pos, current, newLine, changed, scope,
                 anchor, before, tree, todo, out, dynamic, first>>

Readable(p) == DOMAIN tree[p] \cap (Raising \cup {"syntax"}) = {}

ScanDynamic_First ==
  /\ pc = "scan" /\ todo # <<>> /\ Readable(Head(todo))
  /\ Hits(Head(todo)) # {}
  /\ \E h \in Hits(Head(todo)) : Refuse("dynamic", h)
  /\ UNCHANGED <<inst, spec, pos, current, newLine, changed, scope,
                 anchor, before, tree, todo, out, dynamic, first>>
ScanDynamic ==
  /\ pc = "scan" /\ todo # <<>> /\ Readable(Head(todo))
  /\ dynamic \cup Hits(Head(todo)) # {}
  /\ dynamic' = dynamic \cup Hits(Head(todo)) /\ todo' = Tail(todo)
  /\ UNCHANGED <<inst, pc, spec, pos, current, newLine, changed, scope,
                 anchor, before, tree, out, answer, first>>

RoundTrips(src) == Back(Rewrite(src)) = src

ScanRewrites ==
  /\ pc = "scan" /\ todo # <<>> /\ Readable(Head(todo))
  /\ dynamic \cup Hits(Head(todo)) = {}
  /\ LET p == Head(todo) IN
       IF RoundTrips(tree[p])
       THEN out' = [out EXCEPT ![p] = Rewrite(tree[p])] /\ todo' = Tail(todo)
            /\ UNCHANGED <<pc, answer>>
       ELSE Refuse("round_trip", p) /\ UNCHANGED <<out, todo>>
  /\ UNCHANGED <<inst, spec, pos, current, newLine, changed, scope,
                 anchor, before, tree, dynamic, first>>

\* The order of citation: an entry of __all__, a public path, the path.
Precedes(h, g) ==
  \/ h.all /\ ~g.all
  \/ h.all = g.all /\ ~Private(h.file) /\ Private(g.file)
  \/ h.all = g.all /\ Private(h.file) = Private(g.file) /\ h.file.id <= g.file.id
Strongest(H) == CHOOSE h \in H : \A g \in H : Precedes(h, g)

Finish ==
  /\ pc = "scan" /\ todo = <<>>
  /\ IF dynamic # {} THEN Refuse("dynamic", Strongest(dynamic))
     ELSE answer' = [v |-> "applied", why |-> "none", cite |-> None] /\ pc' = "applied"
  /\ UNCHANGED <<inst, spec, pos, current, newLine, changed, scope,
                 anchor, before, tree, todo, out, dynamic, first>>

\* formcheck_write: the files that changed; then the oracle, or the reward.
Write ==
  /\ pc = "applied"
  /\ tree' = out /\ pc' = IF first = None THEN "judged" ELSE "graded"
  /\ UNCHANGED <<inst, spec, pos, current, newLine, changed, scope,
                 anchor, before, todo, out, dynamic, answer, first>>

\* The contract held: reset, and the same transform again, for the reward; nothing
\* catches a refusal now.
Reapply ==
  /\ pc = "judged" /\ first' = tree
  /\ tree' = before /\ UNCHANGED <<anchor, before>>
  /\ \E order \in SetToSeqs(DOMAIN before) : Start(order)
  /\ UNCHANGED <<inst, spec, pos, current, newLine, changed, scope>>

RenameNext ==
  \/ PatchNext /\ UNCHANGED renameVars
  \/ ReadTree \/ NoAnchor \/ Pick
  \/ ScanRaises \/ ScanDynamic \/ ScanRewrites \/ Finish
  \/ Write

-----------------------------------------------------------------------------
Ended == {"ineligible", "overlay_refused", "raised", "not_applicable", "refused", "escaped", "graded"}

RenameTypeOK ==
  /\ inst \in Instances /\ scope \subseteq Range(NameOf)
  /\ pc \in {"spec", "diff", "scope", "read", "anchors", "scan", "applied", "judged", "verdict"} \cup Ended
  /\ \A p \in DOMAIN tree : /\ DOMAIN tree[p] \subseteq Occurrence
                            /\ Range(tree[p]) \subseteq {"name", "new", "longer"}
  /\ answer.v \in {"none", "applied", "refused"}
  /\ \A h \in dynamic : h.file \in DOMAIN tree /\ h.all \in BOOLEAN

Hazardous(t) == \E p \in DOMAIN t : DOMAIN t[p] \cap (Raising \cup Dynamic \cup {"new", "syntax"}) # {}

(* The tree is the old one or the whole new one.  A tree that is judged or    *)
(* graded has every reference the operator follows under the new name and    *)
(* all else as it was; at any other time, and after a refusal, no file       *)
(* differs from the reset's (f2_operators.py SymbolRename.apply,             *)
(* container_task.py formcheck_write).                                       *)
RenameIsWhole ==
  RenameTypeOK /\
  IF pc \in {"judged", "graded", "verdict"}
  THEN \A p \in DOMAIN tree : \A o \in DOMAIN tree[p] :
         tree[p][o] = IF o \in {"def", "name", "import", "qualified", "ann"} THEN "new"
                      ELSE before[p][o]
  ELSE tree = before

(* Whether the operator applies is decided by the tree and the issue alone:  *)
(* it refuses if and only if the issue names the symbol or some file holds   *)
(* what a rename cannot follow.                                              *)
AnswerIsOfTree ==
  answer.v # "none" /\ first = None =>
    (answer.v = "refused" <=> (anchor.name \in inst.issue \/ Hazardous(before)))

(* A refusal for dynamic reach cites the strongest hit of the whole tree,    *)
(* the first of them in path order, whatever the walk met first.             *)
CitesStrongest ==
  answer.why = "dynamic" =>
    LET hits == {[file |-> p, all |-> o = "all"] : p \in DOMAIN before, o \in Dynamic}
        real == {h \in hits : (IF h.all THEN "all" ELSE "literal") \in DOMAIN before[h.file]}
        pub  == {h \in real : h.all}
        best == IF pub # {} THEN pub ELSE real
        open == {h \in best : ~Private(h.file)}
        cited == IF open # {} THEN open ELSE best
    IN answer.cite \in cited /\ \A h \in cited : answer.cite.file.id <= h.file.id

(* What a refusal says is so of the tree, and the issue goes before all of   *)
(* it: the file a raise cites holds the kind raised for, a failed round trip *)
(* the new name, and dynamic reach is said only of a tree that no walk       *)
(* raises on.  Among several causes of the first two sorts the walk's order  *)
(* picks the one that is said.                                               *)
RefusedForCause ==
  answer.v = "refused" =>
    \/ answer.why = "contract" /\ anchor.name \in inst.issue
    \/ /\ anchor.name \notin inst.issue
       /\ \/ /\ answer.why \in Raising \cup {"syntax"}
             /\ answer.cite \in DOMAIN before /\ answer.why \in DOMAIN before[answer.cite]
          \/ /\ answer.why = "round_trip"
             /\ answer.cite \in DOMAIN before /\ "new" \in DOMAIN before[answer.cite]
          \/ /\ answer.why = "dynamic"
             /\ \A p \in DOMAIN before : DOMAIN before[p] \cap (Raising \cup {"syntax"}) = {}

(* The transform that is graded is the one that was judged: applying it      *)
(* again after a reset never refuses, an exception nobody would catch there, *)
(* and gives the same tree (formcheck_hook.py:236-239).                      *)
GradedIsJudged == pc # "escaped" /\ (pc = "graded" => tree = first)

(* A check stops at reading the tree only for a file that the gold patch     *)
(* deletes: every other target of the row is among the production sources    *)
(* (eligibility.py is_production_python, container_task.py _READ_TREE).      *)
RaisesOnDeletion == pc = "raised" => \E p \in spec.targets : Gone(p)

(* Whether a case raises, is refused, is applied, and is applied again, is   *)
(* decided by the tree, never by the order in which the directory walk       *)
(* yields its files.  What it is refused for is a cause the tree holds:      *)
(* of several that raise at once the walk picks one, and the dynamic hit     *)
(* that is cited is the same in every order.                                 *)
DecidedByTree ==
  RaisesOnDeletion /\ AnswerIsOfTree /\ RefusedForCause /\ CitesStrongest /\ GradedIsJudged
=============================================================================
