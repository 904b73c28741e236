----------------------------- MODULE RenameVerdict -----------------------------
(***************************************************************************)
(* A case of symbol_rename from the gold patch to its verdict               *)
(* (formcheck_hook.py formcheck, container_task.py SuiteOracle): the rename *)
(* in scope is applied, the suite runs on the renamed tree, its failures    *)
(* are attributed, and only a transform whose failures are all coupling is  *)
(* applied again and graded.  Composes SymbolRename and Attribution; runs   *)
(* that are flaky or raise are Formcheck's.                                 *)
(***************************************************************************)
EXTENDS SymbolRename, Attribution

CONSTANT SuitesOf(_, _)  \* SuitesOf(instance, tree): the runs of the suite on it
ASSUME Verdicts == None \notin {"CLEAN", "WITNESS", "INVALID", "UNVALIDATED"}

VARIABLE verdict

vars == <<patchVars, renameVars, attributionVars, verdict>>

Init ==
  /\ PatchInit /\ RenameInit
  /\ NotRead /\ verdict = None

RunSuite ==
  /\ pc = "judged" /\ suite = NoBlock
  /\ suite' \in {s \in SuitesOf(inst, tree) : IsRun(s)} /\ log' = Log'
  /\ UNCHANGED <<patchVars, renameVars, read, open, buf, sections, asked, why, verdict>>

ReadLog ==
  /\ pc = "judged" /\ suite # NoBlock /\ AttributionNext
  /\ UNCHANGED <<patchVars, renameVars, verdict>>

\* The oracle's answer: unread failures are no verdict, broken behaviour is INVALID,
\* and only a transform that kept the contract is graded.
Judge_Lenient ==
  /\ pc = "judged" /\ suite # NoBlock /\ Partitioned
  /\ IF Called("coupled") # {} \/ Satisfied = "yes" THEN Reapply /\ UNCHANGED verdict
     ELSE /\ verdict' = IF Satisfied = "no" THEN "INVALID" ELSE "UNVALIDATED"
          /\ pc' = "verdict"
          /\ UNCHANGED <<inst, spec, pos, current, newLine, changed, scope, renameVars>>
  /\ UNCHANGED attributionVars
Judge ==
  /\ pc = "judged" /\ suite # NoBlock /\ Partitioned
  /\ IF Satisfied = "yes" THEN Reapply /\ UNCHANGED verdict
     ELSE /\ verdict' = IF Satisfied = "no" THEN "INVALID" ELSE "UNVALIDATED"
          /\ pc' = "verdict"
          /\ UNCHANGED <<inst, spec, pos, current, newLine, changed, scope, renameVars>>
  /\ UNCHANGED attributionVars

\* The reward of the same tree: 0.0 if a graded test fails.
Reward ==
  /\ pc = "graded" /\ verdict = None
  /\ verdict' = IF Failing = {} THEN "CLEAN" ELSE "WITNESS"
  /\ UNCHANGED <<patchVars, renameVars, attributionVars>>

Next ==
  \/ RenameNext /\ UNCHANGED <<attributionVars, verdict>>
  \/ RunSuite \/ ReadLog \/ Judge \/ Reward
Spec == Init /\ [][Next]_vars

-----------------------------------------------------------------------------
\* `from m import Name as N`: neither an edit nor a refusal, and m no longer has Name.
LeftBehind == {p \in DOMAIN before : "import_as" \in DOMAIN before[p]}

(* A witness is a whole rename of a patched symbol that at least one test    *)
(* fails on; every failing test that the grading names was read -- all of    *)
(* FAIL_TO_PASS, at most LIMIT of PASS_TO_PASS -- and none of them, but for  *)
(* the blocks of CoupledIsOwn, fails for anything but the name               *)
(* (formcheck_hook.py:241-248, m4_grader.py:69).                             *)
WitnessIsEarned ==
  verdict = "WITNESS" =>
    /\ tree = first /\ tree # before /\ anchor.name \in scope /\ anchor.name \notin inst.issue
    /\ ~Hazardous(before)
    /\ Failing # {} /\ asked = suite.named /\ Failing \ asked \subseteq P2PFails
    /\ \A t \in asked : SaysName(t) \/ Excused(t)

(* The container runs and the earlier phase judge alike: CLEAN is the same,  *)
(* a WITNESS here is one there, and a WITNESS only there rests on            *)
(* FAIL_TO_PASS tests alone, which the earlier phase did not attribute       *)
(* (f4_formcheck.py run_case; CHANGES.md 13).                                *)
PhasesAgree ==
  verdict # None =>
    /\ PhaseFour = "CLEAN" <=> verdict = "CLEAN"
    /\ verdict = "WITNESS" => PhaseFour = "WITNESS"
    /\ PhaseFour = "WITNESS" /\ verdict # "WITNESS" => P2PFails = {}

(* A witness is never the failure of production code that the rename itself  *)
(* broke: the tree a witness rests on has no import of the old name left, so *)
(* a failure that names the symbol is a test's reference to it               *)
(* (container_task.py:560-565, REPORT.md:168).                               *)
WitnessOnWholeRename == verdict = "WITNESS" => LeftBehind = {}
=============================================================================
