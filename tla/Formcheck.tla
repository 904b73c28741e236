------------------------------ MODULE Formcheck ------------------------------
(***************************************************************************)
(* One task's check: the hook of repro/formcheck_hook.py over the task of  *)
(* scale/container_task.py, its suite oracle and its memo of gradings, and *)
(* the record scale/run.py builds from what is left on the task object.    *)
(*                                                                         *)
(* The hook keeps what it knows in attributes that the next row reads      *)
(* again: the last grading, its digest, the last failure analysis.  Tests  *)
(* may be flaky, so that two runs of one tree may differ.  A tree is the   *)
(* set of transforms applied to the reference; a slot of Family is an      *)
(* operator at an anchor, or an operator without any.                      *)
(***************************************************************************)
EXTENDS Integers, Sequences, FiniteSets

CONSTANTS
  Slot,       \* what the family offers on this task
  Family,     \* the slots in the order the hook visits them
  Anchored,   \* slots with an anchor in scope
  Loud,       \* slots of operators whose only failure mode is loud
  F2P, P2P,   \* graded tests
  LIMIT,      \* how many failing P2P tests a grading names
  None,
  Faults

FaultKinds == {"raise",     \* docker exec, git apply or an operator raises
               "timeout"}   \* the task's timeout cancels the check

ASSUME Finite == IsFiniteSet(P2P) /\ None \notin Slot
ASSUME Slots == Family \in Seq(Slot) /\ Anchored \subseteq Slot /\ Loud \subseteq Slot
ASSUME Environment == LIMIT \in Nat /\ Faults \subseteq FaultKinds

Test      == F2P \cup P2P
Outcomes  == [Test -> {"pass", "coupled", "broke", "unparsed"}]

\* A grading keeps, for the properties, the tree it is of and how its tests ended.
Gradings == [tree : SUBSET Slot, out : Outcomes, named : SUBSET Test]
Memos    == [key : SUBSET Slot, grading : Gradings]
ASSUME Absent == None \notin Memos /\ None \notin {"True", "False", "None"}

VARIABLES
  pc,         \* where the hook is
  tree,       \* the container's working tree
  memo,       \* _graded_memo: one grading under the digest of its tree
  graded,     \* self.graded
  digest,     \* self.last_digest
  last,       \* oracle.last_analysis
  analysis,   \* self.failure_analysis
  control,    \* the control's entry in formcheck_log
  rows,       \* formcheck_rows
  verdict,    \* what formcheck returned
  record      \* the record of the task

kept == <<memo, graded, digest>>
vars == <<pc, tree, memo, graded, digest, last, analysis, control, rows, verdict, record>>

Reference == {}
Judged    == {"WITNESS", "CLEAN", "INVALID"}

Failing(out)  == {t \in Test : out[t] # "pass"}

\* grade_log: every failing F2P test is named, of the P2P tests the first LIMIT.
Named(out) ==
  {(Failing(out) \cap F2P) \cup shown : shown \in
     {S \in SUBSET (Failing(out) \cap P2P) :
        /\ Cardinality(S) <= LIMIT
        /\ S = Failing(out) \cap P2P \/ Cardinality(S) = LIMIT}}

Reward(g) == IF Failing(g.out) = {} THEN 1 ELSE 0

\* classify_failures over the tests the grading names.
Classify_UnparsedBroke(s, g) ==
  [slot |-> s, broke |-> {t \in g.named : g.out[t] \in {"broke", "unparsed"}},
   unparsed |-> {}]
Classify(s, g) ==
  [slot |-> s, broke |-> {t \in g.named : g.out[t] = "broke"},
   unparsed |-> {t \in g.named : g.out[t] = "unparsed"}]

\* _tree_digest over the targets and the graded test files.
Digest_Quiet(t) == Reference
Digest(t) == t

Init ==
  /\ pc = "control" /\ tree = Reference
  /\ memo = None /\ graded = None /\ digest = None
  /\ last = None /\ analysis = None
  /\ control = None /\ rows = <<>> /\ verdict = None /\ record = None

-----------------------------------------------------------------------------
\* graded_report on the tree t: from the memo, or one run of the suite.
GradedReport_NoMemo(t) ==
  /\ \E out \in Outcomes : \E named \in Named(out) :
        graded' = [tree |-> t, out |-> out, named |-> named]
  /\ memo' = [key |-> Digest(t), grading |-> graded']
  /\ digest' = Digest(t)
GradedReport(t) ==
  /\ digest' = Digest(t)
  /\ IF memo # None /\ memo.key = Digest(t)
       THEN graded' = memo.grading /\ UNCHANGED memo
       ELSE /\ \E out \in Outcomes : \E named \in Named(out) :
                  graded' = [tree |-> t, out |-> out, named |-> named]
            /\ memo' = [key |-> Digest(t), grading |-> graded']

\* _formcheck_row: whatever the attributes hold when the row is made.
Row(s, v) ==
  rows' = Append(rows, [slot |-> s, verdict |-> v, graded |-> graded',
                        digest |-> digest', analysis |-> analysis'])

At == Family[Len(rows) + 1]
More == Len(rows) < Len(Family)

\* The untransformed reference, before anything else.
Control ==
  /\ pc = "control"
  /\ tree' = Reference
  /\ GradedReport(Reference)
  /\ IF Reward(graded') = 1
       THEN pc' = "slots" /\ control' = "OK" /\ UNCHANGED verdict
       ELSE pc' = "returned" /\ control' = "HARNESS_UNPROVEN" /\ verdict' = "None"
  /\ UNCHANGED <<last, analysis, rows, record>>

NotApplicable ==
  /\ pc = "slots" /\ More /\ At \notin Anchored
  /\ UNCHANGED <<pc, tree, kept, last, analysis, control, verdict, record>>
  /\ Row(At, "NOT_APPLICABLE")

\* A precondition of the transform fails.
Refuse ==
  /\ pc = "slots" /\ More /\ At \in Anchored
  /\ tree' = Reference
  /\ UNCHANGED <<pc, kept, last, analysis, control, verdict, record>>
  /\ Row(At, "REFUSED")

Apply ==
  /\ pc = "slots" /\ More /\ At \in Anchored
  /\ tree' = Reference \cup {At}
  /\ pc' = "oracle"
  /\ UNCHANGED <<kept, last, analysis, control, rows, verdict, record>>

\* SuiteOracle declines a silent operator without a run, and observes nothing.
OracleSilent ==
  /\ pc = "oracle" /\ At \notin Loud
  /\ pc' = "slots"
  /\ analysis' = last
  /\ UNCHANGED <<tree, kept, last, control, verdict, record>>
  /\ Row(At, "UNVALIDATED")

OracleLoud ==
  /\ pc = "oracle" /\ At \in Loud
  /\ GradedReport(tree)
  /\ last' = Classify(At, graded')
  /\ analysis' = last'
  /\ \/ /\ last'.unparsed # {}
        /\ pc' = "slots" /\ Row(At, "UNVALIDATED")
     \/ /\ last'.unparsed = {} /\ last'.broke # {}
        /\ pc' = "slots" /\ Row(At, "INVALID")
     \/ /\ last'.unparsed = {} /\ last'.broke = {}
        /\ pc' = "reward" /\ UNCHANGED rows
  /\ UNCHANGED <<tree, control, verdict, record>>

\* The transform applied afresh, and the reward of its tree.
RewardStep ==
  /\ pc = "reward"
  /\ tree' = Reference \cup {At}
  /\ GradedReport(tree')
  /\ pc' = "slots"
  /\ UNCHANGED <<last, analysis, control, verdict, record>>
  /\ Row(At, IF Reward(graded') = 0 THEN "WITNESS" ELSE "CLEAN")

Verdicts == {rows[i].verdict : i \in 1..Len(rows)}

Return ==
  /\ pc = "slots" /\ ~More
  /\ tree' = Reference
  /\ pc' = "returned"
  /\ verdict' = IF "WITNESS" \in Verdicts THEN "False"
                ELSE IF Verdicts \cap Judged # {} THEN "True" ELSE "None"
  /\ UNCHANGED <<kept, last, analysis, control, rows, record>>

\* An exception in the hook: _run_check turns it into an error row of its own.
Raise ==
  /\ "raise" \in Faults
  /\ pc \in {"control", "slots", "oracle", "reward"}
  /\ pc' = "raised"
  /\ UNCHANGED <<tree, kept, last, analysis, control, rows, verdict, record>>

\* asyncio.wait_for cancels the check.
Timeout ==
  /\ "timeout" \in Faults
  /\ pc \in {"control", "slots", "oracle", "reward"}
  /\ pc' = "timedout"
  /\ UNCHANGED <<tree, kept, last, analysis, control, rows, verdict, record>>

\* build_record: the error of run_one, which saw only what left _run_check, and
\* the row _run_check returned, if it did.
RowOf == IF pc = "timedout" THEN None ELSE IF pc = "raised" THEN "error" ELSE "checked"

BuildRecord ==
  /\ pc \in {"returned", "raised", "timedout"}
  /\ record' = [completed |-> pc # "timedout", passed |-> control = "OK", row |-> RowOf]
  /\ pc' = "recorded"
  /\ UNCHANGED <<tree, kept, last, analysis, control, rows, verdict>>

Recorded == pc = "recorded" /\ UNCHANGED vars

Next == \/ Control \/ NotApplicable \/ Refuse \/ Apply \/ OracleSilent \/ OracleLoud
        \/ RewardStep \/ Return \/ Raise \/ Timeout \/ BuildRecord \/ Recorded

Spec == Init /\ [][Next]_vars

-----------------------------------------------------------------------------
Analyses == [slot : Slot, broke : SUBSET Test, unparsed : SUBSET Test]
Rows == [slot : Slot, graded : Gradings \cup {None}, digest : (SUBSET Slot) \cup {None},
         analysis : Analyses \cup {None},
         verdict : Judged \cup {"NOT_APPLICABLE", "REFUSED", "UNVALIDATED"}]

Records == [completed : BOOLEAN, passed : BOOLEAN, row : {"checked", "error", None}]

TypeOK ==
  /\ pc \in {"control", "slots", "oracle", "reward", "returned", "raised", "timedout",
             "recorded"}
  /\ tree \subseteq Slot
  /\ memo \in Memos \cup {None}
  /\ graded \in Gradings \cup {None} /\ digest \in (SUBSET Slot) \cup {None}
  /\ last \in Analyses \cup {None} /\ analysis \in Analyses \cup {None}
  /\ control \in {"OK", "HARNESS_UNPROVEN", None}
  /\ rows \in Seq(Rows) /\ Len(rows) <= Len(Family)
  /\ verdict \in {"True", "False", "None", None}
  /\ record \in Records \cup {None}

RowSet == {rows[i] : i \in 1..Len(rows)}

\* A verdict on a transform rests on a run of that transform's tree, alone on
\* the reference: no grading of the control or of another transform stands in.
JudgedOnOwnTree ==
  \A r \in RowSet : r.verdict \in Judged => r.graded.tree = {r.slot}

\* Every F2P test that fails does so by the name of the symbol, and so does every
\* P2P test that fails, or at least as many of them as a grading names.
Coupled(out) == {t \in Test : out[t] = "coupled"}
ByName(out) ==
  /\ Failing(out) # {}
  /\ Failing(out) \cap F2P \subseteq Coupled(out)
  /\ \/ Failing(out) \cap P2P \subseteq Coupled(out)
     \/ Cardinality(Coupled(out) \cap P2P) >= LIMIT

\* A witness is a reward of 0 whose failures are by name, as far as the grading
\* names them, on a harness whose reference scored 1.0.  What the cut leaves out is
\* in nobody's analysis (grade_log, classify_failures, the memo).
WitnessAttributed ==
  \A r \in RowSet : r.verdict = "WITNESS" => control = "OK" /\ ByName(r.graded.out)

\* A transform is called invalid for a failure that was read and does not name
\* the symbol, never for a log nobody could parse (CHANGES.md 18).
InvalidHasCause ==
  \A r \in RowSet : r.verdict = "INVALID" =>
    /\ \E t \in Test : r.graded.out[t] = "broke"
    /\ r.analysis.slot = r.slot
    /\ r.analysis.unparsed = {}

\* The tri-state: False exactly for a witness, and True only if something was
\* judged on a proven harness; the absence of a check does not read as agreement.
VerdictMeans ==
  /\ verdict = "False" <=> verdict # None /\ \E r \in RowSet : r.verdict = "WITNESS"
  /\ verdict = "True" => control = "OK" /\ \E r \in RowSet : r.verdict \in {"CLEAN", "INVALID"}

\* A task that the rates count and a resume will not run again was checked to the
\* end of the family, unless its row says that the check raised.
WholeUnlessError ==
  record # None =>
    (record.completed /\ record.passed /\ record.row # "error" => Len(rows) = Len(Family))

\* What is left when the check is over means what it says, whichever case, exception
\* or timeout ended it: the rows, the tri-state and the record.
RecordMeans == InvalidHasCause /\ VerdictMeans /\ WholeUnlessError

\* The inductive invariant.  The memo never holds the grading of another tree than
\* the one its key is the digest of, and what the reward step will read there is
\* what the oracle has just judged.
MemoOwn == memo # None => memo.grading.tree = memo.key
AtCase  == pc \in {"oracle", "reward"} => More /\ tree = {At}
Handed  == pc = "reward" =>
             /\ memo # None /\ memo.key = {At}
             /\ \A t \in memo.grading.named : memo.grading.out[t] = "coupled"
NamedOf == memo # None => memo.grading.named \in Named(memo.grading.out)
Proven  == /\ pc \in {"slots", "oracle", "reward"} \/ rows # <<>> => control = "OK"
           /\ pc = "control" => rows = <<>>

IInv == TypeOK /\ MemoOwn /\ AtCase /\ Handed /\ NamedOf /\ Proven
          /\ JudgedOnOwnTree /\ InvalidHasCause
=============================================================================
