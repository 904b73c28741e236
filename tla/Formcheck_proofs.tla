-------------------------- MODULE Formcheck_proofs --------------------------
(***************************************************************************)
(* What a verdict of the check rests on, for every family, suite, outcome  *)
(* of every run of it and order of events: its own tree, and for a witness *)
(* failures that name the symbol, all of them or as many as a grading has  *)
(* room for.                                                               *)
(***************************************************************************)
EXTENDS Formcheck, FiniteSetTheorems, TLAPS

\* If every test that a grading names fails by name, then so does every failing F2P
\* test, and every failing P2P test or as many of them as a grading has room for.
LEMMA NamedEnough ==
  ASSUME NEW out \in Outcomes, NEW named \in Named(out),
         \A t \in named : out[t] = "coupled"
  PROVE  Failing(out) # {} => ByName(out)
  <1>1. PICK S \in SUBSET (Failing(out) \cap P2P) :
          /\ named = (Failing(out) \cap F2P) \cup S
          /\ S = Failing(out) \cap P2P \/ Cardinality(S) = LIMIT
    BY DEF Named
  <1>2. S \subseteq Coupled(out) \cap P2P /\ Failing(out) \cap F2P \subseteq Coupled(out)
    BY <1>1 DEF Coupled, Failing, Test
  <1>3. CASE S = Failing(out) \cap P2P
    BY <1>2, <1>3 DEF ByName
  <1>4. CASE Cardinality(S) = LIMIT
    <2>1. IsFiniteSet(Coupled(out) \cap P2P)
      BY Finite, FS_Subset
    <2>2. Cardinality(S) <= Cardinality(Coupled(out) \cap P2P)
      BY <1>2, <2>1, FS_Subset
    <2>3. QED
      BY <1>2, <1>4, <2>2 DEF ByName
  <1>5. QED
    BY <1>1, <1>3, <1>4

\* A grading, from the memo or not, is of the tree it was asked for.
LEMMA GradedOwn ==
  ASSUME TypeOK, MemoOwn, NamedOf, NEW t \in SUBSET Slot, GradedReport(t)
  PROVE  /\ graded' \in Gradings /\ graded'.tree = t
         /\ graded'.named \in Named(graded'.out)
         /\ memo' \in Memos /\ memo'.key = t /\ memo'.grading = graded'
         /\ digest' = t
         /\ memo # None /\ memo.key = t => graded' = memo.grading
  <1>1. CASE memo # None /\ memo.key = Digest(t)
    BY <1>1 DEF GradedReport, Digest, TypeOK, MemoOwn, NamedOf, Memos
  <1>2. CASE ~(memo # None /\ memo.key = Digest(t))
    <2>1. PICK out \in Outcomes : \E named \in Named(out) :
            graded' = [tree |-> t, out |-> out, named |-> named]
      BY <1>2 DEF GradedReport
    <2>2. PICK named \in Named(out) : graded' = [tree |-> t, out |-> out, named |-> named]
      BY <2>1
    <2>3. named \subseteq Test
      BY DEF Named, Failing
    <2>4. QED
      BY <1>2, <2>2, <2>3 DEF GradedReport, Digest, Gradings, Memos
  <1>3. QED
    BY <1>1, <1>2

\* The slot at hand is a slot.
LEMMA AtSlot ==
  ASSUME TypeOK, More
  PROVE  At \in Slot
  <1>1. rows \in Seq(Rows) /\ Family \in Seq(Slot) /\ Len(rows) < Len(Family)
    BY Slots DEF TypeOK, More
  <1>2. Len(rows) + 1 \in 1..Len(Family)
    BY <1>1
  <1>3. QED
    BY <1>1, <1>2 DEF At

\* A row is added at the end and takes no other away.
LEMMA RowAdded ==
  ASSUME TypeOK, More, NEW v \in Judged \cup {"NOT_APPLICABLE", "REFUSED", "UNVALIDATED"},
         graded' \in Gradings \cup {None}, digest' \in (SUBSET Slot) \cup {None},
         analysis' \in Analyses \cup {None}, Row(At, v)
  PROVE  /\ rows' \in Seq(Rows) /\ Len(rows') <= Len(Family)
         /\ RowSet' = RowSet \cup {[slot |-> At, verdict |-> v, graded |-> graded',
                                    digest |-> digest', analysis |-> analysis']}
  <1> DEFINE r == [slot |-> At, verdict |-> v, graded |-> graded',
                   digest |-> digest', analysis |-> analysis']
  <1>1. r \in Rows
    BY AtSlot DEF Rows
  <1> HIDE DEF r
  <1>2. rows \in Seq(Rows) /\ rows' = Append(rows, r)
    BY DEF TypeOK, Row, r
  <1>3. Len(rows) \in Nat /\ Len(Family) \in Nat /\ Len(rows) < Len(Family)
    BY <1>2, Slots DEF More
  <1>4. /\ rows' \in Seq(Rows) /\ Len(rows') = Len(rows) + 1
        /\ \A i \in 1..Len(rows) : rows'[i] = rows[i]
        /\ rows'[Len(rows) + 1] = r
    BY <1>1, <1>2
  <1>5. RowSet' = RowSet \cup {r}
    BY <1>3, <1>4 DEF RowSet
  <1>6. QED
    BY <1>3, <1>4, <1>5 DEF r

\* What classify_failures finds, it finds among the tests the grading names.
LEMMA ClassifyType ==
  ASSUME NEW s \in Slot, NEW g \in Gradings
  PROVE  Classify(s, g) \in Analyses
  BY DEF Classify, Analyses, Gradings

\* The inductive invariant holds initially.
LEMMA InitIInv == Init => IInv /\ WitnessAttributed
  BY Slots DEF Init, IInv, TypeOK, MemoOwn, AtCase, Handed, NamedOf, Proven,
     JudgedOnOwnTree, InvalidHasCause, WitnessAttributed, RowSet, Reference

\* A step that makes no row and leaves the hook at no case keeps everything.
LEMMA Aside ==
  ASSUME IInv, UNCHANGED <<kept, last, analysis, rows>>,
         pc' \in {"slots", "returned", "raised", "timedout", "recorded"},
         tree' \subseteq Slot, control' = control, pc' = "slots" => pc = "slots",
         verdict' \in {"True", "False", "None", None},
         record' \in Records \cup {None}
  PROVE  IInv' /\ (WitnessAttributed => WitnessAttributed')
  BY DEF IInv, kept, TypeOK, MemoOwn, AtCase, Handed, NamedOf, Proven,
     JudgedOnOwnTree, InvalidHasCause, WitnessAttributed, RowSet

\* Every step keeps the invariant.
LEMMA NextIInv ==
  ASSUME IInv, [Next]_vars
  PROVE  IInv' /\ (WitnessAttributed => WitnessAttributed')
  <1>0. /\ TypeOK /\ MemoOwn /\ AtCase /\ Handed /\ NamedOf /\ Proven
        /\ JudgedOnOwnTree /\ InvalidHasCause
    BY DEF IInv
  <1> DEFINE Goal == IInv' /\ (WitnessAttributed => WitnessAttributed')
  <1>1. CASE Control
    <2>1. /\ graded' \in Gradings /\ memo' \in Memos /\ digest' \in SUBSET Slot
          /\ memo'.grading.tree = memo'.key
          /\ memo'.grading.named \in Named(memo'.grading.out)
      BY <1>0, <1>1, GradedOwn DEF Control, Reference
    <2>2. rows' = <<>> /\ RowSet' = {}
      <3>1. rows' = <<>>
        BY <1>0, <1>1 DEF Control, Proven
      <3>2. QED
        BY <3>1 DEF RowSet
    <2>3. TypeOK' /\ MemoOwn' /\ AtCase' /\ Handed' /\ NamedOf' /\ Proven'
      BY <1>0, <1>1, <2>1, <2>2
      DEF Control, Reference, TypeOK, MemoOwn, AtCase, Handed, NamedOf, Proven
    <2>4. JudgedOnOwnTree' /\ InvalidHasCause' /\ WitnessAttributed'
      BY <2>2 DEF JudgedOnOwnTree, InvalidHasCause, WitnessAttributed
    <2>5. QED
      BY <2>3, <2>4 DEF IInv
  <1>2. CASE NotApplicable \/ Refuse
    <2>1. PICK v \in {"NOT_APPLICABLE", "REFUSED"} : Row(At, v)
      BY <1>2 DEF NotApplicable, Refuse
    <2>2. /\ pc = "slots" /\ pc' = "slots" /\ More /\ tree' \subseteq Slot
          /\ UNCHANGED <<kept, last, analysis, control, verdict, record>>
      BY <1>0, <1>2 DEF NotApplicable, Refuse, Reference, TypeOK
    <2>3. /\ rows' \in Seq(Rows) /\ Len(rows') <= Len(Family)
          /\ RowSet' = RowSet \cup {[slot |-> At, verdict |-> v, graded |-> graded',
                                     digest |-> digest', analysis |-> analysis']}
      BY <1>0, <2>1, <2>2, RowAdded DEF TypeOK, kept
    <2>4. TypeOK' /\ MemoOwn' /\ AtCase' /\ Handed' /\ NamedOf' /\ Proven'
      BY <1>0, <2>2, <2>3 DEF TypeOK, kept, MemoOwn, AtCase, Handed, NamedOf, Proven
    <2>5. JudgedOnOwnTree' /\ InvalidHasCause' /\ (WitnessAttributed => WitnessAttributed')
      BY <1>0, <2>2, <2>3 DEF JudgedOnOwnTree, InvalidHasCause, WitnessAttributed, Judged
    <2>6. QED
      BY <2>4, <2>5 DEF IInv
  <1>3. CASE Apply
    <2>1. At \in Slot /\ More
      BY <1>0, <1>3, AtSlot DEF Apply
    <2>2. TypeOK' /\ AtCase'
      BY <1>0, <1>3, <2>1 DEF Apply, Reference, TypeOK, kept, AtCase, More, At
    <2>3. QED
      BY <1>0, <1>3, <2>2 DEF Apply, kept, IInv, MemoOwn, Handed, NamedOf, Proven,
         JudgedOnOwnTree, InvalidHasCause, WitnessAttributed, RowSet
  <1>4. CASE OracleSilent
    <2>1. /\ pc = "oracle" /\ pc' = "slots" /\ More /\ analysis' = last
          /\ UNCHANGED <<tree, kept, last, control, verdict, record>>
          /\ Row(At, "UNVALIDATED")
      BY <1>0, <1>4 DEF OracleSilent, AtCase
    <2>3. /\ rows' \in Seq(Rows) /\ Len(rows') <= Len(Family)
          /\ RowSet' = RowSet \cup {[slot |-> At, verdict |-> "UNVALIDATED",
                                     graded |-> graded', digest |-> digest',
                                     analysis |-> analysis']}
      BY <1>0, <2>1, RowAdded DEF TypeOK, kept
    <2>4. TypeOK' /\ MemoOwn' /\ AtCase' /\ Handed' /\ NamedOf' /\ Proven'
      BY <1>0, <2>1, <2>3 DEF TypeOK, kept, MemoOwn, AtCase, Handed, NamedOf, Proven
    <2>5. JudgedOnOwnTree' /\ InvalidHasCause' /\ (WitnessAttributed => WitnessAttributed')
      BY <1>0, <2>1, <2>3 DEF JudgedOnOwnTree, InvalidHasCause, WitnessAttributed, Judged
    <2>6. QED
      BY <2>4, <2>5 DEF IInv
  <1>5. CASE OracleLoud
    <2>1. /\ pc = "oracle" /\ More /\ At \in Slot /\ tree = {At} /\ control = "OK"
          /\ UNCHANGED <<tree, control, verdict, record>>
          /\ last' = Classify(At, graded') /\ analysis' = last'
      BY <1>0, <1>5, AtSlot DEF OracleLoud, AtCase, Proven
    <2>2. /\ graded' \in Gradings /\ graded'.tree = {At}
          /\ graded'.named \in Named(graded'.out)
          /\ memo' \in Memos /\ memo'.key = {At} /\ memo'.grading = graded'
          /\ digest' \in SUBSET Slot
      BY <1>0, <1>5, <2>1, GradedOwn DEF OracleLoud
    <2>3. /\ last' \in Analyses
          /\ last'.slot = At
          /\ last'.broke = {t \in graded'.named : graded'.out[t] = "broke"}
          /\ last'.unparsed = {t \in graded'.named : graded'.out[t] = "unparsed"}
      BY <2>1, <2>2, ClassifyType DEF Classify
    <2>4. MemoOwn' /\ NamedOf'
      BY <2>2 DEF MemoOwn, NamedOf
    <2>5. graded'.named \subseteq Test /\ graded'.out \in Outcomes
      BY <2>2 DEF Gradings
    <2>6. CASE /\ pc' = "slots"
               /\ \/ Row(At, "UNVALIDATED")
                  \/ last'.unparsed = {} /\ last'.broke # {} /\ Row(At, "INVALID")
      <3>1. PICK v \in {"UNVALIDATED", "INVALID"} :
              /\ Row(At, v)
              /\ v = "INVALID" => last'.unparsed = {} /\ last'.broke # {}
        BY <2>6
      <3>2. /\ rows' \in Seq(Rows) /\ Len(rows') <= Len(Family)
            /\ RowSet' = RowSet \cup {[slot |-> At, verdict |-> v, graded |-> graded',
                                       digest |-> digest', analysis |-> analysis']}
        BY <1>0, <2>1, <2>2, <2>3, <3>1, RowAdded DEF Judged
      <3>3. TypeOK' /\ AtCase' /\ Handed' /\ Proven'
        BY <1>0, <2>1, <2>2, <2>3, <2>6, <3>2 DEF TypeOK, AtCase, Handed, Proven
      <3>4. JudgedOnOwnTree'
        BY <1>0, <2>2, <3>2 DEF JudgedOnOwnTree
      <3>5. InvalidHasCause'
        BY <1>0, <2>1, <2>3, <2>5, <3>1, <3>2 DEF InvalidHasCause
      <3>6. WitnessAttributed => WitnessAttributed'
        BY <2>1, <3>1, <3>2 DEF WitnessAttributed
      <3>7. QED
        BY <2>4, <3>3, <3>4, <3>5, <3>6 DEF IInv
    <2>7. CASE /\ last'.unparsed = {} /\ last'.broke = {}
               /\ pc' = "reward" /\ UNCHANGED rows
      <3>1. TypeOK' /\ AtCase' /\ Proven'
        BY <1>0, <2>1, <2>2, <2>3, <2>7 DEF TypeOK, AtCase, Proven, More, At
      <3>2. Handed'
        <4>1. \A t \in graded'.named : graded'.out[t] = "coupled"
          <5>1. \A t \in graded'.named : t \in Failing(graded'.out)
            BY <2>2 DEF Named
          <5>2. QED
            BY <5>1, <2>3, <2>5, <2>7 DEF Failing, Outcomes
        <4>2. memo' # None
          BY <2>2, Absent
        <4>3. At' = At
          BY <2>7 DEF At
        <4>4. QED
          BY <2>2, <4>1, <4>2, <4>3 DEF Handed
      <3>3. RowSet' = RowSet
        BY <2>7 DEF RowSet
      <3>4. JudgedOnOwnTree' /\ InvalidHasCause' /\ (WitnessAttributed => WitnessAttributed')
        BY <1>0, <2>1, <3>3 DEF JudgedOnOwnTree, InvalidHasCause, WitnessAttributed
      <3>5. QED
        BY <2>4, <3>1, <3>2, <3>4 DEF IInv
    <2>8. QED
      BY <1>5, <2>6, <2>7 DEF OracleLoud
  <1>6. CASE RewardStep
    <2>1. /\ pc = "reward" /\ More /\ At \in Slot /\ tree' = {At} /\ control = "OK"
          /\ pc' = "slots" /\ UNCHANGED <<last, analysis, control, verdict, record>>
      BY <1>0, <1>6, AtSlot DEF RewardStep, Reference, AtCase, Proven
    <2>2. /\ graded' \in Gradings /\ graded'.tree = {At}
          /\ graded'.named \in Named(graded'.out)
          /\ memo' \in Memos /\ memo'.key = {At} /\ memo'.grading = graded'
          /\ digest' \in SUBSET Slot
          /\ graded' = memo.grading
      BY <1>0, <1>6, <2>1, GradedOwn DEF RewardStep, Handed
    <2>3. PICK v \in {"WITNESS", "CLEAN"} :
            Row(At, v) /\ (v = "WITNESS" => Reward(graded') = 0)
      BY <1>6 DEF RewardStep
    <2>4. /\ rows' \in Seq(Rows) /\ Len(rows') <= Len(Family)
          /\ RowSet' = RowSet \cup {[slot |-> At, verdict |-> v, graded |-> graded',
                                     digest |-> digest', analysis |-> analysis']}
      BY <1>0, <2>1, <2>2, <2>3, RowAdded DEF Judged, TypeOK
    <2>5. TypeOK' /\ MemoOwn' /\ AtCase' /\ Handed' /\ NamedOf' /\ Proven'
      BY <1>0, <2>1, <2>2, <2>4 DEF TypeOK, MemoOwn, AtCase, Handed, NamedOf, Proven
    <2>6. JudgedOnOwnTree' /\ InvalidHasCause'
      BY <1>0, <2>1, <2>2, <2>3, <2>4 DEF JudgedOnOwnTree, InvalidHasCause
    <2>7. ASSUME WitnessAttributed
          PROVE  WitnessAttributed'
      <3>1. \A t \in graded'.named : graded'.out[t] = "coupled"
        BY <1>0, <2>1, <2>2 DEF Handed
      <3>2. Failing(graded'.out) # {} => ByName(graded'.out)
        BY <2>2, <3>1, NamedEnough DEF Gradings
      <3>3. v = "WITNESS" => Failing(graded'.out) # {}
        BY <2>3 DEF Reward
      <3>4. QED
        BY <2>1, <2>4, <2>7, <3>2, <3>3 DEF WitnessAttributed
    <2>8. QED
      BY <2>5, <2>6, <2>7 DEF IInv
  <1>7. CASE Return \/ Raise \/ Timeout \/ BuildRecord \/ Recorded
    <2>1. CASE Return
      <3>1. /\ UNCHANGED <<kept, last, analysis, control, rows, record>>
            /\ pc' = "returned" /\ tree' = {}
            /\ verdict' \in {"True", "False", "None"}
        BY <2>1 DEF Return, Reference
      <3>2. QED
        BY <1>0, <3>1, Aside DEF TypeOK, kept
    <2>2. CASE Raise \/ Timeout
      BY <1>0, <2>2, Aside DEF Raise, Timeout, TypeOK, kept
    <2>3. CASE BuildRecord
      <3>1. record' \in Records
        BY <2>3 DEF BuildRecord, Records, RowOf
      <3>2. QED
        BY <1>0, <2>3, <3>1, Aside DEF BuildRecord, TypeOK, kept
    <2>4. CASE Recorded
      BY <1>0, <2>4, Aside DEF Recorded, vars, TypeOK, kept
    <2>5. QED
      BY <1>7, <2>1, <2>2, <2>3, <2>4
  <1>8. CASE UNCHANGED vars
    BY <1>0, <1>8 DEF vars, kept, IInv, TypeOK, MemoOwn, AtCase, Handed, NamedOf, Proven,
       JudgedOnOwnTree, InvalidHasCause, WitnessAttributed, RowSet, More, At
  <1>9. QED
    BY <1>1, <1>2, <1>3, <1>4, <1>5, <1>6, <1>7, <1>8 DEF Next

\* A judged row rests on a run of its own transform; an invalid one on a failure
\* that was read.
THEOREM VerdictSoundness == Spec => [](JudgedOnOwnTree /\ InvalidHasCause)
  <1>1. Init => IInv
    BY InitIInv
  <1>2. IInv /\ [Next]_vars => IInv'
    BY NextIInv
  <1>3. IInv => JudgedOnOwnTree /\ InvalidHasCause
    BY DEF IInv
  <1>4. QED
    BY <1>1, <1>2, <1>3, PTL DEF Spec

\* Whatever its suite and however flaky, a witness of the check fails by name in every
\* F2P test it fails, and in every P2P test or as many as a grading names.
THEOREM WitnessSoundness == Spec => []WitnessAttributed
  <1> DEFINE Inv == IInv /\ WitnessAttributed
  <1>1. Init => Inv
    BY InitIInv
  <1>2. Inv /\ [Next]_vars => Inv'
    BY NextIInv
  <1>3. Inv => WitnessAttributed
    OBVIOUS
  <1>4. QED
    BY <1>1, <1>2, <1>3, PTL DEF Spec

-----------------------------------------------------------------------------
\* Until the hook returns there is neither a tri-state nor a record; when it has
\* returned on a proven harness, the family is through.
Open  == {"control", "slots", "oracle", "reward", "raised", "timedout"}
Pending ==
  /\ pc \in Open => verdict = None /\ record = None
  /\ pc = "returned" => record = None /\ (control = "OK" => Len(rows) = Len(Family))

Meant == Pending /\ VerdictMeans /\ WholeUnlessError

\* A step towards the end, which leaves the tri-state and the record alone.
LEMMA StillOpen ==
  ASSUME Meant, pc \in Open, pc' \in Open, UNCHANGED <<verdict, record>>
  PROVE  Meant'
  <1>1. verdict' = None /\ record' = None
    BY DEF Meant, Pending
  <1>2. VerdictMeans'
    BY <1>1, Absent DEF VerdictMeans
  <1>3. WholeUnlessError'
    BY <1>1 DEF WholeUnlessError
  <1>4. QED
    BY <1>1, <1>2, <1>3 DEF Meant, Pending, Open

LEMMA MeantStep ==
  ASSUME IInv, Meant, [Next]_vars
  PROVE  Meant'
  <1>0. TypeOK /\ Proven /\ Pending /\ VerdictMeans /\ WholeUnlessError
    BY DEF IInv, Meant
  <1>1. CASE Control
    <2>1. CASE pc' = "slots"
      <3>1. pc \in Open /\ pc' \in Open /\ UNCHANGED <<verdict, record>>
        BY <1>1, <2>1 DEF Control, Open
      <3>2. QED
        BY <3>1, StillOpen
    <2>2. CASE pc' # "slots"
      <3>1. /\ pc = "control" /\ pc' = "returned" /\ control' = "HARNESS_UNPROVEN"
            /\ verdict' = "None" /\ UNCHANGED <<rows, record>>
        BY <1>1, <2>2 DEF Control
      <3>2. RowSet' = {} /\ record' = None
        BY <1>0, <3>1 DEF Proven, Pending, Open, RowSet
      <3>3. Pending'
        BY <3>1, <3>2 DEF Pending, Open
      <3>4. VerdictMeans' /\ WholeUnlessError'
        BY <3>1, <3>2 DEF VerdictMeans, WholeUnlessError
      <3>5. QED
        BY <3>3, <3>4 DEF Meant
    <2>3. QED
      BY <2>1, <2>2
  <1>2. CASE NotApplicable \/ Refuse \/ Apply \/ OracleSilent \/ OracleLoud \/ RewardStep
             \/ Raise \/ Timeout
    <2>1. pc \in Open /\ pc' \in Open /\ UNCHANGED <<verdict, record>>
      BY <1>2 DEF NotApplicable, Refuse, Apply, OracleSilent, OracleLoud, RewardStep,
                  Raise, Timeout, Open
    <2>2. QED
      BY <2>1, StillOpen
  <1>3. CASE Return
    <2>1. /\ pc = "slots" /\ pc' = "returned" /\ ~More /\ UNCHANGED <<control, rows, record>>
          /\ verdict' = IF "WITNESS" \in Verdicts THEN "False"
                        ELSE IF Verdicts \cap Judged # {} THEN "True" ELSE "None"
      BY <1>3 DEF Return
    <2>2. control' = "OK" /\ RowSet' = RowSet
      BY <1>0, <2>1 DEF Proven, RowSet
    <2>3. Len(rows') = Len(Family)
      BY <1>0, <2>1, Slots DEF TypeOK, More
    <2>4. Pending' /\ WholeUnlessError'
      BY <1>0, <2>1, <2>3 DEF Pending, WholeUnlessError, Open
    <2>5. Verdicts = {r.verdict : r \in RowSet}
      BY DEF Verdicts, RowSet
    <2>6. verdict' # None
      BY <2>1, Absent
    <2>7. VerdictMeans'
      BY <2>1, <2>2, <2>5, <2>6 DEF VerdictMeans, Judged
    <2>8. QED
      BY <2>4, <2>7 DEF Meant
  <1>4. CASE BuildRecord
    <2>1. /\ pc \in {"returned", "raised", "timedout"} /\ pc' = "recorded"
          /\ record' = [completed |-> pc # "timedout", passed |-> control = "OK", row |-> RowOf]
          /\ UNCHANGED <<control, rows, verdict>>
      BY <1>4 DEF BuildRecord
    <2>2. /\ record'.completed <=> pc # "timedout"
          /\ record'.passed <=> control = "OK"
          /\ pc = "raised" => record'.row = "error"
      BY <2>1 DEF RowOf
    <2>3. WholeUnlessError'
      BY <1>0, <2>1, <2>2 DEF WholeUnlessError, Pending
    <2>4. Pending' /\ VerdictMeans'
      BY <1>0, <2>1 DEF Pending, Open, VerdictMeans, RowSet
    <2>5. QED
      BY <2>3, <2>4 DEF Meant
  <1>5. CASE Recorded \/ UNCHANGED vars
    BY <1>0, <1>5 DEF Recorded, vars, Meant, Pending, VerdictMeans, WholeUnlessError, RowSet
  <1>6. QED
    BY <1>1, <1>2, <1>3, <1>4, <1>5 DEF Next

\* Whatever ends a check, what it leaves says what it means: an invalid row has a cause
\* that was read, the tri-state is False exactly for a witness and True only for a judgement
\* on a proven harness, and a record that counts is of a whole family (formcheck, build_record).
THEOREM RecordSoundness == Spec => []RecordMeans
  <1>1. Init => IInv /\ Meant
    <2>1. Init => Meant
      BY Absent DEF Init, Meant, Pending, Open, VerdictMeans, WholeUnlessError
    <2>2. QED
      BY <2>1, InitIInv
  <1>2. IInv /\ Meant /\ [Next]_vars => (IInv /\ Meant)'
    BY NextIInv, MeantStep
  <1>3. IInv /\ Meant => RecordMeans
    BY DEF IInv, Meant, RecordMeans
  <1>4. QED
    BY <1>1, <1>2, <1>3, PTL DEF Spec
=============================================================================
