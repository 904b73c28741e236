-------------------------- MODULE RenameVerdict_proofs --------------------------
(***************************************************************************)
(* A case of symbol_rename for any gold patch, tree, order of the walk and *)
(* run of the suite: what the diff puts in scope, what the overlay may not  *)
(* touch, that a rename is whole or did not happen, what decides it, that   *)
(* the two phases agree, that each failing test is attributed by a block of *)
(* its own, and what a witness rests on.                                    *)
(***************************************************************************)
EXTENDS RenameVerdict, FiniteSetTheorems, SequenceTheorems, WellFoundedInduction, TLAPS

Early   == {"spec", "ineligible", "overlay_refused", "diff", "scope", "read", "raised",
            "anchors", "not_applicable"}
Renamed == [p \in DOMAIN before |-> Rewrite(before[p])]
Clean   == anchor.name \notin inst.issue /\ ~Hazardous(before)

-----------------------------------------------------------------------------
\* The inductive invariant, in parts.

\* The task specification is of the row, and an overlay that is applied was allowed.
Specified ==
  /\ inst \in Instances
  /\ pc \in Early \cup {"scan", "applied", "judged", "verdict"} \cup Ended
  /\ scope \subseteq Range(NameOf)
  /\ pc # "spec" => spec = [targets |-> Targets, tests |-> inst.tests, overlay |-> inst.overlay]
  /\ pc \notin {"spec", "ineligible", "overlay_refused"} =>
       Eligible /\ (inst.overlay # None => OverlayAllowed(inst.overlay, inst.tests))
  /\ pc = "raised" => \E p \in Targets : Gone(p)
  /\ pc = "anchors" => Targets \subseteq Sources

\* Before an anchor is picked there is no tree to speak of.
Unpicked == pc \in Early =>
  /\ before = Nowhere /\ tree = Nowhere /\ dynamic = {} /\ first = None
  /\ answer = NoAnswer

\* The tree of a reset: every file of it says what its occurrences are written as.
AsReset(p) == DOMAIN before[p] \subseteq Occurrence /\ before[p] = Source(DOMAIN before[p])
Picked == pc \notin Early =>
  /\ IsFiniteSet(DOMAIN before) /\ \A p \in DOMAIN before : AsReset(p) /\ p.id \in Nat
  /\ before = [p \in DOMAIN before |-> before[p]]
  /\ anchor.file \in DOMAIN before /\ "def" \in DOMAIN before[anchor.file]
  /\ anchor.name \in scope
  /\ None # Renamed

\* A file the scan has passed is rewritten, if nothing was hit so far.
Reaches(p) == {[file |-> p, all |-> o = "all"] : o \in Dynamic \cap DOMAIN before[p]}
Reach == UNION {Reaches(p) : p \in DOMAIN before}
Passed(p) ==
  /\ DOMAIN before[p] \cap (Raising \cup {"syntax"}) = {}
  /\ Reaches(p) \subseteq dynamic
  /\ dynamic = {} => RoundTrips(before[p]) /\ out[p] = Rewrite(before[p])
Walking == pc = "scan" =>
  /\ tree = before /\ answer = NoAnswer /\ anchor.name \notin inst.issue
  /\ todo \in Seq(DOMAIN before)
  /\ \A p \in DOMAIN before : p \in Range(todo) \/ Passed(p)
  /\ dynamic \subseteq Reach
  /\ DOMAIN out = DOMAIN before /\ out = [p \in DOMAIN out |-> out[p]]

\* An answer and what it rests on.
Answered ==
  /\ pc = "applied" => tree = before /\ out = Renamed
  /\ pc \in {"applied", "judged", "graded", "verdict"} =>
       Clean /\ dynamic = {} /\ answer = [v |-> "applied", why |-> "none", cite |-> None]
  /\ pc \in {"judged", "graded", "verdict"} => tree = Renamed
  /\ pc = "refused" =>
       /\ tree = before /\ answer.v = "refused"
       /\ anchor.name \in inst.issue \/ Hazardous(before)
       /\ dynamic \subseteq Reach
       /\ CitesStrongest /\ RefusedForCause

\* The second application is of a tree that the first one could rename.
Again ==
  /\ pc # "escaped"
  /\ pc \in {"judged", "verdict", "refused"} => first = None
  /\ pc = "graded" => first # None
  /\ first # None => first = Renamed /\ Clean

RInv == Specified /\ Unpicked /\ Picked /\ Walking /\ Answered /\ Again

\* What the oracle has read of the suite, and where a verdict comes from.
Asked ==
  /\ suite = NoBlock => asked = {}
  /\ suite # NoBlock => /\ asked \subseteq suite.named /\ suite.named \subseteq Failing
                        /\ Failing \ suite.named \subseteq P2PFails
  /\ DOMAIN why = asked
  /\ \A t \in asked : why[t] \in {"coupled", "broke", "unparsed"}
Judged ==
  /\ first # None => Partitioned /\ Satisfied = "yes"
  /\ pc = "verdict" => Partitioned /\ Satisfied # "yes"
  /\ verdict # None =>
       \/ pc = "verdict" /\ verdict \in {"INVALID", "UNVALIDATED"}
       \/ pc = "graded" /\ verdict = (IF Failing = {} THEN "CLEAN" ELSE "WITNESS")

IInv == RInv /\ Asked /\ Judged

-----------------------------------------------------------------------------
\* Lemmas about the operator.

\* The order of a walk names every file.
LEMMA Walks ==
  ASSUME NEW S, IsFiniteSet(S), NEW order \in SetToSeqs(S)
  PROVE  order \in Seq(S) /\ Range(order) = S
<1> DEFINE n == Cardinality(S)
<1>1. n \in Nat
  BY FS_CardinalityType
<1>2. order \in [1..n -> S] /\ \A i, j \in 1..n : i # j => order[i] # order[j]
  BY DEF SetToSeqs
<1>3. order \in Injection(1..n, S)
  BY <1>2 DEF Injection, IsInjective
<1>4. Cardinality(1..n) = n
  BY <1>1, FS_Interval
<1>5. order \in Surjection(1..n, S)
  BY <1>3, <1>4, FS_Injection
<1>6. Range(order) = S
  BY <1>2, <1>5 DEF Surjection, Range
<1>7. order \in Seq(S)
  BY <1>1, <1>2
<1>8. QED
  BY <1>6, <1>7

\* A file that holds none of the new name is got back from its rewriting, and one that
\* does not is not.
LEMMA RoundTrip ==
  ASSUME NEW S \in SUBSET Occurrence
  PROVE  RoundTrips(Source(S)) <=> "new" \notin S
<1> DEFINE src == Source(S)
<1>1. DOMAIN src = S /\ \A o \in S : src[o] = Written(o)
  BY DEF Source
<1>2. DOMAIN Back(Rewrite(src)) = S
  BY <1>1 DEF Back, Rewrite
<1>3. \A o \in S : Back(Rewrite(src))[o] = Written(o) <=> o # "new"
  BY <1>1 DEF Back, Rewrite, Written, Edited, Occurrence
<1>4. Back(Rewrite(src)) = [o \in S |-> Back(Rewrite(src))[o]]
  BY <1>1 DEF Back, Rewrite
<1>5. src = [o \in S |-> Written(o)]
  BY DEF Source
<1>6. Back(Rewrite(src)) = src <=> \A o \in S : Back(Rewrite(src))[o] = Written(o)
  <2> HIDE DEF src
  <2>1. QED
    BY <1>1, <1>4, <1>5
<1>7. QED
  BY <1>3, <1>6 DEF RoundTrips

\* A set of numbers that is not empty has a least one.
LEMMA Least ==
  ASSUME NEW S \in SUBSET Nat, S # {}
  PROVE  \E x \in S : \A y \in S : x <= y
<1> DEFINE R == {p \in Nat \X Nat : p[1] < p[2]}
<1>1. IsWellFoundedOn(R, Nat)
  BY NatLessThanWellFounded DEF OpToRel
<1>2. \A x, y \in Nat : x < y => <<x, y>> \in R
  OBVIOUS
<1> HIDE DEF R
<1>3. PICK x \in S : \A y \in S : <<y, x>> \notin R
  BY <1>1, WFMin
<1>4. \A y \in S : ~(y < x)
  BY <1>2, <1>3
<1>5. QED
  BY <1>4

-----------------------------------------------------------------------------
\* The initial state, and the steps up to the choice of an anchor.

LEMMA InitInv == Init => IInv
<1> SUFFICES ASSUME Init  PROVE IInv
  OBVIOUS
<1> USE DEF Init, PatchInit, RenameInit, NotRead
<1>1. Specified
  BY DEF Specified, Early
<1>2. Unpicked
  BY DEF Unpicked
<1>3. Picked /\ Walking /\ Answered
  BY DEF Picked, Walking, Answered, Early
<1>4. Again
  BY DEF Again
<1>5. Asked /\ Judged
  BY DEF Asked, Judged
<1>6. QED
  BY <1>1, <1>2, <1>3, <1>4, <1>5 DEF IInv, RInv

\* What the row alone decides stays while the row and its specification do.
LEMMA SpecifiedStays ==
  ASSUME Specified, UNCHANGED <<inst, spec, scope>>,
         pc \notin {"spec", "ineligible", "overlay_refused", "raised"},
         pc' \in {"diff", "scope", "read", "not_applicable", "scan", "applied", "judged",
                  "verdict", "refused", "escaped", "graded"}
  PROVE  Specified'
  BY DEF Specified, Early, Ended, Targets, GoldFiles, Eligible

LEMMA EarlyStep ==
  ASSUME RInv, PatchNext, UNCHANGED renameVars
  PROVE  RInv' /\ pc \in Early /\ pc' \in Early
<1> USE DEF patchVars, renameVars
<1>1. pc \in Early /\ pc' \in Early
  BY DEF PatchNext, BuildSpec, ReadHeader, ReadMark, ReadHunk, ReadAdded, ReadRemoved,
         ReadContext, Read, DiffRead, Scope, Early
<1>2. Specified'
  <2>1. CASE BuildSpec
    <3>1. /\ pc' \in {"ineligible", "overlay_refused", "diff"}
          /\ pc' = "diff" => Eligible /\ (inst.overlay # None => OverlayAllowed(inst.overlay, inst.tests))
          /\ spec' = [targets |-> Targets, tests |-> inst.tests, overlay |-> inst.overlay]
          /\ UNCHANGED <<inst, scope>>
      BY <2>1 DEF BuildSpec
    <3>2. QED
      BY <3>1, <1>1 DEF RInv, Specified, Targets, GoldFiles, Eligible
  <2>2. CASE ReadHeader \/ ReadMark \/ ReadHunk \/ ReadAdded \/ ReadRemoved \/ ReadContext
    BY <2>2, SpecifiedStays DEF RInv, ReadHeader, ReadMark, ReadHunk, ReadAdded, ReadRemoved,
         ReadContext, Read
  <2>3. CASE DiffRead
    BY <2>3, SpecifiedStays DEF RInv, DiffRead
  <2>4. CASE Scope
    <3>1. pc = "scope" /\ pc' = "read" /\ UNCHANGED <<inst, spec>>
      BY <2>4 DEF Scope
    <3>2. scope' \subseteq Range(NameOf)
      BY <2>4, Naming DEF Scope, SymbolsCovering, Range
    <3>3. QED
      BY <3>1, <3>2 DEF RInv, Specified, Early, Targets, GoldFiles, Eligible
  <2>5. QED
    BY <2>1, <2>2, <2>3, <2>4 DEF PatchNext
<1>3. Unpicked'
  BY <1>1 DEF RInv, Unpicked
<1>4. Picked' /\ Walking' /\ Answered'
  BY <1>1 DEF Picked, Walking, Answered, Early
<1>5. Again'
  BY <1>1 DEF RInv, Again, Unpicked, Early
<1>6. QED
  BY <1>1, <1>2, <1>3, <1>4, <1>5 DEF RInv

\* A target that the walk does not read was deleted.
LEMMA ReadTreeStep ==
  ASSUME RInv, ReadTree
  PROVE  RInv'
<1> USE DEF patchVars, renameVars
<1>1. pc = "read" /\ pc' \in {"anchors", "raised"} /\ UNCHANGED <<inst, spec, scope, renameVars>>
      /\ (pc' = "raised" => ~(spec.targets \subseteq Sources))
  BY DEF ReadTree
<1>2. \A p \in Targets : p \in Range(GoldFiles) /\ InScan(p)
  BY DEF Targets, IsProductionPython, InScan
<1>3. Targets \subseteq Sources \/ \E p \in Targets : Gone(p)
  BY <1>2 DEF Sources, Scanned
<1>4. Specified'
  <2>1. spec.targets = Targets
    BY <1>1 DEF RInv, Specified
  <2>2. pc' = "raised" => \E p \in Targets : Gone(p)
    BY <1>1, <1>3, <2>1
  <2>3. pc' = "anchors" => Targets \subseteq Sources
    BY <1>1, <2>1 DEF ReadTree
  <2>4. Targets' = Targets /\ Sources' = Sources /\ GoldFiles' = GoldFiles
    <3>1. inst' = inst /\ GoldFiles' = GoldFiles
      BY <1>1 DEF GoldFiles
    <3>2. Targets' = Targets
      BY <3>1 DEF Targets
    <3>3. Sources' = Sources
      BY <3>1 DEF Sources, Scanned, Gone, FileAt, FirstTarget
    <3>4. QED
      BY <3>1, <3>2, <3>3
  <2>5. (\E p \in Targets : Gone(p)) => (\E p \in Targets : Gone(p))'
    BY <1>1, <2>4 DEF Gone, FileAt
  <2>6. QED
    BY <1>1, <2>2, <2>3, <2>4, <2>5 DEF RInv, Specified, Early, Eligible
<1>5. Unpicked'
  BY <1>1 DEF RInv, Unpicked, Early
<1>6. Picked' /\ Walking' /\ Answered' /\ Again'
  BY <1>1 DEF RInv, Picked, Walking, Answered, Early, Again, Unpicked
<1>7. QED
  BY <1>4, <1>5, <1>6 DEF RInv

LEMMA NoAnchorStep ==
  ASSUME RInv, NoAnchor
  PROVE  RInv'
<1> USE DEF patchVars, renameVars
<1>1. pc = "anchors" /\ pc' = "not_applicable" /\ UNCHANGED <<inst, spec, scope, renameVars>>
  BY DEF NoAnchor
<1>2. Specified'
  BY <1>1, SpecifiedStays DEF RInv
<1>3. Unpicked'
  BY <1>1 DEF RInv, Unpicked, Early
<1>4. Picked' /\ Walking' /\ Answered' /\ Again'
  BY <1>1 DEF RInv, Picked, Walking, Answered, Early, Again, Unpicked
<1>5. QED
  BY <1>2, <1>3, <1>4 DEF RInv

-----------------------------------------------------------------------------
\* Start, for the oracle and for the reward.

LEMMA Started ==
  ASSUME IsFiniteSet(DOMAIN before'), tree' = before', UNCHANGED inst,
         before' = [p \in DOMAIN before' |-> before'[p]],
         NEW order, Start(order), first' = None \/ (first' = Renamed' /\ Clean')
  PROVE  /\ pc' \in {"scan", "refused"} /\ (first' # None => pc' = "scan")
         /\ Unpicked' /\ Walking' /\ Answered' /\ Again'
<1>1. order \in SetToSeqs(DOMAIN before') /\ out' = before' /\ dynamic' = {}
  BY DEF Start
<1>2. order \in Seq(DOMAIN before') /\ Range(order) = DOMAIN before'
  BY <1>1, Walks
<1>3. CASE anchor'.name \in inst.issue
  <2>1. pc' = "refused" /\ answer' = [v |-> "refused", why |-> "contract", cite |-> None]
    BY <1>3 DEF Start
  <2>2. first' = None
    BY <1>3 DEF Clean
  <2>3. Answered'
    <3>1. answer'.v = "refused" /\ answer'.why # "dynamic"
      BY <2>1
    <3>2. CitesStrongest'
      BY <3>1 DEF CitesStrongest
    <3>3. RefusedForCause'
      BY <1>3, <2>1 DEF RefusedForCause
    <3>4. QED
      BY <1>1, <1>3, <2>1, <3>1, <3>2, <3>3 DEF Answered
  <2>4. QED
    BY <2>1, <2>2, <2>3 DEF Unpicked, Early, Walking, Again
<1>4. CASE anchor'.name \notin inst.issue
  <2>1. pc' = "scan" /\ answer' = NoAnswer /\ todo' = order
    BY <1>4 DEF Start
  <2>2. Walking'
    BY <1>1, <1>2, <1>4, <2>1 DEF Walking
  <2>3. QED
    BY <2>1, <2>2 DEF Unpicked, Early, Answered, Again
<1>5. QED
  BY <1>3, <1>4

\* The files of a walk are files of the row, finitely many.
LEMMA SourcesOfRow ==
  ASSUME inst \in Instances, Eligible, spec.targets = Targets
  PROVE  IsFiniteSet(Sources) /\ Sources \in SUBSET Files(inst)
<1> DEFINE n == Len(inst.gold)
<1>1. n \in Nat /\ DOMAIN inst.gold = 1..n
  BY Rows
<1>2. GoldFiles \in [1..n -> Range(GoldFiles)]
  BY <1>1 DEF GoldFiles, Range
<1>3. GoldFiles \in Surjection(1..n, Range(GoldFiles))
  BY <1>2 DEF Surjection, Range
<1>4. IsFiniteSet(Range(GoldFiles))
  BY <1>1, <1>3, FS_Interval, FS_Surjection
<1>5. Range(GoldFiles) \subseteq Files(inst) /\ Others \subseteq Files(inst)
  BY DEF Range, GoldFiles, Files
<1>6. FirstTarget \in Range(GoldFiles)
  <2> DEFINE hits == {k \in DOMAIN GoldFiles : IsProductionPython(GoldFiles[k])}
  <2>1. hits \in SUBSET Nat /\ hits # {}
    BY <1>1, <1>2 DEF Eligible, Targets, Range
  <2>2. \E k \in hits : \A j \in hits : k <= j
    BY <2>1, Least
  <2>3. (CHOOSE k \in hits : \A j \in hits : k <= j) \in hits
    <3> HIDE DEF hits
    <3>1. QED
      BY <2>2
  <2>4. QED
    BY <2>3 DEF FirstTarget, Range
<1>7. Sources \subseteq Range(GoldFiles) \cup Others
  BY <1>6 DEF Sources, Scanned
<1>8. IsFiniteSet(Range(GoldFiles) \cup Others)
  BY <1>4, Paths, FS_Union
<1>9. QED
  BY <1>5, <1>7, <1>8, FS_Subset

LEMMA PickStep ==
  ASSUME RInv, Pick
  PROVE  RInv'
<1>1. pc = "anchors" /\ UNCHANGED <<inst, spec, scope, first>>
  BY DEF Pick
<1>2. PICK a \in InScopeAnchors, t \in Trees(inst, Sources) :
        /\ "def" \in t[a.file]
        /\ anchor' = a /\ before' = [p \in Sources |-> Source(t[p])] /\ tree' = before'
  BY DEF Pick
<1>3. PICK order : Start(order)
  BY DEF Pick
<1>4. /\ inst \in Instances /\ Eligible /\ spec.targets = Targets /\ Targets \subseteq Sources
      /\ first = None
  BY <1>1 DEF RInv, Specified, Unpicked, Early
<1>5. IsFiniteSet(Sources) /\ Sources \in SUBSET Files(inst)
  BY <1>4, SourcesOfRow
<1>6. t \in [Sources -> SUBSET Occurrence] /\ None # [p \in Sources |-> Rewrite(Source(t[p]))]
  BY <1>4, <1>5, TreesOfFiles
<1>7. DOMAIN before' = Sources /\ \A p \in Sources : before'[p] = Source(t[p])
  BY <1>2
<1>8. \A p \in Sources : DOMAIN before'[p] = t[p]
  BY <1>7 DEF Source
<1>9. before' = [p \in DOMAIN before' |-> before'[p]]
  BY <1>2
<1>10. /\ pc' \in {"scan", "refused"}
       /\ Unpicked' /\ Walking' /\ Answered' /\ Again'
  <2>1. IsFiniteSet(DOMAIN before') /\ tree' = before' /\ UNCHANGED inst /\ first' = None
    BY <1>1, <1>2, <1>4, <1>5, <1>7
  <2>2. QED
    BY <1>3, <1>9, <2>1, Started
<1>11. a.file \in Sources /\ a.name \in scope
  BY <1>4 DEF InScopeAnchors
<1>12. Picked'
  <2>1. None # Renamed'
    BY <1>6, <1>7 DEF Renamed
  <2>2. \A p \in DOMAIN before' : AsReset(p)' /\ p.id \in Nat
    BY <1>4, <1>5, <1>6, <1>7, <1>8, Paths DEF AsReset
  <2>3. QED
    BY <1>1, <1>2, <1>5, <1>7, <1>8, <1>9, <1>11, <2>1, <2>2 DEF Picked
<1>13. Specified'
  BY <1>1, <1>10, SpecifiedStays DEF RInv
<1>14. QED
  BY <1>10, <1>12, <1>13 DEF RInv

-----------------------------------------------------------------------------
\* One step of the scan.

LEMMA Plain ==
  ASSUME Picked, pc \notin Early, NEW p \in DOMAIN before
  PROVE  RoundTrips(before[p]) <=> "new" \notin DOMAIN before[p]
<1>1. DOMAIN before[p] \in SUBSET Occurrence /\ before[p] = Source(DOMAIN before[p])
  BY DEF Picked, AsReset
<1>2. QED
  BY <1>1, RoundTrip

\* Nothing stops the scan of a clean tree.
LEMMA CleanTree ==
  ASSUME Picked, pc \notin Early, Clean, NEW p \in DOMAIN before
  PROVE  /\ DOMAIN before[p] \cap (Raising \cup Dynamic \cup {"syntax"}) = {}
         /\ RoundTrips(before[p]) /\ Reaches(p) = {}
  BY Plain DEF Clean, Hazardous, Reaches

LEMMA OneFile ==
  ASSUME NEW S, NEW s \in Seq(S), s # <<>>
  PROVE  /\ Head(s) \in S /\ Tail(s) \in Seq(S)
         /\ \A q \in Range(s) : q = Head(s) \/ q \in Range(Tail(s))
<1>1. ASSUME NEW i \in DOMAIN s, i # 1  PROVE s[i] \in Range(Tail(s))
  <2>1. i - 1 \in DOMAIN Tail(s) /\ Tail(s)[i - 1] = s[i]
    BY <1>1
  <2>2. QED
    BY <2>1 DEF Range
<1>2. QED
  BY <1>1 DEF Range

LEMMA ReachStays ==
  ASSUME before' = before
  PROVE  Reach' = Reach
  BY DEF Reach, Reaches

LEMMA ScanRaisesStep ==
  ASSUME RInv, ScanRaises
  PROVE  RInv'
<1> DEFINE p == Head(todo)
<1>1. /\ pc = "scan" /\ todo # <<>>
      /\ UNCHANGED <<inst, spec, scope, anchor, before, tree, todo, out, dynamic, first>>
  BY DEF ScanRaises
<1>2. p \in DOMAIN before /\ tree = before
  BY <1>1 DEF RInv, Walking
<1>3. PICK w \in Raising \cup {"syntax"} : w \in DOMAIN tree[p] /\ Refuse(w, p)
  BY DEF ScanRaises, Raising
<1>4. Hazardous(before)
  BY <1>2, <1>3 DEF Hazardous
<1>5. first = None
  BY <1>4 DEF RInv, Again, Clean
<1>6. pc' = "refused" /\ answer' = [v |-> "refused", why |-> w, cite |-> p]
  BY <1>3, <1>5 DEF Refuse
<1>7. Specified'
  BY <1>1, <1>6, SpecifiedStays DEF RInv
<1>8. Picked'
  BY <1>1, <1>6 DEF RInv, Picked, AsReset, Renamed, Early
<1>9. Answered'
  <2>1. w # "dynamic"
    BY DEF Raising
  <2>2. CitesStrongest'
    BY <1>6, <2>1 DEF CitesStrongest
  <2>3. (Hazardous(before))'
    BY <1>1, <1>4 DEF Hazardous
  <2>4. dynamic' \subseteq Reach'
    BY <1>1, ReachStays DEF RInv, Walking
  <2>5. RefusedForCause'
    <3>1. anchor'.name \notin inst'.issue
      BY <1>1 DEF RInv, Walking
    <3>2. p \in DOMAIN before' /\ w \in DOMAIN before'[p]
      BY <1>1, <1>2, <1>3
    <3>3. QED
      BY <1>6, <3>1, <3>2 DEF RefusedForCause
  <2>6. QED
    BY <1>1, <1>2, <1>6, <2>2, <2>3, <2>4, <2>5 DEF Answered
<1>10. Unpicked' /\ Walking' /\ Again'
  BY <1>1, <1>5, <1>6 DEF Unpicked, Early, Walking, Again
<1>11. QED
  BY <1>7, <1>8, <1>9, <1>10 DEF RInv

\* What is known of the files stays while they and the answer do.
LEMMA ScanFrame ==
  ASSUME RInv, pc = "scan", UNCHANGED <<inst, pc, spec, scope, anchor, before, tree, answer, first>>
  PROVE  Specified' /\ Unpicked' /\ Picked' /\ Answered' /\ Again'
<1>1. Specified'
  BY SpecifiedStays DEF RInv
<1>2. Picked'
  BY DEF RInv, Picked, AsReset, Renamed, Early
<1>3. Unpicked' /\ Answered'
  BY DEF Unpicked, Early, Answered
<1>4. Again'
  BY DEF RInv, Again, Renamed, Clean, Hazardous
<1>5. QED
  BY <1>1, <1>2, <1>3, <1>4

LEMMA ScanDynamicStep ==
  ASSUME RInv, ScanDynamic
  PROVE  RInv'
<1> DEFINE p == Head(todo)
<1>1. /\ pc = "scan" /\ todo # <<>> /\ Readable(p) /\ dynamic \cup Hits(p) # {}
      /\ UNCHANGED <<inst, pc, spec, scope, anchor, before, tree, out, answer, first>>
      /\ dynamic' = dynamic \cup Hits(p) /\ todo' = Tail(todo)
  BY DEF ScanDynamic
<1>2. Specified' /\ Unpicked' /\ Picked' /\ Answered' /\ Again'
  BY <1>1, ScanFrame
<1>3. p \in DOMAIN before /\ tree = before /\ Hits(p) = Reaches(p) /\ Walking
  BY <1>1 DEF RInv, Walking, Hits, Reaches
<1>4. todo' \in Seq(DOMAIN before) /\ \A q \in Range(todo) : q = p \/ q \in Range(todo')
  BY <1>1, <1>3, OneFile DEF Walking
<1>5. \A q \in DOMAIN before : q \in Range(todo') \/ Passed(q)'
  <2> SUFFICES ASSUME NEW q \in DOMAIN before, q \notin Range(todo')  PROVE Passed(q)'
    OBVIOUS
  <2>1. Passed(q) \/ q = p
    BY <1>1, <1>3, <1>4 DEF Walking
  <2>2. DOMAIN before[q] \cap (Raising \cup {"syntax"}) = {} /\ Reaches(q) \subseteq dynamic'
    BY <1>1, <1>3, <2>1 DEF Passed, Readable
  <2>3. QED
    BY <1>1, <2>2 DEF Passed, Reaches
<1>6. dynamic' \subseteq Reach
  BY <1>1, <1>3 DEF Walking, Reach
<1>7. Walking'
  <2>1. dynamic' \subseteq Reach'
    BY <1>1, <1>6, ReachStays
  <2>2. QED
    BY <1>1, <1>3, <1>4, <1>5, <2>1 DEF Walking
<1>8. QED
  BY <1>2, <1>7 DEF RInv

LEMMA ScanRewritesStep ==
  ASSUME RInv, ScanRewrites
  PROVE  RInv'
<1> DEFINE p == Head(todo)
<1>1. /\ pc = "scan" /\ todo # <<>> /\ Readable(p) /\ dynamic \cup Hits(p) = {}
      /\ UNCHANGED <<inst, spec, scope, anchor, before, tree, dynamic, first>>
  BY DEF ScanRewrites
<1>2. p \in DOMAIN before /\ tree = before /\ Hits(p) = Reaches(p) /\ Walking
  BY <1>1 DEF RInv, Walking, Hits, Reaches
<1>3. CASE RoundTrips(tree[p])
  <2>1. /\ out' = [out EXCEPT ![p] = Rewrite(tree[p])] /\ todo' = Tail(todo)
        /\ UNCHANGED <<pc, answer>>
    BY <1>3 DEF ScanRewrites
  <2>2. Specified' /\ Unpicked' /\ Picked' /\ Answered' /\ Again'
    BY <1>1, <2>1, ScanFrame
  <2>3. todo' \in Seq(DOMAIN before) /\ \A q \in Range(todo) : q = p \/ q \in Range(todo')
    BY <1>1, <1>2, <2>1, OneFile DEF Walking
  <2>4. DOMAIN out' = DOMAIN before /\ out'[p] = Rewrite(before[p])
        /\ \A q \in DOMAIN before : q # p => out'[q] = out[q]
    BY <1>1, <1>2, <2>1 DEF Walking
  <2>5. \A q \in DOMAIN before : q \in Range(todo') \/ Passed(q)'
    <3> SUFFICES ASSUME NEW q \in DOMAIN before, q \notin Range(todo')  PROVE Passed(q)'
      OBVIOUS
    <3>1. Passed(q) \/ q = p
      BY <1>1, <1>2, <2>3 DEF Walking
    <3>2. /\ DOMAIN before[q] \cap (Raising \cup {"syntax"}) = {} /\ Reaches(q) \subseteq dynamic
          /\ RoundTrips(before[q]) /\ out'[q] = Rewrite(before[q])
      BY <1>1, <1>2, <1>3, <2>4, <3>1 DEF Passed, Readable
    <3>3. QED
      BY <1>1, <3>2 DEF Passed, Reaches
  <2>6. out' = [q \in DOMAIN out' |-> out'[q]]
    BY <1>1, <1>2, <2>1 DEF Walking
  <2>7. Walking'
    <3>1. dynamic' = {}
      BY <1>1
    <3>2. QED
      BY <1>1, <1>2, <2>1, <2>3, <2>4, <2>5, <2>6, <3>1 DEF Walking
  <2>8. QED
    BY <2>2, <2>7 DEF RInv
<1>4. CASE ~RoundTrips(tree[p])
  <2>1. Refuse("round_trip", p) /\ UNCHANGED <<out, todo>>
    BY <1>4 DEF ScanRewrites
  <2>2. "new" \in DOMAIN before[p]
    BY <1>1, <1>2, <1>4, Plain DEF RInv, Early
  <2>3. Hazardous(before)
    BY <1>2, <2>2 DEF Hazardous
  <2>4. first = None
    BY <2>3 DEF RInv, Again, Clean
  <2>5. pc' = "refused" /\ answer' = [v |-> "refused", why |-> "round_trip", cite |-> p]
    BY <2>1, <2>4 DEF Refuse
  <2>6. Specified'
    BY <1>1, <2>5, SpecifiedStays DEF RInv
  <2>7. Picked'
    BY <1>1, <2>5 DEF RInv, Picked, AsReset, Renamed, Early
  <2>8. Answered'
    <3>1. CitesStrongest'
      BY <2>5 DEF CitesStrongest
    <3>2. (Hazardous(before))'
      BY <1>1, <2>3 DEF Hazardous
    <3>3. dynamic' = {}
      BY <1>1
    <3>4. RefusedForCause'
      <4>1. anchor'.name \notin inst'.issue
        BY <1>1, <1>2 DEF Walking
      <4>2. p \in DOMAIN before' /\ "new" \in DOMAIN before'[p]
        BY <1>1, <1>2, <2>2
      <4>3. QED
        BY <2>5, <4>1, <4>2 DEF RefusedForCause
    <3>5. QED
      BY <1>1, <1>2, <2>5, <3>1, <3>2, <3>3, <3>4 DEF Answered
  <2>9. Unpicked' /\ Walking' /\ Again'
    BY <1>1, <2>4, <2>5 DEF Unpicked, Early, Walking, Again
  <2>10. QED
    BY <2>6, <2>7, <2>8, <2>9 DEF RInv
<1>5. QED
  BY <1>3, <1>4

-----------------------------------------------------------------------------
\* The end of the scan: what is cited, and what an applied rename has seen.

Best(hits) == LET pub  == {h \in hits : h.all}
               best == IF pub # {} THEN pub ELSE hits
               open_ == {h \in best : ~Private(h.file)}
           IN IF open_ # {} THEN open_ ELSE best

LEMMA SomeStrongest ==
  ASSUME NEW hits, hits # {}, \A h \in hits : h.file.id \in Nat /\ h.all \in BOOLEAN
  PROVE  /\ Strongest(hits) \in Best(hits)
         /\ \A g \in Best(hits) : Strongest(hits).file.id <= g.file.id
<1> DEFINE ids == {h.file.id : h \in Best(hits)}
<1>1. Best(hits) # {} /\ Best(hits) \subseteq hits
  BY DEF Best
<1>2. ids \in SUBSET Nat /\ ids # {}
  BY <1>1
<1>3. PICK n \in ids : \A m \in ids : n <= m
  BY <1>2, Least
<1>4. PICK h \in Best(hits) : h.file.id = n
  BY <1>3
<1>5. \A g \in hits : Precedes(h, g)
  BY <1>1, <1>3, <1>4 DEF Best, Precedes, Private
<1> DEFINE s == Strongest(hits)
<1>6. s \in hits /\ \A g \in hits : Precedes(s, g)
  BY <1>1, <1>4, <1>5 DEF Strongest
<1>7. Precedes(s, h)
  BY <1>1, <1>4, <1>6
<1> HIDE DEF s
<1>8. s \in Best(hits)
  BY <1>1, <1>4, <1>6, <1>7 DEF Best, Precedes, Private
<1>9. ASSUME NEW g \in Best(hits)  PROVE s.file.id <= g.file.id
  BY <1>1, <1>6, <1>8, <1>9 DEF Best, Precedes, Private
<1>10. QED
  BY <1>8, <1>9 DEF s

\* Two ways to say which hits a tree has.
LEMMA Reals ==
  Reach = {h \in {[file |-> p, all |-> o = "all"] : p \in DOMAIN before, o \in Dynamic} :
             (IF h.all THEN "all" ELSE "literal") \in DOMAIN before[h.file]}
<1> DEFINE hits == {[file |-> p, all |-> o = "all"] : p \in DOMAIN before, o \in Dynamic}
           real == {h \in hits : (IF h.all THEN "all" ELSE "literal") \in DOMAIN before[h.file]}
<1>1. Dynamic = {"literal", "all"}
  BY DEF Dynamic
<1>2. ASSUME NEW h \in Reach  PROVE h \in real
  <2>1. PICK p \in DOMAIN before : h \in Reaches(p)
    BY DEF Reach
  <2>2. PICK o \in Dynamic \cap DOMAIN before[p] : h = [file |-> p, all |-> o = "all"]
    BY <2>1 DEF Reaches
  <2>3. h \in hits
    BY <2>2
  <2>4. h.file = p /\ (h.all <=> o = "all")
    BY <2>2
  <2>5. (IF h.all THEN "all" ELSE "literal") = o
    BY <1>1, <2>4
  <2>6. QED
    BY <2>3, <2>4, <2>5
<1>3. ASSUME NEW h \in real  PROVE h \in Reach
  <2>1. PICK p \in DOMAIN before, o \in Dynamic : h = [file |-> p, all |-> o = "all"]
    OBVIOUS
  <2> HIDE DEF real
  <2>2. h.file = p /\ h.all = (o = "all")
    BY <2>1
  <2>3. (IF h.all THEN "all" ELSE "literal") = o
    BY <1>1, <2>2
  <2>4. o \in DOMAIN before[p]
    BY <2>2, <2>3 DEF real
  <2>5. QED
    BY <2>1, <2>4 DEF Reach, Reaches
<1>4. QED
  BY <1>2, <1>3

LEMMA FinishStep ==
  ASSUME RInv, Finish
  PROVE  RInv'
<1>1. /\ pc = "scan" /\ todo = <<>>
      /\ UNCHANGED <<inst, spec, scope, anchor, before, tree, todo, out, dynamic, first>>
  BY DEF Finish
<1>2. Walking /\ Picked /\ tree = before /\ pc \notin Early
  BY <1>1 DEF RInv, Walking, Early
<1>3. \A p \in DOMAIN before : Passed(p)
  BY <1>1, <1>2 DEF Walking, Range
<1>4. dynamic = Reach
  BY <1>1, <1>2, <1>3 DEF Walking, Passed, Reach
<1>5. Picked' /\ Specified' /\ pc' \in {"refused", "applied", "escaped"}
  <2>1. pc' \in {"refused", "applied", "escaped"}
    BY <1>1 DEF Finish, Refuse
  <2>2. Picked'
    BY <1>1, <2>1 DEF RInv, Picked, AsReset, Renamed, Early
  <2>3. QED
    BY <1>1, <2>1, <2>2, SpecifiedStays DEF RInv
<1>6. CASE dynamic # {}
  <2>1. Refuse("dynamic", Strongest(dynamic))
    BY <1>6 DEF Finish
  <2>2. Hazardous(before)
    BY <1>4, <1>6 DEF Reach, Reaches, Hazardous
  <2>3. first = None
    BY <2>2 DEF RInv, Again, Clean
  <2>4. pc' = "refused" /\ answer' = [v |-> "refused", why |-> "dynamic", cite |-> Strongest(dynamic)]
    BY <2>1, <2>3 DEF Refuse
  <2>5. \A h \in Reach : h.file.id \in Nat /\ h.all \in BOOLEAN
    <3> SUFFICES ASSUME NEW h \in Reach  PROVE h.file.id \in Nat /\ h.all \in BOOLEAN
      OBVIOUS
    <3>1. PICK p \in DOMAIN before : h \in Reaches(p)
      BY DEF Reach
    <3>2. PICK o \in Dynamic \cap DOMAIN before[p] : h = [file |-> p, all |-> o = "all"]
      BY <3>1 DEF Reaches
    <3>3. h.file = p /\ h.all = (o = "all")
      BY <3>2
    <3>4. QED
      BY <1>2, <3>3 DEF Picked
  <2>6. /\ Strongest(dynamic) \in Best(Reach)
        /\ \A h \in Best(Reach) : Strongest(dynamic).file.id <= h.file.id
    BY <1>4, <1>6, <2>5, SomeStrongest
  <2>7. CitesStrongest'
    BY <1>1, <2>4, <2>6, Reals DEF CitesStrongest, Best
  <2>8. Answered'
    <3>1. (Hazardous(before))'
      BY <1>1, <2>2 DEF Hazardous
    <3>2. dynamic' \subseteq Reach'
      BY <1>1, <1>4, ReachStays
    <3>3. RefusedForCause'
      <4>1. anchor'.name \notin inst'.issue
        BY <1>1, <1>2 DEF Walking
      <4>2. \A p \in DOMAIN before' : DOMAIN before'[p] \cap (Raising \cup {"syntax"}) = {}
        BY <1>1, <1>3 DEF Passed
      <4>3. QED
        BY <2>4, <4>1, <4>2 DEF RefusedForCause
    <3>4. QED
      BY <1>1, <1>2, <2>4, <2>7, <3>1, <3>2, <3>3 DEF Answered
  <2>9. Unpicked' /\ Walking' /\ Again'
    BY <1>1, <2>3, <2>4 DEF Unpicked, Early, Walking, Again
  <2>10. QED
    BY <1>5, <2>8, <2>9 DEF RInv
<1>7. CASE dynamic = {}
  <2>1. answer' = [v |-> "applied", why |-> "none", cite |-> None] /\ pc' = "applied"
    BY <1>7 DEF Finish
  <2>2. \A p \in DOMAIN before :
          /\ DOMAIN before[p] \cap (Raising \cup Dynamic \cup {"new", "syntax"}) = {}
          /\ out[p] = Rewrite(before[p])
    <3> SUFFICES ASSUME NEW p \in DOMAIN before
                 PROVE  /\ DOMAIN before[p] \cap (Raising \cup Dynamic \cup {"new", "syntax"}) = {}
                        /\ out[p] = Rewrite(before[p])
      OBVIOUS
    <3>1. /\ DOMAIN before[p] \cap (Raising \cup {"syntax"}) = {} /\ Reaches(p) = {}
          /\ RoundTrips(before[p]) /\ out[p] = Rewrite(before[p])
      BY <1>3, <1>7 DEF Passed
    <3>2. ASSUME NEW o \in Dynamic \cap DOMAIN before[p]  PROVE FALSE
      <4>1. [file |-> p, all |-> o = "all"] \in Reaches(p)
        BY Zenon DEF Reaches
      <4>2. QED
        BY <3>1, <4>1
    <3>3. "new" \notin DOMAIN before[p]
      BY <1>2, <3>1, Plain
    <3>4. QED
      BY <3>1, <3>2, <3>3
  <2>3. Clean /\ out = Renamed
    BY <1>1, <1>2, <2>2 DEF Clean, Hazardous, Renamed, Walking
  <2>4. Clean' /\ Renamed' = Renamed
    BY <1>1, <2>3 DEF Clean, Hazardous, Renamed
  <2>5. Answered'
    BY <1>1, <1>2, <1>7, <2>1, <2>3, <2>4 DEF Answered
  <2>6. Again'
    BY <1>1, <2>1, <2>4 DEF RInv, Again
  <2>7. Unpicked' /\ Walking'
    BY <2>1 DEF Unpicked, Early, Walking
  <2>8. QED
    BY <1>5, <2>5, <2>6, <2>7 DEF RInv
<1>8. QED
  BY <1>6, <1>7

LEMMA WriteStep ==
  ASSUME RInv, Write
  PROVE  RInv'
<1>1. /\ pc = "applied" /\ tree' = out /\ pc' = (IF first = None THEN "judged" ELSE "graded")
      /\ UNCHANGED <<inst, spec, scope, anchor, before, todo, out, dynamic, answer, first>>
  BY DEF Write
<1>2. Renamed' = Renamed /\ Clean' = Clean
  BY <1>1 DEF Renamed, Clean, Hazardous
<1>3. Specified'
  BY <1>1, SpecifiedStays DEF RInv
<1>4. Picked'
  BY <1>1, <1>2 DEF RInv, Picked, AsReset, Early
<1>5. Answered' /\ Again'
  BY <1>1, <1>2 DEF RInv, Answered, Again
<1>6. Unpicked' /\ Walking'
  BY <1>1 DEF Unpicked, Early, Walking
<1>7. QED
  BY <1>3, <1>4, <1>5, <1>6 DEF RInv

LEMMA ReapplyStep ==
  ASSUME RInv, Reapply
  PROVE  RInv' /\ pc' = "scan"
<1>1. pc = "judged" /\ first' = tree /\ tree' = before /\ UNCHANGED <<inst, spec, scope, anchor, before>>
  BY DEF Reapply
<1>2. PICK order : Start(order)
  BY DEF Reapply
<1>3. Renamed' = Renamed /\ Clean' = Clean /\ tree = Renamed /\ Clean /\ None # Renamed
      /\ IsFiniteSet(DOMAIN before) /\ before = [p \in DOMAIN before |-> before[p]]
  BY <1>1 DEF RInv, Picked, Answered, Renamed, Clean, Hazardous, Early
<1>4. /\ IsFiniteSet(DOMAIN before') /\ tree' = before' /\ UNCHANGED inst
      /\ before' = [p \in DOMAIN before' |-> before'[p]]
      /\ first' = None \/ (first' = Renamed' /\ Clean')
  BY <1>1, <1>3
<1>5. /\ pc' \in {"scan", "refused"} /\ (first' # None => pc' = "scan")
      /\ Unpicked' /\ Walking' /\ Answered' /\ Again'
  BY <1>2, <1>4, Started
<1>6. pc' = "scan"
  BY <1>1, <1>3, <1>5
<1>7. Specified'
  BY <1>1, <1>6, SpecifiedStays DEF RInv
<1>8. Picked'
  BY <1>1, <1>3, <1>6 DEF RInv, Picked, AsReset, Early
<1>9. QED
  BY <1>5, <1>6, <1>7, <1>8 DEF RInv

-----------------------------------------------------------------------------
\* The steps of the composition.

LEMMA RenameSame ==
  ASSUME RInv, UNCHANGED <<patchVars, renameVars>>
  PROVE  RInv'
<1> USE DEF patchVars, renameVars
<1>1. Specified'
  <2>1. Targets' = Targets /\ GoldFiles' = GoldFiles /\ Eligible' = Eligible
    BY DEF Targets, GoldFiles, Eligible
  <2>2. \A p : Gone(p)' <=> Gone(p)
    BY DEF Gone, FileAt
  <2>3. Sources' = Sources
    BY <2>1, <2>2 DEF Sources, Scanned, FirstTarget
  <2>4. QED
    BY <2>1, <2>2, <2>3 DEF RInv, Specified
<1>2. Unpicked' /\ Picked'
  BY DEF RInv, Unpicked, Picked, AsReset, Renamed
<1>3. Walking'
  <2>1. \A p : Passed(p)' <=> Passed(p)
    BY DEF Passed, Reaches
  <2>2. Reach' = Reach
    BY ReachStays
  <2>3. QED
    BY <2>1, <2>2 DEF RInv, Walking
<1>4. Answered'
  <2>1. Clean' = Clean /\ Renamed' = Renamed /\ Hazardous(before)' = Hazardous(before)
        /\ Reach' = Reach /\ CitesStrongest' = CitesStrongest
        /\ RefusedForCause' = RefusedForCause
    BY ReachStays DEF Clean, Hazardous, Renamed, CitesStrongest, RefusedForCause
  <2>2. QED
    BY <2>1 DEF RInv, Answered
<1>5. Again'
  BY DEF RInv, Again, Clean, Hazardous, Renamed
<1>6. QED
  BY <1>1, <1>2, <1>3, <1>4, <1>5 DEF RInv

\* The oracle stops at a tree it does not judge.
LEMMA Stops ==
  ASSUME RInv, pc = "judged", pc' = "verdict",
         UNCHANGED <<inst, spec, pos, current, newLine, changed, scope, renameVars>>
  PROVE  RInv'
<1> USE DEF renameVars
<1>1. Specified'
  BY SpecifiedStays DEF RInv
<1>2. Clean' = Clean /\ Renamed' = Renamed
  BY DEF Clean, Hazardous, Renamed
<1>3. Unpicked' /\ Picked' /\ Walking'
  BY <1>2 DEF RInv, Unpicked, Picked, AsReset, Walking, Early
<1>4. Answered' /\ Again'
  BY <1>2 DEF RInv, Answered, Again
<1>5. QED
  BY <1>1, <1>3, <1>4 DEF RInv

LEMMA RenameStep ==
  ASSUME RInv, RenameNext
  PROVE  RInv' /\ UNCHANGED first /\ pc \notin {"judged", "graded", "verdict"} /\ pc' # "verdict"
<1>1. CASE PatchNext /\ UNCHANGED renameVars
  BY <1>1, EarlyStep DEF Early, renameVars
<1>2. CASE ReadTree
  BY <1>2, ReadTreeStep DEF ReadTree, renameVars
<1>3. CASE NoAnchor
  BY <1>3, NoAnchorStep DEF NoAnchor, renameVars
<1>4. CASE Pick
  <2>1. RInv'
    BY <1>4, PickStep
  <2>2. pc = "anchors" /\ UNCHANGED first /\ \E order : Start(order)
    BY <1>4 DEF Pick
  <2>3. QED
    BY <2>1, <2>2 DEF Start
<1>5. CASE ScanRaises
  <2>1. RInv'
    BY <1>5, ScanRaisesStep
  <2>2. QED
    BY <1>5, <2>1 DEF ScanRaises, Refuse
<1>6. CASE ScanDynamic
  BY <1>6, ScanDynamicStep DEF ScanDynamic
<1>7. CASE ScanRewrites
  <2>1. RInv'
    BY <1>7, ScanRewritesStep
  <2>2. QED
    BY <1>7, <2>1 DEF ScanRewrites, Refuse
<1>8. CASE Finish
  <2>1. RInv'
    BY <1>8, FinishStep
  <2>2. QED
    BY <1>8, <2>1 DEF Finish, Refuse
<1>9. CASE Write
  BY <1>9, WriteStep DEF Write
<1>10. QED
  BY <1>1, <1>2, <1>3, <1>4, <1>5, <1>6, <1>7, <1>8, <1>9 DEF RenameNext

\* A grading names failing tests, and all of them that are not PASS_TO_PASS.
LEMMA NamedFail ==
  ASSUME NEW s, IsRun(s)
  PROVE  /\ s.named \subseteq {t \in DOMAIN s.fate : s.fate[t] # "pass"}
         /\ \A t \in DOMAIN s.fate : s.fate[t] # "pass" /\ t \notin s.named => t.p2p
<1> DEFINE fails == Suffering(s, Fate \ {"pass"})
<1>1. s.named \subseteq fails /\ \A t \in fails \ s.named : t.p2p
  BY DEF IsRun
<1>2. s.fate \in [Dialect[s.runner] -> Fate]
  BY DEF IsRun
<1>3. fails = {t \in DOMAIN s.fate : s.fate[t] # "pass"}
  BY <1>2 DEF Suffering, Fate
<1>4. QED
  BY <1>1, <1>3

\* The failing tests are attributed one by one.
LEMMA AskedStays ==
  ASSUME Asked, Judged, UNCHANGED attributionVars
  PROVE  Asked' /\ Failing' = Failing /\ Partitioned' = Partitioned /\ Satisfied' = Satisfied
<1> USE DEF attributionVars
<1>1. Failing' = Failing /\ P2PFails' = P2PFails
  BY DEF Failing, P2PFails, P2P
<1>2. Partitioned' = Partitioned
  BY <1>1 DEF Partitioned, LogRead
<1>3. Satisfied' = Satisfied
  BY DEF Satisfied, Called
<1>4. Asked'
  BY <1>1 DEF Asked
<1>5. QED
  BY <1>1, <1>2, <1>3, <1>4

LEMMA ReadStep ==
  ASSUME Asked, suite # NoBlock, AttributionNext
  PROVE  Asked' /\ UNCHANGED suite
<1>1. CASE ScanRule \/ ScanText \/ ScanEnd \/ ScanLabel
  <2>1. UNCHANGED <<suite, asked, why>>
    BY <1>1 DEF ScanRule, ScanText, ScanEnd, ScanLabel, Scan
  <2>2. QED
    BY <2>1 DEF Asked, Failing, P2PFails, P2P
<1>2. CASE Attribute
  <2> DEFINE t == CHOOSE u \in suite.named : u \notin asked
  <2>1. /\ asked' = asked \cup {t} /\ UNCHANGED suite /\ asked # suite.named
        /\ why' = [u \in asked' |-> IF u = t THEN Reason(SectionFor(t)) ELSE why[u]]
    BY <1>2 DEF Attribute
  <2>2. t \in suite.named
    BY <2>1 DEF Asked
  <2> HIDE DEF t
  <2>3. Reason(SectionFor(t)) \in {"coupled", "broke", "unparsed"}
    BY DEF Reason
  <2>4. DOMAIN why' = asked' /\ \A u \in asked' : why'[u] \in {"coupled", "broke", "unparsed"}
    BY <2>1, <2>3 DEF Asked
  <2>5. Failing' = Failing /\ P2PFails' = P2PFails
    BY <2>1 DEF Failing, P2PFails, P2P
  <2>6. QED
    BY <2>1, <2>2, <2>4, <2>5 DEF Asked
<1>3. QED
  BY <1>1, <1>2 DEF AttributionNext

LEMMA JudgeStep ==
  ASSUME IInv, Judge
  PROVE  IInv'
<1>1. /\ pc = "judged" /\ suite # NoBlock /\ Partitioned /\ UNCHANGED attributionVars
      /\ first = None /\ verdict = None
  BY DEF Judge, IInv, RInv, Again, Judged
<1>2. /\ Asked' /\ Failing' = Failing /\ Partitioned' = Partitioned
      /\ Satisfied' = Satisfied
  BY <1>1, AskedStays DEF IInv
<1>3. CASE Satisfied = "yes"
  <2>1. Reapply /\ UNCHANGED verdict
    BY <1>3 DEF Judge
  <2>2. RInv' /\ pc' = "scan"
    BY <2>1, ReapplyStep DEF IInv
  <2>3. Judged'
    BY <1>1, <1>2, <1>3, <2>1, <2>2 DEF Judged
  <2>4. QED
    BY <1>2, <2>2, <2>3 DEF IInv
<1>4. CASE Satisfied # "yes"
  <2>1. /\ verdict' = (IF Satisfied = "no" THEN "INVALID" ELSE "UNVALIDATED") /\ pc' = "verdict"
        /\ UNCHANGED <<inst, spec, pos, current, newLine, changed, scope, renameVars>>
    BY <1>4 DEF Judge
  <2>2. RInv'
    BY <1>1, <2>1, Stops DEF IInv
  <2>3. Judged'
    BY <1>1, <1>2, <1>4, <2>1 DEF Judged, renameVars
  <2>4. QED
    BY <1>2, <2>2, <2>3 DEF IInv
<1>5. QED
  BY <1>3, <1>4

LEMMA StepInv == IInv /\ [Next]_vars => IInv'
<1> SUFFICES ASSUME IInv, [Next]_vars  PROVE IInv'
  OBVIOUS
<1>1. CASE RenameNext /\ UNCHANGED <<attributionVars, verdict>>
  <2>1. RInv' /\ UNCHANGED first /\ pc \notin {"judged", "graded", "verdict"} /\ pc' # "verdict"
    BY <1>1, RenameStep DEF IInv
  <2>2. Asked' /\ Failing' = Failing /\ Partitioned' = Partitioned /\ Satisfied' = Satisfied
    BY <1>1, AskedStays DEF IInv
  <2>3. Judged'
    BY <1>1, <2>1, <2>2 DEF IInv, Judged
  <2>4. QED
    BY <2>1, <2>2, <2>3 DEF IInv
<1>2. CASE RunSuite
  <2>1. /\ pc = "judged" /\ suite = NoBlock /\ UNCHANGED <<patchVars, renameVars, asked, why, verdict>>
    BY <1>2 DEF RunSuite
  <2>2. first = None /\ verdict = None
    BY <2>1 DEF IInv, RInv, Again, Judged
  <2>3. RInv' /\ Judged'
    BY <2>1, <2>2, RenameSame DEF IInv, Judged, patchVars, renameVars
  <2>4. Asked'
    <3>1. IsRun(suite') /\ asked = {} /\ DOMAIN why = asked
      BY <1>2, <2>1 DEF RunSuite, IInv, Asked
    <3>2. /\ suite'.named \subseteq {t \in DOMAIN suite'.fate : suite'.fate[t] # "pass"}
          /\ \A t \in DOMAIN suite'.fate : suite'.fate[t] # "pass" /\ t \notin suite'.named => t.p2p
      BY <3>1, NamedFail
    <3>3. suite'.named \subseteq Failing' /\ Failing' \ suite'.named \subseteq P2PFails'
      BY <3>2 DEF Failing, P2PFails, P2P
    <3>4. QED
      BY <2>1, <3>1, <3>3 DEF Asked
  <2>5. QED
    BY <2>3, <2>4 DEF IInv
<1>3. CASE ReadLog
  <2>1. pc = "judged" /\ suite # NoBlock /\ AttributionNext /\ UNCHANGED <<patchVars, renameVars, verdict>>
    BY <1>3 DEF ReadLog
  <2>2. first = None /\ verdict = None
    BY <2>1 DEF IInv, RInv, Again, Judged
  <2>3. RInv' /\ Asked' /\ Judged'
    BY <2>1, <2>2, RenameSame, ReadStep DEF IInv, Judged, patchVars, renameVars
  <2>4. QED
    BY <2>3 DEF IInv
<1>4. CASE Judge
  BY <1>4, JudgeStep
<1>5. CASE Reward
  <2>1. /\ pc = "graded" /\ verdict' = (IF Failing = {} THEN "CLEAN" ELSE "WITNESS")
        /\ UNCHANGED <<patchVars, renameVars, attributionVars>>
    BY <1>5 DEF Reward
  <2>2. RInv' /\ Asked' /\ Failing' = Failing /\ Partitioned' = Partitioned /\ Satisfied' = Satisfied
    BY <2>1, RenameSame, AskedStays DEF IInv
  <2>3. Judged'
    BY <2>1, <2>2 DEF IInv, Judged, patchVars, renameVars
  <2>4. QED
    BY <2>2, <2>3 DEF IInv
<1>6. CASE UNCHANGED vars
  <2>1. UNCHANGED <<patchVars, renameVars, attributionVars, verdict>>
    BY <1>6 DEF vars
  <2>2. RInv' /\ Asked' /\ Failing' = Failing /\ Partitioned' = Partitioned /\ Satisfied' = Satisfied
    BY <2>1, RenameSame, AskedStays DEF IInv
  <2>3. Judged'
    BY <2>1, <2>2 DEF IInv, Judged, patchVars, renameVars
  <2>4. QED
    BY <2>2, <2>3 DEF IInv
<1>7. QED
  BY <1>1, <1>2, <1>3, <1>4, <1>5, <1>6 DEF Next

LEMMA Invariance == Spec => []IInv
  BY InitInv, StepInv, PTL DEF Spec

-----------------------------------------------------------------------------
\* Sequences laid end to end.  The recursion of FlattenSeq is met by a function, whose
\* values are the beginnings of the result.

LEMMA Induct ==
  ASSUME NEW S \in SUBSET Nat, 0 \in S, \A n \in S : n + 1 \in S
  PROVE  S = Nat
<1>1. ASSUME Nat \ S # {}  PROVE FALSE
  <2>1. PICK m \in Nat \ S : \A y \in Nat \ S : m <= y
    BY <1>1, Least
  <2>2. m - 1 \in S
    BY <2>1
  <2>3. QED
    BY <2>1, <2>2
<1>2. QED
  BY <1>1

LEMMA Listed ==
  ASSUME NEW X, NEW n \in Nat, NEW s, s = [i \in 1..n |-> s[i]], \A i \in 1..n : s[i] \in X
  PROVE  s \in Seq(X) /\ Len(s) = n
  OBVIOUS

Split(c, a, b) ==
  /\ Len(c) = Len(a) + Len(b)
  /\ \A n \in 1..Len(a) : c[n] = a[n]
  /\ \A n \in 1..Len(b) : c[Len(a) + n] = b[n]

LEMMA Concat ==
  ASSUME NEW X, NEW a \in Seq(X), NEW b \in Seq(X)
  PROVE  a \o b \in Seq(X) /\ Split(a \o b, a, b)
  BY DEF Split

Joins(f, seqs, m) ==
  /\ m >= 1 => f[1] = seqs[1]
  /\ \A i \in 1..(m - 1) : f[i + 1] = f[i] \o seqs[i + 1]
Joined(seqs) ==
  CHOOSE f : f = [i \in 1..Len(seqs) |-> IF i = 1 THEN seqs[i] ELSE f[i - 1] \o seqs[i]]

LEMMA FlattenIsJoined ==
  ASSUME NEW seqs, Len(seqs) # 0
  PROVE  FlattenSeq(seqs) = Joined(seqs)[Len(seqs)]
  BY DEF FlattenSeq, Joined

LEMMA Joining ==
  ASSUME NEW X, NEW seqs \in Seq(Seq(X))
  PROVE  /\ Joined(seqs) \in [1..Len(seqs) -> Seq(X)]
         /\ Joins(Joined(seqs), seqs, Len(seqs))
<1> DEFINE L == Len(seqs)
           S == {m \in Nat : m <= L => \E f \in [1..m -> Seq(X)] : Joins(f, seqs, m)}
<1>0. L \in Nat /\ \A i \in 1..L : seqs[i] \in Seq(X)
  OBVIOUS
<1>1. 0 \in S
  <2>1. [i \in 1..0 |-> <<>>] \in [1..0 -> Seq(X)]
    OBVIOUS
  <2>2. Joins([i \in 1..0 |-> <<>>], seqs, 0)
    BY DEF Joins
  <2>3. QED
    BY <2>1, <2>2
<1>2. ASSUME NEW m \in S  PROVE m + 1 \in S
  <2> SUFFICES ASSUME m + 1 <= L  PROVE \E f \in [1..(m + 1) -> Seq(X)] : Joins(f, seqs, m + 1)
    OBVIOUS
  <2>0. m \in Nat
    OBVIOUS
  <2>1. PICK f \in [1..m -> Seq(X)] : Joins(f, seqs, m)
    BY <1>0, <2>0
  <2> HIDE DEF S
  <2> DEFINE last == IF m = 0 THEN seqs[1] ELSE f[m] \o seqs[m + 1]
             g == [i \in 1..(m + 1) |-> IF i = m + 1 THEN last ELSE f[i]]
  <2>2. last \in Seq(X)
    <3>1. seqs[m + 1] \in Seq(X) /\ (m # 0 => f[m] \in Seq(X))
      BY <1>0, <2>0, <2>1
    <3>2. QED
      BY <3>1, Concat
  <2> HIDE DEF last
  <2>3. g \in [1..(m + 1) -> Seq(X)]
    BY <2>0, <2>1, <2>2
  <2>4. g[m + 1] = last /\ \A i \in 1..m : g[i] = f[i]
    BY <2>0
  <2> HIDE DEF g
  <2>5. ASSUME NEW i \in 1..m  PROVE g[i + 1] = g[i] \o seqs[i + 1]
    <3>1. CASE i = m
      <4>1. g[m + 1] = f[m] \o seqs[m + 1] /\ g[m] = f[m]
        BY <2>0, <2>4, <3>1 DEF last
      <4>2. QED
        BY <3>1, <4>1
    <3>2. CASE i # m
      <4>1. i \in 1..(m - 1) /\ i + 1 \in 1..m
        BY <2>0, <3>2
      <4>2. f[i + 1] = f[i] \o seqs[i + 1]
        BY <2>1, <4>1 DEF Joins
      <4>3. QED
        BY <2>4, <4>1, <4>2
    <3>3. QED
      BY <3>1, <3>2
  <2>6. g[1] = seqs[1]
    <3>1. CASE m = 0
      BY <2>4, <3>1 DEF last
    <3>2. CASE m # 0
      <4>1. 1 \in 1..m /\ m >= 1
        BY <2>0, <3>2
      <4>2. f[1] = seqs[1]
        BY <2>1, <4>1 DEF Joins
      <4>3. QED
        BY <2>4, <4>1, <4>2
    <3>3. QED
      BY <3>1, <3>2
  <2>7. Joins(g, seqs, m + 1)
    <3>1. (m + 1) - 1 = m
      BY <2>0
    <3>2. QED
      BY <2>5, <2>6, <3>1 DEF Joins
  <2>8. QED
    BY <2>3, <2>7
<1>3. PICK f \in [1..L -> Seq(X)] : Joins(f, seqs, L)
  <2>1. S \in SUBSET Nat
    OBVIOUS
  <2> HIDE DEF S
  <2>2. S = Nat
    BY <1>1, <1>2, <2>1, Induct
  <2>3. L \in S
    BY <1>0, <2>2
  <2>4. QED
    BY <1>0, <2>3 DEF S
<1> HIDE DEF S
<1> DEFINE Up(h) == [i \in 1..Len(seqs) |-> IF i = 1 THEN seqs[i] ELSE h[i - 1] \o seqs[i]]
<1>4. f = Up(f)
  <2>1. ASSUME NEW i \in 1..L  PROVE f[i] = IF i = 1 THEN seqs[i] ELSE f[i - 1] \o seqs[i]
    <3>1. CASE i = 1
      BY <1>0, <1>3, <3>1 DEF Joins
    <3>2. CASE i # 1
      <4>1. i - 1 \in 1..(L - 1) /\ (i - 1) + 1 = i
        BY <1>0, <3>2
      <4>2. f[(i - 1) + 1] = f[i - 1] \o seqs[(i - 1) + 1]
        BY <1>3, <4>1 DEF Joins
      <4>3. QED
        BY <3>2, <4>1, <4>2
    <3>3. QED
      BY <3>1, <3>2
  <2>2. QED
    BY <1>3, <2>1
<1> DEFINE J == Joined(seqs)
<1>5. J = Up(J)
  BY <1>4, Zenon DEF Joined
<1>6. \A i \in 1..L : J[i] = IF i = 1 THEN seqs[i] ELSE J[i - 1] \o seqs[i]
  BY <1>5
<1>7. DOMAIN J = 1..L /\ J = [i \in 1..L |-> J[i]]
  BY <1>5
<1> HIDE DEF J, Up
<1>8. Joins(J, seqs, L)
  <2>1. L >= 1 => J[1] = seqs[1]
    BY <1>0, <1>6
  <2>2. ASSUME NEW i \in 1..(L - 1)  PROVE J[i + 1] = J[i] \o seqs[i + 1]
    <3>1. i + 1 \in 1..L /\ i + 1 # 1 /\ (i + 1) - 1 = i
      BY <1>0
    <3>2. J[i + 1] = J[(i + 1) - 1] \o seqs[i + 1]
      BY <1>6, <3>1
    <3>3. QED
      BY <3>1, <3>2
  <2>3. QED
    BY <2>1, <2>2 DEF Joins
<1>9. \A i \in 1..L : J[i] = f[i]
  <2> DEFINE T == {m \in Nat : m + 1 \in 1..L => J[m + 1] = f[m + 1]}
  <2>1. 0 \in T /\ T \in SUBSET Nat
    BY <1>0, <1>3, <1>8 DEF Joins
  <2>2. ASSUME NEW m \in T  PROVE m + 1 \in T
    <3> SUFFICES ASSUME (m + 1) + 1 \in 1..L  PROVE J[(m + 1) + 1] = f[(m + 1) + 1]
      OBVIOUS
    <3>1. m \in Nat /\ m + 1 \in 1..(L - 1) /\ m + 1 \in 1..L
      BY <1>0
    <3>2. J[m + 1] = f[m + 1]
      BY <3>1
    <3> HIDE DEF T
    <3>3. /\ f[(m + 1) + 1] = f[m + 1] \o seqs[(m + 1) + 1]
          /\ J[(m + 1) + 1] = J[m + 1] \o seqs[(m + 1) + 1]
      BY <1>3, <1>8, <3>1 DEF Joins
    <3>4. QED
      BY <3>2, <3>3
  <2> HIDE DEF T
  <2>3. T = Nat
    BY <2>1, <2>2, Induct
  <2>4. ASSUME NEW i \in 1..L  PROVE J[i] = f[i]
    <3>1. i - 1 \in T /\ (i - 1) + 1 = i
      BY <1>0, <2>3
    <3>2. QED
      BY <3>1 DEF T
  <2>5. QED
    BY <2>4
<1>10. J \in [1..L -> Seq(X)]
  BY <1>3, <1>7, <1>9
<1>11. QED
  BY <1>8, <1>10 DEF J

LEMMA FlatType ==
  ASSUME NEW X, NEW seqs \in Seq(Seq(X))
  PROVE  FlattenSeq(seqs) \in Seq(X)
<1>1. CASE Len(seqs) = 0
  <2>1. FlattenSeq(seqs) = seqs
    BY <1>1 DEF FlattenSeq
  <2>a. seqs = <<>>
    BY <1>1
  <2>2. QED
    BY <2>1, <2>a
<1>2. CASE Len(seqs) # 0
  <2>1. Len(seqs) \in 1..Len(seqs)
    BY <1>2
  <2>2. Joined(seqs)[Len(seqs)] \in Seq(X)
    BY <2>1, Joining
  <2>3. QED
    BY <1>2, <2>2, FlattenIsJoined, Zenon
<1>3. QED
  BY <1>1, <1>2

\* at[i] entries are of the first i sequences, and the next are those of sequence i + 1.
Ends(seqs, at) ==
  /\ at \in [0..Len(seqs) -> Nat] /\ at[0] = 0
  /\ \A i \in 0..(Len(seqs) - 1) : at[i + 1] = at[i] + Len(seqs[i + 1])
Holds(flat, m, part) == \A n \in 1..Len(part) : flat[m + n] = part[n]
LaidOut(flat, seqs, at) ==
  /\ Len(flat) = at[Len(seqs)]
  /\ \A i \in 0..(Len(seqs) - 1) : Holds(flat, at[i], seqs[i + 1])

LEMMA Enclosing ==
  /\ \A b, d, x \in Nat : b <= x => b <= x + d
  /\ \A a, c, x \in Nat : a + c <= x => \A n \in 1..c : a + n \in 1..x
  OBVIOUS

LEMMA Flattening ==
  ASSUME NEW X, NEW seqs \in Seq(Seq(X))
  PROVE  \E at : Ends(seqs, at) /\ LaidOut(FlattenSeq(seqs), seqs, at)
<1> DEFINE L == Len(seqs)
           J == Joined(seqs)
           at == [i \in 0..L |-> IF i = 0 THEN 0 ELSE Len(J[i])]
<1>0. L \in Nat /\ \A i \in 1..L : seqs[i] \in Seq(X) /\ Len(seqs[i]) \in Nat
  OBVIOUS
<1>1. J \in [1..L -> Seq(X)] /\ Joins(J, seqs, L)
  BY Joining
<1> HIDE DEF J
<1>2. at \in [0..L -> Nat] /\ at[0] = 0 /\ \A i \in 1..L : at[i] = Len(J[i])
  BY <1>0, <1>1
<1>2a. \A i \in 0..L : at[i] \in Nat
  BY <1>2
<1> HIDE DEF at
<1>3. ASSUME NEW i \in 0..(L - 1)
      PROVE  /\ at[i + 1] = at[i] + Len(seqs[i + 1])
             /\ Holds(J[i + 1], at[i], seqs[i + 1])
             /\ i # 0 => \A n \in 1..at[i] : J[i + 1][n] = J[i][n]
  <2>1. i + 1 \in 1..L /\ at[i + 1] = Len(J[i + 1]) /\ seqs[i + 1] \in Seq(X)
    BY <1>0, <1>2
  <2>2. CASE i = 0
    <3>1. J[1] = seqs[1] /\ i + 1 = 1
      BY <1>0, <1>1, <2>2 DEF Joins
    <3>2. at[i] = 0
      BY <1>2, <2>2
    <3>3. QED
      BY <2>1, <2>2, <3>1, <3>2 DEF Holds
  <2>3. CASE i # 0
    <3>1. i \in 1..(L - 1) /\ i \in 1..L
      BY <1>0, <2>3
    <3>2. J[i + 1] = J[i] \o seqs[i + 1] /\ J[i] \in Seq(X) /\ at[i] = Len(J[i])
      BY <1>1, <1>2, <3>1 DEF Joins
    <3>3. Split(J[i + 1], J[i], seqs[i + 1])
      BY <2>1, <3>2, Concat
    <3>4. \A n \in 1..at[i] : J[i + 1][n] = J[i][n]
      BY <3>2, <3>3, Zenon DEF Split
    <3>5. Holds(J[i + 1], at[i], seqs[i + 1])
      BY <3>2, <3>3, Zenon DEF Split, Holds
    <3>6. at[i + 1] = at[i] + Len(seqs[i + 1])
      BY <2>1, <3>2, <3>3, Zenon DEF Split
    <3>7. QED
      BY <3>4, <3>5, <3>6, Zenon
  <2>4. QED
    BY <2>2, <2>3
<1>4. Ends(seqs, at)
  BY <1>2, <1>3 DEF Ends
<1> DEFINE Good(j) == \A i \in 0..(j - 1) :
                        /\ at[i + 1] <= at[j]
                        /\ Holds(J[j], at[i], seqs[i + 1])
           S == {j \in Nat : j <= L => Good(j)}
<1>5. 0 \in S /\ S \in SUBSET Nat
  OBVIOUS
<1>6. ASSUME NEW j \in S  PROVE j + 1 \in S
  <2> SUFFICES ASSUME j + 1 <= L  PROVE Good(j + 1)
    OBVIOUS
  <2>0. j \in Nat /\ j \in 0..(L - 1) /\ j + 1 \in 1..L
    BY <1>0
  <2> HIDE DEF Good
  <2>a. Good(j)
    BY <1>0, <2>0
  <2> HIDE DEF S
  <2>1. /\ at[j + 1] = at[j] + Len(seqs[j + 1]) /\ at[j] \in Nat /\ Len(seqs[j + 1]) \in Nat
        /\ Holds(J[j + 1], at[j], seqs[j + 1])
        /\ j # 0 => \A n \in 1..at[j] : J[j + 1][n] = J[j][n]
    <3>1. j \in 0..L
      BY <1>0, <2>0
    <3>2. at[j] \in Nat
      BY <1>2a, <3>1
    <3>3. Len(seqs[j + 1]) \in Nat
      BY <1>0, <2>0
    <3>4. /\ at[j + 1] = at[j] + Len(seqs[j + 1])
          /\ Holds(J[j + 1], at[j], seqs[j + 1])
          /\ j # 0 => \A n \in 1..at[j] : J[j + 1][n] = J[j][n]
      BY <1>3, <2>0
    <3>5. QED
      BY <3>2, <3>3, <3>4
  <2>1a. at[j] \in Nat /\ Len(seqs[j + 1]) \in Nat /\ at[j + 1] = at[j] + Len(seqs[j + 1])
    BY <2>1
  <2>2. ASSUME NEW i \in 0..(j - 1)
        PROVE  at[i + 1] <= at[j + 1] /\ Holds(J[j + 1], at[i], seqs[i + 1])
    <3>1. at[i + 1] <= at[j] /\ Holds(J[j], at[i], seqs[i + 1])
      BY <2>a, Zenon DEF Good
    <3>0. at[i + 1] <= at[j]
      BY <3>1
    <3>2. i \in 0..(L - 1) /\ i + 1 \in 1..L /\ i + 1 \in 0..L /\ i \in 0..L /\ j # 0
      BY <1>0, <2>0
    <3>3. at[i + 1] = at[i] + Len(seqs[i + 1])
      BY <1>3, <3>2
    <3>3a. at[i] \in Nat /\ at[i + 1] \in Nat
      BY <1>2a, <3>2
    <3>3b. Len(seqs[i + 1]) \in Nat
      BY <1>0, <3>2
    <3>4. at[j + 1] \in Nat
      BY <2>1a
    <3>4a. at[i + 1] <= at[j + 1]
      BY <2>1a, <3>0, <3>3a, Enclosing, Zenon
    <3>4b. at[i] + Len(seqs[i + 1]) <= at[j]
      BY <3>0, <3>3, Zenon
    <3>4c. \A n \in 1..Len(seqs[i + 1]) : at[i] + n \in 1..at[j]
      BY <2>1a, <3>4b, <3>3a, <3>3b, Enclosing, Zenon
    <3>5. at[i + 1] <= at[j + 1] /\ \A n \in 1..Len(seqs[i + 1]) : at[i] + n \in 1..at[j]
      BY <3>4a, <3>4c, Zenon
    <3>6. ASSUME NEW n \in 1..Len(seqs[i + 1])
          PROVE  J[j + 1][at[i] + n] = seqs[i + 1][n]
      <4>1. J[j + 1][at[i] + n] = J[j][at[i] + n]
        <5>1. \A m \in 1..at[j] : J[j + 1][m] = J[j][m]
          BY <2>1, <3>2, Zenon
        <5>2. at[i] + n \in 1..at[j]
          BY <3>5, Zenon
        <5>3. QED
          BY <5>1, <5>2, Zenon
      <4>2. J[j][at[i] + n] = seqs[i + 1][n]
        BY <3>1, Zenon DEF Holds
      <4>3. QED
        BY <4>1, <4>2
    <3>7. QED
      BY <3>5, <3>6, Zenon DEF Holds
  <2>3. ASSUME NEW i \in 0..((j + 1) - 1), i \notin 0..(j - 1)  PROVE i = j
    BY <2>0, <2>3
  <2>4. at[j + 1] <= at[j + 1]
    <3>1. j + 1 \in 0..L
      BY <1>0, <2>0
    <3>2. at[j + 1] \in Nat
      BY <1>2a, <3>1
    <3>3. QED
      BY <3>2
  <2>5. QED
    BY <2>0, <2>1, <2>2, <2>3, <2>4 DEF Good
<1> HIDE DEF Good, S
<1>7. S = Nat
  BY <1>5, <1>6, Induct
<1>8. LaidOut(FlattenSeq(seqs), seqs, at)
  <2>1. CASE L = 0
    <3>1. FlattenSeq(seqs) = seqs
      BY <2>1 DEF FlattenSeq
    <3>2. QED
      BY <1>2, <2>1, <3>1 DEF LaidOut
  <2>2. CASE L # 0
    <3>1. L \in 1..L /\ FlattenSeq(seqs) = J[L]
      BY <1>0, <2>2, FlattenIsJoined DEF J
    <3>2. Good(L)
      BY <1>0, <1>7 DEF S
    <3>3. QED
      BY <1>2, <3>1, <3>2 DEF LaidOut, Good
  <2>3. QED
    BY <2>1, <2>2
<1>9. QED
  BY <1>4, <1>8

\* Ends do not decrease, and grow over a sequence that is not empty.
LEMMA Growing ==
  ASSUME NEW X, NEW seqs \in Seq(Seq(X)), NEW at, Ends(seqs, at)
  PROVE  \A i, j \in 0..Len(seqs) :
           i <= j => at[i] <= at[j] /\ (at[i] = at[j] => \A n \in (i + 1)..j : Len(seqs[n]) = 0)
<1> DEFINE L == Len(seqs)
           Up(j) == \A i \in 0..j : /\ at[i] <= at[j]
                                    /\ at[i] = at[j] => \A n \in (i + 1)..j : Len(seqs[n]) = 0
           S == {j \in Nat : j <= L => Up(j)}
<1>0. L \in Nat /\ \A i \in 1..L : Len(seqs[i]) \in Nat
  OBVIOUS
<1>1. at \in [0..L -> Nat] /\ \A i \in 0..(L - 1) : at[i + 1] = at[i] + Len(seqs[i + 1])
  BY DEF Ends
<1>1a. \A i \in 0..L : at[i] \in Nat
  BY <1>1
<1>2. 0 \in S /\ S \in SUBSET Nat
  BY <1>0, <1>1
<1>3. ASSUME NEW j \in S  PROVE j + 1 \in S
  <2> SUFFICES ASSUME j + 1 <= L  PROVE Up(j + 1)
    OBVIOUS
  <2>0. j \in Nat /\ j \in 0..(L - 1) /\ j + 1 \in 1..L
    BY <1>0
  <2> HIDE DEF Up
  <2>a. Up(j)
    BY <1>0, <2>0
  <2> HIDE DEF S
  <2>b. at[j + 1] = at[j] + Len(seqs[j + 1])
    BY <1>1, <2>0
  <2>c. Len(seqs[j + 1]) \in Nat
    BY <1>0, <2>0
  <2>d. at[j] \in Nat
    <3>1. j \in 0..L
      BY <1>0, <2>0
    <3>2. QED
      BY <1>1a, <3>1
  <2>1. /\ at[j + 1] = at[j] + Len(seqs[j + 1]) /\ Len(seqs[j + 1]) \in Nat
        /\ at[j] \in Nat
    BY <2>b, <2>c, <2>d
  <2>2. ASSUME NEW i \in 0..j
        PROVE  /\ at[i] <= at[j + 1]
               /\ at[i] = at[j + 1] => \A n \in (i + 1)..(j + 1) : Len(seqs[n]) = 0
    <3>1. /\ at[i] <= at[j] /\ at[i] \in Nat
          /\ at[i] = at[j] => \A n \in (i + 1)..j : Len(seqs[n]) = 0
      <4>1. i \in 0..L
        BY <1>0, <2>0
      <4>2. QED
        BY <1>1, <2>a, <4>1 DEF Up
    <3>2. ASSUME at[i] = at[j + 1], NEW n \in (i + 1)..(j + 1)  PROVE Len(seqs[n]) = 0
      <4>1. at[i] = at[j] /\ Len(seqs[j + 1]) = 0
        BY <2>1, <3>1, <3>2
      <4>2. n = j + 1 \/ n \in (i + 1)..j
        BY <2>0
      <4>3. QED
        BY <3>1, <4>1, <4>2
    <3>3. at[i] <= at[j + 1]
      BY <2>1, <3>1, Enclosing, Zenon
    <3>4. QED
      BY <3>2, <3>3
  <2>3. \A i \in 0..(j + 1) : i \in 0..j \/ i = j + 1
    BY <2>0
  <2>4. at[j + 1] <= at[j + 1] /\ \A n \in ((j + 1) + 1)..(j + 1) : Len(seqs[n]) = 0
    BY <2>0, <2>1
  <2>5. QED
    BY <2>2, <2>3, <2>4 DEF Up
<1> HIDE DEF S, Up
<1>4. S = Nat
  BY <1>2, <1>3, Induct
<1>5. ASSUME NEW j \in 0..L  PROVE Up(j)
  <2>1. j \in S /\ j <= L
    BY <1>0, <1>4
  <2>2. QED
    BY <2>1 DEF S
<1>6. QED
  BY <1>0, <1>5 DEF Up

\* A place before the end is within one of the sequences.
LEMMA Locating ==
  ASSUME NEW seqs, Len(seqs) \in Nat, NEW at, Ends(seqs, at), NEW m \in Nat, m < at[Len(seqs)]
  PROVE  \E i \in 0..(Len(seqs) - 1) : at[i] <= m /\ m < at[i + 1]
<1> DEFINE S == {j \in 1..Len(seqs) : m < at[j]}
<1>0. at[0] = 0 /\ \A j \in 0..Len(seqs) : at[j] \in Nat
  BY DEF Ends
<1>1. S \in SUBSET Nat /\ Len(seqs) \in S
  BY <1>0
<1>2. PICK j \in S : \A y \in S : j <= y
  BY <1>1, Least
<1>3. j - 1 \notin S /\ j - 1 \in 0..(Len(seqs) - 1) /\ (j - 1) + 1 = j
  BY <1>1, <1>2
<1>4. at[j - 1] <= m
  BY <1>0, <1>3
<1>5. QED
  BY <1>2, <1>3, <1>4

\* Where the sequences of such a row end, in what they are laid out to.
EndsOf(seqs) == CHOOSE at : Ends(seqs, at) /\ LaidOut(FlattenSeq(seqs), seqs, at)

LEMMA EndsExist ==
  ASSUME NEW X, NEW seqs \in Seq(Seq(X))
  PROVE  Ends(seqs, EndsOf(seqs)) /\ LaidOut(FlattenSeq(seqs), seqs, EndsOf(seqs))
  BY Flattening DEF EndsOf

-----------------------------------------------------------------------------
\* A patched file and its diff.

File(f) ==
  /\ f.lines \in Seq(Line) /\ f.hidden \subseteq DOMAIN f.lines
  /\ \A j \in f.hidden : f.lines[j].op = "keep"
Body(f) == [i \in DOMAIN f.lines |-> Entry(f, i)]
Items   == [k : {"hunk"}, at : Nat] \cup [k : {"add", "del", "keep"}]

LEMMA Counts ==
  ASSUME NEW f, File(f), NEW i \in 1..(Len(f.lines) + 1)
  PROVE  PostBefore(f, i) \in Nat
<1> DEFINE Before == {j \in 1..(i - 1) : Survives(f.lines[j])}
<1>1. IsFiniteSet(1..(i - 1))
  BY FS_Interval DEF File
<1>2. IsFiniteSet(Before)
  BY <1>1, FS_Subset
<1>3. QED
  BY <1>2, FS_CardinalityType DEF PostBefore

LEMMA Numbering ==
  ASSUME NEW f, File(f)
  PROVE  /\ \A i \in 1..(Len(f.lines) + 1) : LineOf(f, i) \in Nat
         /\ \A i \in 1..Len(f.lines) :
              LineOf(f, i + 1) = IF Survives(f.lines[i]) THEN LineOf(f, i) + 1 ELSE LineOf(f, i)
<1>0. Len(f.lines) \in Nat /\ DOMAIN f.lines = 1..Len(f.lines)
  BY DEF File
<1> DEFINE L == Len(f.lines)
           Before(i) == {j \in 1..(i - 1) : Survives(f.lines[j])}
<1>1. ASSUME NEW i \in 1..(L + 1)  PROVE IsFiniteSet(Before(i)) /\ PostBefore(f, i) \in Nat
  <2>1. IsFiniteSet(1..(i - 1))
    BY <1>0, FS_Interval
  <2>2. IsFiniteSet(Before(i))
    BY <2>1, FS_Subset
  <2>3. QED
    BY <2>2, FS_CardinalityType DEF PostBefore
<1>2. ASSUME NEW i \in 1..L
      PROVE  PostBefore(f, i + 1) = IF Survives(f.lines[i]) THEN PostBefore(f, i) + 1 ELSE PostBefore(f, i)
  <2>1. i \in 1..(L + 1) /\ (i + 1) - 1 = i /\ i \notin Before(i)
    BY <1>0
  <2>2. Before(i + 1) = IF Survives(f.lines[i]) THEN Before(i) \cup {i} ELSE Before(i)
    BY <1>0
  <2> HIDE DEF Before
  <2>3. Cardinality(Before(i) \cup {i}) = Cardinality(Before(i)) + 1
    BY <1>1, <2>1, FS_AddElement
  <2>4. PostBefore(f, i) = Cardinality(Before(i)) /\ PostBefore(f, i + 1) = Cardinality(Before(i + 1))
    BY DEF PostBefore, Before
  <2>5. QED
    BY <2>2, <2>3, <2>4
<1>3. Left(f) = {} => \A i \in 1..L : ~Survives(f.lines[i])
  BY <1>0 DEF Left
<1>4. \A i \in 1..L : i \in 1..(L + 1) /\ i + 1 \in 1..(L + 1)
  BY <1>0
<1>5. CASE Left(f) = {}
  BY <1>3, <1>5 DEF LineOf
<1>6. CASE Left(f) # {}
  <2>1. ASSUME NEW i \in 1..L
        PROVE  LineOf(f, i + 1) = IF Survives(f.lines[i]) THEN LineOf(f, i) + 1 ELSE LineOf(f, i)
    <3>1. LineOf(f, i + 1) = PostBefore(f, i + 1) + 1 /\ LineOf(f, i) = PostBefore(f, i) + 1
      BY <1>6 DEF LineOf
    <3>2. PostBefore(f, i) \in Nat
      BY <1>1, <1>4
    <3>3. QED
      BY <1>2, <3>1, <3>2
  <2>2. ASSUME NEW i \in 1..(L + 1)  PROVE LineOf(f, i) \in Nat
    <3>1. PostBefore(f, i) \in Nat /\ LineOf(f, i) = PostBefore(f, i) + 1
      BY <1>1, <1>6 DEF LineOf
    <3>2. QED
      BY <3>1
  <2>3. QED
    BY <2>1, <2>2
<1>7. QED
  BY <1>5, <1>6

\* What the diff shows of an entry.
LEMMA Showing ==
  ASSUME NEW f, File(f), NEW i \in 1..Len(f.lines)
  PROVE  /\ Body(f)[i] = Entry(f, i) /\ Entry(f, i) \in Seq(Items)
         /\ i \in f.hidden <=> Len(Entry(f, i)) = 0
         /\ i \notin f.hidden /\ i - 1 \in Shown(f) =>
              Len(Entry(f, i)) = 1 /\ Entry(f, i)[1] = [k |-> f.lines[i].op]
         /\ i \notin f.hidden /\ i - 1 \notin Shown(f) =>
              /\ Len(Entry(f, i)) = 2
              /\ Entry(f, i)[1] = [k |-> "hunk", at |-> LineOf(f, i)]
              /\ Entry(f, i)[2] = [k |-> f.lines[i].op]
<1>0. Len(f.lines) \in Nat /\ DOMAIN f.lines = 1..Len(f.lines) /\ f.lines[i] \in Line
  BY DEF File
<1>1. Body(f)[i] = Entry(f, i)
  BY <1>0 DEF Body
<1>2. [k |-> f.lines[i].op] \in Items
  BY <1>0 DEF Line, Items
<1>3. [k |-> "hunk", at |-> LineOf(f, i)] \in Items
  BY <1>0, Numbering DEF Items
<1>4. CASE i \in f.hidden
  BY <1>1, <1>4 DEF Entry
<1>5. CASE i \notin f.hidden /\ i - 1 \in Shown(f)
  <2>1. Entry(f, i) = <<>> \o << [k |-> f.lines[i].op] >>
    BY <1>5 DEF Entry
  <2> HIDE DEF Items
  <2>2. QED
    BY <1>1, <1>2, <1>5, <2>1
<1>6. CASE i \notin f.hidden /\ i - 1 \notin Shown(f)
  <2>1. Entry(f, i) = << [k |-> "hunk", at |-> LineOf(f, i)] >> \o << [k |-> f.lines[i].op] >>
    BY <1>6 DEF Entry
  <2> HIDE DEF Items
  <2>2. QED
    BY <1>1, <1>2, <1>3, <1>6, <2>1
<1>7. QED
  BY <1>4, <1>5, <1>6

LEMMA BodyEnds ==
  ASSUME NEW f, File(f)
  PROVE  /\ Body(f) \in Seq(Seq(Items)) /\ Len(Body(f)) = Len(f.lines) /\ Len(f.lines) \in Nat
         /\ Ends(Body(f), EndsOf(Body(f)))
         /\ LaidOut(FlattenSeq(Body(f)), Body(f), EndsOf(Body(f)))
<1>1. Len(f.lines) \in Nat /\ DOMAIN f.lines = 1..Len(f.lines)
  BY DEF File
<1>2. \A i \in 1..Len(f.lines) : Body(f)[i] \in Seq(Items)
  BY Showing
<1>3. Body(f) = [i \in 1..Len(f.lines) |-> Body(f)[i]]
  BY <1>1 DEF Body
<1>4. Body(f) \in Seq(Seq(Items)) /\ Len(Body(f)) = Len(f.lines)
  BY <1>1, <1>2, <1>3, Listed
<1>5. QED
  BY <1>1, <1>4, EndsExist

\* The lines of a file that its first n entries change, and what changed_lines holds of
\* the file, c, and of the line it is at, w, when m items of the file's body are read:
\* at the end of an entry, and between a hunk header and the entry after it.
Upto(f, n) == {LineOf(f, i) : i \in {j \in 1..n : f.lines[j].op # "keep"}}
InBody(f, m, c, w) ==
  LET at == EndsOf(Body(f)) IN
  /\ \A i \in 0..Len(f.lines) :
       at[i] = m => c = Upto(f, i) /\ (i \in Shown(f) => w = LineOf(f, i + 1))
  /\ \A i \in 0..(Len(f.lines) - 1) :
       at[i] + 1 = m /\ Len(Entry(f, i + 1)) = 2 => c = Upto(f, i) /\ w = LineOf(f, i + 1)

LEMMA UptoNext ==
  ASSUME NEW f, File(f), NEW i \in 0..(Len(f.lines) - 1)
  PROVE  Upto(f, i + 1) = IF f.lines[i + 1].op = "keep" THEN Upto(f, i)
                          ELSE Upto(f, i) \cup {LineOf(f, i + 1)}
<1>1. Len(f.lines) \in Nat
  BY DEF File
<1> DEFINE Of(n) == {j \in 1..n : f.lines[j].op # "keep"}
<1>2. Of(i + 1) = IF f.lines[i + 1].op = "keep" THEN Of(i) ELSE Of(i) \cup {i + 1}
  BY <1>1
<1>3. \A n : Upto(f, n) = {LineOf(f, j) : j \in Of(n)}
  BY DEF Upto
<1> HIDE DEF Of
<1>4. CASE f.lines[i + 1].op = "keep"
  BY <1>2, <1>3, <1>4
<1>5. CASE f.lines[i + 1].op # "keep"
  <2>1. Of(i + 1) = Of(i) \cup {i + 1}
    BY <1>2, <1>5
  <2>2. {LineOf(f, j) : j \in Of(i + 1)} = {LineOf(f, j) : j \in Of(i)} \cup {LineOf(f, i + 1)}
    BY <2>1
  <2>3. QED
    BY <1>3, <1>5, <2>2
<1>6. QED
  BY <1>4, <1>5

\* Entries that end at one place are all hidden, but for the first.
LEMMA SamePlace ==
  ASSUME NEW f, File(f), NEW i \in 0..Len(f.lines), NEW j \in 0..Len(f.lines),
         EndsOf(Body(f))[i] = EndsOf(Body(f))[j], i < j
  PROVE  Upto(f, j) = Upto(f, i) /\ j \notin Shown(f)
<1> DEFINE at == EndsOf(Body(f))
<1>0. /\ Len(f.lines) \in Nat /\ Len(Body(f)) = Len(f.lines)
      /\ Body(f) \in Seq(Seq(Items)) /\ Ends(Body(f), at)
  BY BodyEnds
<1> HIDE DEF at
<1>1. \A n \in (i + 1)..j : Len(Body(f)[n]) = 0
  <2>1. at[i] = at[j] /\ i <= j
    BY <1>0 DEF at
  <2>2. QED
    BY <1>0, <2>1, Growing
<1>2. ASSUME NEW n \in (i + 1)..j  PROVE n \in f.hidden
  <2>1. n \in 1..Len(f.lines)
    BY <1>0
  <2>2. Len(Entry(f, n)) = 0
    BY <1>1, <2>1, Showing
  <2>3. QED
    BY <2>1, <2>2, Showing
<1>3. \A n \in (i + 1)..j : f.lines[n].op = "keep"
  BY <1>2 DEF File
<1>4. {n \in 1..j : f.lines[n].op # "keep"} = {n \in 1..i : f.lines[n].op # "keep"}
  BY <1>0, <1>3
<1>5. j \notin Shown(f)
  <2>1. j \in (i + 1)..j
    BY <1>0
  <2>2. j \in f.hidden
    BY <1>2, <2>1
  <2>3. QED
    BY <2>2 DEF Shown
<1>6. QED
  BY <1>4, <1>5 DEF Upto

LEMMA BodyBegins ==
  ASSUME NEW f, File(f), NEW w
  PROVE  InBody(f, 0, {}, w)
<1> DEFINE at == EndsOf(Body(f))
<1>0. /\ Len(f.lines) \in Nat /\ DOMAIN f.lines = 1..Len(f.lines)
      /\ at[0] = 0 /\ \A i \in 0..Len(f.lines) : at[i] \in Nat
  BY BodyEnds DEF Ends, File
<1>1. Upto(f, 0) = {} /\ 0 \notin Shown(f)
  BY <1>0 DEF Upto, Shown
<1>2. \A i \in 0..Len(f.lines) : at[i] = 0 => {} = Upto(f, i) /\ i \notin Shown(f)
  <2> SUFFICES ASSUME NEW i \in 0..Len(f.lines), at[i] = 0, i # 0
               PROVE  {} = Upto(f, i) /\ i \notin Shown(f)
    BY <1>1
  <2>1. 0 < i /\ 0 \in 0..Len(f.lines) /\ at[0] = at[i]
    BY <1>0
  <2>2. QED
    BY <1>1, <2>1, SamePlace
<1>3. \A i \in 0..(Len(f.lines) - 1) : at[i] + 1 # 0
  BY <1>0
<1>4. QED
  BY <1>2, <1>3 DEF InBody

\* The end of an entry: what is said of it is said of the hidden ones after it too, and
\* it is not behind the hunk header of another.
LEMMA EntryEnds ==
  ASSUME NEW f, File(f), NEW i \in 0..(Len(f.lines) - 1), NEW c, NEW w,
         c = Upto(f, i + 1), i + 1 \in Shown(f) => w = LineOf(f, i + 2),
         EndsOf(Body(f))[i] < EndsOf(Body(f))[i + 1]
  PROVE  InBody(f, EndsOf(Body(f))[i + 1], c, w)
<1> DEFINE at == EndsOf(Body(f))
           L == Len(f.lines)
<1>0. /\ L \in Nat /\ Len(Body(f)) = L
      /\ Body(f) \in Seq(Seq(Items)) /\ Ends(Body(f), at)
  BY BodyEnds
<1>1. /\ \A j \in 0..L : at[j] \in Nat
      /\ \A j \in 0..(L - 1) : at[j + 1] = at[j] + Len(Entry(f, j + 1))
  <2>1. ASSUME NEW j \in 0..(L - 1)  PROVE Body(f)[j + 1] = Entry(f, j + 1)
    <3>1. j + 1 \in 1..L
      BY <1>0
    <3>2. QED
      BY <3>1, Showing
  <2>2. QED
    BY <1>0, <2>1 DEF Ends
<1>2. \A j, k \in 0..L : j <= k => at[j] <= at[k]
  BY <1>0, Growing
<1> HIDE DEF at, L
<1>3. ASSUME NEW j \in 0..L, at[j] = at[i + 1]
      PROVE  c = Upto(f, j) /\ (j \in Shown(f) => w = LineOf(f, j + 1))
  <2>1. i \in 0..L /\ i + 1 \in 0..L /\ at[i] < at[i + 1]
    BY <1>0 DEF at, L
  <2>2. j >= i + 1
    <3>1. CASE j <= i
      <4>1. at[j] <= at[i]
        BY <1>2, <2>1, <3>1
      <4>2. QED
        BY <1>1, <1>3, <2>1, <4>1
    <3>2. QED
      BY <1>0, <2>1, <3>1
  <2>3. CASE j = i + 1
    BY <2>3, (i + 1) + 1 = i + 2
  <2>4. CASE j # i + 1
    <3>1. i + 1 < j
      BY <1>0, <2>1, <2>2, <2>4
    <3>2. Upto(f, j) = Upto(f, i + 1) /\ j \notin Shown(f)
      BY <1>3, <2>1, <3>1, SamePlace DEF at, L
    <3>3. QED
      BY <3>2
  <2>5. QED
    BY <2>3, <2>4
<1>4. ASSUME NEW j \in 0..(L - 1), at[j] + 1 = at[i + 1], Len(Entry(f, j + 1)) = 2
      PROVE  FALSE
  <2>1. j \in 0..L /\ j + 1 \in 0..L /\ i \in 0..L /\ i + 1 \in 0..L
    BY <1>0 DEF L
  <2>2. at[j + 1] = at[j] + 2
    BY <1>1, <1>4
  <2>3. CASE j <= i
    <3>1. at[j + 1] <= at[i + 1]
      BY <1>2, <2>1, <2>3
    <3>2. QED
      BY <1>1, <1>4, <2>1, <2>2, <3>1
  <2>4. CASE j > i
    <3>1. at[i + 1] <= at[j]
      BY <1>2, <2>1, <2>4
    <3>2. QED
      BY <1>1, <1>4, <2>1, <3>1
  <2>5. QED
    BY <2>1, <2>3, <2>4
<1>5. QED
  BY <1>3, <1>4 DEF InBody, at, L

\* One item of the body is read.
LEMMA BodyStep ==
  ASSUME NEW f, File(f), NEW m \in Nat, m < Len(FlattenSeq(Body(f))), NEW c, NEW w,
         InBody(f, m, c, w), NEW e, e = FlattenSeq(Body(f))[m + 1]
  PROVE  \/ e.k = "hunk" /\ InBody(f, m + 1, c, e.at)
         \/ e.k = "add"  /\ InBody(f, m + 1, c \cup {w}, w + 1)
         \/ e.k = "del"  /\ InBody(f, m + 1, c \cup {w}, w)
         \/ e.k = "keep" /\ InBody(f, m + 1, c, w + 1)
<1> DEFINE at == EndsOf(Body(f))
           L == Len(f.lines)
           flat == FlattenSeq(Body(f))
<1>0. /\ L \in Nat /\ Len(Body(f)) = L
      /\ Body(f) \in Seq(Seq(Items)) /\ Ends(Body(f), at) /\ LaidOut(flat, Body(f), at)
  BY BodyEnds
<1>1. /\ \A j \in 0..L : at[j] \in Nat
      /\ \A j \in 0..(L - 1) : at[j + 1] = at[j] + Len(Entry(f, j + 1))
      /\ \A j \in 0..(L - 1) : Holds(flat, at[j], Entry(f, j + 1))
  <2>1. ASSUME NEW j \in 0..(L - 1)  PROVE Body(f)[j + 1] = Entry(f, j + 1)
    <3>1. j + 1 \in 1..L
      BY <1>0
    <3>2. QED
      BY <3>1, Showing
  <2>2. QED
    BY <1>0, <2>1 DEF Ends, LaidOut
<1>2. \A j, k \in 0..L : j <= k => at[j] <= at[k]
  BY <1>0, Growing
<1>3. PICK i \in 0..(L - 1) : at[i] <= m /\ m < at[i + 1]
  <2>1. Len(flat) = at[L]
    BY <1>0 DEF LaidOut
  <2>2. QED
    BY <1>0, <2>1, Locating
<1>4. i \in 0..L /\ i + 1 \in 1..L /\ i + 1 \in 0..L /\ (i + 1) - 1 = i
  BY <1>0
<1> DEFINE N == Len(Entry(f, i + 1))
<1>5. at[i + 1] = at[i] + N /\ at[i] \in Nat /\ at[i + 1] \in Nat
  BY <1>1, <1>4
<1>6. /\ i + 1 \notin f.hidden
      /\ \/ N = 1 /\ i \in Shown(f) /\ Entry(f, i + 1)[1] = [k |-> f.lines[i + 1].op]
         \/ /\ N = 2
            /\ Entry(f, i + 1)[1] = [k |-> "hunk", at |-> LineOf(f, i + 1)]
            /\ Entry(f, i + 1)[2] = [k |-> f.lines[i + 1].op]
  <2>1. N # 0
    BY <1>3, <1>5
  <2>2. i + 1 \notin f.hidden
    BY <1>4, <2>1, Showing
  <2>3. CASE i \in Shown(f)
    BY <1>4, <2>2, <2>3, Showing
  <2>4. CASE i \notin Shown(f)
    BY <1>4, <2>2, <2>4, Showing
  <2>5. QED
    BY <2>2, <2>3, <2>4
<1>7. \A n \in 1..N : flat[at[i] + n] = Entry(f, i + 1)[n]
  BY <1>1 DEF Holds
<1>8. ASSUME m + 1 = at[i + 1], c = Upto(f, i), w = LineOf(f, i + 1), e = [k |-> f.lines[i + 1].op]
      PROVE  \/ e.k = "add"  /\ InBody(f, m + 1, c \cup {w}, w + 1)
             \/ e.k = "del"  /\ InBody(f, m + 1, c \cup {w}, w)
             \/ e.k = "keep" /\ InBody(f, m + 1, c, w + 1)
  <2>1. f.lines[i + 1].op \in {"keep", "add", "del"} /\ e.k = f.lines[i + 1].op
    <3>1. f.lines[i + 1] \in Line
      BY <1>4 DEF File
    <3>2. QED
      BY <1>8, <3>1 DEF Line
  <2>2. LineOf(f, i + 2) = IF Survives(f.lines[i + 1]) THEN w + 1 ELSE w
    <3>1. (i + 1) + 1 = i + 2
      BY <1>4
    <3>2. QED
      BY <1>4, <1>8, <3>1, Numbering
  <2>3. EndsOf(Body(f))[i] < EndsOf(Body(f))[i + 1]
    BY <1>3, <1>5
  <2>4. \A x, y : x = Upto(f, i + 1) /\ y = LineOf(f, i + 2) => InBody(f, m + 1, x, y)
    BY <1>8, <2>3, EntryEnds
  <2>5. Upto(f, i + 1) = IF f.lines[i + 1].op = "keep" THEN c ELSE c \cup {w}
    BY <1>8, UptoNext
  <2>6. QED
    BY <2>1, <2>2, <2>4, <2>5 DEF Survives
<1> HIDE DEF at, L, flat, N
<1>9. CASE N = 1
  <2>1. m = at[i] /\ m + 1 = at[i + 1]
    BY <1>3, <1>5, <1>9
  <2>2. e = [k |-> f.lines[i + 1].op]
    <3>1. flat[at[i] + 1] = Entry(f, i + 1)[1]
      BY <1>7, <1>9
    <3>2. QED
      BY <1>6, <1>9, <2>1, <3>1 DEF flat
  <2>3. c = Upto(f, i) /\ w = LineOf(f, i + 1)
    BY <1>4, <1>6, <1>9, <2>1 DEF InBody, at, L
  <2>4. QED
    BY <1>8, <2>1, <2>2, <2>3
<1>10. CASE N = 2 /\ m = at[i] + 1
  <2>0. at[i + 1] = at[i] + 2 /\ at[i] \in Nat /\ m = at[i] + 1
    BY <1>5, <1>10
  <2>1. m + 1 = at[i + 1] /\ at[i] + 2 = m + 1
    <3>1. \A x, y \in Nat : y = x + 1 => y + 1 = x + 2
      OBVIOUS
    <3>2. m + 1 = at[i] + 2
      BY <2>0, <3>1, Zenon
    <3>3. QED
      BY <2>0, <3>2, Zenon
  <2>2. e = [k |-> f.lines[i + 1].op]
    <3>1. flat[at[i] + 2] = Entry(f, i + 1)[2]
      BY <1>7, <1>10
    <3>2. QED
      BY <1>6, <1>10, <2>1, <3>1 DEF flat
  <2>3. c = Upto(f, i) /\ w = LineOf(f, i + 1)
    BY <1>10 DEF InBody, at, L, N
  <2>4. QED
    BY <1>8, <2>1, <2>2, <2>3
<1>11. CASE N = 2 /\ m = at[i]
  <2>1. e = [k |-> "hunk", at |-> LineOf(f, i + 1)]
    <3>1. flat[at[i] + 1] = Entry(f, i + 1)[1]
      BY <1>7, <1>11
    <3>2. QED
      BY <1>6, <1>11, <3>1 DEF flat
  <2>2. c = Upto(f, i)
    BY <1>4, <1>11 DEF InBody, at, L
  <2>3. at[i + 1] = m + 2
    BY <1>5, <1>11
  <2>4. ASSUME NEW j \in 0..L  PROVE at[j] # m + 1
    <3>1. at[j] \in Nat
      BY <1>1
    <3>2. CASE j <= i
      BY <1>2, <1>4, <1>11, <3>1, <3>2
    <3>3. CASE j > i
      <4>1. at[i + 1] <= at[j]
        BY <1>0, <1>2, <1>4, <3>3
      <4>2. QED
        BY <2>3, <3>1, <4>1
    <3>4. QED
      BY <1>4, <3>2, <3>3
  <2>5. ASSUME NEW j \in 0..(L - 1), at[j] + 1 = m + 1, Len(Entry(f, j + 1)) = 2
        PROVE  j = i
    <3>0. j \in 0..L /\ j + 1 \in 0..L
      BY <1>0
    <3>a. at[j] \in Nat /\ at[j + 1] = at[j] + 2
      BY <1>1, <2>5, <3>0
    <3>b. at[j] = m
      <4>1. \A x, y \in Nat : x + 1 = y + 1 => x = y
        OBVIOUS
      <4>2. QED
        BY <2>5, <3>a, <4>1, Zenon
    <3>1. at[j] \in Nat /\ at[j] = m /\ at[j + 1] = m + 2 /\ j \in 0..L /\ j + 1 \in 0..L
      BY <3>0, <3>a, <3>b, Zenon
    <3>2. CASE j < i
      <4>1. at[j + 1] <= at[i]
        BY <1>2, <1>4, <3>1, <3>2
      <4>2. QED
        BY <1>11, <3>1, <4>1
    <3>3. CASE j > i
      <4>1. at[i + 1] <= at[j]
        BY <1>2, <1>4, <3>1, <3>3
      <4>2. QED
        BY <2>3, <3>1, <4>1
    <3>4. QED
      BY <1>4, <3>1, <3>2, <3>3
  <2>6. InBody(f, m + 1, c, e.at)
    BY <2>1, <2>2, <2>4, <2>5 DEF InBody, at, L
  <2>7. QED
    BY <2>1, <2>6
<1>12. QED
  BY <1>3, <1>5, <1>6, <1>9, <1>10, <1>11

LEMMA BodyIsRead ==
  ASSUME NEW f, File(f), NEW c, NEW w, InBody(f, Len(FlattenSeq(Body(f))), c, w)
  PROVE  c = Upto(f, Len(f.lines))
<1>1. Len(f.lines) \in Nat /\ Len(FlattenSeq(Body(f))) = EndsOf(Body(f))[Len(f.lines)]
  BY BodyEnds DEF LaidOut
<1>2. QED
  BY <1>1 DEF InBody

-----------------------------------------------------------------------------
\* The diff of a row: the files' diffs laid end to end.

Gold(g) ==
  /\ Len(g) \in Nat /\ DOMAIN g = 1..Len(g)
  /\ \A k \in 1..Len(g) : File(g[k])
  /\ \A k, j \in 1..Len(g) : g[j].path = g[k].path => j = k
Diffs(g)    == [k \in DOMAIN g |-> DiffOfFile(g[k])]
AllItems(P) == Items \cup [k : {"git"}, path : P] \cup [k : {"mark"}]

LEMMA FileDiff ==
  ASSUME NEW f, File(f), NEW P, f.path \in P
  PROVE  /\ DiffOfFile(f) \in Seq(AllItems(P)) /\ Len(FlattenSeq(Body(f))) \in Nat
         /\ Len(DiffOfFile(f)) = Len(FlattenSeq(Body(f))) + 3
         /\ DiffOfFile(f)[1] = [k |-> "git", path |-> f.path]
         /\ DiffOfFile(f)[2] = [k |-> "mark"] /\ DiffOfFile(f)[3] = [k |-> "mark"]
         /\ \A m \in 1..Len(FlattenSeq(Body(f))) : DiffOfFile(f)[m + 3] = FlattenSeq(Body(f))[m]
<1> DEFINE top == << [k |-> "git", path |-> f.path], [k |-> "mark"], [k |-> "mark"] >>
           flat == FlattenSeq(Body(f))
           X == AllItems(P)
<1>1. top \in Seq(X) /\ Len(top) = 3
  <2>1. [k |-> "git", path |-> f.path] \in X /\ [k |-> "mark"] \in X
    BY DEF AllItems
  <2> HIDE DEF X
  <2>2. QED
    BY <2>1
<1>2. flat \in Seq(X)
  <2>1. Body(f) \in Seq(Seq(Items))
    BY BodyEnds
  <2>2. flat \in Seq(Items)
    BY <2>1, FlatType
  <2>3. Items \subseteq X
    BY DEF AllItems
  <2> HIDE DEF X, flat
  <2>4. QED
    BY <2>2, <2>3
<1>3. DiffOfFile(f) = top \o flat
  BY DEF DiffOfFile, Body
<1>4. top[1] = [k |-> "git", path |-> f.path] /\ top[2] = [k |-> "mark"] /\ top[3] = [k |-> "mark"]
  OBVIOUS
<1> HIDE DEF top, flat, X
<1>5. top \o flat \in Seq(X) /\ Split(top \o flat, top, flat)
  BY <1>1, <1>2, Concat
<1>6. Len(flat) \in Nat
  BY <1>2
<1>7. /\ Len(top \o flat) = Len(flat) + 3
      /\ \A n \in 1..3 : (top \o flat)[n] = top[n]
      /\ \A m \in 1..Len(flat) : (top \o flat)[m + 3] = flat[m]
  BY <1>1, <1>5, <1>6 DEF Split
<1>8. QED
  BY <1>3, <1>4, <1>5, <1>6, <1>7 DEF flat, X

LEMMA FileStarts ==
  ASSUME NEW f, File(f)
  PROVE  /\ Len(DiffOfFile(f)) \in Nat /\ Len(DiffOfFile(f)) >= 3
         /\ 1 \in 1..Len(DiffOfFile(f)) /\ Len(DiffOfFile(f)) # 0
         /\ DiffOfFile(f)[1] = [k |-> "git", path |-> f.path]
<1>1. /\ Len(FlattenSeq(Body(f))) \in Nat /\ Len(DiffOfFile(f)) = Len(FlattenSeq(Body(f))) + 3
      /\ DiffOfFile(f)[1] = [k |-> "git", path |-> f.path]
  <2>1. f.path \in {f.path}
    OBVIOUS
  <2>2. QED
    BY <2>1, FileDiff
<1>2. QED
  BY <1>1

LEMMA DiffEnds ==
  ASSUME NEW g, Gold(g)
  PROVE  /\ \E X : Diffs(g) \in Seq(Seq(X))
         /\ Len(Diffs(g)) = Len(g) /\ Len(g) \in Nat
         /\ \A k \in 1..Len(g) : Diffs(g)[k] = DiffOfFile(g[k]) /\ File(g[k])
         /\ Ends(Diffs(g), EndsOf(Diffs(g)))
         /\ LaidOut(FlattenSeq(Diffs(g)), Diffs(g), EndsOf(Diffs(g)))
<1> DEFINE P == {g[k].path : k \in 1..Len(g)}
<1>1. Len(g) \in Nat /\ DOMAIN g = 1..Len(g)
  BY DEF Gold
<1>2. \A k \in 1..Len(g) : Diffs(g)[k] = DiffOfFile(g[k]) /\ File(g[k]) /\ g[k].path \in P
  BY <1>1 DEF Diffs, Gold
<1>3. ASSUME NEW k \in 1..Len(g)  PROVE Diffs(g)[k] \in Seq(AllItems(P))
  <2>1. Diffs(g)[k] = DiffOfFile(g[k]) /\ File(g[k]) /\ g[k].path \in P
    BY <1>2
  <2> HIDE DEF P
  <2>2. DiffOfFile(g[k]) \in Seq(AllItems(P))
    BY <2>1, FileDiff
  <2>3. QED
    BY <2>1, <2>2
<1>4. Diffs(g) = [k \in 1..Len(g) |-> Diffs(g)[k]]
  BY <1>1 DEF Diffs
<1>5. Diffs(g) \in Seq(Seq(AllItems(P))) /\ Len(Diffs(g)) = Len(g)
  BY <1>1, <1>3, <1>4, Listed
<1>6. QED
  BY <1>1, <1>2, <1>5, EndsExist

\* changed_lines at n lines of the diff of file k + 1, of p lines in all: what it holds
\* of the files before is what they change.
Finished(g, k, ch) == \A j \in 1..k : ch[g[j].path] = Upto(g[j], Len(g[j].lines))
Within(g, k, n, p, cur, ch, w) ==
  /\ p = EndsOf(Diffs(g))[k] + n /\ cur = g[k + 1].path
  /\ DOMAIN ch = {g[j].path : j \in 1..(k + 1)} /\ Finished(g, k, ch)
  /\ n < 3 => ch[cur] = {}
  /\ n >= 3 => InBody(g[k + 1], n - 3, ch[cur], w)
Reading(g, p, cur, ch, w) ==
  \/ p = 0 /\ DOMAIN ch = {}
  \/ \E k \in 0..(Len(g) - 1) : \E n \in 1..Len(Diffs(g)[k + 1]) : Within(g, k, n, p, cur, ch, w)

\* Between two files, all that is held is of whole files.
Between(g, k, p, ch) ==
  p = EndsOf(Diffs(g))[k] /\ DOMAIN ch = {g[j].path : j \in 1..k} /\ Finished(g, k, ch)

LEMMA FileEnds ==
  ASSUME NEW g, Gold(g), NEW k \in 0..(Len(g) - 1), NEW n, n = Len(Diffs(g)[k + 1]),
         NEW p, NEW cur, NEW ch, NEW w, Within(g, k, n, p, cur, ch, w)
  PROVE  Between(g, k + 1, p, ch)
<1> DEFINE at == EndsOf(Diffs(g))
           f == g[k + 1]
<1>0. /\ Len(g) \in Nat /\ Len(Diffs(g)) = Len(g) /\ Ends(Diffs(g), at)
      /\ k + 1 \in 1..Len(g) /\ Diffs(g)[k + 1] = DiffOfFile(f) /\ File(f)
  BY DiffEnds
<1>1. p = at[k + 1]
  BY <1>0 DEF Ends, Within
<1>2. n = Len(FlattenSeq(Body(f))) + 3 /\ Len(FlattenSeq(Body(f))) \in Nat
  BY <1>0, FileDiff
<1>3. InBody(f, Len(FlattenSeq(Body(f))), ch[cur], w) /\ cur = f.path
  BY <1>2 DEF Within
<1>4. ch[f.path] = Upto(f, Len(f.lines))
  BY <1>0, <1>3, BodyIsRead
<1>5. Finished(g, k + 1, ch)
  <2>1. Finished(g, k, ch)
    BY DEF Within
  <2>2. \A j \in 1..(k + 1) : j \in 1..k \/ j = k + 1
    BY <1>0
  <2>3. QED
    BY <1>4, <2>1, <2>2 DEF Finished
<1>6. QED
  BY <1>1, <1>5 DEF Between, Within

LEMMA HeaderRead ==
  ASSUME NEW g, Gold(g), NEW k \in 0..(Len(g) - 1), NEW p \in Nat, NEW ch, NEW w,
         Between(g, k, p, ch)
  PROVE  Reading(g, p + 1, g[k + 1].path,
                 [q \in DOMAIN ch \cup {g[k + 1].path} |-> IF q \in DOMAIN ch THEN ch[q] ELSE {}], w)
<1> DEFINE cur == g[k + 1].path
           new == [q \in DOMAIN ch \cup {cur} |-> IF q \in DOMAIN ch THEN ch[q] ELSE {}]
<1>0. /\ Len(g) \in Nat /\ k \in Nat /\ k + 1 \in 1..Len(g) /\ Diffs(g)[k + 1] = DiffOfFile(g[k + 1])
      /\ File(g[k + 1])
  BY DiffEnds
<1>1. 1 \in 1..Len(Diffs(g)[k + 1])
  BY <1>0, FileStarts
<1>2. \A j \in 1..k : g[j].path # cur
  BY <1>0 DEF Gold
<1>3. DOMAIN ch = {g[j].path : j \in 1..k}
  BY DEF Between
<1>4. cur \notin DOMAIN ch
  BY <1>2, <1>3
<1>5. new[cur] = {} /\ \A j \in 1..k : new[g[j].path] = ch[g[j].path]
  BY <1>3, <1>4
<1>6. DOMAIN new = {g[j].path : j \in 1..(k + 1)}
  <2>1. 1..(k + 1) = (1..k) \cup {k + 1}
    BY <1>0
  <2>2. DOMAIN new = DOMAIN ch \cup {cur}
    OBVIOUS
  <2>3. QED
    BY <1>3, <2>1, <2>2
<1> HIDE DEF new
<1>7. Finished(g, k, new)
  BY <1>5 DEF Between, Finished
<1>8. Within(g, k, 1, p + 1, cur, new, w)
  BY <1>5, <1>6, <1>7 DEF Within, Between
<1>9. Reading(g, p + 1, cur, new, w)
  BY <1>1, <1>8, Zenon DEF Reading
<1>10. QED
  BY <1>9 DEF new

\* Where an unread line of the diff is: the header of the next file, or in a file.
LEMMA NextLine ==
  ASSUME NEW g, Gold(g), NEW p \in Nat, NEW cur, NEW ch, NEW w, Reading(g, p, cur, ch, w),
         p < Len(FlattenSeq(Diffs(g)))
  PROVE  LET e == FlattenSeq(Diffs(g))[p + 1] IN
         \/ \E k \in 0..(Len(g) - 1) :
              Between(g, k, p, ch) /\ e = [k |-> "git", path |-> g[k + 1].path]
         \/ \E k \in 0..(Len(g) - 1) : \E n \in 1..(Len(Diffs(g)[k + 1]) - 1) :
              Within(g, k, n, p, cur, ch, w) /\ e = Diffs(g)[k + 1][n + 1]
<1> DEFINE at == EndsOf(Diffs(g))
           K == Len(g)
           flat == FlattenSeq(Diffs(g))
           e == flat[p + 1]
<1>0. /\ K \in Nat /\ Len(Diffs(g)) = K /\ Ends(Diffs(g), at)
      /\ LaidOut(flat, Diffs(g), at)
      /\ \A k \in 1..K : Diffs(g)[k] = DiffOfFile(g[k]) /\ File(g[k])
  BY DiffEnds
<1>1. Len(flat) = at[K] /\ at[0] = 0 /\ \A k \in 0..K : at[k] \in Nat
  BY <1>0 DEF LaidOut, Ends
<1>2. ASSUME NEW k \in 0..(K - 1)
      PROVE  /\ at[k + 1] = at[k] + Len(Diffs(g)[k + 1]) /\ Holds(flat, at[k], Diffs(g)[k + 1])
             /\ Len(Diffs(g)[k + 1]) \in Nat /\ 1 \in 1..Len(Diffs(g)[k + 1])
             /\ Diffs(g)[k + 1][1] = [k |-> "git", path |-> g[k + 1].path]
  <2>1. k + 1 \in 1..K
    BY <1>0
  <2>2. at[k + 1] = at[k] + Len(Diffs(g)[k + 1]) /\ Holds(flat, at[k], Diffs(g)[k + 1])
    BY <1>0 DEF Ends, LaidOut
  <2>3. Diffs(g)[k + 1] = DiffOfFile(g[k + 1]) /\ File(g[k + 1])
    BY <1>0, <2>1
  <2>4. QED
    BY <2>2, <2>3, FileStarts
<1>3. ASSUME NEW k \in 0..(K - 1), Between(g, k, p, ch)
      PROVE  e = [k |-> "git", path |-> g[k + 1].path]
  <2>1. p = at[k] /\ 1 \in 1..Len(Diffs(g)[k + 1])
    BY <1>2, <1>3 DEF Between
  <2>2. flat[at[k] + 1] = Diffs(g)[k + 1][1]
    BY <1>2, <2>1, Zenon DEF Holds
  <2>3. QED
    BY <1>2, <2>1, <2>2
<1>4. CASE p = 0 /\ DOMAIN ch = {}
  <2>1. 0 \in 0..(K - 1)
    BY <1>0, <1>1, <1>4
  <2>2. Between(g, 0, p, ch)
    BY <1>1, <1>4 DEF Between, Finished
  <2>3. QED
    BY <1>3, <2>1, <2>2
<1>5. CASE \E k \in 0..(K - 1) : \E n \in 1..Len(Diffs(g)[k + 1]) : Within(g, k, n, p, cur, ch, w)
  <2>1. PICK k \in 0..(K - 1) : \E n \in 1..Len(Diffs(g)[k + 1]) : Within(g, k, n, p, cur, ch, w)
    BY <1>5
  <2>a. PICK n \in 1..Len(Diffs(g)[k + 1]) : Within(g, k, n, p, cur, ch, w)
    BY <2>1
  <2>2. p = at[k] + n /\ at[k] \in Nat
    <3>1. p = at[k] + n
      BY <2>a DEF Within
    <3>2. k \in 0..K
      BY <1>0
    <3>3. QED
      BY <1>1, <3>1, <3>2
  <2>3. CASE n < Len(Diffs(g)[k + 1])
    <3>1. n \in 1..(Len(Diffs(g)[k + 1]) - 1) /\ n + 1 \in 1..Len(Diffs(g)[k + 1])
      BY <1>2, <2>3
    <3>2. flat[at[k] + (n + 1)] = Diffs(g)[k + 1][n + 1]
      BY <1>2, <3>1, Zenon DEF Holds
    <3>3. at[k] + (n + 1) = p + 1
      <4>1. \A x, y \in Nat : x + (y + 1) = (x + y) + 1
        OBVIOUS
      <4>2. n \in Nat
        BY <3>1
      <4>3. QED
        BY <2>2, <4>1, <4>2, Zenon
    <3>4. QED
      BY <2>a, <3>1, <3>2, <3>3
  <2>4. CASE n = Len(Diffs(g)[k + 1])
    <3>1. Between(g, k + 1, p, ch)
      BY <2>a, <2>4, FileEnds
    <3>2. p = at[k + 1]
      BY <3>1 DEF Between
    <3>3. k + 1 # K
      BY <1>1, <3>2
    <3>4. k + 1 \in 0..(K - 1)
      BY <1>0, <3>3
    <3>5. QED
      BY <1>3, <3>1, <3>4
  <2>5. n < Len(Diffs(g)[k + 1]) \/ n = Len(Diffs(g)[k + 1])
    BY <1>2
  <2>6. QED
    BY <2>3, <2>4, <2>5
<1>6. QED
  BY <1>4, <1>5 DEF Reading

\* What changed_lines holds when the whole diff is read.
LEMMA DiffIsRead ==
  ASSUME NEW g, Gold(g), NEW cur, NEW ch, NEW w, Reading(g, Len(FlattenSeq(Diffs(g))), cur, ch, w)
  PROVE  Finished(g, Len(g), ch)
<1> DEFINE at == EndsOf(Diffs(g))
           K == Len(g)
           p == Len(FlattenSeq(Diffs(g)))
<1>0. /\ K \in Nat /\ Len(Diffs(g)) = K /\ Ends(Diffs(g), at) /\ p = at[K]
      /\ \A k \in 1..K : Diffs(g)[k] = DiffOfFile(g[k]) /\ File(g[k])
  BY DiffEnds DEF LaidOut
<1>1. \A k, j \in 0..K : k <= j => at[k] <= at[j] /\ (at[k] = at[j] => \A n \in (k + 1)..j : Len(Diffs(g)[n]) = 0)
  <2>1. PICK X : Diffs(g) \in Seq(Seq(X))
    BY DiffEnds
  <2>2. QED
    BY <1>0, <2>1, Growing
<1>2. \A k \in 1..K : Len(Diffs(g)[k]) \in Nat /\ Len(Diffs(g)[k]) # 0
  BY <1>0, FileStarts
<1>3. ASSUME NEW k \in 0..K, at[k] = at[K]  PROVE k = K
  <2> SUFFICES ASSUME k # K  PROVE FALSE
    OBVIOUS
  <2>1. K \in (k + 1)..K /\ K \in 1..K /\ K \in 0..K /\ k <= K
    BY <1>0
  <2>2. Len(Diffs(g)[K]) = 0
    BY <1>1, <1>3, <2>1
  <2>3. QED
    BY <1>2, <2>1, <2>2
<1>4. at[0] = 0 /\ \A k \in 0..K : at[k] \in Nat
  BY <1>0 DEF Ends
<1>5. \A k \in 0..(K - 1) : at[k + 1] = at[k] + Len(Diffs(g)[k + 1])
  BY <1>0 DEF Ends
<1>6. CASE p = 0 /\ DOMAIN ch = {}
  <2>1. K = 0
    BY <1>0, <1>3, <1>4, <1>6
  <2>2. QED
    BY <2>1 DEF Finished
<1>7. CASE \E k \in 0..(K - 1) : \E n \in 1..Len(Diffs(g)[k + 1]) : Within(g, k, n, p, cur, ch, w)
  <2>1. PICK k \in 0..(K - 1) : \E n \in 1..Len(Diffs(g)[k + 1]) : Within(g, k, n, p, cur, ch, w)
    BY <1>7
  <2>a. PICK n \in 1..Len(Diffs(g)[k + 1]) : Within(g, k, n, p, cur, ch, w)
    BY <2>1
  <2>2. at[K] = at[k] + n
    BY <1>0, <2>a DEF Within
  <2>3. k \in 0..K /\ k + 1 \in 0..K /\ k + 1 \in 1..K /\ K \in 0..K /\ k + 1 <= K
    BY <1>0
  <2>4. at[k + 1] <= at[K] /\ at[k + 1] \in Nat /\ at[k] \in Nat /\ Len(Diffs(g)[k + 1]) \in Nat
    BY <1>1, <1>2, <1>4, <2>3
  <2>5. n = Len(Diffs(g)[k + 1]) /\ at[k + 1] = at[K]
    <3>1. at[k + 1] = at[k] + Len(Diffs(g)[k + 1])
      BY <1>5
    <3>2. n <= Len(Diffs(g)[k + 1]) /\ n \in Nat
      BY <2>4
    <3>3. \A x, y, a, b, c \in Nat :
            b = a + x /\ c = a + y /\ b <= c /\ y <= x => y = x /\ b = c
      OBVIOUS
    <3>4. at[K] \in Nat
      BY <1>4, <2>3
    <3>5. QED
      BY <2>2, <2>4, <3>1, <3>2, <3>3, <3>4, Zenon
  <2>6. Between(g, k + 1, p, ch)
    BY <2>a, <2>5, FileEnds
  <2>7. k + 1 = K
    BY <1>3, <2>3, <2>5
  <2>8. QED
    BY <2>6, <2>7 DEF Between
<1>8. QED
  BY <1>6, <1>7 DEF Reading

\* One line of the diff is read.
LEMMA LineRead ==
  ASSUME NEW g, Gold(g), NEW p \in Nat, NEW cur, NEW ch, NEW w, Reading(g, p, cur, ch, w),
         p < Len(FlattenSeq(Diffs(g))), NEW e, e = FlattenSeq(Diffs(g))[p + 1]
  PROVE  \/ /\ e.k = "git"
            /\ Reading(g, p + 1, e.path,
                       [q \in DOMAIN ch \cup {e.path} |-> IF q \in DOMAIN ch THEN ch[q] ELSE {}], w)
         \/ e.k = "mark" /\ Reading(g, p + 1, cur, ch, w)
         \/ e.k = "hunk" /\ Reading(g, p + 1, cur, ch, e.at)
         \/ e.k = "add"  /\ Reading(g, p + 1, cur, [ch EXCEPT ![cur] = @ \cup {w}], w + 1)
         \/ e.k = "del"  /\ Reading(g, p + 1, cur, [ch EXCEPT ![cur] = @ \cup {w}], w)
         \/ e.k = "keep" /\ Reading(g, p + 1, cur, ch, w + 1)
<1>1. ASSUME NEW k \in 0..(Len(g) - 1), Between(g, k, p, ch), e = [k |-> "git", path |-> g[k + 1].path]
      PROVE  /\ e.k = "git"
             /\ Reading(g, p + 1, e.path,
                        [q \in DOMAIN ch \cup {e.path} |-> IF q \in DOMAIN ch THEN ch[q] ELSE {}], w)
  <2>1. e.k = "git" /\ e.path = g[k + 1].path
    BY <1>1
  <2>2. QED
    BY <1>1, <2>1, HeaderRead
<1>2. ASSUME NEW k \in 0..(Len(g) - 1), NEW n \in 1..(Len(Diffs(g)[k + 1]) - 1),
             Within(g, k, n, p, cur, ch, w), e = Diffs(g)[k + 1][n + 1]
      PROVE  \/ e.k = "mark" /\ Reading(g, p + 1, cur, ch, w)
             \/ e.k = "hunk" /\ Reading(g, p + 1, cur, ch, e.at)
             \/ e.k = "add"  /\ Reading(g, p + 1, cur, [ch EXCEPT ![cur] = @ \cup {w}], w + 1)
             \/ e.k = "del"  /\ Reading(g, p + 1, cur, [ch EXCEPT ![cur] = @ \cup {w}], w)
             \/ e.k = "keep" /\ Reading(g, p + 1, cur, ch, w + 1)
  <2> DEFINE f == g[k + 1]
             flat == FlattenSeq(Body(f))
             at == EndsOf(Diffs(g))
  <2>1. /\ Len(g) \in Nat /\ k + 1 \in 1..Len(g) /\ Diffs(g)[k + 1] = DiffOfFile(f) /\ File(f)
        /\ at[k] \in Nat
    <3>1. /\ Len(g) \in Nat /\ k + 1 \in 1..Len(g) /\ k \in 0..Len(g) /\ Len(Diffs(g)) = Len(g)
          /\ Ends(Diffs(g), at)
      BY DiffEnds
    <3>2. QED
      BY <3>1, DiffEnds DEF Ends
  <2>2. /\ Len(flat) \in Nat /\ Len(Diffs(g)[k + 1]) = Len(flat) + 3
        /\ Diffs(g)[k + 1][2] = [k |-> "mark"] /\ Diffs(g)[k + 1][3] = [k |-> "mark"]
        /\ \A m \in 1..Len(flat) : Diffs(g)[k + 1][m + 3] = flat[m]
    <3>1. f.path \in {f.path}
      OBVIOUS
    <3>2. /\ Len(flat) \in Nat /\ Len(DiffOfFile(f)) = Len(flat) + 3
          /\ DiffOfFile(f)[2] = [k |-> "mark"] /\ DiffOfFile(f)[3] = [k |-> "mark"]
          /\ \A m \in 1..Len(flat) : DiffOfFile(f)[m + 3] = flat[m]
      BY <2>1, <3>1, FileDiff
    <3>3. QED
      BY <2>1, <3>2, Zenon
  <2>3. n \in Nat /\ n + 1 \in 1..Len(Diffs(g)[k + 1]) /\ p = at[k] + n /\ p + 1 = at[k] + (n + 1)
    <3>1. p = at[k] + n
      BY <1>2 DEF Within
    <3>2. n \in Nat /\ n + 1 \in 1..Len(Diffs(g)[k + 1])
      BY <2>2
    <3>3. \A x, y \in Nat : (x + y) + 1 = x + (y + 1)
      OBVIOUS
    <3>4. QED
      BY <2>1, <3>1, <3>2, <3>3, Zenon
  <2>4. cur = f.path /\ DOMAIN ch = {g[j].path : j \in 1..(k + 1)} /\ Finished(g, k, ch)
    BY <1>2 DEF Within
  <2>5. cur \in DOMAIN ch /\ \A j \in 1..k : g[j].path # cur
    BY <2>1, <2>4 DEF Gold
  <2>6. ASSUME NEW new, DOMAIN new = DOMAIN ch, \A q \in DOMAIN ch : q # cur => new[q] = ch[q],
               NEW v, n + 1 < 3 => new[cur] = {}, n + 1 >= 3 => InBody(f, (n + 1) - 3, new[cur], v)
        PROVE  Reading(g, p + 1, cur, new, v)
    <3>1. Finished(g, k, new)
      <4>1. \A j \in 1..k : g[j].path \in DOMAIN ch
        BY <2>1, <2>4
      <4>2. QED
        BY <2>4, <2>5, <2>6, <4>1 DEF Finished
    <3>2. Within(g, k, n + 1, p + 1, cur, new, v)
      BY <2>3, <2>4, <2>6, <3>1 DEF Within
    <3>3. QED
      BY <2>3, <3>2, Zenon DEF Reading
  <2>7. CASE n < 3
    <3>1. ch[cur] = {}
      BY <1>2, <2>7 DEF Within
    <3>2. e = [k |-> "mark"]
      <4>1. n = 1 \/ n = 2
        BY <2>3, <2>7
      <4>2. QED
        BY <1>2, <2>2, <4>1
    <3>3. n + 1 >= 3 => InBody(f, (n + 1) - 3, ch[cur], w)
      <4>1. n + 1 >= 3 => (n + 1) - 3 = 0
        BY <2>3, <2>7
      <4>2. InBody(f, 0, ch[cur], w)
        BY <2>1, <3>1, BodyBegins
      <4>3. QED
        BY <4>1, <4>2
    <3>4. Reading(g, p + 1, cur, ch, w)
      BY <2>6, <3>1, <3>3
    <3>5. QED
      BY <3>2, <3>4
  <2>8. CASE n >= 3
    <3> DEFINE m == n - 3
    <3>1. /\ m \in Nat /\ m < Len(flat) /\ m + 1 \in 1..Len(flat) /\ (m + 1) + 3 = n + 1
          /\ (n + 1) - 3 = m + 1 /\ ~(n + 1 < 3)
      <4>1. n + 1 <= Len(flat) + 3 /\ n \in Nat /\ Len(flat) \in Nat
        BY <2>2, <2>3
      <4> HIDE DEF flat
      <4>2. QED
        BY <2>8, <4>1
    <3>2. e = flat[m + 1] /\ InBody(f, m, ch[cur], w)
      BY <1>2, <2>2, <2>8, <3>1 DEF Within
    <3> HIDE DEF m
    <3>3. \A new, v : /\ DOMAIN new = DOMAIN ch /\ \A q \in DOMAIN ch : q # cur => new[q] = ch[q]
                      /\ InBody(f, m + 1, new[cur], v)
                      => Reading(g, p + 1, cur, new, v)
      BY <2>6, <3>1
    <3> DEFINE more == [ch EXCEPT ![cur] = @ \cup {w}]
    <3>4. /\ DOMAIN more = DOMAIN ch /\ \A q \in DOMAIN ch : q # cur => more[q] = ch[q]
          /\ more[cur] = ch[cur] \cup {w}
      BY <2>5
    <3> HIDE DEF more, f, flat
    <3>5. \/ e.k = "hunk" /\ InBody(f, m + 1, ch[cur], e.at)
          \/ e.k = "add"  /\ InBody(f, m + 1, ch[cur] \cup {w}, w + 1)
          \/ e.k = "del"  /\ InBody(f, m + 1, ch[cur] \cup {w}, w)
          \/ e.k = "keep" /\ InBody(f, m + 1, ch[cur], w + 1)
      BY <2>1, <3>1, <3>2, BodyStep DEF flat
    <3>6. \A v : InBody(f, m + 1, ch[cur], v) => Reading(g, p + 1, cur, ch, v)
      BY <3>3
    <3>7. \A v : InBody(f, m + 1, ch[cur] \cup {w}, v) => Reading(g, p + 1, cur, more, v)
      BY <3>3, <3>4
    <3>8. QED
      BY <3>5, <3>6, <3>7 DEF more
  <2>9. QED
    BY <2>3, <2>7, <2>8
<1>3. QED
  BY <1>1, <1>2, NextLine

-----------------------------------------------------------------------------
\* The reading of the diff, as an invariant of the case.

Covered == UNION {SymbolsCovering(FileAt(p), changed[p]) : p \in spec.targets}
DiffInv ==
  /\ pc = "spec" => pos = 0 /\ changed = Nowhere
  /\ pc = "diff" => pos \in Nat /\ Reading(inst.gold, pos, current, changed, newLine)
  /\ Read_ => Finished(inst.gold, Len(inst.gold), changed)
  /\ Read_ /\ pc # "scope" => scope = Covered

LEMMA GoldOfRow ==
  ASSUME inst \in Instances
  PROVE  Gold(inst.gold) /\ Diff = FlattenSeq(Diffs(inst.gold))
  BY Rows DEF Gold, File, Diff, Diffs

LEMMA DiffBegins == Init => DiffInv
  BY DEF Init, PatchInit, DiffInv, Read_

\* After the scope is computed nothing of it changes.
LEMMA LaterStep ==
  ASSUME DiffInv, pc \notin {"spec", "diff", "scope", "ineligible", "overlay_refused"},
         pc' \notin {"spec", "diff", "scope", "ineligible", "overlay_refused"},
         UNCHANGED <<inst, spec, changed, scope>>
  PROVE  DiffInv'
<1>1. Read_ /\ pc # "scope" /\ pc' # "spec" /\ pc' # "diff" /\ pc' # "scope"
  BY DEF Read_
<1>2. Finished(inst.gold, Len(inst.gold), changed)' /\ Covered' = Covered
  BY <1>1 DEF DiffInv, Finished, Covered, FileAt
<1>3. QED
  BY <1>1, <1>2 DEF DiffInv

LEMMA DiffLine ==
  ASSUME inst \in Instances, DiffInv, NEW kind, Read(kind)
  PROVE  LET e == Diff[pos + 1]
             g == inst.gold IN
         /\ e.k = kind
         /\ pc = "diff" /\ pc' = "diff" /\ pos' = pos + 1 /\ pos' \in Nat /\ inst' = inst
         /\ kind = "git" =>
              Reading(g, pos + 1, e.path,
                      [q \in DOMAIN changed \cup {e.path} |-> IF q \in DOMAIN changed THEN changed[q] ELSE {}],
                      newLine)
         /\ kind = "mark" => Reading(g, pos + 1, current, changed, newLine)
         /\ kind = "hunk" => Reading(g, pos + 1, current, changed, e.at)
         /\ kind = "add"  => Reading(g, pos + 1, current, [changed EXCEPT ![current] = @ \cup {newLine}], newLine + 1)
         /\ kind = "del"  => Reading(g, pos + 1, current, [changed EXCEPT ![current] = @ \cup {newLine}], newLine)
         /\ kind = "keep" => Reading(g, pos + 1, current, changed, newLine + 1)
<1>1. /\ pc = "diff" /\ pc' = "diff" /\ pos < Len(Diff) /\ Diff[pos + 1].k = kind
      /\ pos' = pos + 1 /\ inst' = inst
  BY DEF Read
<1>2. pos \in Nat /\ Reading(inst.gold, pos, current, changed, newLine)
  BY <1>1 DEF DiffInv
<1>3. Gold(inst.gold) /\ Diff = FlattenSeq(Diffs(inst.gold))
  BY GoldOfRow
<1> DEFINE e == Diff[pos + 1]
           g == inst.gold
<1>4. \/ /\ e.k = "git"
         /\ Reading(g, pos + 1, e.path,
                    [q \in DOMAIN changed \cup {e.path} |-> IF q \in DOMAIN changed THEN changed[q] ELSE {}],
                    newLine)
      \/ e.k = "mark" /\ Reading(g, pos + 1, current, changed, newLine)
      \/ e.k = "hunk" /\ Reading(g, pos + 1, current, changed, e.at)
      \/ e.k = "add"  /\ Reading(g, pos + 1, current, [changed EXCEPT ![current] = @ \cup {newLine}], newLine + 1)
      \/ e.k = "del"  /\ Reading(g, pos + 1, current, [changed EXCEPT ![current] = @ \cup {newLine}], newLine)
      \/ e.k = "keep" /\ Reading(g, pos + 1, current, changed, newLine + 1)
  BY <1>1, <1>2, <1>3, LineRead
<1> HIDE DEF g, e
<1>5. e.k = kind
  BY <1>1 DEF e
<1>6. pos' \in Nat
  BY <1>1, <1>2
<1>7. QED
  BY <1>1, <1>4, <1>5, <1>6 DEF g, e

LEMMA ReadingStep ==
  ASSUME inst \in Instances, DiffInv,
         ReadHeader \/ ReadMark \/ ReadHunk \/ ReadAdded \/ ReadRemoved \/ ReadContext
  PROVE  DiffInv'
<1>1. ASSUME pc' = "diff", pos' \in Nat, Reading(inst.gold, pos, current, changed, newLine)'
      PROVE  DiffInv'
  BY <1>1 DEF DiffInv, Read_
<1>2. CASE ReadHeader
  <2>1. Read("git")
    BY <1>2 DEF ReadHeader
  <2>2. /\ current' = Diff[pos + 1].path /\ newLine' = newLine
        /\ changed' = [p \in DOMAIN changed \cup {current'} |->
                         IF p \in DOMAIN changed THEN changed[p] ELSE {}]
    BY <1>2 DEF ReadHeader
  <2>3. Reading(inst.gold, pos, current, changed, newLine)'
    BY <2>1, <2>2, DiffLine
  <2>4. QED
    BY <1>1, <2>1, <2>3, DiffLine
<1>3. CASE ReadMark
  <2>1. Read("mark") /\ UNCHANGED <<current, newLine, changed>>
    BY <1>3 DEF ReadMark
  <2>2. QED
    BY <1>1, <2>1, DiffLine
<1>4. CASE ReadHunk
  <2>1. Read("hunk") /\ newLine' = Diff[pos + 1].at /\ UNCHANGED <<current, changed>>
    BY <1>4 DEF ReadHunk
  <2>2. QED
    BY <1>1, <2>1, DiffLine
<1>5. CASE ReadAdded
  <2>1. /\ Read("add") /\ changed' = [changed EXCEPT ![current] = @ \cup {newLine}]
        /\ newLine' = newLine + 1 /\ UNCHANGED current
    BY <1>5 DEF ReadAdded
  <2>2. QED
    BY <1>1, <2>1, DiffLine
<1>6. CASE ReadRemoved
  <2>1. /\ Read("del") /\ changed' = [changed EXCEPT ![current] = @ \cup {newLine}]
        /\ UNCHANGED <<current, newLine>>
    BY <1>6 DEF ReadRemoved
  <2>2. QED
    BY <1>1, <2>1, DiffLine
<1>7. CASE ReadContext
  <2>1. Read("keep") /\ newLine' = newLine + 1 /\ UNCHANGED <<current, changed>>
    BY <1>7 DEF ReadContext
  <2>2. QED
    BY <1>1, <2>1, DiffLine
<1>8. QED
  BY <1>2, <1>3, <1>4, <1>5, <1>6, <1>7

LEMMA DiffStep == IInv /\ DiffInv /\ [Next]_vars => DiffInv'
<1> SUFFICES ASSUME IInv, DiffInv, [Next]_vars  PROVE DiffInv'
  OBVIOUS
<1>1. inst \in Instances /\ Gold(inst.gold) /\ Diff = FlattenSeq(Diffs(inst.gold))
  BY GoldOfRow DEF IInv, RInv, Specified
<1>2. CASE BuildSpec
  <2>1. /\ pc = "spec" /\ pc' \in {"ineligible", "overlay_refused", "diff"}
        /\ UNCHANGED <<inst, pos, current, newLine, changed>>
    BY <1>2 DEF BuildSpec
  <2>2. pos' = 0 /\ DOMAIN changed' = {}
    BY <2>1 DEF DiffInv, Nowhere
  <2>3. QED
    BY <2>1, <2>2 DEF DiffInv, Reading, Read_
<1>3. CASE ReadHeader \/ ReadMark \/ ReadHunk \/ ReadAdded \/ ReadRemoved \/ ReadContext
  BY <1>1, <1>3, ReadingStep
<1>4. CASE DiffRead
  <2>1. pc = "diff" /\ pos = Len(Diff) /\ pc' = "scope" /\ UNCHANGED <<inst, changed>>
    BY <1>4 DEF DiffRead
  <2>2. Reading(inst.gold, Len(FlattenSeq(Diffs(inst.gold))), current, changed, newLine)
    BY <1>1, <2>1 DEF DiffInv
  <2>3. Finished(inst.gold, Len(inst.gold), changed)
    BY <1>1, <2>2, DiffIsRead
  <2>4. QED
    BY <2>1, <2>3 DEF DiffInv
<1>5. CASE Scope
  <2>1. pc = "scope" /\ pc' = "read" /\ scope' = Covered /\ UNCHANGED <<inst, spec, changed>>
    BY <1>5 DEF Scope, Covered
  <2>2. Finished(inst.gold, Len(inst.gold), changed)
    BY <2>1 DEF DiffInv, Read_
  <2>3. Covered' = Covered
    BY <2>1 DEF Covered, FileAt
  <2>4. QED
    BY <2>1, <2>2, <2>3 DEF DiffInv
<1>6. CASE /\ pc \notin {"spec", "diff", "scope", "ineligible", "overlay_refused"}
           /\ pc' \notin {"spec", "diff", "scope", "ineligible", "overlay_refused"}
           /\ UNCHANGED <<inst, spec, changed, scope>>
  BY <1>6, LaterStep
<1>7. CASE RenameNext /\ ~PatchNext
  <2>1. \/ ReadTree \/ NoAnchor \/ Pick \/ ScanRaises \/ ScanDynamic \/ ScanRewrites \/ Finish \/ Write
    BY <1>7 DEF RenameNext
  <2>2. QED
    BY <1>6, <2>1 DEF ReadTree, NoAnchor, Pick, Start, ScanRaises, ScanDynamic, ScanRewrites, Finish,
                      Write, Refuse
<1>8. CASE RunSuite \/ ReadLog \/ Judge \/ Reward
  BY <1>6, <1>8 DEF RunSuite, ReadLog, Judge, Reward, Reapply, Start, patchVars
<1>9. CASE UNCHANGED vars
  <2>1. UNCHANGED <<inst, pc, spec, pos, current, newLine, changed, scope>>
    BY <1>9 DEF vars, patchVars
  <2>2. Covered' = Covered /\ Read_' = Read_
    BY <2>1 DEF Covered, FileAt, Read_
  <2>3. Finished(inst.gold, Len(inst.gold), changed)' = Finished(inst.gold, Len(inst.gold), changed)
    BY <2>1
  <2>4. QED
    BY <2>1, <2>2, <2>3 DEF DiffInv
<1>10. QED
  BY <1>2, <1>3, <1>4, <1>5, <1>7, <1>8, <1>9 DEF Next, RenameNext, PatchNext

LEMMA DiffInvariance == Spec => []DiffInv
  BY DiffBegins, DiffStep, Invariance, PTL DEF Spec

\* An entry that survives sets apart the numbers before and after it.
LEMMA Climbing ==
  ASSUME NEW f, File(f), NEW i \in 1..Len(f.lines), NEW j \in 1..Len(f.lines),
         NEW m \in i..(j - 1), Survives(f.lines[m])
  PROVE  PostBefore(f, i) < PostBefore(f, j)
<1> DEFINE Before(n) == {x \in 1..(n - 1) : Survives(f.lines[x])}
<1>0. Len(f.lines) \in Nat
  BY DEF File
<1>1. ASSUME NEW n \in 1..Len(f.lines)
      PROVE  IsFiniteSet(Before(n)) /\ Cardinality(Before(n)) \in Nat /\ PostBefore(f, n) = Cardinality(Before(n))
  <2>1. IsFiniteSet(1..(n - 1))
    BY <1>0, FS_Interval
  <2>2. IsFiniteSet(Before(n))
    BY <2>1, FS_Subset
  <2>3. QED
    BY <2>2, FS_CardinalityType DEF PostBefore
<1>2. m \notin Before(i) /\ Before(i) \cup {m} \subseteq Before(j)
  BY <1>0
<1> HIDE DEF Before
<1>3. Cardinality(Before(i) \cup {m}) = Cardinality(Before(i)) + 1
  BY <1>1, <1>2, FS_AddElement
<1>4. Cardinality(Before(i) \cup {m}) <= Cardinality(Before(j))
  BY <1>1, <1>2, FS_Subset
<1>5. \A a, b, c \in Nat : b = a + 1 /\ b <= c => a < c
  OBVIOUS
<1>6. Cardinality(Before(i)) \in Nat /\ Cardinality(Before(j)) \in Nat /\ Cardinality(Before(i) \cup {m}) \in Nat
  BY <1>1, <1>3
<1>7. QED
  BY <1>1, <1>3, <1>4, <1>5, <1>6

\* symbols_covering of what changed_lines found: the owners of additions, and of lines a
\* deletion moved up.
Moved(f, i) == Survives(f.lines[i]) /\ \E j \in 1..(i - 1) : \A m \in j..(i - 1) : f.lines[m].op = "del"

LEMMA Covering ==
  ASSUME NEW f, File(f)
  PROVE  /\ \A i \in DOMAIN f.lines : f.lines[i].op = "add" \/ Moved(f, i) =>
              \A d \in f.lines[i].own : NameOf[d] \in SymbolsCovering(f, Upto(f, Len(f.lines)))
         /\ \A x \in SymbolsCovering(f, Upto(f, Len(f.lines))) :
              \E i \in DOMAIN f.lines : \E d \in f.lines[i].own :
                x = NameOf[d] /\ (f.lines[i].op = "add" \/ Moved(f, i))
<1> DEFINE L == Len(f.lines)
           U == Upto(f, L)
<1>0. L \in Nat /\ DOMAIN f.lines = 1..L
  BY DEF File
<1>1. \A i \in 1..L : f.lines[i].op \in {"keep", "add", "del"} /\ f.lines[i].own \subseteq Definition
  <2>1. \A i \in 1..L : f.lines[i] \in Line
    BY DEF File
  <2>2. QED
    BY <2>1 DEF Line
<1>2. \A i \in Left(f) : i \in 1..L /\ Survives(f.lines[i]) /\ LineOf(f, i) = PostBefore(f, i) + 1
  BY <1>0 DEF Left, LineOf
<1>3. ASSUME NEW i \in 1..L, f.lines[i].op = "add" \/ Moved(f, i), NEW d \in f.lines[i].own
      PROVE  NameOf[d] \in SymbolsCovering(f, U)
  <2>1. i \in Left(f)
    BY <1>0, <1>3 DEF Left, Survives, Moved
  <2>2. f.lines[i].op = "add" => PostBefore(f, i) + 1 \in U
    <3>1. f.lines[i].op = "add" => LineOf(f, i) \in U
      BY DEF Upto
    <3>2. QED
      BY <1>2, <2>1, <3>1
  <2>3. PostBefore(f, i) + 1 \in U
    <3>1. CASE Moved(f, i)
      <4>1. PICK j \in 1..(i - 1) : \A m \in j..(i - 1) : f.lines[m].op = "del"
        BY <3>1 DEF Moved
      <4>2. j \in 1..L /\ f.lines[j].op = "del"
        BY <1>0, <4>1
      <4>3. LineOf(f, j) \in U
        BY <4>2 DEF Upto
      <4>4. {x \in 1..(j - 1) : Survives(f.lines[x])} = {x \in 1..(i - 1) : Survives(f.lines[x])}
        BY <4>1 DEF Survives
      <4>5. PostBefore(f, j) = PostBefore(f, i)
        BY <4>4 DEF PostBefore
      <4>6. LineOf(f, j) = PostBefore(f, j) + 1
        BY <2>1 DEF LineOf
      <4>7. QED
        BY <4>3, <4>5, <4>6
    <3>2. QED
      BY <1>3, <2>2, <3>1
  <2>4. d \in Definition
    BY <1>1, <1>3
  <2> HIDE DEF U
  <2>5. QED
    BY <1>3, <2>1, <2>3, <2>4 DEF SymbolsCovering
<1>4. ASSUME NEW x \in SymbolsCovering(f, U)
      PROVE  \E i \in 1..L : \E d \in f.lines[i].own : x = NameOf[d] /\ (f.lines[i].op = "add" \/ Moved(f, i))
  <2>1. PICK d \in Definition : /\ x = NameOf[d]
                                /\ \E i \in Left(f) : d \in f.lines[i].own /\ PostBefore(f, i) + 1 \in U
    <3> HIDE DEF U
    <3>1. QED
      BY <1>4 DEF SymbolsCovering
  <2>2. PICK i \in Left(f) : d \in f.lines[i].own /\ PostBefore(f, i) + 1 \in U
    BY <2>1
  <2>3. PICK j \in 1..L : f.lines[j].op # "keep" /\ LineOf(f, j) = PostBefore(f, i) + 1
    BY <2>2 DEF Upto
  <2>4. i \in 1..L /\ Survives(f.lines[i])
    BY <1>2, <2>2
  <2>5. PostBefore(f, i) \in Nat /\ PostBefore(f, j) \in Nat
    BY <1>0, <2>4, Counts
  <2>6. PostBefore(f, j) = PostBefore(f, i)
    <3>1. LineOf(f, j) = PostBefore(f, j) + 1
      BY <2>2 DEF LineOf
    <3>2. \A a, b \in Nat : a + 1 = b + 1 => a = b
      OBVIOUS
    <3>3. QED
      BY <2>3, <2>5, <3>1, <3>2, Zenon
  <2>7. CASE j = i
    <3>1. f.lines[i].op = "add"
      BY <1>1, <2>3, <2>4, <2>7 DEF Survives
    <3>2. QED
      BY <2>1, <2>2, <2>4, <3>1
  <2>8. CASE j > i
    <3>1. i \in i..(j - 1)
      BY <2>4, <2>8
    <3>2. PostBefore(f, i) < PostBefore(f, j)
      BY <2>4, <3>1, Climbing
    <3>3. QED
      BY <2>5, <2>6, <3>2
  <2>9. CASE j < i
    <3>1. ASSUME NEW m \in j..(i - 1)  PROVE f.lines[m].op = "del"
      <4>1. m \in 1..L
        BY <1>0, <2>4
      <4>2. Survives(f.lines[m]) => PostBefore(f, j) < PostBefore(f, i)
        BY <2>4, Climbing
      <4>3. ~(PostBefore(f, j) < PostBefore(f, i))
        BY <2>5, <2>6
      <4>4. QED
        BY <1>1, <4>1, <4>2, <4>3 DEF Survives
    <3>2. j \in 1..(i - 1)
      BY <1>0, <2>4, <2>9
    <3>3. Moved(f, i)
      BY <2>4, <3>1, <3>2 DEF Moved
    <3>4. QED
      BY <2>1, <2>2, <2>4, <3>3
  <2>10. QED
    BY <2>4, <2>7, <2>8, <2>9
<1>5. QED
  BY <1>0, <1>3, <1>4

-----------------------------------------------------------------------------
\* What is proved of every case.

(* An overlay that is applied, of any row, touches no target of the gold     *)
(* patch and nothing the scan reads as production but files named as a test  *)
(* in another case (container_task.py check_tests_overlay).                  *)
THEOREM OverlaySafety == Spec => []OverlayKeepsSolution
<1>1. IInv => OverlayKeepsSolution
  <2> SUFFICES ASSUME IInv, pc \notin {"spec", "ineligible", "overlay_refused"}, spec.overlay # None
               PROVE  /\ spec.overlay \cap spec.targets = {}
                      /\ \A f \in spec.overlay : ~InScan(f) \/ f.leaf = "Test_"
    BY DEF OverlayKeepsSolution
  <2>1. spec.targets = Targets /\ spec.overlay = inst.overlay /\ OverlayAllowed(inst.overlay, inst.tests)
    BY DEF IInv, RInv, Specified
  <2>2. \A f \in spec.overlay : ~IsProductionPython(f)
    BY <2>1 DEF OverlayAllowed
  <2>3. QED
    BY <2>1, <2>2 DEF Targets, IsProductionPython, InScan
<1>2. QED
  BY <1>1, Invariance, PTL

(* The tree that is judged or graded is the whole rename of the reset's, and *)
(* at any other time the tree is the reset's, for any tree and any order of  *)
(* the walk (f2_operators.py SymbolRename.apply, container_task.py           *)
(* formcheck_write).                                                         *)
THEOREM RenameWholeness == Spec => []RenameIsWhole
<1>1. ASSUME IInv  PROVE RenameIsWhole
  <2>1. pc \in Early \/ pc \in {"judged", "graded", "verdict"} \/ pc \in {"scan", "applied", "refused"}
    BY <1>1 DEF IInv, RInv, Specified, Again, Early, Ended
  <2>2. pc \in {"judged", "graded", "verdict"} => tree = Renamed
    BY <1>1 DEF IInv, RInv, Answered
  <2>3. pc \notin {"judged", "graded", "verdict"} => tree = before
    BY <1>1, <2>1 DEF IInv, RInv, Unpicked, Walking, Answered
  <2>4. ASSUME pc \notin Early, NEW p \in DOMAIN before
        PROVE  /\ DOMAIN before[p] \subseteq Occurrence
               /\ \A o \in DOMAIN before[p] : before[p][o] = Written(o)
               /\ DOMAIN Rewrite(before[p]) = DOMAIN before[p]
               /\ \A o \in DOMAIN before[p] : Rewrite(before[p])[o] = (IF o \in Edited THEN "new" ELSE Written(o))
    <3>1. DOMAIN before[p] \subseteq Occurrence /\ before[p] = Source(DOMAIN before[p])
      BY <1>1, <2>4 DEF IInv, RInv, Picked, AsReset
    <3>2. \A o \in DOMAIN before[p] : before[p][o] = Written(o)
      BY <3>1 DEF Source
    <3>3. QED
      BY <3>1, <3>2 DEF Rewrite, Written, Edited
  <2>5. RenameTypeOK
    <3>1. \A p \in DOMAIN tree : /\ DOMAIN tree[p] \subseteq Occurrence
                                 /\ Range(tree[p]) \subseteq {"name", "new", "longer"}
      <4>1. CASE pc \in Early
        BY <1>1, <4>1 DEF IInv, RInv, Unpicked, Nowhere
      <4>2. CASE pc \notin Early
        <5>1. DOMAIN tree = DOMAIN before
          BY <2>2, <2>3 DEF Renamed
        <5>2. \A p \in DOMAIN before : tree[p] = before[p] \/ tree[p] = Rewrite(before[p])
          BY <2>2, <2>3 DEF Renamed
        <5>3. QED
          BY <2>4, <4>2, <5>1, <5>2 DEF Range, Written
      <4>3. QED
        BY <4>1, <4>2
    <3>2. answer.v \in {"none", "applied", "refused"}
      BY <1>1, <2>1 DEF IInv, RInv, Unpicked, Walking, Answered, NoAnswer
    <3>3. \A h \in dynamic : h.file \in DOMAIN tree /\ h.all \in BOOLEAN
      <4>1. DOMAIN tree = DOMAIN before /\ dynamic \subseteq Reach
        BY <1>1, <2>1, <2>2, <2>3 DEF IInv, RInv, Unpicked, Walking, Answered, Renamed
      <4>2. ASSUME NEW h \in Reach  PROVE h.file \in DOMAIN before /\ h.all \in BOOLEAN
        <5>1. PICK p \in DOMAIN before : h \in Reaches(p)
          BY DEF Reach
        <5>2. PICK o \in Dynamic \cap DOMAIN before[p] : h = [file |-> p, all |-> o = "all"]
          BY <5>1 DEF Reaches
        <5>3. h.file = p /\ h.all = (o = "all")
          BY <5>2
        <5>4. QED
          BY <5>3
      <4>3. QED
        BY <4>1, <4>2
    <3>4. QED
      BY <1>1, <3>1, <3>2, <3>3 DEF IInv, RInv, Specified, Early, Ended, RenameTypeOK
  <2>6. CASE pc \in {"judged", "graded", "verdict"}
    <3>1. pc \notin Early /\ DOMAIN tree = DOMAIN before /\ \A p \in DOMAIN before : tree[p] = Rewrite(before[p])
      BY <2>2, <2>6 DEF Renamed, Early
    <3>2. \A p \in DOMAIN tree : \A o \in DOMAIN tree[p] :
            tree[p][o] = IF o \in {"def", "name", "import", "qualified", "ann"} THEN "new" ELSE before[p][o]
      BY <2>4, <3>1 DEF Edited
    <3>3. QED
      BY <2>5, <2>6, <3>2 DEF RenameIsWhole
  <2>7. CASE pc \notin {"judged", "graded", "verdict"}
    BY <2>3, <2>5, <2>7 DEF RenameIsWhole
  <2>8. QED
    BY <2>6, <2>7
<1>2. QED
  BY <1>1, Invariance, PTL

(* Whether a case raises, is refused or is applied before a test runs, and   *)
(* again when the rename is applied for the reward, is decided by the tree   *)
(* and the issue and not by the order of the walk; what a refusal says is a  *)
(* cause the tree holds (f2_operators.py SymbolRename.apply,                 *)
(* formcheck_hook.py 236-239).                                               *)
THEOREM Determinism == Spec => []DecidedByTree
<1>1. ASSUME IInv  PROVE DecidedByTree
  <2>1. pc \in Early \/ pc \in {"judged", "graded", "verdict"} \/ pc \in {"scan", "applied", "refused"}
    BY <1>1 DEF IInv, RInv, Specified, Again, Early, Ended
  <2>2. RaisesOnDeletion
    BY <1>1 DEF IInv, RInv, Specified, RaisesOnDeletion
  <2>3. AnswerIsOfTree
    BY <1>1, <2>1 DEF IInv, RInv, Unpicked, Walking, Answered, Again, Clean, NoAnswer, AnswerIsOfTree
  <2>4. CitesStrongest
    <3>1. CASE pc = "refused"
      BY <1>1, <3>1 DEF IInv, RInv, Answered
    <3>2. CASE pc # "refused"
      <4>1. answer.why = "none"
        BY <1>1, <2>1, <3>2 DEF IInv, RInv, Unpicked, Walking, Answered, NoAnswer
      <4>2. QED
        BY <4>1 DEF CitesStrongest
    <3>3. QED
      BY <3>1, <3>2
  <2>5. RefusedForCause
    <3>1. CASE pc = "refused"
      BY <1>1, <3>1 DEF IInv, RInv, Answered
    <3>2. CASE pc # "refused"
      <4>1. answer.v # "refused"
        BY <1>1, <2>1, <3>2 DEF IInv, RInv, Unpicked, Walking, Answered, NoAnswer
      <4>2. QED
        BY <4>1 DEF RefusedForCause
    <3>3. QED
      BY <3>1, <3>2
  <2>6. GradedIsJudged
    BY <1>1 DEF IInv, RInv, Answered, Again, GradedIsJudged
  <2>7. QED
    BY <2>2, <2>3, <2>4, <2>5, <2>6 DEF DecidedByTree
<1>2. QED
  BY <1>1, Invariance, PTL

(* The container runs and the earlier phase judge alike, for any run of the  *)
(* suite (f4_formcheck.py run_case; CHANGES.md 13).                          *)
THEOREM PhaseAgreement == Spec => []PhasesAgree
<1>1. ASSUME IInv, verdict # None
      PROVE  /\ PhaseFour = "CLEAN" <=> verdict = "CLEAN"
             /\ verdict = "WITNESS" => PhaseFour = "WITNESS"
             /\ PhaseFour = "WITNESS" /\ verdict # "WITNESS" => P2PFails = {}
  <2>1. Asked /\ Judged /\ Again
    BY <1>1 DEF IInv, RInv
  <2>2. /\ Partitioned /\ asked \subseteq Failing
        /\ \/ pc = "verdict" /\ Satisfied # "yes" /\ verdict \in {"INVALID", "UNVALIDATED"}
           \/ pc = "graded" /\ Satisfied = "yes" /\ verdict = (IF Failing = {} THEN "CLEAN" ELSE "WITNESS")
    BY <1>1, <2>1 DEF Judged, Again, Partitioned, Asked
  <2>3. Satisfied = "yes" <=> Called("unparsed") = {} /\ Called("broke") = {}
    BY DEF Satisfied
  <2>4. Called("unparsed") \subseteq Failing /\ Called("broke") \subseteq Failing /\ P2PFails \subseteq Failing
    BY <2>2 DEF Called, P2PFails, P2P
  <2>5. QED
    BY <2>2, <2>3, <2>4 DEF PhaseFour
<1>2. IInv => PhasesAgree
  BY <1>1 DEF PhasesAgree
<1>3. QED
  BY <1>2, Invariance, PTL

(* For any gold patch: the lines changed_lines finds are those the diff adds *)
(* and those that follow a deletion, and a name is in scope exactly if an    *)
(* added line is of it, or a line that a deletion moved up                   *)
(* (container_task.py changed_lines, symbols_covering, _scope).              *)
THEOREM ScopeSoundness == Spec => []ScopeIsPatched
<1>1. ASSUME IInv, DiffInv  PROVE ScopeIsPatched
  <2> DEFINE g == inst.gold
  <2>1. inst \in Instances /\ Gold(g) /\ (pc # "spec" => spec.targets = Targets)
    BY <1>1, GoldOfRow DEF IInv, RInv, Specified
  <2>2. Len(g) \in Nat /\ DOMAIN g = 1..Len(g) /\ \A k \in 1..Len(g) : File(g[k])
    BY <2>1 DEF Gold
  <2>3. \A f \in Range(g) : \E k \in 1..Len(g) : f = g[k]
    BY <2>2 DEF Range
  <2>4. ASSUME Read_, NEW f \in Range(g)  PROVE changed[f.path] = Upto(f, Len(f.lines))
    BY <1>1, <2>3, <2>4 DEF DiffInv, Finished
  <2>5. ChangedIsTheDiff
    <3>1. ASSUME NEW f \in Range(g)
          PROVE  Upto(f, Len(f.lines)) = {LineOf(f, i) : i \in {j \in DOMAIN f.lines : f.lines[j].op # "keep"}}
      <4>1. DOMAIN f.lines = 1..Len(f.lines)
        BY <2>2, <2>3 DEF File
      <4>2. QED
        BY <4>1 DEF Upto
    <3>2. QED
      BY <2>4, <3>1 DEF ChangedIsTheDiff
  <2>6. CASE ~(pc \notin {"scope"} /\ Read_)
    BY <2>5, <2>6, Zenon DEF ScopeIsPatched
  <2>7. CASE pc \notin {"scope"} /\ Read_
    <3> DEFINE lines == TargetLines
               names(S) == NamesAt(S)
               added == LinesOf("add")
               moved == {l \in lines : /\ Survives(l[1].lines[l[2]])
                                       /\ \E j \in 1..(l[2] - 1) :
                                            \A m \in j..(l[2] - 1) : l[1].lines[m].op = "del"}
    <3>1. scope = Covered /\ spec.targets = Targets
      BY <1>1, <2>1, <2>7 DEF DiffInv, Read_
    <3>2. ASSUME NEW p \in Targets
          PROVE  /\ FileAt(p) \in Range(g) /\ FileAt(p).path = p /\ File(FileAt(p))
                 /\ changed[p] = Upto(FileAt(p), Len(FileAt(p).lines))
      <4>1. \E f \in Range(g) : f.path = p
        BY <2>2 DEF Targets, GoldFiles, Range
      <4>2. FileAt(p) \in Range(g) /\ FileAt(p).path = p
        BY <4>1 DEF FileAt
      <4>3. QED
        BY <2>2, <2>3, <2>4, <2>7, <4>2
    <3>3. ASSUME NEW l \in lines
          PROVE  \E p \in Targets : \E i \in DOMAIN FileAt(p).lines : l[1] = FileAt(p) /\ l[2] = i
      BY <3>1 DEF TargetLines
    <3>4. ASSUME NEW x \in names(added \cup moved)  PROVE x \in scope
      <4>1. PICK l \in added \cup moved : \E d \in l[1].lines[l[2]].own : x = NameOf[d]
        BY <3>4 DEF NamesAt
      <4>2. PICK p \in Targets : \E i \in DOMAIN FileAt(p).lines : l[1] = FileAt(p) /\ l[2] = i
        BY <3>3, <4>1 DEF LinesOf
      <4>3. /\ l[2] \in DOMAIN FileAt(p).lines /\ l[1] = FileAt(p)
            /\ FileAt(p).lines[l[2]].op = "add" \/ Moved(FileAt(p), l[2])
        BY <4>1, <4>2 DEF LinesOf, Moved
      <4>4. x \in SymbolsCovering(FileAt(p), Upto(FileAt(p), Len(FileAt(p).lines)))
        BY <3>2, <4>1, <4>3, Covering
      <4>5. x \in SymbolsCovering(FileAt(p), changed[p])
        BY <3>2, <4>4
      <4>6. QED
        BY <3>1, <4>5 DEF Covered
    <3>5. ASSUME NEW x \in scope  PROVE x \in names(added \cup moved)
      <4>1. PICK p \in Targets : x \in SymbolsCovering(FileAt(p), changed[p])
        BY <3>1, <3>5 DEF Covered
      <4> DEFINE f == FileAt(p)
      <4>2. PICK i \in DOMAIN f.lines : \E d \in f.lines[i].own : x = NameOf[d] /\ (f.lines[i].op = "add" \/ Moved(f, i))
        <5>1. x \in SymbolsCovering(f, Upto(f, Len(f.lines))) /\ File(f)
          BY <3>2, <4>1
        <5>2. QED
          BY <5>1, Covering
      <4>3. <<f, i>> \in lines
        BY <3>1, <4>1, <4>2 DEF TargetLines
      <4>4. <<f, i>>[1] = f /\ <<f, i>>[2] = i
        OBVIOUS
      <4>5. <<f, i>> \in added \cup moved
        BY <4>2, <4>3, <4>4 DEF Moved, LinesOf
      <4> HIDE DEF f, added, moved
      <4>6. QED
        BY <4>2, <4>4, <4>5 DEF NamesAt
    <3>6. scope = names(added \cup moved)
      BY <3>4, <3>5
    <3>7. QED
      BY <2>5, <3>6, Zenon DEF ScopeIsPatched
  <2>8. QED
    BY <2>6, <2>7
<1>2. QED
  BY <1>1, Invariance, DiffInvariance, PTL

-----------------------------------------------------------------------------
\* The two passes over a log, whatever its lines are.

Kinds == {"rule", "label", "eq", "text"}
Lines ==
  /\ Len(log) \in Nat /\ DOMAIN log = 1..Len(log)
  /\ \A i \in 1..Len(log) : /\ log[i].k \in Kinds
                            /\ log[i].k \in {"rule", "label"} => log[i].h # NoBlock
                            /\ log[i].k = "text" => log[i].names \in BOOLEAN

\* What is read into the block of a rule by the line n.
RuleBody(lines, i, n) == {lines[j].names : j \in {m \in (i + 1)..n :
                     lines[m].k = "text" /\ \A l \in (i + 1)..m : lines[l].k # "rule"}}
Grounds(i, sec) ==
  /\ sec.h = log[i].h
  /\ \/ log[i].k = "rule"  /\ sec.body = RuleBody(log, i, Len(log))
     \/ log[i].k = "label" /\ sec.body = LabelBody(i)
Grounded(sec) == \E i \in 1..Len(log) : Grounds(i, sec)

\* Sections are a sequence of blocks with different headers.
Listing(s)    == Len(s) \in Nat /\ s = [i \in 1..Len(s) |-> s[i]]
Dictionary(s) == Listing(s) /\ \A i, j \in DOMAIN s : s[i].h = s[j].h => i = j
HeadersOf(s)  == {s[i].h : i \in DOMAIN s}

\* The block that is open is that of the last rule read.
OpenBlock ==
  /\ open = NoBlock => \A i \in 1..read : log[i].k # "rule"
  /\ open # NoBlock => \E i \in 1..read :
       /\ log[i].k = "rule" /\ open = log[i].h /\ buf = RuleBody(log, i, read)
       /\ \A l \in (i + 1)..read : log[l].k # "rule"

ScanInv ==
  /\ read \in 0..(2 * Len(log) + 1)
  /\ Dictionary(sections)
  /\ \A n \in DOMAIN sections : Grounded(sections[n])
  /\ read <= Len(log) => OpenBlock
  /\ read > Len(log) => open = NoBlock
  /\ \A i \in 1..Len(log) :
       /\ log[i].k = "rule" /\ i <= read => log[i].h \in Headers \cup {open}
       /\ log[i].k = "label" /\ i + Len(log) < read => log[i].h \in Headers

LEMMA Appending ==
  ASSUME NEW s, Listing(s), NEW e
  PROVE  /\ Listing(Append(s, e))
         /\ Len(Append(s, e)) = Len(s) + 1 /\ DOMAIN Append(s, e) = 1..(Len(s) + 1)
         /\ DOMAIN s = 1..Len(s)
         /\ \A i \in 1..Len(s) : Append(s, e)[i] = s[i]
         /\ Append(s, e)[Len(s) + 1] = e
<1> DEFINE X == {s[i] : i \in 1..Len(s)} \cup {e}
<1>1. s \in Seq(X) /\ e \in X
  BY DEF Listing
<1> HIDE DEF X
<1>2. Append(s, e) \in Seq(X) /\ Len(Append(s, e)) = Len(s) + 1
  BY <1>1
<1>3. Listing(Append(s, e)) /\ DOMAIN Append(s, e) = 1..(Len(s) + 1)
  <2> DEFINE r == Append(s, e)
  <2>1. r \in Seq(X) /\ Len(r) = Len(s) + 1 /\ Len(s) \in Nat
    BY <1>2 DEF Listing
  <2> HIDE DEF r
  <2>2. Len(r) \in Nat /\ r \in [1..Len(r) -> X]
    BY <2>1
  <2>3. r = [i \in 1..Len(r) |-> r[i]] /\ DOMAIN r = 1..Len(r)
    BY <2>2
  <2>4. QED
    BY <2>1, <2>2, <2>3 DEF Listing, r
<1>4. DOMAIN s = 1..Len(s) /\ \A i \in 1..Len(s) : Append(s, e)[i] = s[i]
  BY <1>1
<1>5. Append(s, e)[Len(s) + 1] = e
  BY <1>1
<1>6. QED
  BY <1>2, <1>3, <1>4, <1>5

\* A header that is new is put at the end.
LEMMA AppendsNew ==
  ASSUME NEW s, Dictionary(s), NEW e, e.h \notin HeadersOf(s)
  PROVE  /\ Dictionary(Append(s, e))
         /\ HeadersOf(Append(s, e)) = HeadersOf(s) \cup {e.h}
         /\ \A n \in DOMAIN Append(s, e) : Append(s, e)[n] = e \/ \E m \in DOMAIN s : Append(s, e)[n] = s[m]
<1> DEFINE r == Append(s, e)
           L == Len(s)
<1>1. /\ Listing(r) /\ DOMAIN r = 1..(L + 1) /\ DOMAIN s = 1..L /\ r[L + 1] = e
      /\ L \in Nat /\ \A i \in 1..L : r[i] = s[i]
  BY Appending DEF Dictionary, Listing
<1>2. \A i \in 1..(L + 1) : i \in 1..L \/ i = L + 1
  BY <1>1
<1>3. /\ \A i \in 1..L : s[i].h # e.h
      /\ \A i, j \in 1..L : s[i].h = s[j].h => i = j
  BY <1>1 DEF HeadersOf, Dictionary
<1>3a. \A i \in 1..L : i \in 1..(L + 1)
  BY <1>1
<1>3b. L + 1 \in 1..(L + 1)
  BY <1>1
<1> HIDE DEF r, L
<1>4. \A i, j \in 1..(L + 1) : r[i].h = r[j].h => i = j
  BY <1>1, <1>2, <1>3, Zenon
<1>5. HeadersOf(r) = HeadersOf(s) \cup {e.h}
  <2>1. HeadersOf(r) \subseteq HeadersOf(s) \cup {e.h}
    BY <1>1, <1>2, Zenon DEF HeadersOf
  <2>2. HeadersOf(s) \cup {e.h} \subseteq HeadersOf(r)
    BY <1>1, <1>3a, <1>3b, Zenon DEF HeadersOf
  <2>3. QED
    BY <2>1, <2>2
<1>6. \A n \in DOMAIN r : r[n] = e \/ \E m \in DOMAIN s : r[n] = s[m]
  BY <1>1, <1>2, Zenon
<1>7. Dictionary(r)
  BY <1>1, <1>4 DEF Dictionary
<1>8. QED
  BY <1>5, <1>6, <1>7 DEF r

LEMMA Putting ==
  ASSUME NEW s, Dictionary(s), NEW h, NEW body
  PROVE  /\ Dictionary(Put(s, h, body))
         /\ HeadersOf(Put(s, h, body)) = HeadersOf(s) \cup {h}
         /\ \A n \in DOMAIN Put(s, h, body) :
              \/ Put(s, h, body)[n] = [h |-> h, body |-> body]
              \/ \E m \in DOMAIN s : Put(s, h, body)[n] = s[m]
<1> DEFINE e == [h |-> h, body |-> body]
           r == Put(s, h, body)
<1>0. e.h = h
  OBVIOUS
<1>1. CASE h \notin HeadersOf(s)
  <2>1. r = Append(s, e)
    BY <1>1 DEF Put, HeadersOf
  <2> HIDE DEF r, e
  <2>2. QED
    BY <1>0, <1>1, <2>1, AppendsNew DEF r, e
<1>2. CASE h \in HeadersOf(s)
  <2>1. r = [i \in DOMAIN s |-> IF s[i].h = h THEN e ELSE s[i]]
    BY <1>2 DEF Put, HeadersOf
  <2>2. Len(s) \in Nat /\ DOMAIN s = 1..Len(s)
    BY DEF Dictionary, Listing
  <2>3. DOMAIN r = 1..Len(s) /\ \A i \in 1..Len(s) : r[i] = IF s[i].h = h THEN e ELSE s[i]
    BY <2>1, <2>2
  <2>4. r = [i \in 1..Len(s) |-> r[i]]
    BY <2>1, <2>2
  <2> HIDE DEF r, e
  <2>5. \A i \in 1..Len(s) : r[i].h = s[i].h
    BY <1>0, <2>3
  <2>6. Len(r) = Len(s)
    <3> DEFINE X == {r[i] : i \in 1..Len(s)}
    <3>1. \A i \in 1..Len(s) : r[i] \in X
      OBVIOUS
    <3> HIDE DEF X
    <3>2. QED
      BY <2>2, <2>4, <3>1, Listed
  <2>7. Dictionary(r)
    BY <2>2, <2>3, <2>4, <2>5, <2>6 DEF Dictionary, Listing
  <2>8. HeadersOf(r) = HeadersOf(s)
    BY <2>2, <2>3, <2>5 DEF HeadersOf
  <2>9. QED
    BY <1>2, <2>2, <2>3, <2>7, <2>8 DEF r, e
<1>3. QED
  BY <1>1, <1>2

-----------------------------------------------------------------------------
\* Each line read keeps the relation.

LEMMA LineInBody ==
  ASSUME Lines, NEW i \in 1..Len(log), NEW n \in i..(Len(log) - 1)
  PROVE  /\ log[n + 1].k = "rule" => RuleBody(log, i, Len(log)) = RuleBody(log, i, n)
         /\ log[n + 1].k \in {"eq", "label"} => RuleBody(log, i, n + 1) = RuleBody(log, i, n)
         /\ log[n + 1].k = "text" /\ (\A l \in (i + 1)..n : log[l].k # "rule") =>
              RuleBody(log, i, n + 1) = RuleBody(log, i, n) \cup {log[n + 1].names}
<1> DEFINE Of(m) == log[m].k = "text" /\ \A l \in (i + 1)..m : log[l].k # "rule"
<1>0. Len(log) \in Nat /\ n \in Nat /\ i \in Nat /\ i <= n /\ n < Len(log)
  BY DEF Lines
<1>1. \A c : RuleBody(log, i, c) = {log[j].names : j \in {m \in (i + 1)..c : Of(m)}}
  BY DEF RuleBody
<1>2. ASSUME log[n + 1].k = "rule", NEW m \in (i + 1)..Len(log), Of(m)  PROVE m \in (i + 1)..n
  BY <1>0, <1>2
<1>3. ASSUME log[n + 1].k = "rule"  PROVE RuleBody(log, i, Len(log)) = RuleBody(log, i, n)
  <2>1. \A m \in (i + 1)..n : m \in (i + 1)..Len(log)
    BY <1>0
  <2> HIDE DEF Of
  <2>2. {m \in (i + 1)..Len(log) : Of(m)} = {m \in (i + 1)..n : Of(m)}
    BY <1>2, <1>3, <2>1
  <2>3. QED
    BY <1>1, <2>2
<1>4. \A m \in (i + 1)..(n + 1) : m \in (i + 1)..n \/ m = n + 1
  BY <1>0
<1>5. \A m \in (i + 1)..n : m \in (i + 1)..(n + 1)
  BY <1>0
<1>6. n + 1 \in (i + 1)..(n + 1)
  BY <1>0
<1>7. ASSUME log[n + 1].k \in {"eq", "label"}  PROVE RuleBody(log, i, n + 1) = RuleBody(log, i, n)
  <2>1. ~Of(n + 1)
    BY <1>7
  <2> HIDE DEF Of
  <2>2. {m \in (i + 1)..(n + 1) : Of(m)} = {m \in (i + 1)..n : Of(m)}
    BY <1>4, <1>5, <2>1
  <2>3. QED
    BY <1>1, <2>2
<1>8. ASSUME log[n + 1].k = "text", \A l \in (i + 1)..n : log[l].k # "rule"
      PROVE  RuleBody(log, i, n + 1) = RuleBody(log, i, n) \cup {log[n + 1].names}
  <2>1. Of(n + 1)
    BY <1>4, <1>8
  <2> HIDE DEF Of
  <2>2. {m \in (i + 1)..(n + 1) : Of(m)} = {m \in (i + 1)..n : Of(m)} \cup {n + 1}
    BY <1>4, <1>5, <1>6, <2>1
  <2>3. QED
    BY <1>1, <2>2
<1>9. QED
  BY <1>3, <1>7, <1>8

\* The open block, closed where a rule follows or the log ends, is what its rule leads.
LEMMA Closing ==
  ASSUME Lines, ScanInv, read <= Len(log), read = Len(log) \/ log[read + 1].k = "rule"
  PROVE  /\ Dictionary(Close)
         /\ \A n \in DOMAIN Close : Grounded(Close[n])
         /\ HeadersOf(Close) = Headers \cup ({open} \ {NoBlock})
<1>0. Headers = HeadersOf(sections)
  BY DEF Headers, HeadersOf
<1>a. Len(log) \in Nat
  BY DEF Lines
<1>b. read \in Nat
  BY <1>a DEF ScanInv
<1>1. CASE open = NoBlock
  BY <1>0, <1>1 DEF Close, ScanInv
<1>2. CASE open # NoBlock
  <2>1. PICK i \in 1..read : log[i].k = "rule" /\ open = log[i].h /\ buf = RuleBody(log, i, read)
    BY <1>2 DEF ScanInv, OpenBlock
  <2>2. i \in 1..Len(log) /\ Len(log) \in Nat /\ read \in Nat /\ i <= read
    BY <1>a, <1>b
  <2>3. buf = RuleBody(log, i, Len(log))
    <3>1. CASE read = Len(log)
      BY <2>1, <3>1
    <3>2. CASE read # Len(log)
      <4>1. read \in i..(Len(log) - 1) /\ log[read + 1].k = "rule"
        BY <2>2, <3>2
      <4>2. QED
        BY <2>1, <2>2, <4>1, LineInBody
    <3>3. QED
      BY <3>1, <3>2
  <2>4. Grounds(i, [h |-> open, body |-> buf])
    BY <2>1, <2>3 DEF Grounds
  <2>5. Grounded([h |-> open, body |-> buf])
    BY <2>2, <2>4 DEF Grounded
  <2>6. Close = Put(sections, open, buf)
    BY <1>2 DEF Close
  <2>7. Dictionary(sections) /\ \A n \in DOMAIN sections : Grounded(sections[n])
    BY DEF ScanInv
  <2>8. /\ Dictionary(Close) /\ HeadersOf(Close) = HeadersOf(sections) \cup {open}
        /\ \A n \in DOMAIN Close : \/ Close[n] = [h |-> open, body |-> buf]
                                   \/ \E m \in DOMAIN sections : Close[n] = sections[m]
    <3> DEFINE r == Put(sections, open, buf)
    <3>1. /\ Dictionary(r) /\ HeadersOf(r) = HeadersOf(sections) \cup {open}
          /\ \A n \in DOMAIN r : \/ r[n] = [h |-> open, body |-> buf]
                                \/ \E m \in DOMAIN sections : r[n] = sections[m]
      BY <2>7, Putting
    <3>2. QED
      BY <2>6, <3>1, Zenon
  <2>9. \A n \in DOMAIN Close : Grounded(Close[n])
    BY <2>5, <2>7, <2>8, Zenon
  <2>10. QED
    BY <1>0, <1>2, <2>8, <2>9
<1>3. QED
  BY <1>1, <1>2

\* A step that leaves the log and the sections says the same of them.
LEMMA SameLog ==
  ASSUME UNCHANGED log
  PROVE  /\ Lines' = Lines
         /\ \A sec : Grounded(sec)' = Grounded(sec)
<1>1. \A i : LabelBody(i)' = LabelBody(i)
  BY DEF LabelBody
<1>3. \A i, sec : Grounds(i, sec)' = Grounds(i, sec)
  BY <1>1 DEF Grounds
<1>4. QED
  BY <1>3 DEF Lines, Grounded

LEMMA ScanRuleStep ==
  ASSUME Lines, ScanInv, ScanRule
  PROVE  ScanInv'
<1>0. /\ read < Len(log) /\ log[read + 1].k = "rule" /\ read' = read + 1 /\ log' = log
      /\ sections' = Close /\ open' = log[read + 1].h /\ buf' = {}
  BY DEF ScanRule, Scan
<1>1. Len(log) \in Nat
  BY DEF Lines
<1>2. read \in Nat
  BY <1>1 DEF ScanInv
<1>3. /\ read + 1 \in 1..Len(log) /\ read' \in 0..(2 * Len(log) + 1) /\ read' <= Len(log)
      /\ \A i \in 1..read' : i \in 1..read \/ i = read + 1
      /\ \A i \in 1..Len(log) : i <= read' => i <= read \/ i = read + 1
      /\ \A i \in 1..Len(log) : ~(i + Len(log) < read')
      /\ read <= Len(log)
  BY <1>0, <1>1, <1>2
<1>4. /\ Dictionary(Close) /\ \A n \in DOMAIN Close : Grounded(Close[n])
      /\ HeadersOf(Close) = Headers \cup ({open} \ {NoBlock})
  BY <1>0, <1>3, Closing
<1>5. Headers' = Headers \cup ({open} \ {NoBlock})
  BY <1>0, <1>4 DEF Headers, HeadersOf
<1>6. log[read + 1].h # NoBlock
  BY <1>0, <1>3 DEF Lines
<1>7. OpenBlock'
  <2>1. RuleBody(log, read + 1, read + 1) = {} /\ \A l \in (read + 1 + 1)..(read + 1) : log[l].k # "rule"
    BY <1>2 DEF RuleBody
  <2>2. read + 1 \in 1..(read + 1)
    BY <1>2
  <2>3. \E i \in 1..(read + 1) : /\ log[i].k = "rule" /\ log[read + 1].h = log[i].h
                                 /\ {} = RuleBody(log, i, read + 1)
                                 /\ \A l \in (i + 1)..(read + 1) : log[l].k # "rule"
    BY <1>0, <2>1, <2>2
  <2>4. QED
    BY <1>0, <1>6, <2>3 DEF OpenBlock
<1>8. \A i \in 1..Len(log) : log[i].k = "rule" /\ i <= read => log[i].h \in Headers \cup {open}
  BY DEF ScanInv
<1>9. \A i \in 1..Len(log) : log[i].k = "rule" /\ i <= read' => log[i].h \in Headers' \cup {open'}
  <2>1. \A i \in 1..Len(log) : log[i].k = "rule" => log[i].h # NoBlock
    BY DEF Lines
  <2>2. QED
    BY <1>0, <1>3, <1>5, <1>8, <2>1
<1>10. Dictionary(sections)' /\ \A n \in DOMAIN sections' : Grounded(sections[n])'
  <2>1. \A n \in DOMAIN sections' : Grounded(sections'[n])
    BY <1>0, <1>4
  <2>2. Dictionary(sections')
    BY <1>0, <1>4
  <2>3. QED
    BY <1>0, <2>1, <2>2, SameLog DEF Dictionary, Listing
<1>11. QED
  BY <1>0, <1>3, <1>7, <1>9, <1>10 DEF ScanInv

LEMMA ScanSame ==
  ASSUME ScanInv, UNCHANGED <<log, read, open, buf, sections>>
  PROVE  ScanInv'
<1>1. \A sec : Grounded(sec)' = Grounded(sec)
  BY SameLog
<1>2. (\A n \in DOMAIN sections : Grounded(sections[n]))' <=> \A n \in DOMAIN sections : Grounded(sections[n])
  BY <1>1
<1>3. OpenBlock' = OpenBlock /\ Headers' = Headers
  BY DEF OpenBlock, Headers
<1>4. QED
  BY <1>2, <1>3 DEF ScanInv, Dictionary, Listing

LEMMA ScanTextStep ==
  ASSUME Lines, ScanInv, ScanText
  PROVE  ScanInv'
<1>0. /\ read < Len(log) /\ log[read + 1].k \in {"text", "eq", "label"} /\ read' = read + 1
      /\ log' = log /\ sections' = sections /\ open' = open
      /\ buf' = IF open # NoBlock /\ log[read + 1].k = "text" THEN buf \cup {log[read + 1].names} ELSE buf
  BY DEF ScanText, Scan
<1>1. Len(log) \in Nat
  BY DEF Lines
<1>2. read \in Nat
  BY <1>1 DEF ScanInv
<1>3. /\ read + 1 \in 1..Len(log) /\ read' \in 0..(2 * Len(log) + 1) /\ read' <= Len(log)
      /\ \A i \in 1..read' : i \in 1..read \/ i = read + 1
      /\ \A i \in 1..read : i \in 1..read' /\ i \in 1..Len(log) /\ read \in i..(Len(log) - 1)
      /\ \A i \in 1..Len(log) : i <= read' => i <= read \/ i = read + 1
      /\ \A i \in 1..Len(log) : ~(i + Len(log) < read')
      /\ read <= Len(log) /\ ~(read' > Len(log))
  BY <1>0, <1>1, <1>2
<1>4. Headers' = Headers
  BY <1>0 DEF Headers
<1>5. OpenBlock
  BY <1>3 DEF ScanInv
<1>6. OpenBlock'
  <2>1. CASE open = NoBlock
    BY <1>0, <1>3, <1>5, <2>1 DEF OpenBlock
  <2>2. CASE open # NoBlock
    <3>1. PICK i \in 1..read : /\ log[i].k = "rule" /\ open = log[i].h /\ buf = RuleBody(log, i, read)
                               /\ \A l \in (i + 1)..read : log[l].k # "rule"
      BY <1>5, <2>2 DEF OpenBlock
    <3>2. i \in 1..read' /\ i \in 1..Len(log) /\ read \in i..(Len(log) - 1)
      BY <1>3
    <3>3. \A l \in (i + 1)..read' : l \in (i + 1)..read \/ l = read + 1
      BY <1>0, <1>2, <3>2
    <3>4. \A l \in (i + 1)..read' : log[l].k # "rule"
      BY <1>0, <3>1, <3>3
    <3>5. buf' = RuleBody(log, i, read + 1)
      BY <1>0, <2>2, <3>1, <3>2, LineInBody
    <3>6. \E j \in 1..read' : /\ log[j].k = "rule" /\ open = log[j].h /\ buf' = RuleBody(log, j, read')
                              /\ \A l \in (j + 1)..read' : log[l].k # "rule"
      BY <1>0, <3>1, <3>2, <3>4, <3>5
    <3>7. QED
      BY <1>0, <2>2, <3>6 DEF OpenBlock
  <2>3. QED
    BY <2>1, <2>2
<1>7. \A i \in 1..Len(log) : log[i].k = "rule" /\ i <= read => log[i].h \in Headers \cup {open}
  BY DEF ScanInv
<1>8. \A i \in 1..Len(log) : log[i].k = "rule" /\ i <= read' => log[i].h \in Headers' \cup {open'}
  BY <1>0, <1>3, <1>4, <1>7
<1>9. Dictionary(sections)' /\ \A n \in DOMAIN sections' : Grounded(sections[n])'
  <2>1. Dictionary(sections) /\ \A n \in DOMAIN sections : Grounded(sections[n])
    BY DEF ScanInv
  <2>2. QED
    BY <1>0, <2>1, SameLog DEF Dictionary, Listing
<1>10. QED
  BY <1>0, <1>3, <1>6, <1>8, <1>9 DEF ScanInv

LEMMA ScanEndStep ==
  ASSUME Lines, ScanInv, ScanEnd
  PROVE  ScanInv'
<1>0. /\ read = Len(log) /\ read' = read + 1 /\ log' = log
      /\ sections' = Close /\ open' = NoBlock
  BY DEF ScanEnd
<1>1. Len(log) \in Nat
  BY DEF Lines
<1>3. /\ read' \in 0..(2 * Len(log) + 1) /\ ~(read' <= Len(log))
      /\ \A i \in 1..Len(log) : i <= read
      /\ \A i \in 1..Len(log) : ~(i + Len(log) < read')
      /\ read <= Len(log)
  BY <1>0, <1>1
<1>4. /\ Dictionary(Close) /\ \A n \in DOMAIN Close : Grounded(Close[n])
      /\ HeadersOf(Close) = Headers \cup ({open} \ {NoBlock})
  BY <1>0, <1>3, Closing
<1>5. Headers' = Headers \cup ({open} \ {NoBlock})
  BY <1>0, <1>4 DEF Headers, HeadersOf
<1>8. \A i \in 1..Len(log) : log[i].k = "rule" /\ i <= read => log[i].h \in Headers \cup {open}
  BY DEF ScanInv
<1>9. \A i \in 1..Len(log) : log[i].k = "rule" => log[i].h \in Headers'
  <2>1. \A i \in 1..Len(log) : log[i].k = "rule" => log[i].h # NoBlock
    BY DEF Lines
  <2>2. QED
    BY <1>3, <1>5, <1>8, <2>1
<1>10. Dictionary(sections)' /\ \A n \in DOMAIN sections' : Grounded(sections[n])'
  <2>1. \A n \in DOMAIN sections' : Grounded(sections'[n])
    BY <1>0, <1>4
  <2>2. Dictionary(sections')
    BY <1>0, <1>4
  <2>3. QED
    BY <1>0, <2>1, <2>2, SameLog DEF Dictionary, Listing
<1>11. QED
  BY <1>0, <1>3, <1>9, <1>10 DEF ScanInv

LEMMA ScanLabelStep ==
  ASSUME Lines, ScanInv, ScanLabel
  PROVE  ScanInv'
<1> DEFINE i == read - Len(log)
<1>0. /\ read \in (Len(log) + 1)..(2 * Len(log)) /\ read' = read + 1
      /\ sections' = SetDefault(sections, i) /\ open' = open /\ log' = log
  BY DEF ScanLabel
<1>1. Len(log) \in Nat
  BY DEF Lines
<1>2. /\ read \in Nat /\ i \in 1..Len(log) /\ read' \in 0..(2 * Len(log) + 1)
      /\ read > Len(log) /\ read' > Len(log) /\ ~(read' <= Len(log))
      /\ \A j \in 1..Len(log) : j <= read
      /\ \A j \in 1..Len(log) : j + Len(log) < read' => j + Len(log) < read \/ j = i
  BY <1>0, <1>1
<1>3. /\ Dictionary(sections) /\ \A n \in DOMAIN sections : Grounded(sections[n])
      /\ open = NoBlock
      /\ \A j \in 1..Len(log) : /\ log[j].k = "rule" /\ j <= read => log[j].h \in Headers \cup {open}
                                /\ log[j].k = "label" /\ j + Len(log) < read => log[j].h \in Headers
  BY <1>2 DEF ScanInv
<1>4. \A j \in 1..Len(log) : log[j].k \in {"rule", "label"} => log[j].h # NoBlock
  BY DEF Lines
<1>5. \A j \in 1..Len(log) : /\ log[j].k = "rule" => log[j].h \in Headers
                             /\ log[j].k = "label" /\ j + Len(log) < read => log[j].h \in Headers
  BY <1>2, <1>3, <1>4
<1>6. Headers = HeadersOf(sections) /\ Headers' = HeadersOf(sections')
  BY DEF Headers, HeadersOf
<1> HIDE DEF i
<1>7. /\ Dictionary(sections') /\ \A n \in DOMAIN sections' : Grounded(sections'[n])
      /\ Headers \subseteq Headers' /\ (log[i].k = "label" => log[i].h \in Headers')
  <2>1. CASE log[i].k # "label" \/ log[i].h \in Headers
    <3>1. sections' = sections
      BY <1>0, <2>1 DEF SetDefault, Headers
    <3>2. QED
      BY <1>3, <1>6, <2>1, <3>1
  <2>2. CASE log[i].k = "label" /\ log[i].h \notin Headers
    <3> DEFINE e == [h |-> log[i].h, body |-> LabelBody(i)]
               r == Append(sections, e)
    <3>1. sections' = r
      BY <1>0, <2>2 DEF SetDefault, Headers
    <3>2. e.h \notin HeadersOf(sections) /\ e.h = log[i].h
      BY <1>6, <2>2
    <3>3. Grounded(e)
      BY <1>2, <2>2 DEF Grounded, Grounds
    <3> HIDE DEF e
    <3>4. /\ Dictionary(r) /\ HeadersOf(r) = HeadersOf(sections) \cup {e.h}
          /\ \A n \in DOMAIN r : r[n] = e \/ \E m \in DOMAIN sections : r[n] = sections[m]
      BY <1>3, <3>2, AppendsNew
    <3> HIDE DEF r
    <3>5. \A n \in DOMAIN r : Grounded(r[n])
      BY <1>3, <3>3, <3>4, Zenon
    <3>6. QED
      BY <1>6, <3>1, <3>2, <3>4, <3>5
  <2>3. QED
    BY <2>1, <2>2
<1>8. \A j \in 1..Len(log) : /\ log[j].k = "rule" => log[j].h \in Headers'
                             /\ log[j].k = "label" /\ j + Len(log) < read' => log[j].h \in Headers'
  BY <1>2, <1>5, <1>7
<1>9. Dictionary(sections)' /\ \A n \in DOMAIN sections' : Grounded(sections[n])'
  BY <1>0, <1>7, SameLog DEF Dictionary, Listing
<1>10. open' = NoBlock
  BY <1>0, <1>3
<1>11. QED
  BY <1>0, <1>2, <1>8, <1>9, <1>10 DEF ScanInv

\* The block of a test is a matter of the sections alone.
At(secs, t, pass) == {i \in DOMAIN secs :
                        CASE pass = 1 -> NamesTest(secs[i].h, t)
                          [] pass = 2 -> NamesPath(secs[i].h, t)
                          [] pass = 3 -> NamesModule(secs[i].h, t)
                          [] pass = 4 -> NamesFailed(secs[i].h, t)}
Passes(secs, t) == {pass \in 1..4 : At(secs, t, pass) # {}}
BlockIn(secs, t) ==
  LET least == CHOOSE pass \in Passes(secs, t) : \A other \in Passes(secs, t) : pass <= other
      hit   == At(secs, t, least)
  IN  IF Passes(secs, t) = {} THEN NoBlock ELSE secs[CHOOSE i \in hit : \A j \in hit : i <= j].body

LEMMA BlockOf == \A t : SectionFor(t) = BlockIn(sections, t)
  BY DEF SectionFor, FirstOf, BlockIn, Passes, At

\* What a test was called is what its block still says: nothing is read any more.
Said == asked # {} => LogRead /\ \A t \in asked : why[t] = Reason(SectionFor(t))

LEMMA CalledStep ==
  ASSUME Lines, ScanInv, asked \subseteq suite.named, Said, AttributionNext
  PROVE  ScanInv' /\ Said' /\ UNCHANGED <<suite, log>>
<1>1. CASE ScanRule \/ ScanText \/ ScanEnd \/ ScanLabel
  <2>1. ScanInv'
    BY <1>1, ScanRuleStep, ScanTextStep, ScanEndStep, ScanLabelStep
  <2>2. ~LogRead /\ UNCHANGED <<suite, log, asked>>
    <3>1. Len(log) \in Nat
      BY DEF Lines
    <3>2. read \in Nat
      BY <3>1 DEF ScanInv
    <3>3. QED
      BY <1>1, <3>1, <3>2 DEF ScanRule, ScanText, ScanEnd, ScanLabel, Scan, LogRead
  <2>3. QED
    BY <2>1, <2>2 DEF Said
<1>2. CASE Attribute
  <2> DEFINE t == CHOOSE u \in suite.named : u \notin asked
  <2>1. /\ UNCHANGED <<suite, log, read, open, buf, sections>> /\ LogRead
        /\ asked' = asked \cup {t}
        /\ why' = [u \in asked' |-> IF u = t THEN Reason(SectionFor(t)) ELSE why[u]]
    BY <1>2 DEF Attribute
  <2>2. t \notin asked
    BY <1>2 DEF Attribute
  <2> HIDE DEF t
  <2>3. ScanInv'
    BY <2>1, ScanSame
  <2>4. \A u \in asked' : why'[u] = Reason(SectionFor(u))
    BY <2>1, <2>2 DEF Said
  <2>5. \A u : Reason(SectionFor(u))' = Reason(SectionFor(u))
    <3>1. \A u : SectionFor(u)' = SectionFor(u)
      <4>1. \A u : SectionFor(u)' = BlockIn(sections', u)
        BY DEF SectionFor, FirstOf, BlockIn, Passes, At
      <4>2. QED
        BY <2>1, <4>1, BlockOf
    <3>2. QED
      BY <3>1 DEF Reason, NamesSymbol
  <2>6. LogRead'
    BY <2>1 DEF LogRead
  <2>7. \A u \in asked' : why'[u] = Reason(SectionFor(u))'
    BY <2>4, <2>5, Zenon
  <2>8. Said'
    BY <2>6, <2>7, Zenon DEF Said
  <2>9. QED
    BY <2>1, <2>3, <2>8
<1>3. QED
  BY <1>1, <1>2 DEF AttributionNext
-----------------------------------------------------------------------------
\* The log of a run: a block per module that does not import and per test that fails on
\* its own, laid end to end.

Alone   == Suffering(suite, Printed)
Modules == ModulesIn(suite)
HeadOf(t) ==
  IF suite.runner = "pytest" THEN H(IF suite.fate[t] \in AtSetup THEN "fixture" ELSE "test", t)
  ELSE IF suite.runner = "unittest" THEN H("case", t) ELSE H("path", t)
HeadOfModule(m) == HModule(IF suite.runner = "unittest" THEN "FailedTest" ELSE "collecting", m)

LEMMA Ordered ==
  ASSUME NEW S, IsFiniteSet(S)
  PROVE  SetToSeq(S) \in Seq(S) /\ Range(SetToSeq(S)) = S
<1> DEFINE n == Cardinality(S)
<1>1. n \in Nat /\ ExistsBijection(1..n, S)
  BY FS_CardinalityType
<1>2. \E f \in [1..n -> S] : IsInjective(f)
  BY <1>1 DEF ExistsBijection, Bijection, Injection
<1>3. SetToSeq(S) \in [1..n -> S] /\ IsInjective(SetToSeq(S))
  BY <1>2 DEF SetToSeq
<1>4. SetToSeq(S) \in SetToSeqs(S)
  BY <1>3 DEF SetToSeqs, IsInjective
<1>5. QED
  BY <1>4, Walks

LEMMA RunFacts ==
  ASSUME IsRun(suite)
  PROVE  /\ suite.runner \in {"pytest", "unittest", "sympy"}
         /\ suite.order \in Seq(Alone) /\ Range(suite.order) = Alone
         /\ Broken \in Seq(Modules) /\ Range(Broken) = Modules
         /\ Failing = Alone \cup {t \in DOMAIN suite.fate : suite.fate[t] \in {"import", "silent"}}
         /\ DOMAIN suite.fate = Dialect[suite.runner] /\ suite.runner \in DOMAIN Dialect
         /\ suite.named \subseteq Failing
         /\ Alone \subseteq DOMAIN suite.fate
         /\ \A t \in Alone : HeadOf(t) # NoBlock /\ t.mod \notin Modules
         /\ \A m \in Modules : HeadOfModule(m) # NoBlock /\ suite.importNames[m] \in BOOLEAN
<1>1. /\ suite.runner \in {"pytest", "unittest", "sympy"} \cap DOMAIN Dialect
      /\ suite.fate \in [Dialect[suite.runner] -> Fate]
      /\ \A t, u \in DOMAIN suite.fate : t.mod = u.mod => (suite.fate[t] = "import" <=> suite.fate[u] = "import")
      /\ suite.importNames \in [Modules -> BOOLEAN]
      /\ suite.order \in SetToSeqs(Alone)
      /\ suite.named \subseteq {t \in DOMAIN suite.fate : suite.fate[t] # "pass"}
  BY NamedFail DEF IsRun, Alone, Modules
<1>2. /\ DOMAIN suite.fate = Dialect[suite.runner] /\ IsFiniteSet(DOMAIN suite.fate)
      /\ \A t \in DOMAIN suite.fate : /\ suite.fate[t] \in Fate
                                      /\ NoBlock \notin {H(kind, t) : kind \in {"test", "fixture", "case", "path"}}
                                      /\ NoBlock \notin {HModule(kind, t.mod) : kind \in {"collecting", "FailedTest"}}
  BY <1>1, Unlike
<1>3. Alone \subseteq DOMAIN suite.fate /\ IsFiniteSet(Alone)
  BY <1>2, FS_Subset DEF Alone, Suffering
<1>4. /\ Modules = {t.mod : t \in Suffering(suite, {"import"})}
      /\ Suffering(suite, {"import"}) \subseteq DOMAIN suite.fate
  BY DEF Modules, ModulesIn, Suffering
<1>5. IsFiniteSet(Modules)
  <2>1. IsFiniteSet(Suffering(suite, {"import"}))
    BY <1>2, <1>4, FS_Subset
  <2> DEFINE f == [t \in Suffering(suite, {"import"}) |-> t.mod]
  <2>2. f \in Surjection(Suffering(suite, {"import"}), Modules)
    BY <1>4 DEF Surjection
  <2>3. QED
    BY <2>1, <2>2, FS_Surjection
<1>6. suite.order \in Seq(Alone) /\ Range(suite.order) = Alone
  BY <1>1, <1>3, Walks
<1>7. Broken \in Seq(Modules) /\ Range(Broken) = Modules
  BY <1>5, Ordered DEF Broken, Modules
<1>8. /\ Failing = Alone \cup {t \in DOMAIN suite.fate : suite.fate[t] \in {"import", "silent"}}
      /\ suite.named \subseteq Failing
  BY <1>1, <1>2 DEF Failing, Alone, Suffering, Fate, Printed, AtSetup
<1>9. ASSUME NEW t \in Alone  PROVE HeadOf(t) # NoBlock /\ t.mod \notin Modules
  <2>1. HeadOf(t) # NoBlock
    BY <1>2, <1>3 DEF HeadOf
  <2>2. t.mod \notin Modules
    BY <1>1, <1>3, <1>4 DEF Alone, Suffering, Printed, AtSetup
  <2>3. QED
    BY <2>1, <2>2
<1>10. ASSUME NEW m \in Modules  PROVE HeadOfModule(m) # NoBlock /\ suite.importNames[m] \in BOOLEAN
  <2>1. PICK t \in DOMAIN suite.fate : m = t.mod
    BY <1>4
  <2>2. HeadOfModule(m) # NoBlock
    BY <1>2, <2>1 DEF HeadOfModule
  <2>3. QED
    BY <1>1, <2>2
<1>11. QED
  BY <1>1, <1>2, <1>3, <1>6, <1>7, <1>8, <1>9, <1>10

\* The parts of the log, and the lines that they have.
Parts == Append(Blocks, Summary)
Heads == {HeadOf(t) : t \in Alone} \cup {HeadOfModule(m) : m \in Modules}
LineSet == [k : {"rule", "label"}, h : Heads] \cup [k : {"eq"}] \cup [k : {"text"}, names : BOOLEAN]

TextPart(part, n) == part = << Text(n) >>
HeadPart(part, h, n) ==
  IF suite.runner = "unittest" THEN part = << [k |-> "eq"], [k |-> "label", h |-> h], Text(n) >>
  ELSE part = << [k |-> "rule", h |-> h], Text(n) >>

TestPart(q, t) ==
  /\ q > Len(Broken) /\ t = suite.order[q - Len(Broken)] /\ t \in Alone
  /\ HeadPart(Parts[q], HeadOf(t), suite.fate[t] \in Saying)
ModulePart(q, m) ==
  /\ q <= Len(Broken) /\ m = Broken[q] /\ m \in Modules
  /\ suite.runner # "sympy" => HeadPart(Parts[q], HeadOfModule(m), suite.importNames[m])
  /\ suite.runner = "sympy" => TextPart(Parts[q], suite.importNames[m])

LEMMA PartIsBlock ==
  ASSUME IsRun(suite)
  PROVE  /\ Len(Broken) \in Nat /\ Len(suite.order) \in Nat
         /\ Len(Parts) = Len(Broken) + Len(suite.order) + 1
         /\ \A q \in 1..Len(Broken) : ModulePart(q, Broken[q])
         /\ \A q \in 1..Len(suite.order) : TestPart(Len(Broken) + q, suite.order[q])
         /\ Parts[Len(Parts)] = Summary
         /\ \E names \in BOOLEAN : Summary = IF suite.runner = "pytest" THEN << Text(names) >> ELSE << >>
<1> DEFINE a == Len(Broken)
           b == Len(suite.order)
           A == [i \in DOMAIN Broken |-> ModuleBlock(Broken[i])]
           B == [i \in DOMAIN suite.order |-> Block(suite.order[i])]
           X == Range(A) \cup Range(B) \cup {Summary}
<1>1. /\ suite.runner \in {"pytest", "unittest", "sympy"}
      /\ suite.order \in Seq(Alone) /\ Broken \in Seq(Modules)
  BY RunFacts
<1>2. /\ a \in Nat /\ b \in Nat
      /\ \A q \in 1..a : Broken[q] \in Modules
      /\ \A q \in 1..b : suite.order[q] \in Alone
  BY <1>1
<1>3. /\ A \in Seq(X) /\ Len(A) = a /\ \A q \in 1..a : A[q] = ModuleBlock(Broken[q])
  <2>1. A = [i \in 1..a |-> A[i]] /\ \A i \in 1..a : A[i] = ModuleBlock(Broken[i]) /\ A[i] \in X
    BY <1>1 DEF Range
  <2> HIDE DEF A, X
  <2>2. QED
    BY <1>2, <2>1, Listed
<1>4. /\ B \in Seq(X) /\ Len(B) = b /\ \A q \in 1..b : B[q] = Block(suite.order[q])
  <2>1. B = [i \in 1..b |-> B[i]] /\ \A i \in 1..b : B[i] = Block(suite.order[i]) /\ B[i] \in X
    BY <1>1 DEF Range
  <2> HIDE DEF B, X
  <2>2. QED
    BY <1>2, <2>1, Listed
<1>5. Blocks = A \o B /\ Summary \in X
  BY DEF Blocks
<1> HIDE DEF A, B, X
<1>6. /\ Blocks \in Seq(X) /\ Split(Blocks, A, B)
  BY <1>3, <1>4, <1>5, Concat
<1>7. /\ Len(Blocks) = a + b
      /\ \A q \in 1..a : Blocks[q] = ModuleBlock(Broken[q])
      /\ \A q \in 1..b : Blocks[a + q] = Block(suite.order[q])
  BY <1>3, <1>4, <1>6 DEF Split
<1> HIDE DEF a, b
<1>8. /\ Len(Parts) = a + b + 1 /\ Parts[a + b + 1] = Summary
      /\ \A q \in 1..(a + b) : Parts[q] = Blocks[q]
  BY <1>2, <1>5, <1>6, <1>7 DEF Parts
<1>9. /\ \A q \in 1..a : q \in 1..(a + b) /\ q <= a
      /\ \A q \in 1..b : a + q \in 1..(a + b) /\ a + q > a /\ (a + q) - a = q
  BY <1>2
<1>10. ASSUME NEW q \in 1..a  PROVE ModulePart(q, Broken[q])
  <2>1. Parts[q] = ModuleBlock(Broken[q]) /\ Broken[q] \in Modules /\ q <= Len(Broken)
    BY <1>2, <1>7, <1>8, <1>9 DEF a
  <2>2. QED
    BY <1>1, <2>1 DEF ModulePart, ModuleBlock, HeadPart, TextPart, HeadOfModule
<1>11. ASSUME NEW q \in 1..b  PROVE TestPart(a + q, suite.order[q])
  <2>1. /\ Parts[a + q] = Block(suite.order[q]) /\ suite.order[q] \in Alone
        /\ a + q > Len(Broken) /\ (a + q) - Len(Broken) = q
    BY <1>2, <1>7, <1>8, <1>9 DEF a
  <2>2. HeadPart(Parts[a + q], HeadOf(suite.order[q]), suite.fate[suite.order[q]] \in Saying)
    BY <1>1, <2>1 DEF Block, HeadPart, HeadOf, Own
  <2>3. QED
    BY <2>1, <2>2 DEF TestPart
<1>12. \E names \in BOOLEAN : Summary = IF suite.runner = "pytest" THEN << Text(names) >> ELSE << >>
  <2> DEFINE named == \E t \in Failing : IF suite.fate[t] = "import" THEN suite.importNames[t.mod]
                                         ELSE suite.fate[t] \in Saying
  <2>1. named \in BOOLEAN /\ Summary = IF suite.runner = "pytest" THEN << Text(named) >> ELSE << >>
    BY DEF Summary
  <2> HIDE DEF named
  <2>2. QED
    BY <2>1
<1>13. QED
  BY <1>2, <1>8, <1>10, <1>11, <1>12 DEF a, b

\* Every part but the last is of a test or of a module.
LEMMA WhosePart ==
  ASSUME IsRun(suite), NEW q \in 1..Len(Parts)
  PROVE  \/ q = Len(Parts)
         \/ q <= Len(Broken) /\ ModulePart(q, Broken[q])
         \/ \E n \in 1..Len(suite.order) : q = Len(Broken) + n /\ TestPart(q, suite.order[n])
<1>a. /\ Len(Broken) \in Nat /\ Len(suite.order) \in Nat
      /\ Len(Parts) = Len(Broken) + Len(suite.order) + 1
  BY PartIsBlock
<1>1. /\ \A p \in 1..Len(Broken) : ModulePart(p, Broken[p])
      /\ \A p \in 1..Len(suite.order) : TestPart(Len(Broken) + p, suite.order[p])
  BY PartIsBlock
<1>2. \/ q = Len(Parts) \/ (q <= Len(Broken) /\ q \in 1..Len(Broken))
      \/ (q - Len(Broken) \in 1..Len(suite.order) /\ q = Len(Broken) + (q - Len(Broken)))
  BY <1>a
<1>3. QED
  BY <1>1, <1>2

LEMMA Short ==
  ASSUME NEW X, NEW a \in X, NEW b \in X, NEW c \in X
  PROVE  << a, b >> \in Seq(X) /\ << a, b, c >> \in Seq(X)
  OBVIOUS

LEMMA HeadPartTyped ==
  ASSUME NEW part, NEW h \in Heads, NEW n \in BOOLEAN, HeadPart(part, h, n)
  PROVE  part \in Seq(LineSet)
<1>1. /\ [k |-> "eq"] \in LineSet /\ Text(n) \in LineSet
      /\ [k |-> "rule", h |-> h] \in LineSet /\ [k |-> "label", h |-> h] \in LineSet
  BY DEF LineSet, Text
<1> DEFINE r == [k |-> "rule", h |-> h]
           l == [k |-> "label", h |-> h]
           e == [k |-> "eq"]
           x == Text(n)
<1>2. part = << r, x >> \/ part = << e, l, x >>
  BY DEF HeadPart
<1>3. r \in LineSet /\ l \in LineSet /\ e \in LineSet /\ x \in LineSet
  BY <1>1
<1> HIDE DEF LineSet, r, l, e, x
<1>4. QED
  BY <1>2, <1>3, Short

LEMMA PartTyped ==
  ASSUME IsRun(suite)
  PROVE  Parts \in Seq(Seq(LineSet)) /\ Len(Parts) \in Nat \ {0}
<1>1. /\ Len(Broken) \in Nat /\ Len(suite.order) \in Nat
      /\ Len(Parts) = Len(Broken) + Len(suite.order) + 1
      /\ Parts[Len(Parts)] = Summary
      /\ \E names \in BOOLEAN : Summary = IF suite.runner = "pytest" THEN << Text(names) >> ELSE << >>
  BY PartIsBlock
<1>2. \A n \in BOOLEAN : Text(n) \in LineSet
  BY DEF LineSet, Text
<1>3. Summary \in Seq(LineSet)
  <2> HIDE DEF LineSet
  <2>1. QED
    BY <1>1, <1>2
<1>4. ASSUME NEW q \in 1..Len(Parts)  PROVE Parts[q] \in Seq(LineSet)
  <2>1. CASE q = Len(Parts)
    BY <1>1, <1>3, <2>1
  <2>2. ASSUME NEW m, ModulePart(q, m)  PROVE Parts[q] \in Seq(LineSet)
    <3>1. HeadOfModule(m) \in Heads /\ suite.importNames[m] \in BOOLEAN
      BY <2>2, RunFacts DEF ModulePart, Heads
    <3>2. CASE suite.runner = "sympy"
      <4>1. Parts[q] = << Text(suite.importNames[m]) >> /\ Text(suite.importNames[m]) \in LineSet
        BY <1>2, <2>2, <3>1, <3>2 DEF ModulePart, TextPart
      <4> HIDE DEF LineSet
      <4>2. QED
        BY <4>1
    <3>3. CASE suite.runner # "sympy"
      BY <2>2, <3>1, <3>3, HeadPartTyped DEF ModulePart
    <3>4. QED
      BY <3>2, <3>3
  <2>3. ASSUME NEW t, TestPart(q, t)  PROVE Parts[q] \in Seq(LineSet)
    <3>1. HeadOf(t) \in Heads /\ (suite.fate[t] \in Saying) \in BOOLEAN
      BY <2>3 DEF TestPart, Heads
    <3>2. QED
      BY <2>3, <3>1, HeadPartTyped DEF TestPart
  <2>4. QED
    BY <2>1, <2>2, <2>3, WhosePart
<1>5. Len(Parts) \in Nat \ {0}
  BY <1>1
<1>6. Parts = [q \in 1..Len(Parts) |-> Parts[q]]
  <2> DEFINE X == Range(Blocks) \cup {Summary}
             A == [i \in DOMAIN Broken |-> ModuleBlock(Broken[i])]
             B == [i \in DOMAIN suite.order |-> Block(suite.order[i])]
  <2>1. Listing(Blocks)
    <3>1. A \in Seq(Range(A) \cup Range(B)) /\ B \in Seq(Range(A) \cup Range(B))
      <4>1. Broken \in Seq(Modules) /\ suite.order \in Seq(Alone)
        BY RunFacts
      <4>2. A = [i \in 1..Len(Broken) |-> A[i]] /\ \A i \in 1..Len(Broken) : A[i] \in Range(A) \cup Range(B)
        BY <4>1 DEF Range
      <4>3. B = [i \in 1..Len(suite.order) |-> B[i]] /\ \A i \in 1..Len(suite.order) : B[i] \in Range(A) \cup Range(B)
        BY <4>1 DEF Range
      <4> HIDE DEF A, B
      <4>4. QED
        BY <1>1, <4>2, <4>3, Listed
    <3> DEFINE Y == Range(A) \cup Range(B)
    <3> HIDE DEF Y
    <3>2. A \o B \in Seq(Y)
      BY <3>1 DEF Y
    <3>3. Blocks \in Seq(Y)
      BY <3>2 DEF Blocks
    <3> HIDE DEF A, B
    <3>5. Blocks \in [1..Len(Blocks) -> Y] /\ Len(Blocks) \in Nat
      BY <3>3
    <3>6. QED
      BY <3>5 DEF Listing
  <2>2. Listing(Parts)
    BY <2>1, Appending DEF Parts
  <2>3. QED
    BY <2>2 DEF Listing
<1>7. QED
  BY <1>4, <1>5, <1>6, Listed

\* Where the lines of a part stand.
Reaching(at) ==
  /\ Len(log) \in Nat /\ log \in Seq(LineSet) /\ at[Len(Parts)] = Len(log)
  /\ \A q \in 1..Len(Parts) :
       /\ at[q - 1] \in Nat /\ at[q] = at[q - 1] + Len(Parts[q]) /\ at[q] <= Len(log)
       /\ Len(Parts[q]) \in Nat
       /\ \A n \in 1..Len(Parts[q]) : log[at[q - 1] + n] = Parts[q][n]
  /\ \A i \in 1..Len(log) : \E q \in 1..Len(Parts) : \E n \in 1..Len(Parts[q]) : i = at[q - 1] + n

LEMMA Reached ==
  ASSUME IsRun(suite), log = Log
  PROVE  Reaching(EndsOf(Parts))
<1> DEFINE at == EndsOf(Parts)
           L == Len(Parts)
<1>1. Parts \in Seq(Seq(LineSet)) /\ L \in Nat \ {0}
  BY PartTyped
<1>2. log = FlattenSeq(Parts)
  BY DEF Log, Parts
<1> HIDE DEF LineSet
<1>3. log \in Seq(LineSet) /\ Len(log) \in Nat
  BY <1>1, <1>2, FlatType
<1>4. Ends(Parts, at) /\ LaidOut(log, Parts, at)
  BY <1>1, <1>2, EndsExist
<1> HIDE DEF at, L
<1>5. /\ at \in [0..L -> Nat] /\ at[L] = Len(log) /\ at[0] = 0
      /\ \A i \in 0..(L - 1) : at[i + 1] = at[i] + Len(Parts[i + 1])
      /\ \A i \in 0..(L - 1) : \A n \in 1..Len(Parts[i + 1]) : log[at[i] + n] = Parts[i + 1][n]
  BY <1>4 DEF Ends, LaidOut, Holds, L
<1>6. \A i, j \in 0..L : i <= j => at[i] <= at[j]
  BY <1>1, <1>4, Growing DEF L
<1>7. \A q \in 1..L : q - 1 \in 0..(L - 1) /\ q - 1 \in 0..L /\ q \in 0..L /\ (q - 1) + 1 = q /\ q <= L
  BY <1>1
<1>8. \A q \in 1..L : Len(Parts[q]) \in Nat
  BY <1>1 DEF L
<1>9. L \in 0..L
  BY <1>1
<1>10. ASSUME NEW q \in 1..L
       PROVE  /\ at[q - 1] \in Nat /\ at[q] = at[q - 1] + Len(Parts[q]) /\ at[q] <= Len(log)
              /\ \A n \in 1..Len(Parts[q]) : log[at[q - 1] + n] = Parts[q][n]
  <2>1. at[q - 1] \in Nat
    BY <1>5, <1>7
  <2>2. at[(q - 1) + 1] = at[q - 1] + Len(Parts[(q - 1) + 1])
    BY <1>5, <1>7
  <2>3. at[q] <= at[L]
    BY <1>6, <1>7, <1>9
  <2>4. \A n \in 1..Len(Parts[(q - 1) + 1]) : log[at[q - 1] + n] = Parts[(q - 1) + 1][n]
    BY <1>5, <1>7
  <2>5. QED
    BY <1>5, <1>7, <2>1, <2>2, <2>3, <2>4
<1>11. ASSUME NEW i \in 1..Len(log)
       PROVE  \E q \in 1..L : \E n \in 1..Len(Parts[q]) : i = at[q - 1] + n
  <2>1. i - 1 \in Nat /\ i - 1 < at[L]
    BY <1>3, <1>5
  <2>2. PICK p \in 0..(L - 1) : at[p] <= i - 1 /\ i - 1 < at[p + 1]
    BY <1>1, <1>4, <2>1, Locating DEF L
  <2>3. /\ at[p + 1] = at[p] + Len(Parts[p + 1]) /\ at[p] \in Nat
        /\ p + 1 \in 1..L /\ (p + 1) - 1 = p
    BY <1>1, <1>5
  <2>4. i - at[p] \in 1..Len(Parts[p + 1]) /\ i = at[p] + (i - at[p])
    BY <1>8, <2>1, <2>2, <2>3
  <2>5. QED
    BY <2>3, <2>4
<1>12. QED
  BY <1>3, <1>5, <1>8, <1>10, <1>11 DEF Reaching, at, L

\* The text that a head line leads, in the pass that reads its kind.
BodyOf(i) == IF log[i].k = "rule" THEN RuleBody(log, i, Len(log)) ELSE LabelBody(i)

LEMMA RuleLeads ==
  ASSUME Len(log) \in Nat, NEW i \in Nat, i >= 1, i + 1 <= Len(log), log[i].k = "rule",
         NEW n, log[i + 1] = Text(n)
  PROVE  /\ n \in BodyOf(i)
         /\ i + 1 = Len(log) \/ log[i + 2].k = "rule" => BodyOf(i) = {n}
<1> DEFINE S == {m \in (i + 1)..Len(log) :
                   log[m].k = "text" /\ \A l \in (i + 1)..m : log[l].k # "rule"}
<1>1. BodyOf(i) = {log[j].names : j \in S}
  BY DEF BodyOf, RuleBody
<1>2. log[i + 1].k = "text" /\ log[i + 1].names = n
  BY DEF Text
<1>3. i + 1 \in S
  <2>1. i + 1 \in (i + 1)..Len(log) /\ \A l \in (i + 1)..(i + 1) : l = i + 1
    OBVIOUS
  <2>2. QED
    BY <1>2, <2>1
<1>4. ASSUME i + 1 = Len(log) \/ log[i + 2].k = "rule", NEW m \in S  PROVE m = i + 1
  <2>1. m \in (i + 1)..Len(log) /\ \A l \in (i + 1)..m : log[l].k # "rule"
    OBVIOUS
  <2>2. CASE i + 1 = Len(log)
    BY <2>1, <2>2
  <2>3. CASE log[i + 2].k = "rule"
    BY <2>1, <2>3
  <2>4. QED
    BY <1>4, <2>2, <2>3
<1> HIDE DEF S
<1>5. QED
  BY <1>1, <1>2, <1>3, <1>4

LEMMA LabelLeads ==
  ASSUME Len(log) \in Nat, NEW i \in Nat, i >= 1, i + 1 <= Len(log), log[i].k = "label",
         NEW n, log[i + 1] = Text(n)
  PROVE  /\ n \in BodyOf(i)
         /\ i + 1 = Len(log) \/ log[i + 2].k = "eq" => BodyOf(i) = {n}
<1> DEFINE S == {m \in (i + 1)..Len(log) :
                   log[m].k = "text" /\ \A l \in (i + 1)..m : log[l].k # "eq"}
<1>1. BodyOf(i) = {log[j].names : j \in S}
  BY DEF BodyOf, LabelBody
<1>2. log[i + 1].k = "text" /\ log[i + 1].names = n
  BY DEF Text
<1>3. i + 1 \in S
  <2>1. i + 1 \in (i + 1)..Len(log) /\ \A l \in (i + 1)..(i + 1) : l = i + 1
    OBVIOUS
  <2>2. QED
    BY <1>2, <2>1
<1>4. ASSUME i + 1 = Len(log) \/ log[i + 2].k = "eq", NEW m \in S  PROVE m = i + 1
  <2>1. m \in (i + 1)..Len(log) /\ \A l \in (i + 1)..m : log[l].k # "eq"
    OBVIOUS
  <2>2. CASE i + 1 = Len(log)
    BY <2>1, <2>2
  <2>3. CASE log[i + 2].k = "eq"
    BY <2>1, <2>3
  <2>4. QED
    BY <1>4, <2>2, <2>3
<1> HIDE DEF S
<1>5. QED
  BY <1>1, <1>2, <1>3, <1>4

LEMMA HeadFirst ==
  ASSUME NEW part, NEW h, NEW n, HeadPart(part, h, n)
  PROVE  Len(part) \in {2, 3} /\ part[1].k = IF suite.runner = "unittest" THEN "eq" ELSE "rule"
<1>1. CASE suite.runner = "unittest"
  <2>1. part = << [k |-> "eq"], [k |-> "label", h |-> h], Text(n) >>
    BY <1>1 DEF HeadPart
  <2>2. Len(part) = 3 /\ part[1] = [k |-> "eq"]
    BY <2>1
  <2>3. QED
    BY <1>1, <2>2
<1>2. CASE suite.runner # "unittest"
  <2>1. part = << [k |-> "rule", h |-> h], Text(n) >>
    BY <1>2 DEF HeadPart
  <2>2. Len(part) = 2 /\ part[1] = [k |-> "rule", h |-> h]
    BY <2>1
  <2>3. QED
    BY <1>2, <2>2
<1>3. QED
  BY <1>1, <1>2

\* After a part with a head the next head follows, or the end, or pytest's summary.
LEMMA Followed ==
  ASSUME IsRun(suite), log = Log, NEW q \in 1..(Len(Parts) - 1),
         suite.runner = "sympy" => q > Len(Broken)
  PROVE  LET at == EndsOf(Parts) IN
           \/ at[q] = Len(log)
           \/ log[at[q] + 1].k = IF suite.runner = "unittest" THEN "eq" ELSE "rule"
           \/ suite.runner = "pytest" /\ q = Len(Parts) - 1
<1> DEFINE at == EndsOf(Parts)
           L == Len(Parts)
<1>1. /\ L \in Nat /\ Len(Broken) \in Nat
      /\ Parts[L] = Summary
      /\ \E names \in BOOLEAN : Summary = IF suite.runner = "pytest" THEN << Text(names) >> ELSE << >>
      /\ suite.runner \in {"pytest", "unittest", "sympy"}
  BY PartIsBlock, PartTyped, RunFacts
<1>2. Reaching(at)
  BY Reached
<1> HIDE DEF at, L
<1>3. q + 1 \in 1..L /\ (q + 1) - 1 = q /\ q < L
  BY <1>1 DEF L
<1>4. /\ at[q] \in Nat /\ at[q + 1] = at[q] + Len(Parts[q + 1])
      /\ \A n \in 1..Len(Parts[q + 1]) : log[at[q] + n] = Parts[q + 1][n]
      /\ at[L] = Len(log)
  BY <1>2, <1>3 DEF Reaching, L
<1>5. CASE q + 1 = L
  <2>1. CASE suite.runner = "pytest"
    <3>1. q = L - 1
      BY <1>1, <1>3, <1>5
    <3>2. QED
      BY <2>1, <3>1 DEF L
  <2>2. CASE suite.runner # "pytest"
    <3>1. Len(Parts[q + 1]) = 0
      BY <1>1, <1>5, <2>2
    <3>2. at[q] = Len(log)
      BY <1>4, <1>5, <3>1
    <3>3. QED
      BY <3>2 DEF at
  <2>3. QED
    BY <2>1, <2>2
<1>6. CASE q + 1 # L
  <2>1. \/ q + 1 <= Len(Broken) /\ ModulePart(q + 1, Broken[q + 1])
        \/ \E n \in 1..Len(suite.order) : TestPart(q + 1, suite.order[n])
    BY <1>3, <1>6, WhosePart DEF L
  <2>2. \E h, n : HeadPart(Parts[q + 1], h, n)
    <3>1. CASE q + 1 <= Len(Broken) /\ ModulePart(q + 1, Broken[q + 1])
      <4>1. suite.runner # "sympy"
        BY <1>1, <3>1
      <4>2. QED
        BY <3>1, <4>1 DEF ModulePart
    <3>2. CASE \E n \in 1..Len(suite.order) : TestPart(q + 1, suite.order[n])
      BY <3>2 DEF TestPart
    <3>3. QED
      BY <2>1, <3>1, <3>2
  <2>3. PICK h, n : HeadPart(Parts[q + 1], h, n)
    BY <2>2
  <2>4. /\ Len(Parts[q + 1]) \in {2, 3}
        /\ Parts[q + 1][1].k = IF suite.runner = "unittest" THEN "eq" ELSE "rule"
    BY <2>3, HeadFirst
  <2>5. 1 \in 1..Len(Parts[q + 1])
    BY <2>4
  <2>6. log[at[q] + 1] = Parts[q + 1][1]
    BY <1>4, <2>5
  <2>7. QED
    BY <2>4, <2>6 DEF at
<1>7. QED
  BY <1>5, <1>6

\* The head line of a part, and what it leads.
HeadAt(q) == EndsOf(Parts)[q - 1] + (IF suite.runner = "unittest" THEN 2 ELSE 1)
Heading(i, h, n) ==
  /\ i \in 1..Len(log) /\ log[i].h = h /\ n \in BodyOf(i)
  /\ log[i].k = IF suite.runner = "unittest" THEN "label" ELSE "rule"

LEMMA Headed ==
  ASSUME IsRun(suite), log = Log, NEW q \in 1..(Len(Parts) - 1),
         suite.runner = "sympy" => q > Len(Broken),
         NEW h, NEW n, HeadPart(Parts[q], h, n)
  PROVE  /\ Heading(HeadAt(q), h, n)
         /\ BodyOf(HeadAt(q)) = {n} \/ (suite.runner = "pytest" /\ q = Len(Parts) - 1)
<1> DEFINE at == EndsOf(Parts)
           L == Len(Parts)
           i == HeadAt(q)
           last == suite.runner = "pytest" /\ q = Len(Parts) - 1
<1>1. Reaching(at) /\ L \in Nat
  BY Reached, PartTyped
<1>2. \/ at[q] = Len(log)
      \/ log[at[q] + 1].k = IF suite.runner = "unittest" THEN "eq" ELSE "rule"
      \/ last
  BY Followed
<1>3. i = at[q - 1] + (IF suite.runner = "unittest" THEN 2 ELSE 1)
  BY DEF HeadAt
<1>p. q \in 1..L
  BY <1>1
<1> HIDE DEF at, L, i, last
<1>4. /\ Len(log) \in Nat /\ at[q - 1] \in Nat /\ at[q] = at[q - 1] + Len(Parts[q]) /\ at[q] <= Len(log)
      /\ \A m \in 1..Len(Parts[q]) : log[at[q - 1] + m] = Parts[q][m]
  BY <1>1, <1>p DEF Reaching, L
<1>5. CASE suite.runner = "unittest"
  <2>1. Parts[q] = << [k |-> "eq"], [k |-> "label", h |-> h], Text(n) >>
    BY <1>5 DEF HeadPart
  <2>2. Len(Parts[q]) = 3 /\ Parts[q][2] = [k |-> "label", h |-> h] /\ Parts[q][3] = Text(n)
    BY <2>1
  <2>3. 2 \in 1..Len(Parts[q]) /\ 3 \in 1..Len(Parts[q])
    BY <2>2
  <2>4. log[at[q - 1] + 2] = Parts[q][2] /\ log[at[q - 1] + 3] = Parts[q][3]
    BY <1>4, <2>3
  <2>5. i = at[q - 1] + 2 /\ i \in Nat /\ i >= 1 /\ i + 1 = at[q] /\ i + 1 <= Len(log)
    BY <1>3, <1>4, <1>5, <2>2
  <2>6. i + 1 = at[q - 1] + 3 /\ i + 2 = at[q] + 1 /\ i \in 1..Len(log)
    BY <1>4, <2>5
  <2>7. log[i] = [k |-> "label", h |-> h] /\ log[i + 1] = Text(n)
    BY <2>2, <2>4, <2>5, <2>6
  <2>8. log[i].k = "label" /\ log[i].h = h
    BY <2>7
  <2>9. n \in BodyOf(i) /\ (i + 1 = Len(log) \/ log[i + 2].k = "eq" => BodyOf(i) = {n})
    BY <1>4, <2>5, <2>7, <2>8, LabelLeads
  <2>10. Heading(i, h, n) /\ (BodyOf(i) = {n} \/ last)
    BY <1>2, <1>5, <2>5, <2>6, <2>8, <2>9 DEF Heading
  <2>11. QED
    BY <2>10 DEF i, last
<1>6. CASE suite.runner # "unittest"
  <2>1. Parts[q] = << [k |-> "rule", h |-> h], Text(n) >>
    BY <1>6 DEF HeadPart
  <2>2. Len(Parts[q]) = 2 /\ Parts[q][1] = [k |-> "rule", h |-> h] /\ Parts[q][2] = Text(n)
    BY <2>1
  <2>3. 1 \in 1..Len(Parts[q]) /\ 2 \in 1..Len(Parts[q])
    BY <2>2
  <2>4. log[at[q - 1] + 1] = Parts[q][1] /\ log[at[q - 1] + 2] = Parts[q][2]
    BY <1>4, <2>3
  <2>5. i = at[q - 1] + 1 /\ i \in Nat /\ i >= 1 /\ i + 1 = at[q] /\ i + 1 <= Len(log)
    BY <1>3, <1>4, <1>6, <2>2
  <2>6. i + 1 = at[q - 1] + 2 /\ i + 2 = at[q] + 1 /\ i \in 1..Len(log)
    BY <1>4, <2>5
  <2>7. log[i] = [k |-> "rule", h |-> h] /\ log[i + 1] = Text(n)
    BY <2>2, <2>4, <2>5, <2>6
  <2>8. log[i].k = "rule" /\ log[i].h = h
    BY <2>7
  <2>9. n \in BodyOf(i) /\ (i + 1 = Len(log) \/ log[i + 2].k = "rule" => BodyOf(i) = {n})
    BY <1>4, <2>5, <2>7, <2>8, RuleLeads
  <2>10. Heading(i, h, n) /\ (BodyOf(i) = {n} \/ last)
    BY <1>2, <1>6, <2>5, <2>6, <2>8, <2>9 DEF Heading
  <2>11. QED
    BY <2>10 DEF i, last
<1>7. QED
  BY <1>5, <1>6

\* Whose head a line is: of a test that failed on its own, or of a module.
LastTest(t) == /\ suite.runner = "pytest" /\ suite.order # <<>>
               /\ suite.order[Len(suite.order)] = t
OfTest(i, t) ==
  /\ t \in Alone /\ Heading(i, HeadOf(t), suite.fate[t] \in Saying)
  /\ BodyOf(i) = {suite.fate[t] \in Saying} \/ LastTest(t)
OfModule(i, m) ==
  /\ suite.runner # "sympy" /\ m \in Modules /\ Heading(i, HeadOfModule(m), suite.importNames[m])
  /\ BodyOf(i) = {suite.importNames[m]} \/ LastModule(m)

LEMMA TestLeads ==
  ASSUME IsRun(suite), log = Log, NEW n \in 1..Len(suite.order)
  PROVE  OfTest(HeadAt(Len(Broken) + n), suite.order[n])
<1> DEFINE q == Len(Broken) + n
           t == suite.order[n]
<1>1. /\ Len(Broken) \in Nat /\ Len(suite.order) \in Nat
      /\ Len(Parts) = Len(Broken) + Len(suite.order) + 1
      /\ TestPart(q, t)
  BY PartIsBlock
<1>2. suite.order \in Seq(Alone)
  BY RunFacts
<1>3. q \in 1..(Len(Parts) - 1) /\ q > Len(Broken)
  BY <1>1
<1>4. q = Len(Parts) - 1 => n = Len(suite.order)
  BY <1>1
<1>5. suite.order # <<>>
  BY <1>2
<1> HIDE DEF q, t
<1>6. t \in Alone /\ HeadPart(Parts[q], HeadOf(t), suite.fate[t] \in Saying)
  BY <1>1 DEF TestPart
<1>7. /\ Heading(HeadAt(q), HeadOf(t), suite.fate[t] \in Saying)
      /\ BodyOf(HeadAt(q)) = {suite.fate[t] \in Saying} \/ (suite.runner = "pytest" /\ q = Len(Parts) - 1)
  BY <1>3, <1>6, Headed
<1>8. suite.runner = "pytest" /\ q = Len(Parts) - 1 => LastTest(t)
  BY <1>4, <1>5 DEF LastTest, t
<1>9. QED
  BY <1>6, <1>7, <1>8 DEF OfTest, q, t

LEMMA ModuleLeads ==
  ASSUME IsRun(suite), log = Log, suite.runner # "sympy", NEW q \in 1..Len(Broken)
  PROVE  OfModule(HeadAt(q), Broken[q])
<1> DEFINE m == Broken[q]
<1>1. /\ Len(Broken) \in Nat /\ Len(suite.order) \in Nat
      /\ Len(Parts) = Len(Broken) + Len(suite.order) + 1
      /\ ModulePart(q, m)
  BY PartIsBlock
<1>2. suite.order \in Seq(Alone)
  BY RunFacts
<1>3. q \in 1..(Len(Parts) - 1)
  BY <1>1
<1>4. q = Len(Parts) - 1 => q = Len(Broken) /\ Len(suite.order) = 0
  BY <1>1
<1>5. Len(suite.order) = 0 => suite.order = <<>>
  BY <1>2
<1> HIDE DEF m
<1>6. m \in Modules /\ HeadPart(Parts[q], HeadOfModule(m), suite.importNames[m])
  BY <1>1 DEF ModulePart
<1>7. /\ Heading(HeadAt(q), HeadOfModule(m), suite.importNames[m])
      /\ BodyOf(HeadAt(q)) = {suite.importNames[m]} \/ (suite.runner = "pytest" /\ q = Len(Parts) - 1)
  BY <1>3, <1>6, Headed
<1>8. suite.runner = "pytest" /\ q = Len(Parts) - 1 => LastModule(m)
  BY <1>4, <1>5 DEF LastModule, m
<1>9. QED
  BY <1>6, <1>7, <1>8 DEF OfModule, m

\* A test that failed on its own has its head, and a module that does not import its own.
LEMMA HasHead ==
  ASSUME IsRun(suite), log = Log
  PROVE  /\ \A t \in Alone : \E i \in 1..Len(log) : OfTest(i, t)
         /\ suite.runner # "sympy" => \A m \in Modules : \E i \in 1..Len(log) : OfModule(i, m)
<1>1. /\ suite.order \in Seq(Alone) /\ Range(suite.order) = Alone
      /\ Broken \in Seq(Modules) /\ Range(Broken) = Modules
  BY RunFacts
<1>2. ASSUME NEW t \in Alone  PROVE \E i \in 1..Len(log) : OfTest(i, t)
  <2>1. PICK n \in 1..Len(suite.order) : suite.order[n] = t
    BY <1>1 DEF Range
  <2>2. OfTest(HeadAt(Len(Broken) + n), t)
    BY <2>1, TestLeads
  <2>3. QED
    BY <2>2 DEF OfTest, Heading
<1>3. ASSUME suite.runner # "sympy", NEW m \in Modules  PROVE \E i \in 1..Len(log) : OfModule(i, m)
  <2>1. PICK q \in 1..Len(Broken) : Broken[q] = m
    BY <1>1 DEF Range
  <2>2. OfModule(HeadAt(q), m)
    BY <1>3, <2>1, ModuleLeads
  <2>3. QED
    BY <2>2 DEF OfModule, Heading
<1>4. QED
  BY <1>2, <1>3

\* And every head line is one of these.
LEMMA WhoseHead ==
  ASSUME IsRun(suite), log = Log, NEW i \in 1..Len(log), log[i].k \in {"rule", "label"}
  PROVE  (\E t \in Alone : OfTest(i, t)) \/ (\E m \in Modules : OfModule(i, m))
<1> DEFINE at == EndsOf(Parts)
           L == Len(Parts)
<1>1. /\ L \in Nat /\ Parts[L] = Summary
      /\ \E names \in BOOLEAN : Summary = IF suite.runner = "pytest" THEN << Text(names) >> ELSE << >>
  BY PartIsBlock, PartTyped
<1>2. Reaching(at)
  BY Reached
<1>w. \A q \in 1..L : \/ q = L
                      \/ q \in 1..Len(Broken) /\ ModulePart(q, Broken[q])
                      \/ \E n \in 1..Len(suite.order) : q = Len(Broken) + n /\ TestPart(q, suite.order[n])
  <2>1. Len(Broken) \in Nat
    BY PartIsBlock
  <2>2. QED
    BY <1>1, <2>1, WhosePart
<1>h. \A q : HeadAt(q) = at[q - 1] + (IF suite.runner = "unittest" THEN 2 ELSE 1)
  BY DEF HeadAt
<1> HIDE DEF at, L
<1>3. PICK q \in 1..L : \E n \in 1..Len(Parts[q]) : i = at[q - 1] + n
  BY <1>2 DEF Reaching, L
<1>4. PICK n \in 1..Len(Parts[q]) : i = at[q - 1] + n
  BY <1>3
<1>5. log[i] = Parts[q][n]
  BY <1>2, <1>4 DEF Reaching, L
<1>6. ASSUME NEW names, Parts[q] = << Text(names) >>  PROVE FALSE
  <2>1. n = 1 /\ Parts[q][1] = Text(names)
    BY <1>4, <1>6
  <2>2. QED
    BY <1>5, <2>1 DEF Text
<1>7. ASSUME NEW h, NEW names, HeadPart(Parts[q], h, names)  PROVE i = HeadAt(q)
  <2>1. CASE suite.runner = "unittest"
    <3>1. Parts[q] = << [k |-> "eq"], [k |-> "label", h |-> h], Text(names) >>
      BY <1>7, <2>1 DEF HeadPart
    <3>2. /\ Len(Parts[q]) = 3 /\ Parts[q][1] = [k |-> "eq"] /\ Parts[q][3] = Text(names)
      BY <3>1
    <3>3. n = 1 \/ n = 2 \/ n = 3
      BY <3>2, <1>4
    <3>4. Parts[q][1].k = "eq" /\ Parts[q][3].k = "text"
      BY <3>2 DEF Text
    <3>5. n = 2
      BY <1>5, <3>3, <3>4
    <3>6. QED
      BY <1>4, <1>h, <2>1, <3>5
  <2>2. CASE suite.runner # "unittest"
    <3>1. Parts[q] = << [k |-> "rule", h |-> h], Text(names) >>
      BY <1>7, <2>2 DEF HeadPart
    <3>2. /\ Len(Parts[q]) = 2 /\ Parts[q][2] = Text(names)
      BY <3>1
    <3>3. n = 1 \/ n = 2
      BY <3>2, <1>4
    <3>4. Parts[q][2].k = "text"
      BY <3>2 DEF Text
    <3>5. n = 1
      BY <1>5, <3>3, <3>4
    <3>6. QED
      BY <1>4, <1>h, <2>2, <3>5
  <2>3. QED
    BY <2>1, <2>2
<1>8. CASE q = L
  <2>1. suite.runner = "pytest"
    BY <1>1, <1>4, <1>8
  <2>2. \E names : Parts[q] = << Text(names) >>
    BY <1>1, <1>8, <2>1
  <2>3. QED
    BY <1>6, <2>2
<1>9. CASE q \in 1..Len(Broken) /\ ModulePart(q, Broken[q])
  <2>1. CASE suite.runner = "sympy"
    BY <1>6, <1>9, <2>1 DEF ModulePart, TextPart
  <2>2. CASE suite.runner # "sympy"
    <3>1. i = HeadAt(q)
      BY <1>7, <1>9, <2>2 DEF ModulePart
    <3>2. OfModule(i, Broken[q])
      BY <1>9, <2>2, <3>1, ModuleLeads
    <3>3. QED
      BY <3>2 DEF OfModule
  <2>3. QED
    BY <2>1, <2>2
<1>10. CASE \E r \in 1..Len(suite.order) : q = Len(Broken) + r /\ TestPart(q, suite.order[r])
  <2>1. PICK r \in 1..Len(suite.order) : q = Len(Broken) + r /\ TestPart(q, suite.order[r])
    BY <1>10
  <2>2. i = HeadAt(q)
    BY <1>7, <2>1 DEF TestPart
  <2>3. OfTest(i, suite.order[r])
    BY <2>1, <2>2, TestLeads
  <2>4. QED
    BY <2>3 DEF OfTest
<1>11. QED
  BY <1>3, <1>8, <1>9, <1>10, <1>w

LEMMA LogLines ==
  ASSUME IsRun(suite), log = Log
  PROVE  Lines
<1>1. Len(log) \in Nat /\ log \in Seq(LineSet)
  BY Reached DEF Reaching
<1>2. \A h \in Heads : h # NoBlock
  BY RunFacts DEF Heads
<1>3. ASSUME NEW line \in LineSet
      PROVE  /\ line.k \in Kinds /\ (line.k \in {"rule", "label"} => line.h # NoBlock)
             /\ (line.k = "text" => line.names \in BOOLEAN)
  BY <1>2 DEF LineSet, Kinds
<1> HIDE DEF LineSet
<1>4. DOMAIN log = 1..Len(log) /\ \A i \in 1..Len(log) : log[i] \in LineSet
  BY <1>1
<1>5. QED
  BY <1>1, <1>3, <1>4 DEF Lines

LEMMA LogLinesNext ==
  (IsRun(suite) /\ log = Log => Lines)'
  BY LogLines, PTL

-----------------------------------------------------------------------------
\* What a block of the whole log is: a test's own, or its module's.

LEMMA FirstBlock ==
  ASSUME Dictionary(sections), NEW t
  PROVE  \/ /\ SectionFor(t) = NoBlock
            /\ \A pass \in 1..4 : At(sections, t, pass) = {}
         \/ \E pass \in 1..4 :
              /\ \E n \in At(sections, t, pass) : SectionFor(t) = sections[n].body
              /\ \A other \in 1..4 : At(sections, t, other) # {} => pass <= other
<1> DEFINE P == Passes(sections, t)
           least == CHOOSE pass \in P : \A other \in P : pass <= other
           hit   == At(sections, t, least)
           n == CHOOSE i \in hit : \A j \in hit : i <= j
<1>1. SectionFor(t) = IF P = {} THEN NoBlock ELSE sections[n].body
  BY BlockOf DEF BlockIn
<1>2. CASE P = {}
  BY <1>1, <1>2 DEF Passes
<1>3. CASE P # {}
  <2>1. P \in SUBSET Nat
    BY DEF Passes
  <2>2. \E pass \in P : \A other \in P : pass <= other
    BY <1>3, <2>1, Least
  <2>3. least \in P /\ \A other \in P : least <= other
    BY <2>2
  <2>4. /\ least \in 1..4 /\ hit # {}
        /\ \A other \in 1..4 : At(sections, t, other) # {} => least <= other
    BY <2>3 DEF Passes
  <2>5. hit \in SUBSET Nat
    <3>1. DOMAIN sections \subseteq Nat
      BY DEF Dictionary, Listing
    <3>2. hit \subseteq DOMAIN sections
      BY DEF At
    <3>3. QED
      BY <3>1, <3>2
  <2> HIDE DEF hit, least, P
  <2>6. \E i \in hit : \A j \in hit : i <= j
    BY <2>4, <2>5, Least
  <2>7. n \in hit
    BY <2>6
  <2>8. QED
    BY <1>1, <1>3, <2>4, <2>7 DEF hit
<1>4. QED
  BY <1>2, <1>3

\* Whose block it is.
BlockOfTest(sec, t) ==
  /\ t \in Alone /\ sec.h = HeadOf(t) /\ (suite.fate[t] \in Saying) \in sec.body
  /\ sec.body = {suite.fate[t] \in Saying} \/ LastTest(t)
BlockOfModule(sec, m) ==
  /\ suite.runner # "sympy" /\ m \in Modules /\ sec.h = HeadOfModule(m)
  /\ suite.importNames[m] \in sec.body
  /\ sec.body = {suite.importNames[m]} \/ LastModule(m)

LEMMA WhoseBlock ==
  ASSUME IsRun(suite), log = Log, ScanInv, NEW n \in DOMAIN sections
  PROVE  /\ sections[n].body \in SUBSET BOOLEAN
         /\ \/ \E t \in Alone : BlockOfTest(sections[n], t)
            \/ \E m \in Modules : BlockOfModule(sections[n], m)
<1>1. Lines
  BY LogLines
<1>2. PICK i \in 1..Len(log) : Grounds(i, sections[n])
  BY DEF ScanInv, Grounded
<1>3. /\ log[i].k \in {"rule", "label"} /\ sections[n].h = log[i].h
      /\ sections[n].body = BodyOf(i)
  BY <1>2 DEF Grounds, BodyOf
<1>4. sections[n].body \in SUBSET BOOLEAN
  <2>1. \A j \in 1..Len(log) : log[j].k = "text" => log[j].names \in BOOLEAN
    BY <1>1 DEF Lines
  <2>2. \A j \in (i + 1)..Len(log) : j \in 1..Len(log)
    BY <1>1 DEF Lines
  <2>3. BodyOf(i) \subseteq {log[j].names : j \in {c \in (i + 1)..Len(log) : log[c].k = "text"}}
    BY DEF BodyOf, RuleBody, LabelBody
  <2>4. QED
    BY <1>3, <2>1, <2>2, <2>3
<1>5. (\E t \in Alone : OfTest(i, t)) \/ (\E m \in Modules : OfModule(i, m))
  BY <1>3, WhoseHead
<1>6. ASSUME NEW t \in Alone, OfTest(i, t)  PROVE BlockOfTest(sections[n], t)
  BY <1>3, <1>6 DEF OfTest, BlockOfTest, Heading
<1>7. ASSUME NEW m \in Modules, OfModule(i, m)  PROVE BlockOfModule(sections[n], m)
  BY <1>3, <1>7 DEF OfModule, BlockOfModule, Heading
<1>8. QED
  BY <1>4, <1>5, <1>6, <1>7

\* When the log is read, a test that failed on its own has a block, and a module too.
LEMMA HasBlock ==
  ASSUME IsRun(suite), log = Log, ScanInv, LogRead
  PROVE  /\ \A t \in Alone : \E n \in DOMAIN sections : sections[n].h = HeadOf(t)
         /\ suite.runner # "sympy" =>
              \A m \in Modules : \E n \in DOMAIN sections : sections[n].h = HeadOfModule(m)
<1>1. Lines
  BY LogLines
<1>2. Len(log) \in Nat
  BY <1>1 DEF Lines
<1>3. /\ \A i \in 1..Len(log) : i <= read /\ i + Len(log) < read
      /\ read > Len(log)
  BY <1>2 DEF LogRead
<1>4. /\ open = NoBlock
      /\ \A i \in 1..Len(log) : log[i].k \in {"rule", "label"} => log[i].h \in Headers \cup {open}
  BY <1>3 DEF ScanInv
<1>5. \A i \in 1..Len(log) : log[i].k \in {"rule", "label"} => log[i].h \in Headers
  BY <1>1, <1>4 DEF Lines
<1>6. ASSUME NEW i, NEW h, NEW names, Heading(i, h, names)
      PROVE  \E n \in DOMAIN sections : sections[n].h = h
  BY <1>5, <1>6 DEF Heading, Headers
<1>7. ASSUME NEW t \in Alone  PROVE \E n \in DOMAIN sections : sections[n].h = HeadOf(t)
  <2>1. PICK i \in 1..Len(log) : OfTest(i, t)
    BY HasHead
  <2>2. QED
    BY <1>6, <2>1 DEF OfTest
<1>8. ASSUME suite.runner # "sympy", NEW m \in Modules
      PROVE  \E n \in DOMAIN sections : sections[n].h = HeadOfModule(m)
  <2>1. PICK i \in 1..Len(log) : OfModule(i, m)
    BY <1>8, HasHead
  <2>2. QED
    BY <1>6, <2>1 DEF OfModule
<1>9. QED
  BY <1>7, <1>8

\* How the headers of each runner match.
TestHead(t) == [kind |-> "test", mod |-> Blank, cls |-> t.cls, base |-> t.base, par |-> t.par]
FixtureHead(t) == [kind |-> "fixture", mod |-> Blank, cls |-> t.cls, base |-> t.base, par |-> t.par]
CaseHead(t) == [kind |-> "case", mod |-> t.mod, cls |-> t.cls, base |-> t.base, par |-> Blank]
PathHead(t) == [kind |-> "path", mod |-> t.mod, cls |-> Blank, base |-> t.base, par |-> Blank]
LEMMA Fields ==
  \A t : /\ H("test", t) = TestHead(t) /\ H("fixture", t) = FixtureHead(t)
         /\ H("case", t) = CaseHead(t) /\ H("path", t) = PathHead(t)
<1>1. /\ "case" \notin {"test", "fixture"} /\ "path" \notin {"test", "fixture"} /\ "case" # "path"
      /\ "test" # "path" /\ "fixture" # "path"
  OBVIOUS
<1>2. QED
  BY <1>1 DEF H, TestHead, FixtureHead, CaseHead, PathHead

\* The head of u: what of t it has to agree with.
LEMMA TestMatches ==
  ASSUME IsRun(suite), NEW t, NEW u \in Alone
  PROVE  /\ ~NamesModule(HeadOf(u), t) /\ ~NamesFailed(HeadOf(u), t)
         /\ NamesTest(HeadOf(u), t) \/ NamesPath(HeadOf(u), t) =>
              u.base = t.base /\ (suite.runner = "unittest" => u.mod = t.mod /\ u.cls = t.cls)
         /\ NamesTest(HeadOf(u), u) \/ NamesPath(HeadOf(u), u) <=> HasOwn(u)
<1> DEFINE hd == HeadOf(u)
<1>1. suite.runner \in {"pytest", "unittest", "sympy"} /\ suite.fate[u] \in {"name", "other"} \cup AtSetup
  BY RunFacts DEF Alone, Suffering, Printed
<1>2. suite.runner # "pytest" => suite.fate[u] \notin AtSetup
  BY DEF IsRun, Suffering, Alone
<1>3. CASE suite.runner = "pytest" /\ suite.fate[u] \notin AtSetup
  <2>1. hd = TestHead(u)
    BY <1>3, Fields DEF HeadOf
  <2>2. hd.kind = "test" /\ hd.cls = u.cls /\ hd.base = u.base /\ hd.par = u.par
    BY <2>1 DEF TestHead
  <2> HIDE DEF hd
  <2>3. /\ ~NamesModule(hd, t) /\ ~NamesFailed(hd, t)
        /\ NamesTest(hd, t) \/ NamesPath(hd, t) => u.base = t.base
    BY <2>2 DEF NamesTest, NamesPath, NamesModule, NamesFailed
  <2>4. NamesTest(hd, u) \/ NamesPath(hd, u) <=> (Dotted(u.par) => u.cls = Blank)
    BY <2>2 DEF NamesTest, NamesPath
  <2>5. HasOwn(u) <=> (Dotted(u.par) => u.cls = Blank)
    BY <1>1, <1>3 DEF HasOwn
  <2>6. QED
    BY <1>3, <2>3, <2>4, <2>5 DEF hd
<1>4. CASE suite.runner = "pytest" /\ suite.fate[u] \in AtSetup
  <2>1. hd = FixtureHead(u)
    BY <1>4, Fields DEF HeadOf
  <2>2. hd.kind = "fixture" /\ hd.cls = u.cls /\ hd.base = u.base /\ hd.par = u.par
    BY <2>1 DEF FixtureHead
  <2> HIDE DEF hd
  <2>3. /\ ~NamesModule(hd, t) /\ ~NamesFailed(hd, t)
        /\ NamesTest(hd, t) \/ NamesPath(hd, t) => u.base = t.base
    BY <2>2 DEF NamesTest, NamesPath, NamesModule, NamesFailed
  <2>4. NamesTest(hd, u) \/ NamesPath(hd, u) <=> (u.cls # Blank /\ ~Dotted(u.par))
    BY <2>2 DEF NamesTest, NamesPath
  <2>5. HasOwn(u) <=> (u.cls # Blank /\ ~Dotted(u.par))
    BY <1>4 DEF HasOwn, AtSetup
  <2>6. QED
    BY <1>4, <2>3, <2>4, <2>5 DEF hd
<1>5. CASE suite.runner = "unittest"
  <2>1. hd = CaseHead(u)
    BY <1>5, Fields DEF HeadOf
  <2>2. hd.kind = "case" /\ hd.mod = u.mod /\ hd.cls = u.cls /\ hd.base = u.base
    BY <2>1 DEF CaseHead
  <2> HIDE DEF hd
  <2>3. /\ ~NamesModule(hd, t) /\ ~NamesFailed(hd, t)
        /\ NamesTest(hd, t) \/ NamesPath(hd, t) => u.base = t.base /\ u.mod = t.mod /\ u.cls = t.cls
        /\ NamesTest(hd, u)
    BY <2>2 DEF NamesTest, NamesPath, NamesModule, NamesFailed
  <2>4. HasOwn(u)
    BY <1>1, <1>2, <1>5 DEF HasOwn
  <2>5. QED
    BY <2>3, <2>4 DEF hd
<1>6. CASE suite.runner = "sympy"
  <2>1. hd = PathHead(u)
    BY <1>6, Fields DEF HeadOf
  <2>2. hd.kind = "path" /\ hd.base = u.base
    BY <2>1 DEF PathHead
  <2> HIDE DEF hd
  <2>3. /\ ~NamesModule(hd, t) /\ ~NamesFailed(hd, t)
        /\ NamesTest(hd, t) \/ NamesPath(hd, t) => u.base = t.base
        /\ NamesPath(hd, u)
    BY <2>2 DEF NamesTest, NamesPath, NamesModule, NamesFailed
  <2>4. HasOwn(u)
    BY <1>1, <1>2, <1>6 DEF HasOwn
  <2>5. QED
    BY <1>6, <2>3, <2>4 DEF hd
<1>7. QED
  BY <1>1, <1>3, <1>4, <1>5, <1>6

\* The head of a module that does not import: whose tests it is taken for.
LEMMA ModuleMatches ==
  ASSUME IsRun(suite), suite.runner # "sympy", NEW m, NEW t \in DOMAIN suite.fate
  PROVE  /\ ~NamesTest(HeadOfModule(m), t) /\ ~NamesPath(HeadOfModule(m), t)
         /\ NamesModule(HeadOfModule(m), t) => suite.runner = "pytest" /\ m \in Layout[t.mod].holders
         /\ NamesFailed(HeadOfModule(m), t) =>
              suite.runner = "unittest" /\ Layout[m].leaf \in Layout[t.mod].parts \cup {t.cls}
         /\ m = t.mod => NamesModule(HeadOfModule(m), t) \/ NamesFailed(HeadOfModule(m), t)
<1> DEFINE hd == HeadOfModule(m)
<1>1. suite.runner \in {"pytest", "unittest"} /\ suite.runner \in DOMAIN Dialect /\ t \in Dialect[suite.runner]
  BY RunFacts
<1>2. t.mod \in Layout[t.mod].holders /\ Layout[t.mod].leaf \in Layout[t.mod].parts
  BY <1>1, Told
<1>3. CASE suite.runner = "pytest"
  <2>1. hd = HModule("collecting", m)
    BY <1>3 DEF HeadOfModule
  <2>2. hd.kind = "collecting" /\ hd.mod = m
    BY <2>1 DEF HModule
  <2> HIDE DEF hd
  <2>3. /\ ~NamesTest(hd, t) /\ ~NamesPath(hd, t) /\ ~NamesFailed(hd, t)
        /\ NamesModule(hd, t) <=> m \in Layout[t.mod].holders
    BY <2>2 DEF NamesTest, NamesPath, NamesModule, NamesFailed
  <2>4. QED
    BY <1>2, <1>3, <2>3 DEF hd
<1>4. CASE suite.runner = "unittest"
  <2>1. hd = HModule("FailedTest", m)
    BY <1>4 DEF HeadOfModule
  <2>2. hd.kind = "FailedTest" /\ hd.mod = Layout[m].leaf
    BY <2>1 DEF HModule
  <2> HIDE DEF hd
  <2>3. /\ ~NamesTest(hd, t) /\ ~NamesPath(hd, t) /\ ~NamesModule(hd, t)
        /\ NamesFailed(hd, t) <=> Layout[m].leaf \in Layout[t.mod].parts \cup {t.cls}
    BY <2>2 DEF NamesTest, NamesPath, NamesModule, NamesFailed
  <2>4. QED
    BY <1>2, <1>4, <2>3 DEF hd
<1>5. QED
  BY <1>1, <1>3, <1>4

OwnBlock(t, body) ==
  /\ SaysName(t) \in body
  /\ body = {SaysName(t)} \/ LastBlock(t) \/ LastModule(t.mod)

\* A block that is found before any module's is of the test or of one it shares a name with.
LEMMA TestsBlock ==
  ASSUME IsRun(suite), NEW t \in Failing, NEW u \in Alone, NEW sec, BlockOfTest(sec, u),
         NamesTest(sec.h, t) \/ NamesPath(sec.h, t)
  PROVE  Shadowed(t) \/ (Findable(t) /\ OwnBlock(t, sec.body))
<1>1. u.base = t.base /\ (suite.runner = "unittest" => u.mod = t.mod /\ u.cls = t.cls)
  BY TestMatches DEF BlockOfTest
<1>2. CASE u = t
  <2>1. suite.fate[t] # "import" /\ SaysName(t) = (suite.fate[t] \in Saying)
    BY <1>2 DEF SaysName, Alone, Suffering, Printed, AtSetup
  <2>2. Findable(t)
    BY <1>2, TestMatches DEF BlockOfTest, Findable
  <2>3. LastTest(t) => LastBlock(t)
    BY DEF LastTest, LastBlock
  <2>4. QED
    BY <1>2, <2>1, <2>2, <2>3 DEF BlockOfTest, OwnBlock
<1>3. CASE u # t
  <2>1. suite.runner # "unittest"
    <3>1. /\ t \in Dialect[suite.runner] /\ u \in Dialect[suite.runner]
          /\ suite.runner \in DOMAIN Dialect
      BY RunFacts DEF Failing
    <3>2. QED
      BY <1>1, <1>3, <3>1, Told
  <2>2. u \in Range(suite.order)
    BY RunFacts
  <2>3. QED
    BY <1>1, <1>3, <2>1, <2>2 DEF Shadowed
<1>4. QED
  BY <1>2, <1>3

\* A block of a module is found only for a test without one of its own.
LEMMA ModulesBlock ==
  ASSUME IsRun(suite), NEW t \in Failing, ~HasOwn(t), NEW m \in Modules, NEW sec, BlockOfModule(sec, m),
         NamesModule(sec.h, t) \/ NamesFailed(sec.h, t)
  PROVE  SharesModule(t) \/ (Findable(t) /\ OwnBlock(t, sec.body))
<1>0. suite.runner # "sympy" /\ sec.h = HeadOfModule(m) /\ t \in DOMAIN suite.fate
  BY DEF BlockOfModule, Failing
<1>1. \/ suite.runner = "pytest" /\ m \in Layout[t.mod].holders
      \/ suite.runner = "unittest" /\ Layout[m].leaf \in Layout[t.mod].parts \cup {t.cls}
  BY <1>0, ModuleMatches
<1>2. CASE m # t.mod
  BY <1>1, <1>2 DEF SharesModule, Modules
<1>3. CASE m = t.mod
  <2>1. suite.fate[t] = "import"
    <3>1. PICK u \in DOMAIN suite.fate : suite.fate[u] = "import" /\ u.mod = m
      BY DEF Modules, ModulesIn, Suffering
    <3>2. \A v, w \in DOMAIN suite.fate : v.mod = w.mod => (suite.fate[v] = "import" <=> suite.fate[w] = "import")
      BY DEF IsRun
    <3>3. QED
      BY <1>0, <1>3, <3>1, <3>2
  <2>2. Findable(t) /\ SaysName(t) = suite.importNames[m]
    BY <1>0, <1>3, <2>1 DEF Findable, SaysName
  <2>3. QED
    BY <1>3, <2>2 DEF BlockOfModule, OwnBlock
<1>4. QED
  BY <1>2, <1>3

LEMMA Attributed ==
  ASSUME IsRun(suite), log = Log, ScanInv, LogRead, NEW t \in Failing
  PROVE  \/ SectionFor(t) = NoBlock /\ ~Findable(t)
         \/ /\ SectionFor(t) \in SUBSET BOOLEAN
            /\ Shadowed(t) \/ SharesModule(t) \/ (Findable(t) /\ OwnBlock(t, SectionFor(t)))
<1>1. t \in DOMAIN suite.fate
  BY DEF Failing
<1>2. \A n \in DOMAIN sections :
        /\ NamesTest(sections[n].h, t) <=> n \in At(sections, t, 1)
        /\ NamesPath(sections[n].h, t) <=> n \in At(sections, t, 2)
        /\ NamesModule(sections[n].h, t) <=> n \in At(sections, t, 3)
        /\ NamesFailed(sections[n].h, t) <=> n \in At(sections, t, 4)
  BY DEF At
<1>3. \A pass : At(sections, t, pass) \subseteq DOMAIN sections
  BY DEF At
<1>4. HasOwn(t) => At(sections, t, 1) # {} \/ At(sections, t, 2) # {}
  <2> SUFFICES ASSUME HasOwn(t)  PROVE At(sections, t, 1) # {} \/ At(sections, t, 2) # {}
    OBVIOUS
  <2>1. t \in Alone
    BY <1>1 DEF HasOwn, Alone, Suffering, Printed
  <2>2. PICK n \in DOMAIN sections : sections[n].h = HeadOf(t)
    BY <2>1, HasBlock
  <2>3. NamesTest(sections[n].h, t) \/ NamesPath(sections[n].h, t)
    BY <2>1, <2>2, TestMatches
  <2>4. QED
    BY <1>2, <2>2, <2>3
<1>5. Findable(t) => \E pass \in 1..4 : At(sections, t, pass) # {}
  <2>1. CASE HasOwn(t)
    BY <1>4, <2>1
  <2>2. CASE suite.fate[t] = "import" /\ suite.runner # "sympy"
    <3>1. t.mod \in Modules
      BY <1>1, <2>2 DEF Modules, ModulesIn, Suffering
    <3>2. PICK n \in DOMAIN sections : sections[n].h = HeadOfModule(t.mod)
      BY <2>2, <3>1, HasBlock
    <3>3. NamesModule(sections[n].h, t) \/ NamesFailed(sections[n].h, t)
      BY <1>1, <2>2, <3>2, ModuleMatches
    <3>4. QED
      BY <1>2, <3>2, <3>3
  <2>3. QED
    BY <2>1, <2>2 DEF Findable
<1>6. ASSUME NEW pass \in 1..4, NEW n \in At(sections, t, pass),
             \A other \in 1..4 : At(sections, t, other) # {} => pass <= other
      PROVE  /\ sections[n].body \in SUBSET BOOLEAN
             /\ Shadowed(t) \/ SharesModule(t) \/ (Findable(t) /\ OwnBlock(t, sections[n].body))
  <2>1. n \in DOMAIN sections
    BY <1>3
  <2> DEFINE sec == sections[n]
  <2>2. /\ sec.body \in SUBSET BOOLEAN
        /\ (\E u \in Alone : BlockOfTest(sec, u)) \/ (\E m \in Modules : BlockOfModule(sec, m))
    BY <2>1, WhoseBlock
  <2>3. /\ pass = 1 \/ pass = 2 \/ pass = 3 \/ pass = 4
        /\ pass = 1 => NamesTest(sec.h, t)
        /\ pass = 2 => NamesPath(sec.h, t)
        /\ pass = 3 => NamesModule(sec.h, t)
        /\ pass = 4 => NamesFailed(sec.h, t)
    BY <1>2, <2>1
  <2>4. pass \in {3, 4} => ~HasOwn(t)
    <3>1. HasOwn(t) => pass <= 1 \/ pass <= 2
      BY <1>4, <1>6
    <3>2. QED
      BY <3>1
  <2> HIDE DEF sec
  <2>5. ASSUME NEW u \in Alone, BlockOfTest(sec, u)
        PROVE  Shadowed(t) \/ (Findable(t) /\ OwnBlock(t, sec.body))
    <3>1. ~NamesModule(sec.h, t) /\ ~NamesFailed(sec.h, t)
      BY <2>5, TestMatches DEF BlockOfTest
    <3>2. NamesTest(sec.h, t) \/ NamesPath(sec.h, t)
      BY <2>3, <3>1
    <3>3. QED
      BY <2>5, <3>2, TestsBlock
  <2>6. ASSUME NEW m \in Modules, BlockOfModule(sec, m)
        PROVE  SharesModule(t) \/ (Findable(t) /\ OwnBlock(t, sec.body))
    <3>1. ~NamesTest(sec.h, t) /\ ~NamesPath(sec.h, t)
      BY <1>1, <2>6, ModuleMatches DEF BlockOfModule
    <3>2. pass \in {3, 4} /\ (NamesModule(sec.h, t) \/ NamesFailed(sec.h, t))
      BY <2>3, <3>1
    <3>3. QED
      BY <2>4, <2>6, <3>2, ModulesBlock
  <2>7. QED
    BY <2>2, <2>5, <2>6 DEF sec
<1>7. Dictionary(sections)
  BY DEF ScanInv
<1>8. CASE SectionFor(t) = NoBlock /\ \A pass \in 1..4 : At(sections, t, pass) = {}
  BY <1>5, <1>8
<1>9. CASE \E pass \in 1..4 :
              /\ \E n \in At(sections, t, pass) : SectionFor(t) = sections[n].body
              /\ \A other \in 1..4 : At(sections, t, other) # {} => pass <= other
  BY <1>6, <1>9
<1>10. QED
  BY <1>7, <1>8, <1>9, FirstBlock

\* What the oracle knows of a run: nothing before it, and the truth about it after.
Attributing ==
  /\ suite = NoBlock => NotRead
  /\ suite # NoBlock => IsRun(suite) /\ log = Log /\ ScanInv /\ Said
  /\ why = [t \in asked |-> why[t]]

LEMMA SaysBoolean ==
  ASSUME IsRun(suite), NEW t \in Failing
  PROVE  SaysName(t) \in BOOLEAN
<1>1. CASE suite.fate[t] = "import"
  <2>1. t.mod \in Modules
    BY <1>1 DEF Failing, Modules, ModulesIn, Suffering
  <2>2. QED
    BY <1>1, <2>1, RunFacts DEF SaysName
<1>2. CASE suite.fate[t] # "import"
  BY <1>2 DEF SaysName
<1>3. QED
  BY <1>1, <1>2

\* Each part of the property follows, for a run.
LEMMA AsOwn ==
  ASSUME Attributing,
         suite # NoBlock => asked \subseteq suite.named, suite = NoBlock => asked = {},
         \A t \in asked : why[t] \in {"coupled", "broke", "unparsed"}
  PROVE  AttributedAsOwn
<1>1. CASE suite = NoBlock
  <2>1. asked = {} /\ ~LogRead
    <3>1. read = 0 /\ log = <<>> /\ asked = {}
      BY <1>1 DEF Attributing, NotRead
    <3>2. QED
      BY <3>1 DEF LogRead
  <2>2. \A c : Called(c) = {}
    BY <2>1 DEF Called
  <2>3. QED
    BY <1>1, <2>1, <2>2 DEF AttributedAsOwn, AttributionTypeOK, BrokeIsOwn, CoupledIsOwn, UnreadIsUnjudged, Partitioned
<1>2. CASE suite # NoBlock
  <2>1. /\ IsRun(suite) /\ log = Log /\ ScanInv /\ Said /\ why = [t \in asked |-> why[t]]
        /\ asked \subseteq suite.named /\ asked \subseteq Failing
    <3>1. IsRun(suite) /\ asked \subseteq suite.named
      BY <1>2 DEF Attributing
    <3>2. QED
      BY <1>2, <3>1, RunFacts DEF Attributing
  <2>2. AttributionTypeOK
    <3>1. Len(log) \in Nat
      BY <2>1, LogLines DEF Lines
    <3>2. read \in 0..(2 * Len(log) + 1)
      BY <2>1 DEF ScanInv
    <3>3. open \in {log[i].h : i \in {n \in 1..Len(log) : log[n].k = "rule"}} \cup {NoBlock}
      <4>1. CASE open = NoBlock
        BY <4>1
      <4>2. CASE open # NoBlock
        <5>1. read \in Nat /\ read <= Len(log)
          BY <2>1, <3>1, <3>2, <4>2 DEF ScanInv
        <5>2. PICK i \in 1..read : log[i].k = "rule" /\ open = log[i].h
          BY <2>1, <4>2, <5>1 DEF ScanInv, OpenBlock
        <5>3. i \in 1..Len(log)
          BY <3>1, <5>1
        <5>4. QED
          BY <5>2, <5>3
      <4>3. QED
        BY <4>1, <4>2
    <3>4. \A i, j \in DOMAIN sections : sections[i].h = sections[j].h => i = j
      BY <2>1 DEF ScanInv, Dictionary
    <3>5. why \in [asked -> {"coupled", "broke", "unparsed"}]
      BY <2>1
    <3>6. QED
      BY <2>1, <3>2, <3>3, <3>4, <3>5 DEF AttributionTypeOK
  <2>3. ASSUME NEW t \in asked
        PROVE  /\ t \in Failing /\ why[t] = Reason(SectionFor(t)) /\ SaysName(t) \in BOOLEAN
               /\ \/ SectionFor(t) = NoBlock /\ ~Findable(t)
                  \/ /\ SectionFor(t) \in SUBSET BOOLEAN /\ SectionFor(t) # NoBlock
                     /\ \/ Shadowed(t) \/ SharesModule(t)
                        \/ Findable(t) /\ OwnBlock(t, SectionFor(t))
    <3>1. t \in Failing /\ LogRead /\ why[t] = Reason(SectionFor(t))
      BY <2>1 DEF Said
    <3>2. NoBlock \notin SUBSET BOOLEAN
      BY Unlike
    <3>3. QED
      BY <2>1, <3>1, <3>2, Attributed, SaysBoolean
  <2>4. ASSUME NEW t \in Called("broke")  PROVE ~SaysName(t) \/ Shadowed(t) \/ SharesModule(t)
    <3>1. t \in asked /\ Reason(SectionFor(t)) = "broke"
      BY <2>3 DEF Called
    <3>2. SectionFor(t) # NoBlock /\ TRUE \notin SectionFor(t)
      BY <3>1 DEF Reason, NamesSymbol
    <3>3. QED
      BY <2>3, <3>1, <3>2 DEF OwnBlock
  <2>5. ASSUME NEW t \in Called("coupled")
        PROVE  SaysName(t) \/ Excused(t)
    <3>1. t \in asked /\ Reason(SectionFor(t)) = "coupled"
      BY <2>3 DEF Called
    <3>2. SectionFor(t) # NoBlock /\ TRUE \in SectionFor(t)
      BY <3>1 DEF Reason, NamesSymbol
    <3>3. QED
      BY <2>3, <3>1, <3>2 DEF OwnBlock, Excused
  <2>6. ASSUME Partitioned
        PROVE  /\ \A t \in Called("unparsed") : ~Findable(t)
               /\ \A t \in suite.named : ~Findable(t) /\ ~Shadowed(t) /\ ~SharesModule(t) => t \in Called("unparsed")
               /\ Satisfied = "none" <=> \E t \in suite.named : SectionFor(t) = NoBlock
    <3>1. asked = suite.named
      BY <2>6 DEF Partitioned
    <3>2. \A t \in asked : t \in Called("unparsed") <=> SectionFor(t) = NoBlock
      BY <2>3 DEF Called, Reason
    <3>3. Satisfied = "none" <=> Called("unparsed") # {}
      BY DEF Satisfied
    <3>4. Called("unparsed") \subseteq asked
      BY DEF Called
    <3>5. \A t \in asked : SectionFor(t) = NoBlock => ~Findable(t)
      BY <2>3
    <3>6. \A t \in asked : ~Findable(t) /\ ~Shadowed(t) /\ ~SharesModule(t) => SectionFor(t) = NoBlock
      BY <2>3
    <3>7. QED
      BY <3>1, <3>2, <3>3, <3>4, <3>5, <3>6
  <2>7. QED
    BY <2>2, <2>4, <2>5, <2>6 DEF AttributedAsOwn, BrokeIsOwn, CoupledIsOwn, UnreadIsUnjudged
<1>3. QED
  BY <1>1, <1>2

-----------------------------------------------------------------------------
\* The oracle keeps what it knows.

LEMMA SameLogOf == suite' = suite => Log' = Log
<1> SUFFICES ASSUME suite' = suite  PROVE Log' = Log
  OBVIOUS
<1>1. Broken' = Broken /\ Failing' = Failing
  BY DEF Broken, Failing
<1>2. \A m : ModuleBlock(m)' = ModuleBlock(m)
  BY DEF ModuleBlock
<1>3. \A t : Block(t)' = Block(t)
  BY DEF Block, Own
<1>4. Summary' = Summary
  BY <1>1 DEF Summary
<1>5. Blocks' = Blocks
  BY <1>1, <1>2, <1>3 DEF Blocks
<1>6. QED
  BY <1>4, <1>5 DEF Log

LEMMA AttributingSame ==
  ASSUME Attributing, UNCHANGED attributionVars
  PROVE  Attributing'
<1>1. UNCHANGED <<suite, log, read, open, buf, sections, asked, why>>
  BY DEF attributionVars
<1>2. NotRead => NotRead'
  BY <1>1 DEF NotRead
<1>3. Log' = Log /\ (ScanInv => ScanInv')
  BY <1>1, SameLogOf, ScanSame
<1>4. \A t : Reason(SectionFor(t))' = Reason(SectionFor(t))
  <2>1. \A t : SectionFor(t)' = BlockIn(sections', t)
    BY DEF SectionFor, FirstOf, BlockIn, Passes, At
  <2>2. \A t : SectionFor(t)' = SectionFor(t)
    BY <1>1, <2>1, BlockOf
  <2>3. QED
    BY <2>2 DEF Reason, NamesSymbol
<1>5. Said => Said'
  <2> SUFFICES ASSUME Said, asked' # {}  PROVE LogRead' /\ \A t \in asked' : (why[t] = Reason(SectionFor(t)))'
    BY DEF Said
  <2>1. LogRead'
    BY <1>1 DEF Said, LogRead
  <2>2. QED
    BY <1>1, <1>4, <2>1 DEF Said
<1>6. (why = [t \in asked |-> why[t]])'
  BY <1>1 DEF Attributing
<1>7. suite' # NoBlock => IsRun(suite)' /\ (log = Log)'
  BY <1>1, <1>3 DEF Attributing
<1>8. QED
  BY <1>1, <1>2, <1>3, <1>5, <1>6, <1>7 DEF Attributing

LEMMA RunSuiteStep ==
  ASSUME Attributing, RunSuite
  PROVE  Attributing'
<1>1. /\ suite = NoBlock /\ IsRun(suite') /\ log' = Log'
      /\ UNCHANGED <<read, open, buf, sections, asked, why>>
  BY DEF RunSuite
<1>2. read = 0 /\ open = NoBlock /\ sections = <<>> /\ asked = {}
  BY <1>1 DEF Attributing, NotRead
<1>3. Lines'
  BY <1>1, LogLinesNext
<1>4. Len(log') \in Nat
  BY <1>3 DEF Lines
<1>5. /\ read' = 0 /\ open' = NoBlock /\ sections' = <<>> /\ asked' = {}
  BY <1>1, <1>2
<1>6. Dictionary(sections)'
  <2>1. Listing(<<>>) /\ DOMAIN <<>> = {}
    BY DEF Listing
  <2>2. QED
    BY <1>5, <2>1 DEF Dictionary
<1>7. ScanInv'
  <2>1. (read \in 0..(2 * Len(log) + 1))' /\ ~(read' > Len(log'))
    BY <1>4, <1>5
  <2>2. OpenBlock'
    BY <1>5 DEF OpenBlock
  <2>3. (\A n \in DOMAIN sections : Grounded(sections[n]))'
    BY <1>5
  <2>4. \A i \in 1..Len(log') : ~(i <= read') /\ ~(i + Len(log') < read')
    BY <1>4, <1>5
  <2>5. QED
    BY <1>6, <2>1, <2>2, <2>3, <2>4 DEF ScanInv
<1>8. Said'
  BY <1>5 DEF Said
<1>9. suite' # NoBlock
  BY <1>1 DEF IsRun
<1>10. (why = [t \in asked |-> why[t]])'
  BY <1>1 DEF Attributing
<1>11. QED
  BY <1>1, <1>7, <1>8, <1>9, <1>10 DEF Attributing

LEMMA ReadLogStep ==
  ASSUME IInv, Attributing, ReadLog
  PROVE  Attributing'
<1>1. suite # NoBlock /\ AttributionNext
  BY DEF ReadLog
<1>2. /\ IsRun(suite) /\ log = Log /\ ScanInv /\ Said /\ why = [t \in asked |-> why[t]]
      /\ asked \subseteq suite.named
  BY <1>1 DEF Attributing, IInv, Asked
<1>3. Lines
  BY <1>2, LogLines
<1>4. ScanInv' /\ Said' /\ UNCHANGED <<suite, log>>
  BY <1>1, <1>2, <1>3, CalledStep
<1>5. Log' = Log
  BY <1>4, SameLogOf
<1>6. (why = [t \in asked |-> why[t]])'
  <2>1. CASE ScanRule \/ ScanText \/ ScanEnd \/ ScanLabel
    <3>1. UNCHANGED <<asked, why>>
      BY <2>1 DEF ScanRule, ScanText, ScanEnd, ScanLabel, Scan
    <3>2. QED
      BY <1>2, <3>1
  <2>2. CASE Attribute
    BY <2>2 DEF Attribute
  <2>3. QED
    BY <1>1, <2>1, <2>2 DEF AttributionNext
<1>7. QED
  BY <1>1, <1>2, <1>4, <1>5, <1>6 DEF Attributing

LEMMA AttributingInvariance == Spec => []Attributing
<1>1. Init => Attributing
  BY DEF Init, NotRead, Attributing
<1>2. IInv /\ Attributing /\ [Next]_vars => Attributing'
  <2> SUFFICES ASSUME IInv, Attributing, [Next]_vars  PROVE Attributing'
    OBVIOUS
  <2>1. CASE RunSuite
    BY <2>1, RunSuiteStep
  <2>2. CASE ReadLog
    BY <2>2, ReadLogStep
  <2>3. CASE ~RunSuite /\ ~ReadLog
    <3>1. UNCHANGED attributionVars
      BY <2>3 DEF Next, Judge, Reward, vars
    <3>2. QED
      BY <3>1, AttributingSame
  <2>4. QED
    BY <2>1, <2>2, <2>3
<1>3. QED
  BY <1>1, <1>2, Invariance, PTL DEF Spec

(* Each test that the grading names is judged by a block of its own,         *)
(* whatever the runner, the tests, the modules, what becomes of them and the *)
(* order they are printed in: the blocks that failure_sections cuts out of   *)
(* the log are those of its heads; section_for finds a test's own, its       *)
(* module's, that of one of the same bare name, or of a module whose path or *)
(* leaf it takes for its own, and none exactly where nothing of these is     *)
(* printed; and what names the symbol in a block of its own is the test's    *)
(* own failure, but for pytest's last block (f4_formcheck.py                 *)
(* failure_sections, section_for, container_task.py classify_failures).      *)
THEOREM FailureAttribution == Spec => []AttributedAsOwn
<1>1. IInv /\ Attributing => AttributedAsOwn
  BY AsOwn DEF IInv, Asked
<1>2. QED
  BY <1>1, Invariance, AttributingInvariance, PTL

(* A witness is a whole rename of a patched symbol, of any tree and suite,   *)
(* that a test fails on, with every failing test that the grading names read *)
(* -- all of FAIL_TO_PASS, at most LIMIT of PASS_TO_PASS -- and none of      *)
(* them, but for the blocks of CoupledIsOwn, failing for anything but the    *)
(* name (formcheck_hook.py:241-248, m4_grader.py:69).                        *)
THEOREM EarnedWitness == Spec => []WitnessIsEarned
<1>0. "WITNESS" # None
  BY Verdicts
<1>1. ASSUME IInv, AttributedAsOwn, verdict = "WITNESS"
      PROVE  /\ tree = first /\ tree # before /\ anchor.name \in scope /\ anchor.name \notin inst.issue
             /\ ~Hazardous(before)
             /\ Failing # {} /\ asked = suite.named /\ Failing \ asked \subseteq P2PFails
             /\ \A t \in asked : SaysName(t) \/ Excused(t)
  <2>1. pc = "graded" /\ Failing # {}
    BY <1>0, <1>1 DEF IInv, Judged
  <2>2. first # None /\ first = Renamed /\ Clean /\ tree = Renamed
    BY <1>1, <2>1 DEF IInv, RInv, Again, Answered
  <2>3. Partitioned /\ Satisfied = "yes" /\ asked = suite.named /\ Failing \ asked \subseteq P2PFails
    BY <1>1, <2>2 DEF IInv, Judged, Partitioned, Asked
  <2>4. /\ anchor.file \in DOMAIN before /\ "def" \in DOMAIN before[anchor.file]
        /\ anchor.name \in scope /\ AsReset(anchor.file)
    BY <1>1, <2>1 DEF IInv, RInv, Picked, Early
  <2>5. before[anchor.file]["def"] = "name"
    BY <2>4 DEF AsReset, Source, Written
  <2>6. Renamed[anchor.file]["def"] = "new"
    BY <2>4, <2>5 DEF Renamed, Rewrite, Edited
  <2>7. tree # before
    BY <2>2, <2>5, <2>6
  <2>8. Called("unparsed") = {} /\ Called("broke") = {}
    BY <2>3 DEF Satisfied
  <2>9. \A t \in asked : why[t] \in {"coupled", "broke", "unparsed"}
    BY <1>1 DEF IInv, Asked
  <2>10. \A t \in asked : t \in Called("coupled")
    BY <2>3, <2>8, <2>9 DEF Called
  <2>11. \A t \in asked : SaysName(t) \/ Excused(t)
    BY <1>1, <2>10 DEF AttributedAsOwn, CoupledIsOwn
  <2>12. QED
    BY <2>1, <2>2, <2>3, <2>4, <2>7, <2>11 DEF Clean
<1>2. IInv /\ AttributedAsOwn => WitnessIsEarned
  BY <1>1 DEF WitnessIsEarned
<1>3. QED
  BY <1>2, Invariance, FailureAttribution, PTL
=============================================================================
