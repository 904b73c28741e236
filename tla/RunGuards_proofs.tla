-------------------------- MODULE RunGuards_proofs --------------------------
(***************************************************************************)
(* The two guards that the workers of a run share, for any of them.        *)
(*                                                                         *)
(* The burn guard is exact, for every BURN_STREAK, number of workers and   *)
(* order of outcomes, as long as no task that does no work outlasts the    *)
(* floor: the run goes on only while one of its last BURN_STREAK outcomes  *)
(* was work, and is stopped only when none was.  With a worker the run     *)
(* comes to its end, whatever is refused and aborted.                      *)
(*                                                                         *)
(* The pacing of pulls (PullPacing, instantiated) never takes the last     *)
(* slot, for every quota, as long as there are no more workers than pulls  *)
(* in reserve (the defaults: MAX_WORKERS = PULL_RESERVE = 8) and every     *)
(* reading succeeds.  Each step of the composed run is one of each guard's *)
(* or leaves it alone, so that what is proved of either holds of the run.  *)
(***************************************************************************)
EXTENDS GuardedRun, FiniteSetTheorems, TLAPS

\* Appending and forgetting the oldest: the new list, element by element.
LEMMA RememberElements ==
  ASSUME NEW s \in Seq(Nat), NEW seconds \in Nat, Len(s) <= BURN_STREAK
  PROVE  LET r == Remember(s, seconds)
             k == Len(r) - 1
         IN  /\ r \in Seq(Nat)
             /\ Len(r) = IF Len(s) < BURN_STREAK THEN Len(s) + 1 ELSE BURN_STREAK
             /\ r[Len(r)] = seconds
             /\ \A i \in 1..k : r[i] = s[i + Len(s) - k]
  <1>1. CASE Len(s) < BURN_STREAK
    BY <1>1, Numbers DEF Remember
  <1>2. CASE Len(s) = BURN_STREAK
    <2>1. Tail(s) \in Seq(Nat) /\ Len(Tail(s)) = BURN_STREAK - 1
      BY <1>2, Numbers
    <2>2. \A i \in 1..(BURN_STREAK - 1) : Tail(s)[i] = s[i + 1]
      BY <1>2, Numbers
    <2> DEFINE r == Append(Tail(s), seconds)
    <2>3. /\ r \in Seq(Nat) /\ Len(r) = BURN_STREAK /\ r[BURN_STREAK] = seconds
          /\ \A i \in 1..(BURN_STREAK - 1) : r[i] = Tail(s)[i]
      BY <2>1, Numbers
    <2>4. Remember(s, seconds) = r
      BY <1>2, Numbers DEF Remember
    <2>5. QED
      BY <1>2, <2>2, <2>3, <2>4, Numbers
  <1>3. QED
    BY <1>1, <1>2, Numbers

\* One outcome keeps the invariant; it raises exactly when work is too long ago.
LEMMA OutcomeKeeps ==
  ASSUME IInv, NEW t \in Task, NEW seconds \in Nat, NEW worked \in BOOLEAN,
         worked <=> seconds >= MIN_PLAUSIBLE_TASK_SECONDS,
         Outcome(t, seconds, worked)
  PROVE  IInv' /\ (Burning(recent') <=> idle' >= BURN_STREAK)
  <1> DEFINE k == Len(recent') - 1
  <1>1. Outcomes /\ Tracks /\ StopsInTime
    BY DEF IInv
  <1>2. /\ recent' \in Seq(Nat)
        /\ Len(recent') = IF Len(recent) < BURN_STREAK THEN Len(recent) + 1 ELSE BURN_STREAK
        /\ recent'[Len(recent')] = seconds
        /\ \A i \in 1..k : recent'[i] = recent[i + Len(recent) - k]
    BY <1>1, RememberElements DEF Outcome, Outcomes
  <1>3. /\ Len(recent) \in Nat /\ Len(recent') \in Nat
        /\ Len(recent) <= BURN_STREAK /\ idle \in Nat
    BY <1>1, <1>2 DEF Outcomes
  <1>4. idle' = IF worked THEN 0 ELSE idle + 1
    BY DEF Outcome
  <1>5. Outcomes'
    BY <1>2, <1>3, <1>4, Numbers DEF Outcomes
  <1>6. Tracks'
    <2>1. CASE worked
      <3>1. idle' = 0 /\ idle' < Len(recent')
        BY <2>1, <1>2, <1>3, <1>4, Numbers
      <3>2. recent'[Len(recent') - idle'] >= MIN_PLAUSIBLE_TASK_SECONDS
        BY <2>1, <3>1, <1>2, <1>3
      <3>3. QED
        BY <3>1, <3>2, <1>3 DEF Tracks
    <2>2. CASE ~worked
      <3>1. seconds < MIN_PLAUSIBLE_TASK_SECONDS /\ idle' = idle + 1
        BY <2>2, <1>4, Numbers
      <3>2. CASE idle < Len(recent) /\ idle' < Len(recent')
        <4>1. /\ recent[Len(recent) - idle] >= MIN_PLAUSIBLE_TASK_SECONDS
              /\ \A i \in 1..Len(recent) :
                   i > Len(recent) - idle => recent[i] < MIN_PLAUSIBLE_TASK_SECONDS
          BY <1>1, <1>3, <3>2 DEF Tracks
        <4>2. Len(recent') - idle' \in 1..k
          BY <1>2, <1>3, <3>1, <3>2
        <4>3. recent'[Len(recent') - idle'] = recent[Len(recent) - idle]
          <5> DEFINE j == Len(recent') - idle'
          <5>1. recent'[j] = recent[j + Len(recent) - k]
            BY <1>2, <4>2
          <5>2. j + Len(recent) - k = Len(recent) - idle
            BY <1>3, <3>1
          <5>3. QED
            BY <5>1, <5>2
        <4>4. ASSUME NEW i \in 1..Len(recent'), i > Len(recent') - idle'
              PROVE  recent'[i] < MIN_PLAUSIBLE_TASK_SECONDS
          <5>1. CASE i = Len(recent')
            BY <5>1, <1>2, <3>1
          <5>2. CASE i \in 1..k
            <6>1. i + Len(recent) - k \in 1..Len(recent)
              BY <5>2, <1>2, <1>3, Numbers
            <6>2. i + Len(recent) - k > Len(recent) - idle
              BY <4>4, <1>3, <3>1
            <6>3. QED
              BY <6>1, <6>2, <5>2, <4>1, <1>2
          <5>3. QED
            BY <5>1, <5>2, <1>3
        <4>5. QED
          BY <3>2, <4>1, <4>3, <4>4 DEF Tracks
      <3>3. CASE ~(idle < Len(recent) /\ idle' < Len(recent'))
        <4>1. \/ idle' = Len(recent')
              \/ idle' > Len(recent') /\ Len(recent') = BURN_STREAK
          BY <1>1, <1>2, <1>3, <3>1, <3>3, Numbers DEF Tracks
        <4>2. ASSUME NEW i \in 1..Len(recent')
              PROVE  recent'[i] < MIN_PLAUSIBLE_TASK_SECONDS
          <5>1. CASE i = Len(recent')
            BY <5>1, <1>2, <3>1
          <5>2. CASE i \in 1..k
            <6>1. i + Len(recent) - k \in 1..Len(recent)
              BY <5>2, <1>2, <1>3, Numbers
            <6>2. i + Len(recent) - k > Len(recent) - idle
              BY <5>2, <1>3, <3>1, <4>1
            <6>3. recent[i + Len(recent) - k] < MIN_PLAUSIBLE_TASK_SECONDS
              BY <6>1, <6>2, <1>1, <1>3 DEF Tracks
            <6>4. QED
              BY <6>3, <5>2, <1>2
          <5>3. QED
            BY <5>1, <5>2, <1>3
        <4>3. QED
          BY <4>1, <4>2 DEF Tracks
      <3>4. QED
        BY <3>2, <3>3
    <2>3. QED
      BY <2>1, <2>2
  <1>7. Burning(recent') <=> idle' >= BURN_STREAK
    <2>1. CASE idle' < Len(recent')
      <3>1. /\ Len(recent') - idle' \in 1..Len(recent')
            /\ recent'[Len(recent') - idle'] \in Nat
            /\ recent'[Len(recent') - idle'] >= MIN_PLAUSIBLE_TASK_SECONDS
        BY <2>1, <1>5, <1>6 DEF Outcomes, Tracks
      <3>2. ~Burning(recent')
        BY <3>1, Numbers DEF Burning
      <3>3. QED
        BY <2>1, <3>2, <1>5, Numbers DEF Outcomes
    <2>2. CASE idle' >= Len(recent')
      <3>1. \A i \in 1..Len(recent') : recent'[i] < MIN_PLAUSIBLE_TASK_SECONDS
        BY <2>2, <1>5, <1>6 DEF Outcomes, Tracks
      <3>2. \/ idle' = Len(recent')
            \/ idle' > Len(recent') /\ Len(recent') = BURN_STREAK
        BY <2>2, <1>5, <1>6 DEF Outcomes, Tracks
      <3>3. QED
        BY <3>1, <3>2, <1>5, Numbers DEF Burning, Outcomes
    <2>3. QED
      BY <2>1, <2>2, <1>3, <1>5 DEF Outcomes
  <1>8. StopsInTime'
    BY <1>7, <1>5, Numbers DEF Outcome, StopsInTime, Outcomes
  <1>9. QED
    BY <1>5, <1>6, <1>7, <1>8 DEF IInv

\* The inductive invariant holds initially.
LEMMA InitIInv == Init => IInv
  BY Numbers DEF Init, IInv, Outcomes, Tracks, StopsInTime

\* Every outcome a task can have is work exactly when it reaches the floor.
LEMMA Plausible ==
  ASSUME "waited" \notin Faults, NEW t \in Task, Step(t)
  PROVE  \/ UNCHANGED <<run, recent, idle>>
         \/ \E seconds \in Nat, worked \in BOOLEAN :
              /\ worked <=> seconds >= MIN_PLAUSIBLE_TASK_SECONDS
              /\ Outcome(t, seconds, worked)
  <1>1. \A seconds \in Wasted :
          seconds \in Nat /\ ~(seconds >= MIN_PLAUSIBLE_TASK_SECONDS)
    BY Numbers DEF Wasted, Fast
  <1>2. 0 \in Nat /\ ~(0 >= MIN_PLAUSIBLE_TASK_SECONDS)
    BY Numbers
  <1>3. /\ MIN_PLAUSIBLE_TASK_SECONDS \in Nat
        /\ MIN_PLAUSIBLE_TASK_SECONDS >= MIN_PLAUSIBLE_TASK_SECONDS
    BY Numbers
  <1>4. CASE Enter(t) \/ PullSucceeds(t)
    BY <1>4 DEF Enter, PullSucceeds
  <1>5. CASE Fail(t) \/ Break(t)
    BY <1>1, <1>5 DEF Fail, Break
  <1>6. CASE Refuse(t)
    BY <1>2, <1>6 DEF Refuse
  <1>7. CASE NapOver(t)
    BY <1>2, <1>7 DEF NapOver
  <1>8. CASE Work(t)
    BY <1>3, <1>8 DEF Work
  <1>9. QED
    BY <1>4, <1>5, <1>6, <1>7, <1>8 DEF Step

\* Every step keeps the invariant and raises only over a burnt streak.
LEMMA NextIInv ==
  ASSUME "waited" \notin Faults, IInv, [Next]_vars
  PROVE  IInv' /\ (run = "up" /\ run' = "raised" => idle' >= BURN_STREAK)
  <1>1. ASSUME UNCHANGED <<recent, idle>>, run' # run => run' = "ended"
        PROVE  IInv' /\ (run = "up" /\ run' = "raised" => idle' >= BURN_STREAK)
    BY <1>1 DEF IInv, Outcomes, Tracks, StopsInTime
  <1>2. ASSUME NEW t \in Task, NEW seconds \in Nat, NEW worked \in BOOLEAN,
               worked <=> seconds >= MIN_PLAUSIBLE_TASK_SECONDS,
               Outcome(t, seconds, worked)
        PROVE  IInv' /\ (run = "up" /\ run' = "raised" => idle' >= BURN_STREAK)
    BY <1>2, OutcomeKeeps DEF Outcome
  <1>3. CASE \E t \in Task : Step(t)
    BY <1>1, <1>2, <1>3, Plausible
  <1>4. CASE Abort \/ RunEnd \/ Ended \/ UNCHANGED vars
    BY <1>1, <1>4 DEF Abort, RunEnd, Ended, vars
  <1>5. QED
    BY <1>3, <1>4 DEF Next

\* A run that goes on did work in its last BURN_STREAK outcomes.
THEOREM Timeliness ==
  ASSUME "waited" \notin Faults
  PROVE  Spec => []StopsInTime
  <1>1. IInv /\ [Next]_vars => IInv'
    BY NextIInv
  <1>2. IInv => StopsInTime
    BY DEF IInv
  <1>3. QED
    BY InitIInv, <1>1, <1>2, PTL DEF Spec

\* A run is stopped only after BURN_STREAK outcomes in a row that did none.
THEOREM Exactness ==
  ASSUME "waited" \notin Faults
  PROVE  Spec => StopsOnlyBurning
  <1>1. IInv /\ [Next]_vars => IInv'
    BY NextIInv
  <1>2. IInv /\ [Next]_vars =>
          [run = "up" /\ run' = "raised" => idle' >= BURN_STREAK]_vars
    BY NextIInv
  <1>3. QED
    BY InitIInv, <1>1, <1>2, PTL DEF Spec, StopsOnlyBurning

-----------------------------------------------------------------------------
\* The doubling counts the subsets of a set, so it is a number and never negative.
LEMMA Doubling == \A k \in Nat : 2^k \in Nat
  <1> SUFFICES ASSUME NEW k \in Nat PROVE 2^k \in Nat
    OBVIOUS
  <1>1. IsFiniteSet(1..k) /\ Cardinality(1..k) = k
    BY FS_Interval
  <1>2. IsFiniteSet(SUBSET (1..k)) /\ Cardinality(SUBSET (1..k)) = 2^k
    BY <1>1, FS_SUBSET
  <1>3. QED
    BY <1>2, FS_CardinalityType

\* However long the block, a nap stays within the cap.
LEMMA BackoffCapped ==
  ASSUME NEW n \in Nat, n >= REFUSAL_STREAK
  PROVE  Backoff(n) \in 0..BACKOFF_CAP_SECONDS
  <1> DEFINE k == n - REFUSAL_STREAK
  <1>1. 2^k \in Nat
    BY Doubling, Numbers
  <1>2. \A f \in Nat : BACKOFF_BASE_SECONDS * f \in Nat
    BY Numbers
  <1>3. BACKOFF_BASE_SECONDS * 2^k \in Nat
    BY <1>1, <1>2
  <1>4. QED
    BY <1>3, Numbers DEF Backoff

\* An outcome keeps the types, whatever it took.
LEMMA OutcomeTyped ==
  ASSUME TypeOK, NEW t \in Task, NEW seconds \in Nat, NEW worked \in BOOLEAN,
         Outcome(t, seconds, worked)
  PROVE  run' \in {"up", "raised", "ended"} /\ pc' \in [Task -> States] /\ Outcomes'
  <1>1. Len(recent') <= BURN_STREAK /\ recent' \in Seq(Nat)
    BY RememberElements, Numbers DEF TypeOK, Outcomes, Outcome
  <1>2. idle' \in Nat
    BY DEF TypeOK, Outcomes, Outcome
  <1>3. QED
    BY <1>1, <1>2 DEF TypeOK, Outcomes, Outcome, States

\* Every step of a task keeps the types.
LEMMA StepTyped ==
  ASSUME TypeOK, NEW t \in Task, Step(t)
  PROVE  TypeOK'
  <1>1. Wasted \subseteq Nat /\ 0 \in Nat /\ MIN_PLAUSIBLE_TASK_SECONDS \in Nat
    BY Numbers DEF Wasted, Fast
  <1>2. CASE Enter(t) \/ PullSucceeds(t)
    <2>1. pc' \in [Task -> States] /\ refusals' \in Nat
      <3>1. CASE Enter(t)
        BY <3>1 DEF Enter, TypeOK, States
      <3>2. CASE PullSucceeds(t)
        BY <3>2 DEF PullSucceeds, TypeOK, States
      <3>3. QED
        BY <1>2, <3>1, <3>2
    <2>2. UNCHANGED <<run, nap, recent, idle>>
      BY <1>2 DEF Enter, PullSucceeds
    <2>3. QED
      BY <2>1, <2>2 DEF TypeOK, Outcomes
  <1>3. CASE Fail(t) \/ Break(t) \/ Work(t)
    <2>1. UNCHANGED <<refusals, nap>>
          /\ \E seconds \in Nat, worked \in BOOLEAN : Outcome(t, seconds, worked)
      <3>1. CASE Fail(t) \/ Break(t)
        BY <1>1, <3>1 DEF Fail, Break
      <3>2. CASE Work(t)
        BY <1>1, <3>2 DEF Work
      <3>3. QED
        BY <1>3, <3>1, <3>2
    <2>2. QED
      BY <2>1, OutcomeTyped DEF TypeOK
  <1>4. CASE Refuse(t)
    <2>1. refusals' = refusals + 1 /\ refusals' \in Nat
      BY <1>4 DEF Refuse, TypeOK
    <2>2. CASE refusals' < REFUSAL_STREAK
      BY <1>4, <2>1, <2>2, OutcomeTyped DEF Refuse, TypeOK
    <2>3. CASE ~(refusals' < REFUSAL_STREAK)
      <3>1. Backoff(refusals') \in 0..BACKOFF_CAP_SECONDS
        BY <2>1, <2>3, BackoffCapped, Numbers
      <3>2. QED
        BY <1>4, <2>1, <2>3, <3>1 DEF Refuse, TypeOK, Outcomes, States
    <2>4. QED
      BY <2>2, <2>3
  <1>5. CASE NapOver(t)
    <2>1. nap' \in [Task -> 0..BACKOFF_CAP_SECONDS]
      BY <1>5, Numbers DEF NapOver, TypeOK
    <2>2. QED
      BY <1>1, <1>5, <2>1, OutcomeTyped DEF NapOver, TypeOK
  <1>6. QED
    BY <1>2, <1>3, <1>4, <1>5 DEF Step

\* No refused worker naps longer than the cap, however many refusals in a row and
\* whatever the tasks took (note_refusal); and what check_progress reads is bounded.
THEOREM TypeCorrect == Spec => []TypeOK
  <1>1. Init => TypeOK
    BY Numbers DEF Init, TypeOK, Outcomes, States
  <1>2. TypeOK /\ [Next]_vars => TypeOK'
    <2> SUFFICES ASSUME TypeOK, [Next]_vars PROVE TypeOK'
      OBVIOUS
    <2>1. CASE \E t \in Task : Step(t)
      BY <2>1, StepTyped
    <2>2. CASE Abort
      BY <2>2, Numbers DEF Abort, TypeOK, Outcomes, States
    <2>3. CASE RunEnd \/ Ended \/ UNCHANGED vars
      BY <2>3 DEF RunEnd, Ended, vars, TypeOK, Outcomes
    <2>4. QED
      BY <2>1, <2>2, <2>3 DEF Next
  <1>3. QED
    BY <1>1, <1>2, PTL DEF Spec

-----------------------------------------------------------------------------
\* The run comes to its end, the part of it that needs no fairness: every step
\* lowers a number, and until the end there is a step to make.

\* How many steps a task and the run have at most before them.
Rank(s) ==
  IF s = "queued" THEN 3 ELSE IF s = "pulling" THEN 2 ELSE
  IF s \in {"working", "napping"} THEN 1 ELSE 0
RunRank(r) == IF r = "up" THEN 2 ELSE IF r = "raised" THEN 1 ELSE 0

Ahead(p) == {x \in Task \X (1..3) : x[2] <= Rank(p[x[1]])}
Left == Cardinality(Ahead(pc)) + RunRank(run)

\* A numeral does not instantiate FS_Interval; a number does.
LEMMA Upto ==
  ASSUME NEW n \in Nat
  PROVE  IsFiniteSet(1..n) /\ Cardinality(1..n) = n
  BY FS_Interval

LEMMA AheadFinite ==
  ASSUME NEW p
  PROVE  IsFiniteSet(Ahead(p)) /\ Cardinality(Ahead(p)) \in 0..(3 * Cardinality(Task))
  <1> DEFINE All == Task \X (1..3)
  <1>1. IsFiniteSet(1..3) /\ Cardinality(1..3) = 3 /\ Cardinality(Task) \in Nat
    BY Upto, TaskFinite, FS_CardinalityType
  <1>2. IsFiniteSet(All) /\ Cardinality(All) = 3 * Cardinality(Task)
    <2>1. IsFiniteSet(All) /\ Cardinality(All) = Cardinality(Task) * Cardinality(1..3)
      BY <1>1, TaskFinite, FS_Product
    <2> HIDE DEF All
    <2>2. QED
      BY <1>1, <2>1
  <1>3. Ahead(p) \subseteq All
    BY DEF Ahead
  <1> HIDE DEF All
  <1>4. QED
    BY <1>2, <1>3, FS_Subset, FS_CardinalityType

\* Tasks that only move on, one of them or the run by a step, lower it.
LEMMA Onward ==
  ASSUME TypeOK, TypeOK',
         \A t \in Task : Rank(pc'[t]) <= Rank(pc[t]),
         RunRank(run') <= RunRank(run),
         RunRank(run') < RunRank(run) \/ \E t \in Task : Rank(pc'[t]) < Rank(pc[t])
  PROVE  Left' < Left
  <1>1. \A t \in Task : Rank(pc[t]) \in 0..3 /\ Rank(pc'[t]) \in 0..3
    BY DEF Rank
  <1>2. Ahead(pc') \subseteq Ahead(pc)
    BY <1>1 DEF Ahead
  <1>3. /\ IsFiniteSet(Ahead(pc)) /\ Cardinality(Ahead(pc)) \in Nat
        /\ IsFiniteSet(Ahead(pc')) /\ Cardinality(Ahead(pc')) \in Nat
    BY AheadFinite, FS_CardinalityType
  <1>4. Cardinality(Ahead(pc')) <= Cardinality(Ahead(pc))
    BY <1>2, <1>3, FS_Subset
  <1>5. ASSUME NEW t \in Task, Rank(pc'[t]) < Rank(pc[t])
        PROVE  Cardinality(Ahead(pc')) < Cardinality(Ahead(pc))
    <2>1. <<t, Rank(pc[t])>> \in Ahead(pc) /\ <<t, Rank(pc[t])>> \notin Ahead(pc')
      BY <1>1, <1>5 DEF Ahead
    <2>2. Ahead(pc') # Ahead(pc)
      BY <2>1
    <2>3. QED
      BY <1>2, <1>3, <2>2, FS_Subset
  <1>6. RunRank(run) \in Nat /\ RunRank(run') \in Nat
    BY DEF RunRank
  <1>7. Left' = Cardinality(Ahead(pc')) + RunRank(run')
    BY DEF Left, Ahead
  <1>8. QED
    BY <1>3, <1>4, <1>5, <1>6, <1>7 DEF Left

LEMMA StepLowers ==
  ASSUME TypeOK, TypeOK', NEW t \in Task, Step(t)
  PROVE  Left' < Left
  <1>1. PICK s \in States : pc' = [pc EXCEPT ![t] = s] /\ Rank(s) < Rank(pc[t])
    <2> USE DEF Rank, States
    <2>1. CASE Enter(t) \/ PullSucceeds(t)
      BY <2>1 DEF Enter, PullSucceeds
    <2>2. CASE Fail(t) \/ Break(t)
      BY <2>2 DEF Fail, Break, Outcome
    <2>3. CASE NapOver(t) \/ Work(t)
      BY <2>3 DEF NapOver, Work, Outcome
    <2>4. CASE Refuse(t)
      <3>1. pc[t] = "pulling" /\ (pc' = [pc EXCEPT ![t] = "done"] \/ pc' = [pc EXCEPT ![t] = "napping"])
        BY <2>4 DEF Refuse, Outcome
      <3>2. QED
        BY <3>1
    <2>5. QED
      BY <2>1, <2>2, <2>3, <2>4 DEF Step
  <1>2. pc \in [Task -> States] /\ \A u \in Task : Rank(pc[u]) \in 0..3
    BY DEF TypeOK, Rank
  <1>3. \A u \in Task : Rank(pc'[u]) <= Rank(pc[u])
    <2> SUFFICES ASSUME NEW u \in Task PROVE Rank(pc'[u]) <= Rank(pc[u])
      OBVIOUS
    <2>1. CASE u = t
      BY <1>1, <1>2, <2>1 DEF Rank
    <2>2. CASE u # t
      <3>1. pc'[u] = pc[u]
        BY <1>1, <1>2, <2>2
      <3>2. QED
        BY <1>2, <3>1
    <2>3. QED
      BY <2>1, <2>2
  <1>4. Rank(pc'[t]) < Rank(pc[t])
    BY <1>1, <1>2
  <1>5. run # "ended" /\ run' \in {run, "raised"}
    BY DEF Step, Enter, Fail, Refuse, NapOver, PullSucceeds, Work, Break, Outcome, OnLoop
  <1>6. RunRank(run') <= RunRank(run)
    BY <1>5 DEF TypeOK, RunRank
  <1>7. QED
    BY <1>3, <1>4, <1>6, Onward

LEMMA NextLowers ==
  ASSUME TypeOK, TypeOK', Next
  PROVE  Left' < Left \/ UNCHANGED vars
  <1>1. CASE \E t \in Task : Step(t)
    BY <1>1, StepLowers
  <1>2. CASE Abort \/ RunEnd
    <2>1. RunRank(run') < RunRank(run) /\ RunRank(run') <= RunRank(run)
      BY <1>2 DEF Abort, RunEnd, RunRank
    <2>2. \A t \in Task : pc'[t] = pc[t] \/ pc'[t] \in {"done", "cancelled"}
      BY <1>2 DEF Abort, RunEnd
    <2>3. \A t \in Task : Rank(pc'[t]) <= Rank(pc[t])
      BY <2>2 DEF Rank
    <2>4. QED
      BY <2>1, <2>3, Onward
  <1>3. CASE Ended
    BY <1>3 DEF Ended
  <1>4. QED
    BY <1>1, <1>2, <1>3 DEF Next

\* A worker that holds the semaphore has a step; with none there it is free.
CanMove ==
  \/ run = "raised"
  \/ run = "up" /\ \A t \in Task : pc[t] = "done"
  \/ run # "ended" /\ \E t \in Task :
       \/ pc[t] \in {"pulling", "working", "napping"}
       \/ pc[t] = "queued" /\ Cardinality(Holding) < Workers

\* A run with a worker makes at most three steps a task and two of its own, whatever the
\* order of outcomes and refusals (guarded, note_refusal), and until it has ended the
\* guard of one of them holds: no backoff and no burnt queue is the last thing it does.
THEOREM Halting ==
  ASSUME Workers # 0
  PROVE  Spec => /\ [](Left \in 0..(3 * Cardinality(Task) + 2))
                 /\ [][Left' < Left]_vars
                 /\ [](run # "ended" => CanMove)
  <1> DEFINE Uncut == run # "ended" => \A t \in Task : pc[t] # "cancelled"
  <1>1. TypeOK => Left \in 0..(3 * Cardinality(Task) + 2)
    <2>1. Cardinality(Task) \in Nat /\ Cardinality(Ahead(pc)) \in 0..(3 * Cardinality(Task))
      BY AheadFinite, TaskFinite, FS_CardinalityType
    <2>2. RunRank(run) \in 0..2
      BY DEF RunRank
    <2>3. QED
      BY <2>1, <2>2 DEF Left
  <1>2. TypeOK /\ TypeOK' /\ [Next]_vars => [Left' < Left]_vars
    BY NextLowers
  <1>3. Init => Uncut
    BY DEF Init
  <1>4. Uncut /\ [Next]_vars => Uncut'
    <2> SUFFICES ASSUME Uncut, [Next]_vars PROVE Uncut'
      OBVIOUS
    <2>1. ASSUME NEW t \in Task, Step(t) PROVE Uncut'
      <3>1. \E s \in {"pulling", "working", "napping", "done"} : pc' = [pc EXCEPT ![t] = s]
        BY <2>1 DEF Step, Enter, Fail, Refuse, NapOver, PullSucceeds, Work, Break, Outcome
      <3>2. run # "ended"
        BY <2>1 DEF Step, Enter, Fail, Refuse, NapOver, PullSucceeds, Work, Break, OnLoop
      <3>3. QED
        BY <3>1, <3>2
    <2>2. CASE Abort \/ RunEnd \/ Ended \/ UNCHANGED vars
      BY <2>2 DEF Abort, RunEnd, Ended, vars
    <2>3. QED
      BY <2>1, <2>2 DEF Next
  <1>5. TypeOK /\ Uncut => (run # "ended" => CanMove)
    <2> SUFFICES ASSUME TypeOK, Uncut, run # "ended", ~CanMove PROVE FALSE
      OBVIOUS
    <2>1. run = "up" /\ \A t \in Task : pc[t] \in {"queued", "done"}
      BY DEF TypeOK, States, CanMove
    <2>2. Holding = {} /\ Cardinality(Holding) = 0
      BY <2>1, FS_EmptySet DEF Holding
    <2>3. \A t \in Task : pc[t] # "queued"
      BY <2>1, <2>2, Numbers DEF CanMove
    <2>4. QED
      BY <2>1, <2>3 DEF CanMove
  <1> HIDE DEF Uncut
  <1>6. QED
    BY <1>1, <1>2, <1>3, <1>4, <1>5, TypeCorrect, PTL DEF Spec

-----------------------------------------------------------------------------
\* Pacing, for the same tasks and workers.

\* Its cardinalities are ours.
LEMMA SameCount == \A S : Pull!Cardinality(S) = Cardinality(S)
  BY DEF Pull!Cardinality, Cardinality

\* Both sets of tasks are finite, the granted ones among the holders.
LEMMA HoldersFinite ==
  /\ IsFiniteSet(Pull!Holding) /\ IsFiniteSet(Pull!Granted)
  /\ Cardinality(Pull!Holding) \in Nat /\ Cardinality(Pull!Granted) \in Nat
  /\ Cardinality(Pull!Granted) <= Cardinality(Pull!Holding)
  <1>1. Pull!Holding \subseteq Task /\ Pull!Granted \subseteq Pull!Holding
    BY DEF Pull!Holding, Pull!Granted
  <1>2. IsFiniteSet(Pull!Holding)
    BY <1>1, TaskFinite, FS_Subset
  <1>3. IsFiniteSet(Pull!Granted) /\ Cardinality(Pull!Granted) <= Cardinality(Pull!Holding)
    BY <1>1, <1>2, FS_Subset
  <1>4. QED
    BY <1>2, <1>3, FS_CardinalityType

\* The same of the next state.
LEMMA HoldersNext ==
  /\ IsFiniteSet(Pull!Holding') /\ IsFiniteSet(Pull!Granted')
  /\ Cardinality(Pull!Holding') \in Nat /\ Cardinality(Pull!Granted') \in Nat
  /\ Cardinality(Pull!Granted') <= Cardinality(Pull!Holding')
  <1>1. Pull!Holding' \subseteq Task /\ Pull!Granted' \subseteq Pull!Holding'
    BY DEF Pull!Holding, Pull!Granted
  <1>2. IsFiniteSet(Pull!Holding')
    BY <1>1, TaskFinite, FS_Subset
  <1>3. IsFiniteSet(Pull!Granted') /\ Cardinality(Pull!Granted') <= Cardinality(Pull!Holding')
    BY <1>1, <1>2, FS_Subset
  <1>4. QED
    BY <1>2, <1>3, FS_CardinalityType

\* What is left after the grants: from it, BurstSafe is arithmetic.
LEMMA Margin ==
  ASSUME Workers <= PULL_RESERVE, Pull!IInv
  PROVE  Pull!BurstSafe
  BY SameCount, HoldersFinite, Numbers, Quota DEF Pull!IInv, Pull!TypeOK, Pull!SlotsLeft, Pull!BurstSafe

\* The inductive invariant holds initially.
LEMMA PacingBegins == Pull!Init => Pull!IInv
  <1> SUFFICES ASSUME Pull!Init PROVE Pull!IInv
    OBVIOUS
  <1>1. Pull!Holding = {} /\ Pull!Granted = {}
    BY DEF Pull!Init, Pull!Holding, Pull!Granted
  <1>2. Pull!TypeOK
    BY DEF Pull!Init, Pull!TypeOK, Pull!States
  <1>3. Pull!InSemaphore
    BY SameCount, <1>1, FS_EmptySet, Numbers, Quota DEF Pull!InSemaphore
  <1>4. Pull!SlotsLeft
    BY <1>1 DEF Pull!SlotsLeft
  <1>5. QED
    BY <1>2, <1>3, <1>4 DEF Pull!IInv

\* Every step keeps it; a grant without a reading voids the margin by saying so.
LEMMA PacingStep ==
  ASSUME Pull!IInv, [Pull!Next]_(Pull!vars)
  PROVE  Pull!IInv'
  <1> USE DEF Pull!States, Pull!Goto
  <1>0. Pull!TypeOK /\ Pull!InSemaphore /\ Pull!SlotsLeft
    BY DEF Pull!IInv
  <1>1. ASSUME NEW t \in Task, Pull!Enter(t) PROVE Pull!IInv'
    <2>1. Pull!TypeOK'
      BY <1>0, <1>1 DEF Pull!Enter, Pull!TypeOK
    <2>2. t \notin Pull!Holding /\ Pull!Holding' = Pull!Holding \cup {t} /\ Pull!Granted' = Pull!Granted
      BY <1>0, <1>1 DEF Pull!Enter, Pull!TypeOK, Pull!Holding, Pull!Granted
    <2>3. Cardinality(Pull!Holding') = Cardinality(Pull!Holding) + 1
      BY <2>2, HoldersFinite, FS_AddElement
    <2>4. Pull!InSemaphore'
      BY SameCount, <1>1, <2>3, HoldersFinite, Numbers, Quota DEF Pull!Enter, Pull!InSemaphore
    <2>5. Pull!SlotsLeft'
      BY <1>0, <1>1, <2>2 DEF Pull!Enter, Pull!SlotsLeft
    <2>6. QED
      BY <2>1, <2>4, <2>5 DEF Pull!IInv
  <1>2. ASSUME NEW t \in Task, Pull!Grant(t) PROVE Pull!IInv'
    <2>1. Pull!TypeOK'
      BY <1>0, <1>2 DEF Pull!Grant, Pull!TypeOK
    <2>2. Pull!Holding' = Pull!Holding
      BY <1>0, <1>2 DEF Pull!Grant, Pull!TypeOK, Pull!Holding
    <2>3. Pull!InSemaphore'
      BY <1>0, <2>2 DEF Pull!InSemaphore
    <2>4. Pull!SlotsLeft'
      BY SameCount, <1>0, <1>2, <2>3, HoldersNext, Numbers, Quota DEF Pull!Grant, Pull!TypeOK, Pull!InSemaphore, Pull!SlotsLeft
    <2>5. QED
      BY <2>1, <2>3, <2>4 DEF Pull!IInv
  <1>3. ASSUME NEW t \in Task, Pull!Nap(t) \/ Pull!Wake(t) PROVE Pull!IInv'
    <2>1. /\ Pull!TypeOK' /\ Pull!Holding' = Pull!Holding /\ Pull!Granted' = Pull!Granted
          /\ remaining' = remaining /\ unpaced' = unpaced
      BY <1>0, <1>3 DEF Pull!Nap, Pull!Wake, Pull!TypeOK, Pull!Holding, Pull!Granted
    <2>2. QED
      BY <1>0, <2>1 DEF Pull!IInv, Pull!InSemaphore, Pull!SlotsLeft
  <1>4. ASSUME NEW t \in Task, Pull!Counted(t) PROVE Pull!IInv'
    <2>1. Pull!TypeOK'
      BY <1>0, <1>4, Numbers, Quota DEF Pull!Counted, Pull!TypeOK
    <2>2. t \in Pull!Granted /\ Pull!Granted' = Pull!Granted \ {t} /\ Pull!Holding' = Pull!Holding
      BY <1>0, <1>4 DEF Pull!Counted, Pull!TypeOK, Pull!Granted, Pull!Holding
    <2>3. Cardinality(Pull!Granted') = Cardinality(Pull!Granted) - 1
      BY <2>2, HoldersFinite, FS_RemoveElement
    <2>4. Pull!SlotsLeft'
      BY SameCount, <1>0, <1>4, <2>2, <2>3, HoldersFinite, Numbers, Quota DEF Pull!Counted, Pull!TypeOK, Pull!SlotsLeft
    <2>5. QED
      BY <1>0, <2>1, <2>2, <2>4 DEF Pull!IInv, Pull!InSemaphore
  <1>5. ASSUME NEW t \in Task, Pull!TooMany(t) \/ Pull!Leave(t) PROVE Pull!IInv'
    <2>1. Pull!TypeOK' /\ remaining' = remaining /\ unpaced' = unpaced
      BY <1>0, <1>5 DEF Pull!TooMany, Pull!Leave, Pull!TypeOK
    <2>2. /\ t \in Pull!Holding /\ Pull!Holding' = Pull!Holding \ {t}
          /\ Pull!Granted' \subseteq Pull!Granted
      BY <1>0, <1>5 DEF Pull!TooMany, Pull!Leave, Pull!TypeOK, Pull!Holding, Pull!Granted
    <2>3. Cardinality(Pull!Holding') <= Cardinality(Pull!Holding)
      BY <2>2, HoldersFinite, FS_Subset
    <2>4. Pull!InSemaphore'
      BY SameCount, <1>0, <2>3, HoldersFinite, HoldersNext, Numbers, Quota DEF Pull!InSemaphore
    <2>5. Cardinality(Pull!Granted') <= Cardinality(Pull!Granted)
      BY <2>2, HoldersFinite, FS_Subset
    <2>6. Pull!SlotsLeft'
      BY SameCount, <1>0, <2>1, <2>2, <2>5, HoldersFinite, HoldersNext, Numbers, Quota DEF Pull!TypeOK, Pull!SlotsLeft
    <2>7. QED
      BY <2>1, <2>4, <2>6 DEF Pull!IInv
  <1>6. CASE Pull!Age
    <2>1. /\ Pull!TypeOK' /\ Pull!Holding' = Pull!Holding /\ Pull!Granted' = Pull!Granted
          /\ remaining' = remaining + 1 /\ unpaced' = unpaced
      BY <1>0, <1>6, Numbers, Quota DEF Pull!Age, Pull!TypeOK, Pull!Holding, Pull!Granted
    <2>2. QED
      BY SameCount, <1>0, <2>1, HoldersFinite, Numbers, Quota DEF Pull!IInv, Pull!TypeOK, Pull!InSemaphore, Pull!SlotsLeft
  <1>7. ASSUME NEW t \in Task, Pull!GrantUnmeasured(t) PROVE Pull!IInv'
    <2>1. Pull!TypeOK' /\ unpaced' /\ Pull!Holding' = Pull!Holding
      BY <1>0, <1>7 DEF Pull!GrantUnmeasured, Pull!TypeOK, Pull!Holding
    <2>2. QED
      BY <1>0, <2>1 DEF Pull!IInv, Pull!InSemaphore, Pull!SlotsLeft
  <1>10. ASSUME NEW t \in Task, Pull!PullFails(t) PROVE Pull!IInv'
    <2>1. Pull!TypeOK' /\ unpaced' = unpaced
      BY <1>0, <1>10, Quota DEF Pull!PullFails, Pull!TypeOK
    <2>2. /\ t \in Pull!Granted /\ Pull!Granted' = Pull!Granted \ {t}
          /\ Pull!Holding' = Pull!Holding \ {t}
      BY <1>0, <1>10 DEF Pull!PullFails, Pull!TypeOK, Pull!Granted, Pull!Holding
    <2>3. /\ Cardinality(Pull!Granted') = Cardinality(Pull!Granted) - 1
          /\ Cardinality(Pull!Holding') <= Cardinality(Pull!Holding)
      BY <2>2, HoldersFinite, FS_RemoveElement, FS_Subset
    <2>4. Pull!InSemaphore'
      BY SameCount, <1>0, <2>3, HoldersFinite, HoldersNext, Numbers DEF Pull!InSemaphore
    <2>5. remaining' >= remaining - 1 /\ Pull!Granted # {}
      BY <1>0, <1>10, <2>2 DEF Pull!PullFails, Pull!TypeOK
    <2>6. Pull!SlotsLeft'
      BY SameCount, <1>0, <2>1, <2>3, <2>5, HoldersFinite, HoldersNext, Numbers, Quota DEF Pull!TypeOK, Pull!SlotsLeft
    <2>7. QED
      BY <2>1, <2>4, <2>6 DEF Pull!IInv
  <1>8. CASE UNCHANGED Pull!vars
    BY <1>0, <1>8 DEF Pull!vars, Pull!IInv, Pull!TypeOK, Pull!InSemaphore, Pull!SlotsLeft, Pull!Holding, Pull!Granted
  <1>9. QED
    BY <1>1, <1>2, <1>3, <1>4, <1>5, <1>6, <1>7, <1>8, <1>10
       DEF Pull!Next, Pull!Step, Pull!Finished

\* Every grant outstanding can be served, and one slot more is left.
THEOREM BurstSafety ==
  ASSUME Workers <= PULL_RESERVE
  PROVE  Pull!Spec => []Pull!BurstSafe
  <1>1. Pull!IInv /\ [Pull!Next]_(Pull!vars) => Pull!IInv'
    BY PacingStep
  <1>2. Pull!IInv => Pull!BurstSafe
    BY Margin
  <1>3. QED
    BY PacingBegins, <1>1, <1>2, PTL DEF Pull!Spec

\* So no pull of a run whose every reading succeeded is answered with a 429.
THEOREM Pacing ==
  ASSUME Workers <= PULL_RESERVE
  PROVE  Pull!Spec => []Pull!NeverRefused
  <1> DEFINE Inv == Pull!IInv /\ Pull!NeverRefused
  <1>1. Pull!Init => Inv
    BY PacingBegins DEF Pull!Init, Pull!NeverRefused
  <1>2. Inv /\ [Pull!Next]_(Pull!vars) => Inv'
    <2> SUFFICES ASSUME Inv, [Pull!Next]_(Pull!vars) PROVE Inv'
      OBVIOUS
    <2>1. Pull!IInv' /\ Pull!BurstSafe /\ Pull!TypeOK
      BY PacingStep, Margin DEF Pull!IInv
    <2>2. ASSUME NEW t \in Task, Pull!TooMany(t) PROVE unpaced
      BY SameCount, <2>1, <2>2, HoldersFinite DEF Pull!TooMany, Pull!BurstSafe, Pull!Granted
    <2>3. Pull!NeverRefused'
      <3>1. ASSUME NEW t \in Task, Pull!Step(t) PROVE Pull!NeverRefused'
        BY <2>1, <2>2, <3>1 DEF Pull!NeverRefused, Pull!TypeOK, Pull!Step, Pull!Enter, Pull!Grant, Pull!GrantUnmeasured,
           Pull!Nap, Pull!Wake, Pull!Counted, Pull!TooMany, Pull!PullFails, Pull!Leave, Pull!Goto
      <3>2. CASE UNCHANGED <<stage, unpaced>>
        BY <3>2 DEF Pull!NeverRefused
      <3>3. QED
        BY <3>1, <3>2 DEF Pull!Next, Pull!Age, Pull!Finished, Pull!vars
    <2>4. QED
      BY <2>1, <2>3
  <1>3. Inv => Pull!NeverRefused
    OBVIOUS
  <1>4. QED
    BY <1>1, <1>2, <1>3, PTL DEF Pull!Spec

-----------------------------------------------------------------------------
\* Every step of the run is a step of the burn guard, or leaves it alone ...
LEMMA StepOfGuard == [GuardedNext]_runVars => [Next]_vars
  <1> SUFFICES ASSUME [GuardedNext]_runVars, vars' # vars PROVE Next
    OBVIOUS
  <1>1. ASSUME NEW t \in Task, GuardedStep(t) PROVE Next
    <2>1. Enter(t) \/ Fail(t) \/ Refuse(t) \/ NapOver(t) \/ PullSucceeds(t) \/ Work(t) \/ Break(t)
      BY <1>1 DEF GuardedStep, Admit, FailEarly, Ask, Pace, Pulled, Refused, FailPull, Over
    <2>2. QED
      BY <2>1 DEF Next, Step
  <1>2. CASE Abort \/ RunEnd \/ Ended
    BY <1>2 DEF Next
  <1>3. QED
    BY <1>1, <1>2 DEF GuardedNext, runVars

\* ... and one of the pacing, or leaves that alone.
LEMMA StepOfPacing == [GuardedNext]_runVars => [Pull!Next]_(Pull!vars)
  <1> SUFFICES ASSUME [GuardedNext]_runVars, Pull!vars' # Pull!vars PROVE Pull!Next
    OBVIOUS
  <1>1. UNCHANGED pullVars => Pull!vars' = Pull!vars
    BY DEF pullVars, Pull!vars
  <1>2. ASSUME NEW t \in Task, GuardedStep(t) PROVE Pull!Next
    <2>1. Pull!Step(t)
      BY <1>1, <1>2 DEF GuardedStep, Admit, FailEarly, Ask, Pace, Pulled, Refused, FailPull, Over, Pull!Step
    <2>2. QED
      BY <2>1 DEF Pull!Next
  <1>3. CASE Pull!Age
    BY <1>3 DEF Pull!Next
  <1>4. QED
    BY <1>1, <1>2, <1>3 DEF GuardedNext, runVars

\* The run of tasks that are paced, pulled for and counted, by workers that share one
\* semaphore, is a run of the burn guard and one of the pacing (ImageLease.__aenter__,
\* guarded): neither guard's step is ever taken where the other's forbids it.
THEOREM Composition == GuardedSpec => Spec /\ Pull!Spec
  BY StepOfGuard, StepOfPacing, PTL DEF GuardedSpec, GuardedInit, Spec, Pull!Spec

\* So with at most PULL_RESERVE workers and readings that succeed, no worker of a run is
\* refused for quota, whatever fails, works and backs off (rotation.py 67-69).
THEOREM RunIsPaced ==
  ASSUME Workers <= PULL_RESERVE
  PROVE  GuardedSpec => []NeverRefused
  BY Composition, Pacing, PTL DEF NeverRefused

Unrefused == ~unpaced => refusals = 0 /\ \A t \in Task : pc[t] # "napping"

\* A refusal for quota is what note_refusal counts: where every reading succeeds, the count
\* never leaves zero and no worker backs off, so that the backoff is for readings that fail.
THEOREM Unthrottled ==
  ASSUME Workers <= PULL_RESERVE
  PROVE  GuardedSpec => []Unrefused
  <1>1. GuardedInit => Unrefused
    BY DEF GuardedInit, Init, Unrefused
  <1>2. Unrefused /\ TypeOK /\ Pull!IInv /\ [GuardedNext]_runVars => Unrefused'
    <2> SUFFICES ASSUME Unrefused, TypeOK, Pull!IInv, [GuardedNext]_runVars, ~unpaced' PROVE Unrefused'
      BY DEF Unrefused
    <2>1. [Pull!Next]_(Pull!vars) /\ Pull!TypeOK /\ Pull!BurstSafe
      BY StepOfPacing, Margin DEF Pull!IInv
    <2>2. ~unpaced
      BY <2>1 DEF Pull!Next, Pull!Step, Pull!Enter, Pull!Grant, Pull!GrantUnmeasured, Pull!Nap, Pull!Wake,
         Pull!Counted, Pull!TooMany, Pull!PullFails, Pull!Leave, Pull!Age, Pull!Finished, Pull!vars
    <2>3. ASSUME NEW t \in Task PROVE ~Refused(t) /\ ~NapOver(t)
      <3>1. ~Pull!TooMany(t)
        BY SameCount, <2>1, <2>2, HoldersFinite DEF Pull!TooMany, Pull!BurstSafe, Pull!Granted
      <3>2. QED
        BY <2>2, <3>1 DEF Refused, NapOver, Unrefused
    <2>4. ASSUME NEW t \in Task, GuardedStep(t) PROVE Unrefused'
      <3>1. Enter(t) \/ Fail(t) \/ PullSucceeds(t) \/ Work(t) \/ Break(t) \/ UNCHANGED vars
        BY <2>3, <2>4 DEF GuardedStep, Admit, FailEarly, Ask, Pace, Pulled, FailPull, Over
      <3>2. refusals = 0 /\ \A u \in Task : pc[u] # "napping"
        BY <2>2 DEF Unrefused
      <3>3. QED
        BY <3>1, <3>2 DEF Unrefused, TypeOK, Enter, Fail, PullSucceeds, Work, Break, Outcome, vars
    <2>5. CASE (Abort \/ RunEnd \/ Ended) \/ UNCHANGED vars
      BY <2>2, <2>5 DEF Unrefused, Abort, RunEnd, Ended, vars
    <2>6. QED
      BY <2>4, <2>5 DEF GuardedNext, runVars
  <1>3. Pull!IInv /\ [Pull!Next]_(Pull!vars) => Pull!IInv'
    BY PacingStep
  <1>4. QED
    BY <1>1, <1>2, <1>3, PacingBegins, Composition, TypeCorrect, PTL DEF GuardedSpec, Pull!Spec
=============================================================================
