--------------------------- MODULE Rotation_proofs ---------------------------
(***************************************************************************)
(* Proofs about Rotation, for every set of tasks, every disk and every     *)
(* fault of the environment: IInv is inductive.  The conjuncts that do not *)
(* mention the counter (Steady) are preserved by each action directly; the *)
(* counter needs the cardinality of the set of workers inside a pull.      *)
(* From it follow the properties of the runs, the refinement of            *)
(* ImageCustody, and that a started run neither goes on for ever nor       *)
(* deadlocks.                                                              *)
(***************************************************************************)
EXTENDS Rotation, FiniteSetTheorems, TLAPS

Steady == /\ Shape
          /\ BeforeWork
          /\ LeaseLive
          /\ LockHolder
          /\ SweepReads
          /\ SweepSpares
          /\ KeepCoversLeases
          /\ ReliedImageResident
          /\ NoPullPruned

Outcome == {"landed", "toomany", "failed", "expired"}

-----------------------------------------------------------------------------
\* The set of workers inside a pull is finite, so its cardinality is a number.
LEMMA PullersFinite ==
  /\ IsFiniteSet(Pullers)
  /\ Cardinality(Pullers) \in Nat
  <1>1. Pullers \subseteq Task
    BY DEF Pullers
  <1>2. IsFiniteSet(Pullers)
    BY <1>1, Finite, FS_Subset
  <1>3. QED
    BY <1>2, FS_CardinalityType

\* When _PULLS_IN_FLIGHT is zero no worker is inside a pull, so a prune kills
\* no pull of this run.
LEMMA PruneSparesPulls ==
  ASSUME IInv
  PROVE  Killed(pc) = pc
  <1>1. PruneIsSafe => Pullers = {}
    BY PullersFinite, FS_EmptySet DEF PruneIsSafe, IInv, PullCount
  <1>2. pc \in [Task -> States]
    BY DEF IInv, TypeOK, Shape
  <1>3. ASSUME NEW t \in Task, t \in PruneKills
        PROVE  pc[t] # "pulling"
    BY <1>1, <1>3 DEF PruneKills, Pullers, InPull
  <1>4. Killed(pc) = [t \in Task |-> pc[t]]
    BY <1>3 DEF Killed
  <1>5. QED
    BY <1>2, <1>4

\* main opens the semaphore with a positive number of workers.
LEMMA WorkersNat ==
  ASSUME Shape
  PROVE  (IF Override = 0 THEN Suggested ELSE Override) \in Nat
  <1>1. IsFiniteSet(images)
    BY Finite, FS_Subset DEF Shape
  <1>2. Cardinality(images) \in Nat
    BY <1>1, FS_CardinalityType
  <1>3. Free \in Int
    BY <1>2, Bounds DEF Free
  <1>4. Free \div HEADROOM_FACTOR \in Int
    BY <1>3 DEF HEADROOM_FACTOR
  <1>5. Suggested \in Nat
    BY <1>4, Bounds DEF Suggested
  <1>6. QED
    BY <1>5, Bounds

-----------------------------------------------------------------------------
\* Every step keeps the conjuncts that do not mention the counter.
LEMMA SteadyStep ==
  ASSUME IInv, Next
  PROVE  Steady'
  <1> USE DEF Steady, Shape, BeforeWork, LeaseLive, LockHolder, SweepReads,
              SweepSpares, KeepCoversLeases, ReliedImageResident, NoPullPruned,
              Live, States, Resting, Leasing, InPull, InTail, Relying,
              sweep, tail, docker
  <1>0. Steady
    BY DEF IInv, TypeOK
  \* The sweep: only what `keep` does not hold is removed, and leases that are
  \* dropped are of dead pids.
  <1>1. ASSUME NEW r \in Task, ScanLease(r) PROVE Steady'
    BY <1>0, <1>1 DEF ScanLease
  <1>2. ASSUME NEW r \in Task, RemoveContainer(r) PROVE Steady'
    BY <1>0, <1>2 DEF RemoveContainer, Survivors
  <1>3. ASSUME NEW r \in Task, RemoveImage(r) PROVE Steady'
    BY <1>0, <1>3 DEF RemoveImage, InUse
  <1>4. CASE ListContainers
    BY <1>0, <1>4 DEF ListContainers
  <1>5. CASE ListImages
    BY <1>0, <1>5 DEF ListImages
  \* The process.
  <1>6. CASE Start
    <2>1. PICK ids \in SUBSET Task :
             pc' = [t \in Task |-> IF t \in ids THEN "queued" ELSE "idle"]
      BY <1>6 DEF Start
    <2>2. workers' \in Nat
      BY <1>0, <1>6, WorkersNat DEF Start
    <2>3. run' = "starting" /\ lock' = Main /\ phase' = "leases" /\ keep' = {} /\ todo' = Files
      BY <1>6 DEF Start, BeginSweep
    <2>4. UNCHANGED <<tail, leases, docker>>
      BY <1>6 DEF Start
    <2>5. Shape'
      BY <1>0, <2>1, <2>2, <2>3, <2>4 DEF Files
    <2>6. QED
      BY <1>0, <2>1, <2>3, <2>4, <2>5, Distinct DEF Files
  <1>7. CASE Up
    BY <1>0, <1>7, Distinct DEF Up, EndSweep, SweepOver, PruneKills
  <1>8. CASE Kill
    BY <1>0, <1>8, Distinct DEF Kill, ProcessEnds, EndSweep, CanFail
  <1>9. CASE RunEnd
    BY <1>0, <1>9, Distinct DEF RunEnd, ProcessEnds, EndSweep
  <1>10. CASE Exit
    BY <1>0, <1>10, Distinct DEF Exit, ProcessEnds, EndSweep
  <1>11. CASE CancelAll
    BY <1>0, <1>11 DEF CancelAll
  \* A worker.
  <1>12. ASSUME NEW t \in Task, Enter(t) PROVE Steady'
    BY <1>0, <1>12, Distinct DEF Enter, OnLoop
  <1>13. ASSUME NEW t \in Task, Lock(t) PROVE Steady'
    BY <1>0, <1>13, Distinct DEF Lock, OnLoop, BeginSweep, Files
  <1>14. ASSUME NEW t \in Task, Take(t) PROVE Steady'
    BY <1>0, <1>14, Distinct DEF Take, OnLoop, SweepOver, EndSweep
  <1>15. ASSUME NEW t \in Task, NotEnoughDisk(t) PROVE Steady'
    BY <1>0, <1>15, Distinct DEF NotEnoughDisk, OnLoop, SweepOver, BeginTail, EndSweep
  <1>16. ASSUME NEW t \in Task, Pull(t) PROVE Steady'
    BY <1>0, <1>16, Distinct DEF Pull, OnLoop
  <1>17. ASSUME NEW t \in Task, Pulled(t) PROVE Steady'
    BY <1>0, <1>17, Distinct DEF Pulled, OnLoop
  <1>18. ASSUME NEW t \in Task, Refused(t) PROVE Steady'
    BY <1>0, <1>18, Distinct DEF Refused, OnLoop
  <1>19. ASSUME NEW t \in Task, PullFailed(t) PROVE Steady'
    BY <1>0, <1>19, Distinct DEF PullFailed, OnLoop, BeginTail
  <1>20. ASSUME NEW t \in Task, PullExpired(t) PROVE Steady'
    BY <1>0, <1>20, Distinct DEF PullExpired, OnLoop, BeginTail
  <1>21. ASSUME NEW t \in Task, Sized(t) PROVE Steady'
    BY <1>0, <1>21, Distinct DEF Sized, OnLoop
  <1>22. ASSUME NEW t \in Task, SizeExpired(t) PROVE Steady'
    BY <1>0, <1>22, Distinct DEF SizeExpired, OnLoop, BeginTail, CanFail
  <1>23. ASSUME NEW t \in Task, StartContainer(t) PROVE Steady'
    BY <1>0, <1>23, Distinct DEF StartContainer
  <1>24. ASSUME NEW t \in Task, CheckEnds(t) PROVE Steady'
    BY <1>0, <1>24, Distinct DEF CheckEnds, OnLoop, CanFail
  <1>25. ASSUME NEW t \in Task, Rmi(t) PROVE Steady'
    BY <1>0, <1>25, Distinct DEF Rmi, InUse
  <1>26. ASSUME NEW t \in Task, Release(t) PROVE Steady'
    BY <1>0, <1>26, Distinct DEF Release, OnLoop, BeginTail
  <1>27. ASSUME NEW t \in Task, Unwind(t) PROVE Steady'
    BY <1>0, <1>27, Distinct DEF Unwind, CanFail
  <1>28. ASSUME NEW t \in Task, BackoffOver(t) PROVE Steady'
    BY <1>0, <1>28, Distinct DEF BackoffOver, OnLoop
  <1>29. ASSUME NEW t \in Task, Abandon(t) PROVE Steady'
    BY <1>0, <1>29, Distinct DEF Abandon, SweepOver, EndSweep
  <1>30. ASSUME NEW t \in Task, NEW o \in Outcome, PullEnds(t, o) PROVE Steady'
    BY <1>0, <1>30 DEF PullEnds, Outcome
  \* The tail, whose prune kills no pull.
  <1>31. ASSUME NEW t \in Task, CheckLeak(t) PROVE Steady'
    BY <1>0, <1>31 DEF CheckLeak
  <1>32. ASSUME NEW t \in Task, SweepAll(t) PROVE Steady'
    <2>1. pc' = [pc EXCEPT ![t] = "foot"]
      BY <1>32, PruneSparesPulls DEF SweepAll
    <2>2. containers' \subseteq Task /\ pulling' \subseteq Task /\ leaked' \in BOOLEAN
      BY <1>0, <1>32 DEF SweepAll, Survivors
    <2>3. pc[t] = "sweep" /\ UNCHANGED <<run, workers, sweep, loop, leases, images>>
      BY <1>32 DEF SweepAll
    <2>4. QED
      BY <1>0, <2>1, <2>2, <2>3
  <1>33. ASSUME NEW t \in Task, CheckFootprint(t) PROVE Steady'
    <2>1. pc[t] = "foot" /\ (pc' = [pc EXCEPT ![t] = "done"] \/ pc' = [pc EXCEPT ![t] = "refoot"])
      BY <1>33 DEF CheckFootprint
    <2>2. (run' = run \/ run' = "aborted") /\ loop' \in Task \cup {None} /\ leaked' \in BOOLEAN
      BY <1>0, <1>33 DEF CheckFootprint, Finish
    <2>3. DropDead /\ UNCHANGED <<workers, sweep, docker>>
      BY <1>33 DEF CheckFootprint
    <2>4. QED
      BY <1>0, <2>1, <2>2, <2>3 DEF DropDead
  <1>34. ASSUME NEW t \in Task, Refootprint(t) PROVE Steady'
    <2>1. pc[t] = "refoot" /\ pc' = [pc EXCEPT ![t] = "done"]
      BY <1>34, PruneSparesPulls DEF Refootprint
    <2>2. (run' = run \/ run' = "aborted") /\ loop' = None /\ leaked' = FALSE
      BY <1>34 DEF Refootprint, Finish
    <2>3. containers' \subseteq Task /\ pulling' \subseteq Task
      BY <1>0, <1>34 DEF Refootprint, Survivors
    <2>4. DropDead /\ UNCHANGED <<workers, sweep, images>>
      BY <1>34 DEF Refootprint
    <2>5. QED
      BY <1>0, <2>1, <2>2, <2>3, <2>4 DEF DropDead
  <1>35. ASSUME NEW t \in Task, TailExpired(t) PROVE Steady'
    <2>1. pc[t] \in InTail /\ pc' = [pc EXCEPT ![t] = "done"]
      BY <1>35, PruneSparesPulls DEF TailExpired
    <2>2. run' = "aborted" /\ loop' = None /\ leaked' = FALSE
      BY <1>35 DEF TailExpired
    <2>3. containers' \subseteq Task /\ pulling' \subseteq Task
      BY <1>0, <1>35 DEF TailExpired
    <2>4. (DropDead \/ UNCHANGED leases) /\ UNCHANGED <<workers, sweep, images>>
      BY <1>35 DEF TailExpired
    <2>5. QED
      BY <1>0, <2>1, <2>2, <2>3, <2>4 DEF DropDead
  <1>36. ASSUME NEW t \in Task, SweepExpired(t) PROVE Steady'
    BY <1>0, <1>36, Distinct DEF SweepExpired, OnLoop, BeginTail, EndSweep
  <1>37. ASSUME NEW t \in Task, RmiExpired(t) PROVE Steady'
    BY <1>0, <1>37, Distinct DEF RmiExpired, OnLoop, BeginTail
  <1>38. ASSUME NEW t \in Task, OverlayRefused(t) PROVE Steady'
    BY <1>0, <1>38, Distinct DEF OverlayRefused, OnLoop
  <1>39. QED
    BY <1>1, <1>2, <1>3, <1>4, <1>5, <1>6, <1>7, <1>8, <1>9, <1>10, <1>11, <1>12, <1>13,
       <1>14, <1>15, <1>16, <1>17, <1>18, <1>19, <1>20, <1>21, <1>22, <1>23, <1>24, <1>25, <1>26,
       <1>27, <1>28, <1>29, <1>30, <1>31, <1>32, <1>33, <1>34, <1>35, <1>36, <1>37, <1>38
       DEF Next, Progress, SweepStep, WorkerStep, TailStep, DaemonStep, Outcome

-----------------------------------------------------------------------------
\* Every step keeps the counter equal to the number of workers inside a pull:
\* Pull adds one worker to both, each way out of the await takes it from both,
\* the end of the process and the cancellation clear both.
LEMMA CountStep ==
  ASSUME IInv, Next
  PROVE  PullCount'
  <1> DEFINE Same == pullsInFlight' = pullsInFlight /\ Pullers' = Pullers
  <1> USE DEF InPull, Pullers
  <1>0. PullCount /\ pc \in [Task -> States]
    BY DEF IInv, TypeOK, Shape
  <1>same. ASSUME Same PROVE PullCount'
    BY <1>0, <1>same DEF PullCount
  <1>none. ASSUME pullsInFlight' = 0, Pullers' = {} PROVE PullCount'
    BY <1>none, FS_EmptySet DEF PullCount
  <1>leave. ASSUME NEW t \in Task, pc[t] \in InPull, pullsInFlight' = pullsInFlight - 1,
                   NEW s, s \notin InPull, pc' = [pc EXCEPT ![t] = s]
            PROVE  PullCount'
    <2>1. t \in Pullers /\ Pullers' = Pullers \ {t}
      BY <1>0, <1>leave
    <2>2. Cardinality(Pullers \ {t}) = Cardinality(Pullers) - 1
      BY <2>1, PullersFinite, FS_RemoveElement
    <2>3. QED
      BY <1>0, <1>leave, <2>1, <2>2 DEF PullCount
  <1>1. ASSUME NEW t \in Task, Pull(t) PROVE PullCount'
    <2>1. t \notin Pullers /\ Pullers' = Pullers \cup {t}
      BY <1>0, <1>1 DEF Pull
    <2>2. Cardinality(Pullers \cup {t}) = Cardinality(Pullers) + 1
      BY <2>1, PullersFinite, FS_AddElement
    <2>3. QED
      BY <1>0, <1>1, <2>1, <2>2 DEF PullCount, Pull
  <1>2. ASSUME NEW t \in Task, Pulled(t) PROVE PullCount'
    BY <1>2, <1>leave DEF Pulled
  <1>3. ASSUME NEW t \in Task, Refused(t) PROVE PullCount'
    BY <1>3, <1>leave DEF Refused
  <1>4. ASSUME NEW t \in Task, PullFailed(t) PROVE PullCount'
    BY <1>4, <1>leave DEF PullFailed, BeginTail
  <1>5. ASSUME NEW t \in Task, PullExpired(t) PROVE PullCount'
    BY <1>5, <1>leave DEF PullExpired, BeginTail
  <1>6. ASSUME NEW t \in Task, NEW o \in Outcome, PullEnds(t, o) PROVE PullCount'
    <2>1. Same
      BY <1>0, <1>6 DEF PullEnds, Outcome
    <2>2. QED
      BY <2>1, <1>same
  <1>7. ASSUME NEW t \in Task, SweepAll(t) \/ Refootprint(t) \/ TailExpired(t) PROVE PullCount'
    <2> USE DEF InTail
    <2>1. /\ pc[t] \notin InPull
          /\ pc' = [pc EXCEPT ![t] = "foot"] \/ pc' = [pc EXCEPT ![t] = "done"]
          /\ pullsInFlight' = pullsInFlight
      BY <1>7, PruneSparesPulls DEF SweepAll, Refootprint, TailExpired
    <2>2. Same
      BY <1>0, <2>1
    <2>3. QED
      BY <2>2, <1>same
  <1>8. CASE Start
    <2>1. \A t \in Task : pc[t] \in {"idle", "queued"}
      BY <1>8 DEF Start, IInv, BeforeWork
    <2>2. \A t \in Task : pc'[t] \in {"idle", "queued"}
      BY <1>8 DEF Start
    <2>3. Same
      BY <1>8, <2>1, <2>2 DEF Start
    <2>4. QED
      BY <2>3, <1>same
  <1>9. CASE Kill \/ RunEnd \/ Exit
    <2>1. pullsInFlight' = 0 /\ pc' = [t \in Task |-> "idle"]
      BY <1>9 DEF Kill, RunEnd, Exit, ProcessEnds
    <2>2. Pullers' = {}
      BY <2>1
    <2>3. QED
      BY <2>1, <2>2, <1>none
  <1>10. CASE CancelAll
    <2>1. \A t \in Task : pc'[t] \notin InPull
      BY <1>0, <1>10 DEF CancelAll
    <2>2. pullsInFlight' = 0 /\ Pullers' = {}
      BY <1>10, <2>1 DEF CancelAll
    <2>3. QED
      BY <2>2, <1>none
  <1>11. CASE SweepStep \/ Up
    <2>1. Same
      BY <1>11 DEF SweepStep, ScanLease, RemoveContainer, RemoveImage, ListContainers,
                  ListImages, Up
    <2>2. QED
      BY <2>1, <1>same
  <1>12. ASSUME NEW t \in Task, \/ Enter(t) \/ Lock(t) \/ Sized(t) \/ StartContainer(t)
                                \/ CheckEnds(t) \/ OverlayRefused(t)
      PROVE  PullCount'
    <2>1. Same
      BY <1>0, <1>12 DEF Enter, OverlayRefused, Lock, Sized, StartContainer, CheckEnds
    <2>2. QED
      BY <2>1, <1>same
  <1>13. ASSUME NEW t \in Task, \/ Rmi(t) \/ RmiExpired(t) \/ Release(t) \/ SizeExpired(t)
                                \/ Unwind(t) \/ BackoffOver(t)
      PROVE  PullCount'
    <2>1. Same
      BY <1>0, <1>13 DEF Rmi, Release, SizeExpired, RmiExpired, Unwind, BackoffOver, BeginTail
    <2>2. QED
      BY <2>1, <1>same
  <1>14. ASSUME NEW t \in Task, CheckLeak(t) \/ CheckFootprint(t)
      PROVE  PullCount'
    <2>1. Same
      BY <1>0, <1>14 DEF CheckLeak, CheckFootprint
    <2>2. QED
      BY <2>1, <1>same
  <1>15. ASSUME NEW t \in Task, Take(t) \/ NotEnoughDisk(t) \/ SweepExpired(t) \/ Abandon(t)
      PROVE  PullCount'
    <2>1. pc[t] = "reconciling"
      BY <1>15 DEF Take, NotEnoughDisk, SweepExpired, Abandon, IInv, LockHolder
    <2>2. Same
      BY <1>0, <1>15, <2>1 DEF Take, NotEnoughDisk, SweepExpired, Abandon, BeginTail
    <2>3. QED
      BY <2>2, <1>same
  <1>16. QED
    BY <1>1, <1>2, <1>3, <1>4, <1>5, <1>6, <1>7, <1>8, <1>9, <1>10, <1>11, <1>12, <1>13, <1>14, <1>15
       DEF Next, Progress, WorkerStep, TailStep, DaemonStep, Outcome

-----------------------------------------------------------------------------
\* The inductive invariant holds initially.
LEMMA InitIInv == Init => IInv
  <1> SUFFICES ASSUME Init PROVE IInv
    OBVIOUS
  <1>1. Steady
    BY Distinct DEF Init, Steady, Shape, BeforeWork, LeaseLive, LockHolder,
       SweepReads, SweepSpares, KeepCoversLeases, ReliedImageResident, NoPullPruned,
       Live, States, Resting, Leasing, InPull, InTail, Relying
  <1>2. Pullers = {}
    BY DEF Init, Pullers, InPull
  <1>3. PullCount
    BY <1>2, FS_EmptySet DEF PullCount, Init
  <1>4. QED
    BY <1>1, <1>3 DEF IInv, Steady, TypeOK, Init

\* Every step keeps the inductive invariant: one case per action of Rotation.
LEMMA NextIInv == IInv /\ [Next]_vars => IInv'
  <1> SUFFICES ASSUME IInv, [Next]_vars PROVE IInv'
    OBVIOUS
  <1>1. CASE Next
    <2>1. Steady' /\ PullCount'
      BY <1>1, SteadyStep, CountStep
    <2>2. IsFiniteSet(Pullers')
      BY Finite, FS_Subset DEF Pullers
    <2>3. pullsInFlight' \in Nat
      BY <2>1, <2>2, FS_CardinalityType DEF PullCount
    <2>4. QED
      BY <2>1, <2>3 DEF IInv, Steady, TypeOK
  <1>2. CASE UNCHANGED vars
    BY <1>2 DEF vars, sweep, tail, docker, IInv, TypeOK, Shape, BeforeWork, LeaseLive,
       LockHolder, SweepReads, SweepSpares, KeepCoversLeases, ReliedImageResident,
       NoPullPruned, PullCount, Pullers, Live
  <1>3. QED
    BY <1>1, <1>2

\* The inductive invariant holds in every run, of any number of workers, on any
\* disk, under every fault: the lock, the leases, the sweep's `keep` and the
\* counter agree whatever the threads interleave.
THEOREM Invariance == Spec => []IInv
  <1>1. QED
    BY InitIInv, NextIInv, PTL DEF Spec

\* Type correctness; in it, that _PULLS_IN_FLIGHT never goes below zero.
THEOREM TypeCorrect == Spec => []TypeOK
  <1>1. IInv => TypeOK
    BY DEF IInv
  <1>2. QED
    BY <1>1, Invariance, PTL

\* No sweep, at whatever point of its walk, removes an image a live worker has
\* pulled and not given up.
THEOREM ImageSafety == Spec => []ReliedImageResident
  <1>1. IInv => ReliedImageResident
    BY DEF IInv
  <1>2. QED
    BY <1>1, Invariance, PTL

\* No prune of this run kills a pull of this run (CHANGES.md 11).
THEOREM PruneSafety == Spec => []NoPullPruned
  <1>1. IInv => NoPullPruned
    BY DEF IInv
  <1>2. QED
    BY <1>1, Invariance, PTL

\* While a sweep removes, it keeps every image under a live lease.
THEOREM SweepSafety == Spec => []KeepCoversLeases
  <1>1. IInv => KeepCoversLeases
    BY DEF IInv
  <1>2. QED
    BY <1>1, Invariance, PTL

-----------------------------------------------------------------------------
\* Every step of the rotation is a step of the custody of images or none of it.
LEMMA CustodyStep ==
  ASSUME IInv, Next
  PROVE  Custody!Next \/ UNCHANGED Custody!vars
  <1> DEFINE Stutter == images' = images /\ Live' = Live /\ Inside' = Inside
  <1> USE DEF Live, Inside
  <1>0. pc \in [Task -> States] /\ leases \in [Task -> {"none", "live", "dead"}]
    BY DEF IInv, TypeOK, Shape
  <1>stutter. ASSUME Stutter PROVE Custody!Next \/ UNCHANGED Custody!vars
    BY <1>stutter DEF Custody!vars
  <1>crash. ASSUME ProcessEnds PROVE Custody!Next
    <2>1. images' = images /\ Live' = {} /\ Inside' = {}
      BY <1>0, <1>crash DEF ProcessEnds
    <2>2. Custody!Crash
      BY <2>1 DEF Custody!Crash
    <2>3. QED
      BY <2>2 DEF Custody!Next
  <1>1. ASSUME NEW r \in Task, ScanLease(r) \/ RemoveContainer(r)
      PROVE  Custody!Next \/ UNCHANGED Custody!vars
    <2>1. Stutter
      BY <1>0, <1>1 DEF ScanLease, RemoveContainer, docker
    <2>2. QED
      BY <2>1, <1>stutter
  <1>2. ASSUME NEW r \in Task, RemoveImage(r)
      PROVE  Custody!Next \/ UNCHANGED Custody!vars
    <2>1. UNCHANGED <<pc, leases>> /\ (images' = images \/ images' = images \ {r})
      BY <1>2 DEF RemoveImage
    <2>2. r \notin Live
      BY <1>2 DEF RemoveImage, IInv, SweepSpares, KeepCoversLeases
    <2>3. r \notin Inside
      BY <2>2 DEF IInv, LeaseLive, Leasing
    <2>4. CASE images' = images
      BY <2>1, <2>4, <1>stutter
    <2>5. CASE images' = images \ {r}
      BY <2>1, <2>3, <2>5 DEF Custody!Next, Custody!Evict
    <2>6. QED
      BY <2>1, <2>4, <2>5
  <1>3. CASE ListContainers \/ ListImages \/ Up
    <2>1. Stutter
      BY <1>0, <1>3 DEF ListContainers, ListImages, Up, docker
    <2>2. QED
      BY <2>1, <1>stutter
  <1>4. CASE Start
    <2>1. Inside = {} /\ Inside' = {}
      BY <1>0, <1>4 DEF Start, IInv, BeforeWork
    <2>2. Stutter
      BY <1>4, <2>1 DEF Start, docker
    <2>3. QED
      BY <2>2, <1>stutter
  <1>5. CASE Kill \/ RunEnd \/ Exit
    BY <1>5, <1>crash DEF Kill, RunEnd, Exit
  <1>6. CASE CancelAll
    <2>1. images' = images /\ Live' = Live /\ Inside' = {}
      BY <1>0, <1>6 DEF CancelAll, docker
    <2>2. Custody!StopAll
      BY <2>1 DEF Custody!StopAll
    <2>3. QED
      BY <2>2 DEF Custody!Next
  <1>7. ASSUME NEW t \in Task, \/ Enter(t) \/ OverlayRefused(t) \/ Lock(t) \/ Pull(t) \/ Sized(t)
                               \/ StartContainer(t) \/ BackoffOver(t)
      PROVE  Custody!Next \/ UNCHANGED Custody!vars
    <2>1. Stutter
      BY <1>0, <1>7 DEF Enter, OverlayRefused, Lock, Pull, Sized, StartContainer, BackoffOver, docker
    <2>2. QED
      BY <2>1, <1>stutter
  <1>8. ASSUME NEW t \in Task, Take(t)
      PROVE  Custody!Next \/ UNCHANGED Custody!vars
    <2>1. pc[t] = "reconciling" /\ images' = images
      BY <1>8 DEF Take, IInv, LockHolder, docker
    <2>2. Inside' = Inside /\ Live' = Live \cup {t}
      BY <1>0, <1>8, <2>1 DEF Take
    <2>3. CASE t \in Live
      BY <2>1, <2>2, <2>3, <1>stutter
    <2>4. CASE t \notin Live
      BY <2>1, <2>2, <2>4 DEF Custody!Next, Custody!Own
    <2>5. QED
      BY <2>3, <2>4
  <1>9. ASSUME NEW t \in Task, NotEnoughDisk(t) \/ SweepExpired(t) \/ Abandon(t)
      PROVE  Custody!Next \/ UNCHANGED Custody!vars
    <2>1. pc[t] = "reconciling"
      BY <1>9 DEF NotEnoughDisk, SweepExpired, Abandon, IInv, LockHolder
    <2>2. Stutter
      BY <1>0, <1>9, <2>1 DEF NotEnoughDisk, SweepExpired, Abandon, BeginTail, docker
    <2>3. QED
      BY <2>2, <1>stutter
  <1>10. ASSUME NEW t \in Task, NEW o \in Outcome, PullEnds(t, o)
      PROVE  Custody!Next \/ UNCHANGED Custody!vars
    <2>1. Live' = Live /\ Inside' = Inside
      BY <1>0, <1>10 DEF PullEnds, Outcome
    <2>2. images' = images \/ images' = images \cup {t}
      BY <1>10 DEF PullEnds
    <2>3. CASE images' = images
      BY <2>1, <2>3, <1>stutter
    <2>4. CASE images' = images \cup {t}
      BY <2>1, <2>4 DEF Custody!Next, Custody!Land
    <2>5. QED
      BY <2>2, <2>3, <2>4
  <1>11. ASSUME NEW t \in Task, Pulled(t)
      PROVE  Custody!Next \/ UNCHANGED Custody!vars
    <2>1. t \in images \cap Live
      BY <1>0, <1>11 DEF Pulled, IInv, ReliedImageResident, LeaseLive, Relying, Leasing
    <2>2. images' = images /\ Live' = Live /\ Inside' = Inside \cup {t}
      BY <1>0, <1>11 DEF Pulled, docker
    <2>3. QED
      BY <2>1, <2>2 DEF Custody!Next, Custody!Rely
  <1>12. ASSUME NEW t \in Task, Refused(t) \/ PullFailed(t) \/ Release(t)
      PROVE  Custody!Next \/ UNCHANGED Custody!vars
    <2>1. t \notin Inside /\ images' = images /\ Inside' = Inside /\ Live' = Live \ {t}
      BY <1>0, <1>12 DEF Refused, PullFailed, Release, BeginTail, docker
    <2>2. QED
      BY <2>1 DEF Custody!Next, Custody!Disown
  <1>13. ASSUME NEW t \in Task, PullExpired(t) \/ CheckLeak(t) \/ CheckFootprint(t)
      PROVE  Custody!Next \/ UNCHANGED Custody!vars
    <2>1. Stutter
      BY <1>0, <1>13 DEF PullExpired, BeginTail, CheckLeak, CheckFootprint, DropDead, docker
    <2>2. QED
      BY <2>1, <1>stutter
  <1>14. ASSUME NEW t \in Task, SizeExpired(t) \/ RmiExpired(t) \/ CheckEnds(t)
      PROVE  Custody!Next \/ UNCHANGED Custody!vars
    <2>1. images' = images /\ Live' = Live /\ Inside' = Inside \ {t}
      BY <1>0, <1>14 DEF SizeExpired, RmiExpired, CheckEnds, BeginTail, docker
    <2>2. QED
      BY <2>1 DEF Custody!Next, Custody!StopRelying
  <1>15. ASSUME NEW t \in Task, Rmi(t)
      PROVE  Custody!Next \/ UNCHANGED Custody!vars
    <2>1. t \notin Inside /\ Live' = Live /\ Inside' = Inside
      BY <1>0, <1>15 DEF Rmi
    <2>2. images' = images \/ images' = images \ {t}
      BY <1>15 DEF Rmi
    <2>3. CASE images' = images
      BY <2>1, <2>3, <1>stutter
    <2>4. CASE images' = images \ {t}
      BY <2>1, <2>4 DEF Custody!Next, Custody!Evict
    <2>5. QED
      BY <2>2, <2>3, <2>4
  <1>16. ASSUME NEW t \in Task, Unwind(t)
      PROVE  Custody!Next \/ UNCHANGED Custody!vars
    <2>1. t \notin Inside /\ Inside' = Inside
      BY <1>0, <1>16 DEF Unwind
    <2>2. CASE UNCHANGED <<images, leases>>
      BY <2>1, <2>2, <1>stutter
    <2>3. CASE images' = images /\ Live' = Live \ {t}
      BY <2>1, <2>3 DEF Custody!Next, Custody!Disown
    <2>4. CASE images' = images \ {t} /\ Live' = Live \ {t}
      BY <2>1, <2>4 DEF Custody!Next, Custody!Return
    <2>5. QED
      BY <1>0, <1>16, <2>2, <2>3, <2>4 DEF Unwind
  <1>17. ASSUME NEW t \in Task, SweepAll(t) \/ Refootprint(t) \/ TailExpired(t)
      PROVE  Custody!Next \/ UNCHANGED Custody!vars
    <2>1. /\ pc[t] \in InTail
          /\ pc' = [pc EXCEPT ![t] = "foot"] \/ pc' = [pc EXCEPT ![t] = "done"]
      BY <1>17, PruneSparesPulls DEF SweepAll, Refootprint, TailExpired, InTail
    <2>2. images' = images /\ Live' = Live
      BY <1>0, <1>17 DEF SweepAll, Refootprint, TailExpired, DropDead
    <2>3. Stutter
      BY <1>0, <2>1, <2>2 DEF InTail
    <2>4. QED
      BY <2>3, <1>stutter
  <1>18. QED
    BY <1>1, <1>2, <1>3, <1>4, <1>5, <1>6, <1>7, <1>8, <1>9, <1>10, <1>11, <1>12, <1>13, <1>14, <1>15, <1>16, <1>17
       DEF Next, Progress, SweepStep, WorkerStep, TailStep, DaemonStep, Outcome

\* The rotation implements the custody of images: whatever the interleaving of
\* workers, sweeps, cancellations and kills, an image a live worker is inside
\* stays resident and its own, and only what nobody is inside is evicted.
THEOREM Refinement == Spec => ImplementsCustody
  <1>1. Init => Custody!Init
    BY DEF Init, Custody!Init, Live, Inside
  <1>2. IInv /\ [Next]_vars => [Custody!Next]_(Custody!vars)
    <2>1. ASSUME IInv, Next PROVE [Custody!Next]_(Custody!vars)
      BY <2>1, CustodyStep
    <2>2. ASSUME UNCHANGED vars PROVE UNCHANGED Custody!vars
      BY <2>2 DEF vars, docker, Custody!vars, Live, Inside
    <2>3. QED
      BY <2>1, <2>2
  <1>3. QED
    BY <1>1, <1>2, Invariance, PTL DEF Spec, ImplementsCustody, Custody!Spec

-----------------------------------------------------------------------------
\* Once a run is cancelled, no tail of run_one begins.
Quiet == run = "cancelled" => loop = None

LEMMA QuietStep == Quiet /\ [Next]_vars => Quiet'
  <1> SUFFICES ASSUME Quiet, [Next]_vars PROVE Quiet'
    OBVIOUS
  <1> USE DEF Quiet, tail, OnLoop
  <1>1. CASE SweepStep \/ Up \/ Start
    BY <1>1 DEF SweepStep, ScanLease, RemoveContainer, RemoveImage, ListContainers,
                ListImages, Up, Start
  <1>2. CASE Kill \/ RunEnd \/ Exit \/ CancelAll
    BY <1>2 DEF Kill, RunEnd, Exit, ProcessEnds, CancelAll
  <1>3. ASSUME NEW t \in Task, \/ Enter(t) \/ OverlayRefused(t) \/ Lock(t) \/ BackoffOver(t)
                               \/ Pull(t) \/ Pulled(t) \/ Sized(t)
        PROVE  Quiet'
    BY <1>3 DEF Enter, OverlayRefused, Lock, BackoffOver, Pull, Pulled, Sized
  <1>4. ASSUME NEW t \in Task, StartContainer(t) \/ CheckEnds(t) \/ Rmi(t) \/ Unwind(t) \/ Abandon(t)
        PROVE  Quiet'
    BY <1>4 DEF StartContainer, CheckEnds, Rmi, Unwind, Abandon
  <1>5. ASSUME NEW t \in Task, Refused(t) \/ PullFailed(t) \/ Release(t) \/ Take(t)
        PROVE  Quiet'
    BY <1>5 DEF Refused, PullFailed, Release, Take, BeginTail
  <1>6. ASSUME NEW t \in Task, \/ NotEnoughDisk(t) \/ SweepExpired(t) \/ PullExpired(t)
                               \/ SizeExpired(t) \/ RmiExpired(t) \/ DaemonStep(t)
        PROVE  Quiet'
    BY <1>6 DEF NotEnoughDisk, SweepExpired, PullExpired, SizeExpired, RmiExpired, BeginTail, DaemonStep, PullEnds
  <1>7. ASSUME NEW t \in Task, TailStep(t)
        PROVE  Quiet'
    BY <1>7, Distinct DEF TailStep, CheckLeak, SweepAll, CheckFootprint, Refootprint, TailExpired, Finish
  <1>8. CASE UNCHANGED vars
    BY <1>8 DEF vars
  <1>9. QED
    BY <1>1, <1>2, <1>3, <1>4, <1>5, <1>6, <1>7, <1>8 DEF Next, Progress, WorkerStep

LEMMA Quietness == Spec => []Quiet
  <1>1. Init => Quiet
    BY DEF Init, Quiet
  <1>2. QED
    BY <1>1, QuietStep, PTL DEF Spec

\* A live lease is of a worker between its Take and its release, until the run is
\* cancelled.
LeaseOwned == run # "cancelled" => \A t \in Live : pc[t] \in Leasing

LEMMA LeaseOwnedStep ==
  ASSUME "expire" \notin Faults, IInv, Quiet, LeaseOwned, Next
  PROVE  LeaseOwned'
  <1> USE DEF LeaseOwned, Live, Leasing, tail
  <1>0. pc \in [Task -> States] /\ leases \in [Task -> {"none", "live", "dead"}]
    BY DEF IInv, TypeOK, Shape
  <1>1. CASE SweepStep \/ Up
    <2>1. pc' = pc /\ (run = "cancelled" => run' = "cancelled")
      BY <1>1 DEF SweepStep, ScanLease, RemoveContainer, RemoveImage, ListContainers,
                  ListImages, Up
    <2>2. \A t \in Task : leases'[t] = "live" => leases[t] = "live"
      BY <1>0, <1>1 DEF SweepStep, ScanLease, RemoveContainer, RemoveImage, ListContainers,
                  ListImages, Up
    <2>3. QED
      BY <1>1, <2>1, <2>2 DEF SweepStep, ScanLease, RemoveContainer, RemoveImage,
         ListContainers, ListImages, Up
  <1>2. CASE Start
    <2>1. \A t \in Task : pc[t] \in {"idle", "queued"}
      BY <1>2 DEF Start, IInv, BeforeWork
    <2>2. QED
      BY <1>2, <2>1 DEF Start
  <1>3. CASE Kill \/ RunEnd \/ Exit
    BY <1>0, <1>3 DEF Kill, RunEnd, Exit, ProcessEnds
  <1>4. CASE CancelAll
    BY <1>4 DEF CancelAll
  <1>5. ASSUME NEW t \in Task, Enter(t) \/ OverlayRefused(t) \/ Lock(t) \/ BackoffOver(t)
        PROVE  LeaseOwned'
    BY <1>0, <1>5 DEF Enter, OverlayRefused, Lock, BackoffOver, OnLoop
  <1>6. ASSUME NEW t \in Task, Pull(t) \/ Pulled(t) \/ Sized(t)
        PROVE  LeaseOwned'
    BY <1>0, <1>6 DEF Pull, Pulled, Sized, OnLoop
  <1>7. ASSUME NEW t \in Task, StartContainer(t) \/ CheckEnds(t) \/ Rmi(t)
        PROVE  LeaseOwned'
    BY <1>0, <1>7 DEF StartContainer, CheckEnds, Rmi, OnLoop
  <1>8. ASSUME NEW t \in Task, Refused(t) \/ PullFailed(t) \/ Release(t) \/ Unwind(t)
        PROVE  LeaseOwned'
    BY <1>0, <1>8 DEF Refused, PullFailed, Release, Unwind, OnLoop, BeginTail, CanFail
  <1>9. ASSUME NEW t \in Task, Take(t) \/ NotEnoughDisk(t) \/ SweepExpired(t)
        PROVE  LeaseOwned'
    <2>1. pc[t] = "reconciling"
      BY <1>9 DEF Take, NotEnoughDisk, SweepExpired, IInv, LockHolder
    <2>2. QED
      BY <1>0, <1>9, <2>1 DEF Take, NotEnoughDisk, SweepExpired, OnLoop, BeginTail
  <1>10. ASSUME NEW t \in Task, PullExpired(t) \/ SizeExpired(t) \/ RmiExpired(t) \/ Abandon(t)
         PROVE  LeaseOwned'
    BY <1>0, <1>10 DEF PullExpired, SizeExpired, RmiExpired, Abandon, OnLoop, CanFail, BeginTail
  <1>11. ASSUME NEW t \in Task, DaemonStep(t)
         PROVE  LeaseOwned'
    BY <1>0, <1>11 DEF DaemonStep, PullEnds, CanFail
  <1>12. ASSUME NEW t \in Task, TailStep(t)
         PROVE  LeaseOwned'
    <2>1. /\ pc[t] \in InTail
          /\ \E s \in InTail \cup {"done"} : pc' = [pc EXCEPT ![t] = s]
          /\ run' = run \/ run' = "aborted"
      <3>1. CASE CheckLeak(t)
        BY <3>1 DEF CheckLeak, InTail
      <3>2. CASE SweepAll(t) \/ Refootprint(t) \/ TailExpired(t)
        BY <3>2, PruneSparesPulls DEF SweepAll, Refootprint, TailExpired, Finish, InTail
      <3>3. CASE CheckFootprint(t)
        BY <3>3 DEF CheckFootprint, Finish, InTail
      <3>4. QED
        BY <1>12, <3>1, <3>2, <3>3 DEF TailStep
    <2>2. \A r \in Task : leases'[r] = "live" => leases[r] = "live"
      BY <1>0, <1>12 DEF TailStep, CheckLeak, SweepAll, CheckFootprint, Refootprint, TailExpired, DropDead
    <2>3. run # "cancelled"
      BY <1>12, Distinct DEF Quiet, TailStep, CheckLeak, SweepAll, CheckFootprint, Refootprint, TailExpired
    <2>4. QED
      BY <1>0, <2>1, <2>2, <2>3 DEF InTail
  <1>13. QED
    BY <1>1, <1>2, <1>3, <1>4, <1>5, <1>6, <1>7, <1>8, <1>9, <1>10, <1>11, <1>12
       DEF Next, Progress, WorkerStep

\* As long as no docker command times out, a worker that is through with its task has left
\* no lease (run_one, ImageLease); one is left by a pull, the size of an image or the rmi
\* that times out (rotation.py 575, 589, 599).
THEOREM LeaseOwnership ==
  ASSUME "expire" \notin Faults
  PROVE  Spec => []LeaseHasWorker
  <1>1. Init => LeaseOwned
    BY DEF Init, LeaseOwned, Live
  <1>2. IInv /\ Quiet /\ LeaseOwned /\ [Next]_vars => LeaseOwned'
    <2>1. ASSUME LeaseOwned, UNCHANGED vars PROVE LeaseOwned'
      BY <2>1 DEF LeaseOwned, Live, vars, tail
    <2>2. QED
      BY <2>1, LeaseOwnedStep
  <1>3. LeaseOwned => LeaseHasWorker
    BY DEF LeaseOwned, LeaseHasWorker, Leasing, Resting
  <1>4. QED
    BY <1>1, <1>2, <1>3, Invariance, Quietness, PTL DEF Spec

-----------------------------------------------------------------------------
\* The daemon pulls for workers that wait for it, or waited until the run was cancelled.
PullOwned ==
  \A t \in pulling : pc[t] = IF run = "cancelled" THEN "cancelled" ELSE "pulling"

LEMMA PullOwnedStep ==
  ASSUME "orphan" \notin Faults, IInv, Quiet, PullOwned, Next
  PROVE  PullOwned'
  <1> USE DEF PullOwned, docker
  <1>0. pc \in [Task -> States] /\ pulling \subseteq Task
    BY DEF IInv, TypeOK, Shape
  <1>1. CASE SweepStep \/ Up
    BY <1>0, <1>1 DEF SweepStep, ScanLease, RemoveContainer, RemoveImage, ListContainers,
                      ListImages, Up
  <1>2. CASE Start
    BY <1>0, <1>2 DEF Start, IInv, BeforeWork
  <1>3. CASE Kill
    BY <1>3 DEF Kill, CanFail
  <1>4. CASE RunEnd
    BY <1>0, <1>4 DEF RunEnd, Active, Resting
  <1>5. CASE Exit
    BY <1>0, <1>5 DEF Exit
  <1>6. CASE CancelAll
    BY <1>0, <1>6 DEF CancelAll
  <1>7. ASSUME NEW t \in Task, Enter(t) \/ OverlayRefused(t) \/ Lock(t) \/ BackoffOver(t) \/ Pull(t)
        PROVE  PullOwned'
    BY <1>0, <1>7 DEF Enter, OverlayRefused, Lock, BackoffOver, Pull, OnLoop
  <1>8. ASSUME NEW t \in Task, Pulled(t) \/ Sized(t) \/ StartContainer(t) \/ CheckEnds(t) \/ Rmi(t)
        PROVE  PullOwned'
    BY <1>0, <1>8 DEF Pulled, Sized, StartContainer, CheckEnds, Rmi, OnLoop
  <1>9. ASSUME NEW t \in Task, Refused(t) \/ PullFailed(t) \/ Release(t) \/ Unwind(t)
        PROVE  PullOwned'
    BY <1>0, <1>9 DEF Refused, PullFailed, Release, Unwind, OnLoop, BeginTail
  <1>10. ASSUME NEW t \in Task, Take(t) \/ NotEnoughDisk(t) \/ SweepExpired(t) \/ Abandon(t)
         PROVE  PullOwned'
    <2>1. pc[t] = "reconciling"
      BY <1>10 DEF Take, NotEnoughDisk, SweepExpired, Abandon, IInv, LockHolder
    <2>2. QED
      BY <1>0, <1>10, <2>1 DEF Take, NotEnoughDisk, SweepExpired, Abandon, OnLoop, BeginTail
  <1>11. ASSUME NEW t \in Task, PullExpired(t) \/ SizeExpired(t) \/ RmiExpired(t)
         PROVE  PullOwned'
    BY <1>0, <1>11 DEF PullExpired, SizeExpired, RmiExpired, OnLoop, BeginTail
  <1>12. ASSUME NEW t \in Task, DaemonStep(t)
         PROVE  PullOwned'
    BY <1>0, <1>12 DEF DaemonStep, PullEnds
  <1>13. ASSUME NEW t \in Task, CheckLeak(t) \/ CheckFootprint(t)
         PROVE  PullOwned'
    <2>1. /\ pc[t] \in InTail /\ \E s \in States : pc' = [pc EXCEPT ![t] = s]
          /\ pulling' = pulling /\ (run' = run \/ run' = "aborted")
      BY <1>13 DEF CheckLeak, CheckFootprint, Finish, InTail, States, Resting
    <2>2. run # "cancelled"
      BY <1>13, Distinct DEF Quiet, CheckLeak, CheckFootprint
    <2>3. QED
      BY <1>0, <1>13, <2>1, <2>2 DEF InTail
  <1>14. ASSUME NEW t \in Task, SweepAll(t) \/ Refootprint(t) \/ TailExpired(t)
         PROVE  PullOwned'
    <2>1. /\ pc[t] \in InTail /\ \E s \in States : pc' = [pc EXCEPT ![t] = s]
          /\ pulling' \subseteq pulling /\ (run' = run \/ run' = "aborted")
      BY <1>14, PruneSparesPulls DEF SweepAll, Refootprint, TailExpired, Finish, InTail, States, Resting
    <2>2. run # "cancelled"
      BY <1>14, Distinct DEF Quiet, SweepAll, Refootprint, TailExpired
    <2>3. QED
      BY <1>0, <1>14, <2>1, <2>2 DEF InTail
  <1>15. QED
    BY <1>1, <1>2, <1>3, <1>4, <1>5, <1>6, <1>7, <1>8, <1>9, <1>10, <1>11, <1>12, <1>13, <1>14
       DEF Next, Progress, WorkerStep, TailStep

\* The sweep at the start keeps nothing, and nothing of an earlier run is outside what it
\* has still to walk.
StartSweep ==
  /\ run \in {"down", "starting"} => Live = {} /\ pulling = {}
  /\ run = "starting" =>
       /\ phase # "off" /\ keep = {}
       /\ phase = "leases" => Files \subseteq todo
       /\ phase # "leases" => Files = {}
       /\ phase = "containers" => containers \subseteq todo
       /\ phase = "images" => containers = {} /\ images \subseteq todo \cup Held

\* The process moves in six ways; a tail may also stop it.
LEMMA RunMoves ==
  ASSUME Next
  PROVE  Start \/ Up \/ ProcessEnds \/ CancelAll \/ run' \in {run, "aborted"}
  <1>1. \A t \in Task : TailStep(t) => run' \in {run, "aborted"}
    BY DEF TailStep, CheckLeak, SweepAll, CheckFootprint, Refootprint, TailExpired, Finish, tail
  <1>2. \A t \in Task : WorkerStep(t) => run' = run
    BY DEF WorkerStep, Enter, Lock, Take, NotEnoughDisk, SweepExpired, Pull, Pulled, Refused, PullFailed,
       PullExpired, Sized, SizeExpired, RmiExpired, StartContainer, CheckEnds, Rmi, Release, Unwind,
       BackoffOver, Abandon
  <1>3. SweepStep => run' = run
    BY DEF SweepStep, ScanLease, RemoveContainer, RemoveImage, ListContainers, ListImages
  <1>4. \A t \in Task : DaemonStep(t) => run' = run
    BY DEF DaemonStep, PullEnds
  <1>5. \A t \in Task : OverlayRefused(t) => run' = "aborted"
    BY DEF OverlayRefused
  <1>6. QED
    BY <1>1, <1>2, <1>3, <1>4, <1>5 DEF Next, Progress, Kill, RunEnd, Exit

\* Before the workers are let go, only the sweep moves.
LEMMA NoWorkYet ==
  ASSUME IInv, run \in {"down", "starting"}
  PROVE  \A t \in Task : ~WorkerStep(t) /\ ~TailStep(t) /\ ~OverlayRefused(t)
  <1>1. \A t \in Task : pc[t] \in {"idle", "queued"} /\ lock # t
    BY DEF BeforeWork, IInv, LockHolder
  <1>2. ASSUME NEW t \in Task PROVE ~WorkerStep(t)
    BY <1>1 DEF WorkerStep, OnLoop, Enter, Lock, Take, NotEnoughDisk, SweepExpired, Pull, Pulled,
       Refused, PullFailed, PullExpired, Sized, SizeExpired, RmiExpired, StartContainer, CheckEnds, Rmi,
       Release, Unwind, BackoffOver, Abandon
  <1>3. ASSUME NEW t \in Task PROVE ~TailStep(t)
    BY <1>1 DEF TailStep, CheckLeak, SweepAll, CheckFootprint, Refootprint, TailExpired, InTail
  <1>4. ASSUME NEW t \in Task PROVE ~OverlayRefused(t)
    BY DEF OverlayRefused, OnLoop
  <1>5. QED
    BY <1>2, <1>3, <1>4

LEMMA StartSweepStep ==
  ASSUME "stuck" \notin Faults, IInv, IInv', PullOwned', StartSweep, Next
  PROVE  StartSweep'
  <1> USE DEF StartSweep, Live, Files
  <1>0. /\ Shape /\ BeforeWork
        /\ pc \in [Task -> States] /\ leases \in [Task -> {"none", "live", "dead"}]
    BY DEF IInv, TypeOK, Shape
  <1>1. CASE run' \notin {"down", "starting"}
    BY <1>1
  <1>2. CASE run = "starting" /\ run' = "starting"
    <2>1. /\ \A t \in Task : pc[t] \in {"idle", "queued"}
          /\ \A t \in Task : lock # t
          /\ pulling = {} /\ Live = {} /\ keep = {} /\ phase # "off"
      BY <1>0, <1>2 DEF BeforeWork, IInv, LockHolder
    <2>2. CASE \E r \in Task : ScanLease(r)
      BY <1>0, <1>2, <2>1, <2>2 DEF ScanLease, docker
    <2>3. CASE \E r \in Task : RemoveContainer(r)
      <3>1. PICK r \in Task : RemoveContainer(r)
        BY <2>3
      <3>2. containers' = containers \ {r}
        BY <3>1 DEF RemoveContainer, Survivors, CanFail
      <3>3. QED
        BY <1>0, <1>2, <2>1, <3>1, <3>2 DEF RemoveContainer, docker
    <2>4. CASE \E r \in Task : RemoveImage(r)
      BY <1>0, <1>2, <2>1, <2>4 DEF RemoveImage, InUse
    <2>5. CASE ListContainers \/ ListImages
      BY <1>0, <1>2, <2>1, <2>5 DEF ListContainers, ListImages, docker
    <2>6. \A t \in Task : ~WorkerStep(t) /\ ~TailStep(t) /\ ~DaemonStep(t) /\ ~OverlayRefused(t)
      BY <1>2, <2>1, NoWorkYet DEF DaemonStep, PullEnds
    <2>7. ~(Start \/ Kill \/ Up \/ RunEnd \/ CancelAll \/ Exit)
      BY <1>2 DEF Start, Kill, ProcessEnds, Up, RunEnd, CancelAll, Exit
    <2>8. QED
      BY <2>2, <2>3, <2>4, <2>5, <2>6, <2>7 DEF Next, Progress, SweepStep
  <1>3. CASE run # "starting" /\ run' = "starting"
    <2>1. Start
      BY <1>3, RunMoves DEF ProcessEnds, Up, CancelAll
    <2>2. QED
      BY <1>0, <2>1 DEF Start, BeginSweep, Files, docker
  <1>4. CASE run' = "down"
    <2>1. pulling' = {}
      <3>1. pulling' \subseteq Task /\ \A t \in Task : pc'[t] # "pulling"
        BY <1>4 DEF IInv, TypeOK, Shape, BeforeWork
      <3>2. QED
        BY <1>4, <3>1 DEF PullOwned
    <2>2. CASE ProcessEnds
      BY <1>0, <1>4, <2>1, <2>2 DEF ProcessEnds
    <2>3. CASE ~ProcessEnds
      <3>1. run = "down"
        BY <1>4, <2>3, RunMoves DEF Start, Up, CancelAll
      <3>2. \A t \in Task : ~WorkerStep(t) /\ ~TailStep(t) /\ ~OverlayRefused(t)
        BY <3>1, NoWorkYet
      <3>3. Live' \subseteq Live
        BY <1>0, <1>4, <2>3, <3>1, <3>2 DEF Next, Progress, SweepStep, DaemonStep, PullEnds, ScanLease,
           RemoveContainer, RemoveImage, ListContainers, ListImages, Up, Start, Kill, RunEnd, Exit,
           CancelAll
      <3>4. QED
        BY <1>4, <2>1, <3>1, <3>3
    <2>4. QED
      BY <2>2, <2>3
  <1>5. QED
    BY <1>1, <1>2, <1>3, <1>4

\* Where docker removes the containers it is asked to and a killed run's pull dies with it,
\* the workers are let go on a host that holds nothing of an earlier run but the images
\* another workload uses, however that run ended (main's reconcile).
THEOREM Reclaiming ==
  ASSUME "stuck" \notin Faults, "orphan" \notin Faults
  PROVE  Spec => StartReclaims
  <1> DEFINE Inv == IInv /\ Quiet /\ PullOwned /\ StartSweep
  <1>1. Init => Inv
    <2>1. Init => Quiet /\ PullOwned /\ StartSweep
      BY DEF Init, Quiet, PullOwned, StartSweep, Live
    <2>2. QED
      BY <2>1, InitIInv
  <1>2. Inv /\ [Next]_vars => Inv'
    <2>1. ASSUME Inv, Next PROVE Inv'
      <3>1. IInv' /\ Quiet' /\ PullOwned'
        BY <2>1, NextIInv, QuietStep, PullOwnedStep
      <3>2. QED
        BY <2>1, <3>1, StartSweepStep
    <2>2. ASSUME Inv, UNCHANGED vars PROVE Inv'
      <3>1. IInv' /\ Quiet'
        BY <2>2, NextIInv, QuietStep
      <3>2. QED
        BY <2>2, <3>1 DEF vars, sweep, tail, docker, PullOwned, StartSweep, Live, Files
    <2>3. QED
      BY <2>1, <2>2
  <1>3. Inv /\ [Next]_vars => [run = "starting" /\ run' = "up" =>
                                 images \subseteq Held /\ containers = {} /\ Files = {}]_vars
    <2>1. ASSUME Inv, Next, run = "starting", run' = "up"
          PROVE  images \subseteq Held /\ containers = {} /\ Files = {}
      <3>1. SweepOver
        BY <2>1, RunMoves DEF Start, Up, ProcessEnds, CancelAll
      <3>2. QED
        BY <2>1, <3>1 DEF StartSweep, SweepOver
    <2>2. QED
      BY <2>1
  <1>4. QED
    BY <1>1, <1>2, <1>3, PTL DEF Spec, StartReclaims

-----------------------------------------------------------------------------
\* Which steps take a container away from under a check that goes on.
LEMMA ContainerStep ==
  ASSUME IInv, Next, NEW t \in Task, pc[t] = "checking", t \in containers, t \notin containers',
         pc'[t] = "checking"
  PROVE  \E u \in Task : pc[u] = "sweep" /\ pc'[u] # "sweep"
  <1>0. /\ pc \in [Task -> States] /\ t \in Live
        /\ phase = "containers" => todo \cap keep = {} /\ Live \subseteq keep
    BY DEF IInv, TypeOK, Shape, LeaseLive, Leasing, Live, SweepSpares, KeepCoversLeases
  <1>1. ASSUME NEW r \in Task, RemoveContainer(r) PROVE FALSE
    <2>1. r # t
      BY <1>0, <1>1 DEF RemoveContainer
    <2>2. QED
      BY <1>1, <2>1 DEF RemoveContainer
  <1>2. ASSUME NEW u \in Task, CheckEnds(u) \/ Unwind(u) PROVE FALSE
    <2>1. pc'[u] # "checking"
      BY <1>0, <1>2 DEF CheckEnds, Unwind
    <2>2. QED
      BY <1>2, <2>1 DEF CheckEnds, Unwind
  <1>3. ASSUME NEW u \in Task, SweepAll(u)
        PROVE  \E v \in Task : pc[v] = "sweep" /\ pc'[v] # "sweep"
    BY <1>0, <1>3, PruneSparesPulls DEF SweepAll
  <1>4. ASSUME NEW u \in Task, Refootprint(u) PROVE FALSE
    BY <1>0, <1>4 DEF Refootprint
  <1>10. ASSUME NEW u \in Task, TailExpired(u)
         PROVE  \E v \in Task : pc[v] = "sweep" /\ pc'[v] # "sweep"
    BY <1>0, <1>10, PruneSparesPulls DEF TailExpired, Spared
  <1>5. ASSUME SweepStep, \A r \in Task : ~RemoveContainer(r) PROVE FALSE
    BY <1>5 DEF SweepStep, ScanLease, RemoveImage, ListContainers, ListImages, docker
  <1>6. ASSUME Start \/ Kill \/ Up \/ RunEnd \/ CancelAll \/ Exit PROVE FALSE
    BY <1>6 DEF Start, Kill, Up, RunEnd, CancelAll, Exit, ProcessEnds, docker
  <1>7. ASSUME NEW u \in Task, WorkerStep(u), ~CheckEnds(u), ~Unwind(u) PROVE FALSE
    BY <1>7 DEF WorkerStep, Enter, Lock, Take, NotEnoughDisk, SweepExpired, Pull, Pulled, Refused, PullFailed,
       PullExpired, Sized, SizeExpired, RmiExpired, StartContainer, Rmi, Release, BackoffOver, Abandon, docker
  <1>8. ASSUME NEW u \in Task, \/ DaemonStep(u) \/ CheckLeak(u) \/ CheckFootprint(u)
                               \/ OverlayRefused(u)
        PROVE  FALSE
    BY <1>8 DEF OverlayRefused, DaemonStep, PullEnds, CheckLeak, CheckFootprint, docker
  <1>9. QED
    BY <1>1, <1>2, <1>3, <1>4, <1>5, <1>6, <1>7, <1>8, <1>10 DEF Next, Progress, TailStep

\* Under every fault, no reconcile and no second footprint takes the container of a check that
\* goes on: the first sweep of a tail, reconcile_containers(set()), is the only one that can.
THEOREM ContainerSafety == Spec => OnlySweepAllTakesContainer
  <1>1. IInv /\ [Next]_vars =>
          [\A t \in Task :
             pc[t] = "checking" /\ t \in containers /\ t \notin containers' =>
               pc'[t] # "checking" \/ \E u \in Task : pc[u] = "sweep" /\ pc'[u] # "sweep"]_vars
    BY ContainerStep
  <1>2. QED
    BY <1>1, Invariance, PTL DEF Spec, OnlySweepAllTakesContainer

-----------------------------------------------------------------------------
\* Without a fault, what is on the host while the workers are up is of a worker that will
\* remove it, so no tail finds residue.
Holding == {"landed", "sizing", "running", "checking", "removing"}
Healthy ==
  /\ run \in {"down", "starting", "up"} /\ leaked = FALSE
  /\ \A t \in Task : /\ pc[t] \notin {"expired", "unwinding", "cancelled", "sweep", "refoot"}
                     /\ pc[t] = "checking" => t \in containers
  /\ run = "up" => /\ \A t \in images : pc[t] \in Holding
                   /\ \A t \in containers : pc[t] = "checking"

LEMMA HealthyStep ==
  ASSUME Faults = {}, Held = {}, IInv, PullOwned, StartSweep, Healthy, Next
  PROVE  Healthy'
  <1> USE DEF Healthy, Holding, docker, tail
  <1>0. /\ pc \in [Task -> States] /\ containers \subseteq Task /\ images \subseteq Task
        /\ pulling \subseteq Task
        /\ \A f : ~CanFail(f)
    BY DEF IInv, TypeOK, Shape, CanFail
  <1>1. CASE SweepStep
    <2>1. /\ UNCHANGED <<run, leaked, pc>> /\ images' \subseteq images /\ containers' \subseteq containers
          /\ \A t \in containers : t \notin containers' => t \in todo /\ phase = "containers"
      BY <1>0, <1>1 DEF SweepStep, ScanLease, RemoveContainer, RemoveImage, ListContainers, ListImages,
                  Survivors
    <2>2. \A t \in Task : pc[t] = "checking" /\ phase = "containers" => t \notin todo
      BY DEF IInv, LeaseLive, Leasing, Live, SweepSpares, KeepCoversLeases
    <2>3. QED
      BY <1>0, <2>1, <2>2
  <1>2. CASE Start
    BY <1>2, <1>0 DEF Start
  <1>3. CASE Up
    <2>1. images = {} /\ containers = {}
      BY <1>3 DEF Up, SweepOver, StartSweep
    <2>2. QED
      BY <1>0, <1>3, <2>1 DEF Up
  <1>4. CASE Kill \/ RunEnd
    BY <1>4 DEF Kill, RunEnd, ProcessEnds
  <1>5. ~CancelAll /\ ~Exit
    BY DEF CancelAll, Exit
  <1>6. ASSUME NEW t \in Task, Enter(t) \/ Lock(t) \/ BackoffOver(t) \/ Pull(t) \/ Sized(t) \/ Pulled(t)
        PROVE  Healthy'
    BY <1>0, <1>6 DEF Enter, Lock, BackoffOver, Pull, Sized, Pulled
  <1>7. ASSUME NEW t \in Task, Refused(t) \/ PullFailed(t) \/ Release(t)
        PROVE  Healthy'
    BY <1>0, <1>7 DEF Refused, PullFailed, Release, BeginTail
  <1>8. ASSUME NEW t \in Task, StartContainer(t) \/ CheckEnds(t)
        PROVE  Healthy'
    BY <1>0, <1>8 DEF StartContainer, CheckEnds
  <1>9. ASSUME NEW t \in Task, Rmi(t)
        PROVE  Healthy'
    BY <1>0, <1>9 DEF Rmi, InUse, IInv, BeforeWork
  <1>10. ASSUME NEW t \in Task, Take(t) \/ NotEnoughDisk(t)
         PROVE  Healthy'
    <2>1. pc[t] = "reconciling"
      BY <1>10 DEF Take, NotEnoughDisk, IInv, LockHolder
    <2>2. QED
      BY <1>0, <1>10, <2>1 DEF Take, NotEnoughDisk, BeginTail
  <1>11. ASSUME NEW t \in Task
         PROVE  /\ ~PullExpired(t) /\ ~SizeExpired(t) /\ ~SweepExpired(t) /\ ~RmiExpired(t)
                /\ ~Unwind(t) /\ ~Abandon(t)
    BY <1>0 DEF SweepExpired, PullExpired, SizeExpired, RmiExpired, Unwind, Abandon
  <1>12. ASSUME NEW t \in Task, DaemonStep(t)
         PROVE  Healthy'
    BY <1>0, <1>12 DEF DaemonStep, PullEnds, PullOwned
  <1>13. ASSUME NEW t \in Task, CheckLeak(t)
         PROVE  Healthy'
    <2>1. run = "up" /\ t \notin images \cup containers
      BY <1>13 DEF CheckLeak, IInv, BeforeWork
    <2>2. pc' = [pc EXCEPT ![t] = "foot"]
      BY <1>13, <2>1 DEF CheckLeak, InUse
    <2>3. QED
      BY <1>0, <1>13, <2>1, <2>2 DEF CheckLeak
  <1>14. ASSUME NEW t \in Task, CheckFootprint(t)
         PROVE  Healthy'
    <2>1. run = "up"
      BY <1>14 DEF CheckFootprint, IInv, BeforeWork
    <2>2. Footprint(images, containers) = {}
      BY <1>0, <2>1 DEF Footprint, IInv, LeaseLive, Leasing, Live
    <2>3. pc' = [pc EXCEPT ![t] = "done"] /\ run' = run /\ leaked' = FALSE
      BY <1>14, <2>2 DEF CheckFootprint, Finish, Residue
    <2>4. QED
      BY <1>0, <1>14, <2>1, <2>3 DEF CheckFootprint
  <1>15. ASSUME NEW t \in Task
         PROVE  ~SweepAll(t) /\ ~Refootprint(t) /\ ~TailExpired(t) /\ ~OverlayRefused(t)
    BY <1>0 DEF SweepAll, Refootprint, TailExpired, OverlayRefused
  <1>16. QED
    BY <1>1, <1>2, <1>3, <1>4, <1>5, <1>6, <1>7, <1>8, <1>9, <1>10, <1>11, <1>12, <1>13, <1>14, <1>15
       DEF Next, Progress, WorkerStep, TailStep

Sound == IInv /\ Quiet /\ PullOwned /\ StartSweep /\ Healthy

LEMMA InitSound == Init => Sound
  <1>1. Init => Quiet /\ PullOwned /\ StartSweep /\ Healthy
    BY DEF Init, Quiet, PullOwned, StartSweep, Live, Healthy
  <1>2. QED
    BY <1>1, InitIInv DEF Sound

LEMMA SoundStep ==
  ASSUME Faults = {}, Held = {}, Sound, [Next]_vars
  PROVE  Sound'
  <1>1. IInv' /\ Quiet'
    BY NextIInv, QuietStep DEF Sound
  <1>2. CASE Next
    <2>1. PullOwned' /\ Healthy'
      BY <1>2, PullOwnedStep, HealthyStep DEF Sound
    <2>2. StartSweep'
      BY <1>1, <1>2, <2>1, StartSweepStep DEF Sound
    <2>3. QED
      BY <1>1, <2>1, <2>2 DEF Sound
  <1>3. CASE UNCHANGED vars
    BY <1>1, <1>3 DEF Sound, vars, sweep, tail, docker, PullOwned, StartSweep, Live, Files, Healthy
  <1>4. QED
    BY <1>2, <1>3

\* Only the semaphore lets a worker in.
LEMMA ActiveShrinks ==
  ASSUME IInv, Next, \A t \in Task : ~Enter(t)
  PROVE  Active' \subseteq Active
  <1> USE DEF Active, Resting
  <1>0. pc \in [Task -> States] /\ \A t \in Task : lock = t => pc[t] = "reconciling"
    BY DEF IInv, TypeOK, Shape, LockHolder
  <1>1. CASE SweepStep \/ Up
    BY <1>1 DEF SweepStep, ScanLease, RemoveContainer, RemoveImage, ListContainers, ListImages, Up
  <1>2. CASE Start \/ Kill \/ RunEnd \/ Exit
    BY <1>2 DEF Start, Kill, RunEnd, Exit, ProcessEnds
  <1>3. CASE CancelAll
    BY <1>0, <1>3 DEF CancelAll
  <1>4. ASSUME NEW t \in Task, WorkerStep(t)
        PROVE  Active' \subseteq Active
    <2>1. pc[t] \notin Resting /\ \E s : pc' = [pc EXCEPT ![t] = s]
      <3>1. CASE Take(t) \/ NotEnoughDisk(t) \/ SweepExpired(t) \/ Abandon(t)
        BY <1>0, <3>1 DEF Take, NotEnoughDisk, SweepExpired, Abandon, BeginTail
      <3>2. CASE ~(Take(t) \/ NotEnoughDisk(t) \/ SweepExpired(t) \/ Abandon(t))
        BY <1>4, <3>2 DEF WorkerStep, Lock, Pull, Pulled, Refused, PullFailed, PullExpired, Sized,
           SizeExpired, RmiExpired, StartContainer, CheckEnds, Rmi, Release, Unwind, BackoffOver, BeginTail
      <3>3. QED
        BY <3>1, <3>2
    <2>2. QED
      BY <1>0, <2>1
  <1>5. ASSUME NEW t \in Task, DaemonStep(t)
        PROVE  Active' \subseteq Active
    BY <1>0, <1>5 DEF DaemonStep, PullEnds
  <1>6. ASSUME NEW t \in Task, TailStep(t)
        PROVE  Active' \subseteq Active
    BY <1>0, <1>6, PruneSparesPulls DEF TailStep, CheckLeak, SweepAll, CheckFootprint, Refootprint, TailExpired
  <1>7. ASSUME NEW t \in Task, OverlayRefused(t)
        PROVE  Active' \subseteq Active
    BY <1>0, <1>7 DEF OverlayRefused
  <1>8. QED
    BY <1>1, <1>2, <1>3, <1>4, <1>5, <1>6, <1>7 DEF Next, Progress

\* The workers are no more than half of what the disk has room for, and work only on a disk
\* that has room for two images.
Bound == IF Capacity \div HEADROOM_FACTOR < 1 THEN 1 ELSE Capacity \div HEADROOM_FACTOR
Room ==
  /\ Cardinality(images) <= Capacity
  /\ Cardinality(Active) <= workers /\ workers <= Bound
  /\ \A t \in Task : pc[t] \in Leasing => Capacity >= HEADROOM_FACTOR

LEMMA Sets ==
  ASSUME Shape
  PROVE  /\ IsFiniteSet(images) /\ Cardinality(images) \in Nat
         /\ IsFiniteSet(Active) /\ Cardinality(Active) \in Nat
  <1>1. images \subseteq Task /\ Active \subseteq Task
    BY DEF Shape, Active
  <1>2. QED
    BY <1>1, Finite, FS_Subset, FS_CardinalityType

LEMMA RoomStep ==
  ASSUME Override = 0, IInv, IInv', Room, Next
  PROVE  Room'
  <1>0. /\ Shape /\ Shape' /\ pc \in [Task -> States] /\ workers \in Nat
        /\ Capacity \in Nat /\ Bound \in Nat /\ Bound >= 1
    BY Bounds DEF IInv, TypeOK, Shape, Bound, HEADROOM_FACTOR
  <1>1. /\ IsFiniteSet(images) /\ Cardinality(images) \in Nat
        /\ IsFiniteSet(Active) /\ Cardinality(Active) \in Nat
        /\ IsFiniteSet(images') /\ Cardinality(images') \in Nat
        /\ IsFiniteSet(Active') /\ Cardinality(Active') \in Nat
    <2>1. images' \subseteq Task /\ Active' \subseteq Task
      BY <1>0 DEF Shape, Active
    <2>2. QED
      BY <1>0, <2>1, Sets, Finite, FS_Subset, FS_CardinalityType
  <1>2. Cardinality(images') <= Capacity
    <2>1. CASE images' \subseteq images
      BY <1>0, <1>1, <2>1, FS_Subset DEF Room
    <2>2. CASE \E t \in Task : t \notin images /\ Free > 0 /\ images' = images \cup {t}
      <3>1. Cardinality(images') = Cardinality(images) + 1 /\ Free > 0
        BY <1>1, <2>2, FS_AddElement
      <3>2. QED
        BY <1>0, <1>1, <3>1 DEF Free
    <2>3. images' \subseteq images \/ \E t \in Task : t \notin images /\ Free > 0 /\ images' = images \cup {t}
      <3>1. CASE \E t \in Task : DaemonStep(t)
        BY <3>1 DEF DaemonStep, PullEnds
      <3>2. CASE \E t \in Task : WorkerStep(t)
        BY <3>2 DEF WorkerStep, Enter, Lock, Take, NotEnoughDisk, SweepExpired, Pull, Pulled, Refused, PullFailed,
           PullExpired, Sized, SizeExpired, RmiExpired, StartContainer, CheckEnds, Rmi, Release, Unwind,
           BackoffOver, Abandon, docker
      <3>3. CASE \E t \in Task : TailStep(t) \/ OverlayRefused(t)
        BY <3>3 DEF OverlayRefused, TailStep, CheckLeak, SweepAll, CheckFootprint, Refootprint, TailExpired, docker
      <3>4. CASE SweepStep \/ Up \/ Start \/ Kill \/ RunEnd \/ CancelAll \/ Exit
        BY <3>4 DEF SweepStep, ScanLease, RemoveContainer, RemoveImage, ListContainers, ListImages,
           Up, Start, Kill, RunEnd, CancelAll, Exit, ProcessEnds, docker
      <3>5. QED
        BY <3>1, <3>2, <3>3, <3>4 DEF Next, Progress
    <2>4. QED
      BY <2>1, <2>2, <2>3
  <1>3. workers' = workers \/ (Active' = {} /\ workers' >= 0 /\ workers' <= Bound)
    <2>1. CASE Start
      <3>1. workers' = Suggested /\ Active' = {}
        BY <2>1 DEF Start, Active, Resting
      <3>2. Free \in Nat /\ Free <= Capacity
        BY <1>0, <1>1 DEF Room, Free
      <3>3. Suggested <= Bound /\ Suggested >= 0
        BY <1>0, <3>2, Bounds DEF Suggested, Bound, HEADROOM_FACTOR
      <3>4. QED
        BY <3>1, <3>3
    <2>2. CASE ProcessEnds
      BY <1>0, <2>2 DEF ProcessEnds, Active, Resting
    <2>3. ASSUME NEW t \in Task, WorkerStep(t)
          PROVE  workers' = workers
      BY <2>3 DEF WorkerStep, Enter, Lock, Take, NotEnoughDisk, SweepExpired, Pull, Pulled, Refused, PullFailed,
         PullExpired, Sized, SizeExpired, RmiExpired, StartContainer, CheckEnds, Rmi, Release, Unwind,
         BackoffOver, Abandon
    <2>4. ASSUME NEW t \in Task, TailStep(t) \/ DaemonStep(t) \/ OverlayRefused(t)
          PROVE  workers' = workers
      BY <2>4 DEF OverlayRefused, TailStep, CheckLeak, SweepAll, CheckFootprint, Refootprint, TailExpired, DaemonStep, PullEnds
    <2>5. SweepStep \/ Up \/ CancelAll => workers' = workers
      BY DEF SweepStep, ScanLease, RemoveContainer, RemoveImage, ListContainers, ListImages,
         Up, CancelAll
    <2>6. Start \/ ProcessEnds \/ workers' = workers
      BY <2>3, <2>4, <2>5 DEF Next, Progress, Kill, RunEnd, Exit
    <2>7. QED
      BY <2>1, <2>2, <2>6
  <1>4. Cardinality(Active') <= workers' /\ workers' <= Bound
    <2>1. CASE Active' = {} /\ workers' >= 0 /\ workers' <= Bound
      BY <2>1, FS_EmptySet
    <2>2. CASE workers' = workers /\ \A t \in Task : ~Enter(t)
      <3>1. Cardinality(Active') <= Cardinality(Active)
        BY <1>1, <2>2, ActiveShrinks, FS_Subset
      <3>2. QED
        BY <1>0, <1>1, <2>2, <3>1 DEF Room
    <2>3. CASE workers' = workers /\ \E t \in Task : Enter(t)
      <3>1. PICK t \in Task : Enter(t)
        BY <2>3
      <3>2. Active' \subseteq Active \cup {t} /\ t \notin Active /\ Cardinality(Active) < workers
        BY <1>0, <3>1 DEF Enter, Active, Resting
      <3>3. IsFiniteSet(Active \cup {t}) /\ Cardinality(Active \cup {t}) = Cardinality(Active) + 1
        BY <1>1, <3>2, FS_AddElement
      <3>4. Cardinality(Active') <= Cardinality(Active) + 1
        BY <3>2, <3>3, FS_Subset
      <3>5. QED
        BY <1>0, <1>1, <2>3, <3>2, <3>4 DEF Room
    <2>4. QED
      BY <1>3, <2>1, <2>2, <2>3
  <1>5. \A t \in Task : pc'[t] \in Leasing => Capacity >= HEADROOM_FACTOR
    <2> USE DEF Leasing
    <2>0. /\ \A t \in Task : lock = t => pc[t] = "reconciling"
          /\ \A t \in Task : pc[t] \in Leasing => Capacity >= HEADROOM_FACTOR
      BY DEF IInv, LockHolder, Room
    <2>1. CASE \E t \in Task : Take(t)
      <3>1. Free >= HEADROOM_FACTOR
        BY <2>1 DEF Take
      <3>2. QED
        BY <1>0, <1>1, <3>1 DEF Free, HEADROOM_FACTOR
    <2>2. ASSUME NEW t \in Task, WorkerStep(t), ~Take(t)
          PROVE  \A u \in Task : pc'[u] \in Leasing => \E v \in Task : pc[v] \in Leasing
      BY <1>0, <2>0, <2>2 DEF WorkerStep, Enter, Lock, NotEnoughDisk, SweepExpired, Pull, Pulled, Refused, PullFailed,
         PullExpired, Sized, SizeExpired, RmiExpired, StartContainer, CheckEnds, Rmi, Release, Unwind,
         BackoffOver, Abandon, BeginTail
    <2>3. ASSUME NEW t \in Task, TailStep(t) \/ DaemonStep(t) \/ OverlayRefused(t)
          PROVE  \A u \in Task : pc'[u] \in Leasing => \E v \in Task : pc[v] \in Leasing
      BY <1>0, <2>3, PruneSparesPulls DEF OverlayRefused, TailStep, CheckLeak, SweepAll, CheckFootprint, Refootprint, TailExpired,
         DaemonStep, PullEnds
    <2>4. ASSUME SweepStep \/ Up \/ Start \/ Kill \/ RunEnd \/ CancelAll \/ Exit
          PROVE  \A u \in Task : pc'[u] \in Leasing => \E v \in Task : pc[v] \in Leasing
      BY <1>0, <2>4 DEF SweepStep, ScanLease, RemoveContainer, RemoveImage, ListContainers, ListImages,
         Up, Start, Kill, RunEnd, CancelAll, Exit, ProcessEnds
    <2>5. QED
      BY <2>0, <2>1, <2>2, <2>3, <2>4 DEF Next, Progress
  <1>6. QED
    BY <1>2, <1>4, <1>5 DEF Room, Bound

\* What is on the disk and what is on its way there are images of different workers.
LEMMA RoomFits ==
  ASSUME IInv, PullOwned, StartSweep, Healthy, Room
  PROVE  DiskFits
  <1>0. /\ Shape /\ Capacity \in Nat /\ workers \in Nat
    BY Bounds DEF IInv, TypeOK, Shape
  <1>1. CASE run # "up"
    <2>1. images \cup pulling = images
      BY <1>1 DEF Healthy, StartSweep
    <2>2. QED
      BY <2>1 DEF DiskFits, Room
  <1>2. CASE run = "up"
    <2>1. \A t \in images \cup pulling : t \in Task /\ pc[t] \in Leasing
      BY <1>0, <1>2 DEF Healthy, PullOwned, Holding, Leasing, Shape
    <2>2. CASE images \cup pulling = {}
      BY <1>0, <2>2, FS_EmptySet DEF DiskFits
    <2>3. CASE images \cup pulling # {}
      <3>1. Capacity >= HEADROOM_FACTOR
        BY <2>1, <2>3 DEF Room
      <3>2. images \cup pulling \subseteq Active
        BY <2>1 DEF Active, Leasing, Resting
      <3>3. /\ IsFiniteSet(images \cup pulling)
            /\ Cardinality(images \cup pulling) <= Cardinality(Active)
            /\ Cardinality(Active) \in Nat
        BY <1>0, <3>2, Sets, FS_Subset
      <3>4. Cardinality(images \cup pulling) \in Nat
        BY <3>3, FS_CardinalityType
      <3>5. Bound <= Capacity /\ Bound \in Nat
        BY <1>0, <3>1 DEF Bound, HEADROOM_FACTOR
      <3>6. QED
        BY <1>0, <3>3, <3>4, <3>5 DEF Room, DiskFits
    <2>4. QED
      BY <2>2, <2>3
  <1>3. QED
    BY <1>1, <1>2

LEMMA SoundRun ==
  ASSUME Faults = {}, Held = {}
  PROVE  Spec => []Sound
  <1>1. Init => Sound
    BY InitSound
  <1>2. Sound /\ [Next]_vars => Sound'
    BY SoundStep
  <1>3. QED
    BY <1>1, <1>2, PTL DEF Spec

\* On a host to itself and without a fault, whatever is killed or refused, no check loses
\* its container (run.py 372).
THEOREM ContainerHealth ==
  ASSUME Faults = {}, Held = {}
  PROVE  Spec => []CheckedContainerExists
  <1>1. Sound => CheckedContainerExists
    BY DEF Sound, Healthy, CheckedContainerExists
  <1>2. QED
    BY <1>1, SoundRun, PTL

\* On such a host, whatever was found there at the start, no guard of the run stops it
\* (CHANGES.md 24).
THEOREM NoFalseAbort ==
  ASSUME Faults = {}, Held = {}
  PROVE  Spec => []NeverAborts
  <1>1. Sound => NeverAborts
    BY DEF Sound, Healthy, NeverAborts
  <1>2. QED
    BY <1>1, SoundRun, PTL

\* On such a host, as long as the operator does not set the number of workers, the images
\* resident and the ones on their way fit on the disk together: the bound taken before the
\* sweep and the headroom asked for before each pull leave room for all (suggested_workers,
\* ensure_headroom).
THEOREM DiskSuffices ==
  ASSUME Faults = {}, Held = {}, Override = 0
  PROVE  Spec => []DiskFits
  <1> DEFINE Inv == Sound /\ Room
  <1>1. Init => Inv
    <2> SUFFICES ASSUME Init PROVE Room
      BY InitSound
    <2>1. Active = {} /\ Cardinality(Active) = 0
      BY FS_EmptySet DEF Init, Active, Resting
    <2>2. Bound >= 1 /\ \A t \in Task : pc[t] \notin Leasing
      BY Bounds DEF Init, Bound, HEADROOM_FACTOR, Leasing
    <2>3. QED
      BY <2>1, <2>2 DEF Init, Room
  <1>2. Inv /\ [Next]_vars => Inv'
    <2>1. ASSUME Inv, Next PROVE Room'
      <3>1. IInv /\ IInv'
        BY <2>1, NextIInv DEF Sound
      <3>2. QED
        BY <2>1, <3>1, RoomStep
    <2>2. ASSUME Inv, UNCHANGED vars PROVE Room'
      BY <2>2 DEF vars, docker, Room, Active
    <2>3. QED
      BY <2>1, <2>2, SoundStep
  <1>3. Inv => DiskFits
    BY RoomFits DEF Sound
  <1>4. QED
    BY <1>1, <1>2, <1>3, PTL DEF Spec

-----------------------------------------------------------------------------
\* Every started run ends, the part of it that needs no fairness: what the run
\* does by itself lowers a number.

\* How many steps a coroutine and the process have at most before them, and how
\* many walks a sweep.
Rank(s) ==
  IF s = "queued" THEN 15 ELSE IF s = "locking" THEN 14 ELSE
  IF s = "reconciling" THEN 13 ELSE IF s = "pacing" THEN 12 ELSE
  IF s = "pulling" THEN 11 ELSE
  IF s \in {"landed", "toomany", "failed", "killed", "expired"} THEN 10 ELSE
  IF s = "sizing" THEN 9 ELSE IF s = "running" THEN 8 ELSE
  IF s = "checking" THEN 7 ELSE IF s = "removing" THEN 6 ELSE
  IF s = "removed" THEN 5 ELSE IF s = "leak" THEN 4 ELSE
  IF s = "sweep" THEN 3 ELSE IF s = "foot" THEN 2 ELSE
  IF s \in {"refoot", "backoff", "unwinding"} THEN 1 ELSE 0
RunRank(r) ==
  IF r = "starting" THEN 4 ELSE IF r = "up" THEN 3 ELSE
  IF r = "aborted" THEN 2 ELSE IF r = "cancelled" THEN 1 ELSE 0
Walks(p) ==
  IF p = "leases" THEN 3 ELSE IF p = "containers" THEN 2 ELSE IF p = "images" THEN 1 ELSE 0

Ahead(p) == {x \in Task \X (1..15) : x[2] <= Rank(p[x[1]])}
Walk     == 2 * Cardinality(Task) + 1
Sweeping(p, listing, pulls) == Walks(p) * Walk + Cardinality(listing) + Cardinality(pulls)

Left == (Cardinality(Ahead(pc)) + RunRank(run)) * (4 * Walk) + Sweeping(phase, todo, pulling)

LEMMA WalkType == Cardinality(Task) \in Nat /\ Walk \in Nat \ {0}
<1>1. Cardinality(Task) \in Nat
  BY Finite, FS_CardinalityType
<1>2. QED
  BY <1>1 DEF Walk

LEMMA RankType == \A s \in States : Rank(s) \in 0..15
  BY DEF Rank, States, Resting, Leasing, InPull, InTail

LEMMA RunRankType ==
  \A r \in {"down", "starting", "up", "aborted", "cancelled"} : RunRank(r) \in 0..4
  BY DEF RunRank

LEMMA SweepingType ==
  ASSUME NEW p \in {"off", "leases", "containers", "images"},
         NEW listing \in SUBSET Task, NEW pulls \in SUBSET Task
  PROVE  /\ Sweeping(p, listing, pulls) \in 0..(4 * Walk - 1)
         /\ IsFiniteSet(listing) /\ Cardinality(listing) \in 0..Cardinality(Task)
         /\ IsFiniteSet(pulls) /\ Cardinality(pulls) \in 0..Cardinality(Task)
<1>1. /\ IsFiniteSet(listing) /\ Cardinality(listing) \in 0..Cardinality(Task)
      /\ IsFiniteSet(pulls) /\ Cardinality(pulls) \in 0..Cardinality(Task)
  BY Finite, FS_Subset, FS_CardinalityType
<1>2. Walks(p) \in 0..3
  BY DEF Walks
<1>3. Sweeping(p, listing, pulls) \in 0..(4 * Walk - 1)
  <2>1. CASE Walks(p) = 0
    BY <1>1, <2>1, WalkType DEF Sweeping, Walk
  <2>2. CASE Walks(p) = 1
    BY <1>1, <2>2, WalkType DEF Sweeping, Walk
  <2>3. CASE Walks(p) = 2
    BY <1>1, <2>3, WalkType DEF Sweeping, Walk
  <2>4. CASE Walks(p) = 3
    BY <1>1, <2>4, WalkType DEF Sweeping, Walk
  <2>5. QED
    BY <1>2, <2>1, <2>2, <2>3, <2>4
<1>4. QED
  BY <1>1, <1>3

LEMMA Upto ==
  ASSUME NEW n \in Nat
  PROVE  IsFiniteSet(1..n) /\ Cardinality(1..n) = n
  BY FS_Interval

LEMMA AheadFinite ==
  ASSUME NEW p
  PROVE  IsFiniteSet(Ahead(p)) /\ Cardinality(Ahead(p)) \in 0..(15 * Cardinality(Task))
<1> DEFINE All == Task \X (1..15)
<1>1. IsFiniteSet(1..15) /\ Cardinality(1..15) = 15
  BY Upto
<1>2. IsFiniteSet(All) /\ Cardinality(All) = 15 * Cardinality(Task)
  <2>1. IsFiniteSet(All) /\ Cardinality(All) = Cardinality(Task) * Cardinality(1..15)
    BY <1>1, Finite, FS_Product
  <2> HIDE DEF All
  <2>2. QED
    BY <1>1, <2>1, WalkType
<1>3. Ahead(p) \subseteq All
  BY DEF Ahead
<1> HIDE DEF All
<1>4. QED
  BY <1>2, <1>3, FS_Subset, FS_CardinalityType

\* A coroutine or the process that moves on outweighs any sweep.
LEMMA Outweighs ==
  ASSUME NEW a \in Nat, NEW b \in Nat, a < b, NEW w \in Nat,
         NEW x \in 0..(w - 1), NEW y \in Nat
  PROVE  a * w + x < b * w + y
<1>1. PICK d \in Nat : b = a + 1 + d
  <2>1. b - a - 1 \in Nat /\ b = a + 1 + (b - a - 1)
    OBVIOUS
  <2>2. QED
    BY <2>1
<1>2. b * w = a * w + w + d * w
  BY <1>1
<1>3. d * w \in Nat /\ a * w \in Nat
  OBVIOUS
<1>4. QED
  BY <1>2, <1>3

LEMMA Onward ==
  ASSUME Shape, Shape',
         \A t \in Task : Rank(pc'[t]) <= Rank(pc[t]),
         RunRank(run') <= RunRank(run),
         RunRank(run') < RunRank(run) \/ \E t \in Task : Rank(pc'[t]) < Rank(pc[t])
  PROVE  Left' < Left
<1>1. /\ pc \in [Task -> States] /\ pc' \in [Task -> States]
      /\ RunRank(run) \in 0..4 /\ RunRank(run') \in 0..4
  BY RunRankType DEF Shape
<1>2. \A t \in Task : Rank(pc[t]) \in 0..15 /\ Rank(pc'[t]) \in 0..15
  BY <1>1, RankType
<1>3. Ahead(pc') \subseteq Ahead(pc)
  BY <1>2 DEF Ahead
<1>4. /\ IsFiniteSet(Ahead(pc)) /\ Cardinality(Ahead(pc)) \in Nat
      /\ IsFiniteSet(Ahead(pc')) /\ Cardinality(Ahead(pc')) \in Nat
  BY AheadFinite, WalkType
<1>5. Cardinality(Ahead(pc')) <= Cardinality(Ahead(pc))
  BY <1>3, <1>4, FS_Subset
<1>6. ASSUME NEW t \in Task, Rank(pc'[t]) < Rank(pc[t])
      PROVE  Cardinality(Ahead(pc')) < Cardinality(Ahead(pc))
  <2>1. <<t, Rank(pc[t])>> \in Ahead(pc) /\ <<t, Rank(pc[t])>> \notin Ahead(pc')
    BY <1>2, <1>6 DEF Ahead
  <2>2. Ahead(pc') # Ahead(pc)
    BY <2>1
  <2>3. QED
    BY <1>3, <1>4, <2>2, FS_Subset
<1> DEFINE a == Cardinality(Ahead(pc)) + RunRank(run)
           b == Cardinality(Ahead(pc')) + RunRank(run')
           x == Sweeping(phase, todo, pulling)
           y == Sweeping(phase', todo', pulling')
<1>7. a \in Nat /\ b \in Nat /\ b < a
  BY <1>1, <1>4, <1>5, <1>6
<1>8. x \in 0..(4 * Walk - 1) /\ y \in 0..(4 * Walk - 1)
  BY SweepingType DEF Shape
<1>9. Left = a * (4 * Walk) + x /\ Left' = b * (4 * Walk) + y
  BY DEF Left, Ahead, Sweeping
<1> HIDE DEF a, b, x, y
<1>10. 4 * Walk \in Nat /\ x \in Nat
  BY <1>8, WalkType
<1>11. QED
  BY <1>7, <1>8, <1>9, <1>10, Outweighs

LEMMA WalksOn ==
  ASSUME Shape, Shape', UNCHANGED <<pc, run>>,
         Sweeping(phase', todo', pulling') < Sweeping(phase, todo, pulling)
  PROVE  Left' < Left
<1>1. /\ Sweeping(phase, todo, pulling) \in 0..(4 * Walk - 1)
      /\ Sweeping(phase', todo', pulling') \in 0..(4 * Walk - 1)
  BY SweepingType DEF Shape
<1>2. Cardinality(Ahead(pc)) \in Nat /\ RunRank(run) \in Nat /\ 4 * Walk \in Nat
  BY AheadFinite, RunRankType, WalkType DEF Shape
<1> DEFINE z == (Cardinality(Ahead(pc)) + RunRank(run)) * (4 * Walk)
           x == Sweeping(phase, todo, pulling)
           y == Sweeping(phase', todo', pulling')
<1>3. z \in Nat
  BY <1>2
<1>4. Left = z + x /\ Left' = z + y
  BY DEF Left, Ahead, Sweeping
<1> HIDE DEF z, x, y
<1>5. x \in Int /\ y \in Int /\ y < x
  BY <1>1, WalkType DEF x, y
<1>6. QED
  BY <1>3, <1>4, <1>5

\* One coroutine moves on, to a state it reaches later.
LEMMA MovesOn ==
  ASSUME Shape, Shape', NEW t \in Task, NEW s \in States,
         pc' = [pc EXCEPT ![t] = s], Rank(s) < Rank(pc[t]),
         RunRank(run') <= RunRank(run)
  PROVE  Left' < Left
<1>1. pc \in [Task -> States]
  BY DEF Shape
<1>2. \A u \in Task : Rank(pc[u]) \in 0..15
  BY <1>1, RankType
<1>3. pc'[t] = s /\ \A u \in Task : u # t => pc'[u] = pc[u]
  BY <1>1
<1>4. \A u \in Task : Rank(pc'[u]) <= Rank(pc[u])
  <2> SUFFICES ASSUME NEW u \in Task PROVE Rank(pc'[u]) <= Rank(pc[u])
    OBVIOUS
  <2>1. Rank(s) \in 0..15 /\ Rank(pc[t]) \in 0..15 /\ Rank(pc[u]) \in 0..15
    BY <1>2, RankType
  <2>2. CASE u = t
    BY <1>3, <2>1, <2>2
  <2>3. CASE u # t
    BY <1>3, <2>1, <2>3
  <2>4. QED
    BY <2>2, <2>3
<1>5. Rank(pc'[t]) < Rank(pc[t])
  BY <1>3
<1>6. QED
  BY <1>4, <1>5, Onward

\* The sweep walks on, or the daemon is through with a pull nobody waits for.
LEMMA SweepWalks ==
  ASSUME Shape, Shape', SweepStep
  PROVE  Left' < Left
<1> DEFINE n == Cardinality(Task)
<1>1. /\ n \in Nat /\ Walk = 2 * n + 1
      /\ IsFiniteSet(todo) /\ Cardinality(todo) \in 0..n
      /\ IsFiniteSet(todo') /\ Cardinality(todo') \in 0..n
      /\ Cardinality(pulling) \in 0..n
  BY WalkType, SweepingType DEF Shape, Walk
<1> HIDE DEF n
<1>2. UNCHANGED <<pc, run, pulling>>
  BY DEF SweepStep, ScanLease, RemoveContainer, RemoveImage, ListContainers, ListImages, docker
<1>3. ASSUME UNCHANGED phase, NEW r \in todo, todo' = todo \ {r} PROVE Left' < Left
  <2>1. Cardinality(todo') < Cardinality(todo)
    <3>1. todo' \subseteq todo /\ todo' # todo
      BY <1>3
    <3>2. QED
      BY <1>1, <3>1, FS_Subset
  <2>2. Walks(phase) * Walk \in Nat
    <3>1. Walks(phase) \in Nat
      BY DEF Walks
    <3>2. QED
      BY <3>1, WalkType
  <2>3. Sweeping(phase', todo', pulling') < Sweeping(phase, todo, pulling)
    BY <1>1, <1>2, <1>3, <2>1, <2>2 DEF Sweeping
  <2>4. QED
    BY <1>2, <2>3, WalksOn
<1>4. ASSUME \/ phase = "leases" /\ phase' = "containers"
             \/ phase = "containers" /\ phase' = "images"
      PROVE  Left' < Left
  <2>1. Sweeping(phase', todo', pulling') < Sweeping(phase, todo, pulling)
    <3>1. Walks(phase) * Walk = Walks(phase') * Walk + Walk
      <4>1. CASE phase = "leases"
        BY <1>4, <4>1, WalkType DEF Walks
      <4>2. CASE phase = "containers"
        BY <1>4, <4>2, WalkType DEF Walks
      <4>3. QED
        BY <1>4, <4>1, <4>2
    <3>2. Walks(phase') * Walk \in Nat
      <4>1. Walks(phase') \in Nat
        BY DEF Walks
      <4>2. QED
        BY <4>1, WalkType
    <3>3. QED
      BY <1>1, <1>2, <3>1, <3>2 DEF Sweeping
  <2>2. QED
    BY <1>2, <2>1, WalksOn
<1>5. ASSUME NEW r \in Task, ScanLease(r) \/ RemoveContainer(r) \/ RemoveImage(r)
      PROVE  Left' < Left
  BY <1>3, <1>5 DEF ScanLease, RemoveContainer, RemoveImage
<1>6. ASSUME ListContainers \/ ListImages PROVE Left' < Left
  <2>1. \/ phase = "leases" /\ phase' = "containers"
        \/ phase = "containers" /\ phase' = "images"
    BY <1>6 DEF ListContainers, ListImages
  <2>2. QED
    BY <1>4, <2>1
<1>7. QED
  BY <1>5, <1>6 DEF SweepStep

LEMMA DaemonOn ==
  ASSUME Shape, Shape', NEW t \in Task, NEW o \in Outcome, PullEnds(t, o)
  PROVE  Left' < Left
<1>1. CASE pc[t] = "pulling"
  <2>1. pc' = [pc EXCEPT ![t] = o] /\ UNCHANGED run
    BY <1>1 DEF PullEnds
  <2>2. o \in States /\ Rank(o) < Rank(pc[t])
    BY <1>1 DEF Outcome, Rank, States, InPull
  <2>3. RunRank(run') <= RunRank(run)
    BY <2>1, RunRankType DEF Shape
  <2>4. QED
    BY <2>1, <2>2, <2>3, MovesOn
<1>2. CASE pc[t] # "pulling"
  <2>1. t \in pulling /\ pulling' = pulling \ {t} /\ UNCHANGED <<pc, run, phase, todo>>
    BY <1>2 DEF PullEnds, sweep
  <2>2. /\ IsFiniteSet(pulling) /\ Cardinality(pulling) \in Nat
        /\ Cardinality(pulling') \in Nat /\ Cardinality(todo) \in Nat
    BY SweepingType, WalkType DEF Shape
  <2>3. Cardinality(pulling') < Cardinality(pulling)
    <3>1. pulling' \subseteq pulling /\ pulling' # pulling
      BY <2>1
    <3>2. QED
      BY <2>2, <3>1, FS_Subset
  <2>4. Walks(phase) * Walk \in Nat
    <3>1. Walks(phase) \in Nat
      BY DEF Walks
    <3>2. QED
      BY <3>1, WalkType
  <2>5. Sweeping(phase', todo', pulling') < Sweeping(phase, todo, pulling)
    BY <2>1, <2>2, <2>3, <2>4 DEF Sweeping
  <2>6. QED
    BY <2>1, <2>5, WalksOn
<1>3. QED
  BY <1>1, <1>2

LEMMA ProcessOn ==
  ASSUME IInv, IInv', Up \/ RunEnd \/ CancelAll \/ Exit
  PROVE  Left' < Left
<1>0. Shape /\ Shape'
  BY DEF IInv, TypeOK
<1>1. \A t \in Task : pc[t] \in States /\ Rank(pc[t]) \in 0..15
  BY <1>0, RankType DEF Shape
<1>2. RunRank(run') < RunRank(run)
  BY DEF Up, RunEnd, CancelAll, Exit, ProcessEnds, RunRank
<1>3. \A t \in Task : Rank(pc'[t]) <= Rank(pc[t])
  <2> SUFFICES ASSUME NEW t \in Task PROVE Rank(pc'[t]) <= Rank(pc[t])
    OBVIOUS
  <2>1. CASE Up
    BY <1>1, <2>1 DEF Up
  <2>2. CASE RunEnd \/ Exit
    <3>1. pc'[t] = "idle"
      BY <2>2 DEF RunEnd, Exit, ProcessEnds
    <3>2. QED
      BY <1>1, <3>1 DEF Rank
  <2>3. CASE CancelAll
    <3>1. \/ pc[t] \in {"running", "checking"} /\ pc'[t] = "unwinding"
          \/ pc'[t] = pc[t]
          \/ pc'[t] = "cancelled"
      BY <2>3 DEF CancelAll
    <3>2. CASE pc[t] \in {"running", "checking"} /\ pc'[t] = "unwinding"
      BY <3>2 DEF Rank
    <3>3. CASE pc'[t] = pc[t]
      BY <1>1, <3>3
    <3>4. CASE pc'[t] = "cancelled"
      BY <1>1, <3>4 DEF Rank
    <3>5. QED
      BY <3>1, <3>2, <3>3, <3>4
  <2>4. QED
    BY <2>1, <2>2, <2>3
<1>4. RunRank(run') <= RunRank(run)
  BY <1>0, <1>2, RunRankType DEF Shape
<1>5. QED
  BY <1>0, <1>2, <1>3, <1>4, Onward

LEMMA WorkerOn ==
  ASSUME IInv, IInv', NEW t \in Task, WorkerStep(t)
  PROVE  Left' < Left
<1>0. Shape /\ Shape' /\ (lock = t => pc[t] = "reconciling")
  BY DEF IInv, TypeOK, LockHolder
<1>1. UNCHANGED run
  BY DEF WorkerStep, Enter, Lock, Take, NotEnoughDisk, SweepExpired, Pull, Pulled, Refused, PullFailed,
         PullExpired, Sized, SizeExpired, RmiExpired, StartContainer, CheckEnds, Rmi, Release, Unwind,
         BackoffOver, Abandon
<1>2. \E s \in States : pc' = [pc EXCEPT ![t] = s] /\ Rank(s) < Rank(pc[t])
  <2> USE DEF Rank, States, Resting, Leasing, InPull, InTail
  <2>1. CASE Enter(t) \/ Lock(t)
    BY <2>1 DEF Enter, Lock
  <2>2. CASE Take(t) \/ NotEnoughDisk(t) \/ SweepExpired(t) \/ Abandon(t)
    BY <1>0, <2>2 DEF Take, NotEnoughDisk, SweepExpired, Abandon, BeginTail
  <2>3. CASE Pull(t) \/ Pulled(t) \/ Refused(t)
    BY <2>3 DEF Pull, Pulled, Refused
  <2>4. CASE PullFailed(t) \/ PullExpired(t)
    BY <2>4 DEF PullFailed, PullExpired, BeginTail
  <2>5. CASE Sized(t) \/ SizeExpired(t) \/ StartContainer(t)
    BY <2>5 DEF Sized, SizeExpired, RmiExpired, StartContainer, BeginTail
  <2>6. CASE CheckEnds(t) \/ Rmi(t) \/ RmiExpired(t)
    BY <2>6 DEF CheckEnds, Rmi, RmiExpired, BeginTail
  <2>7. CASE Release(t) \/ Unwind(t) \/ BackoffOver(t)
    BY <2>7 DEF Release, Unwind, BackoffOver, BeginTail
  <2>8. QED
    BY <2>1, <2>2, <2>3, <2>4, <2>5, <2>6, <2>7 DEF WorkerStep
<1>3. RunRank(run') <= RunRank(run)
  BY <1>0, <1>1, RunRankType DEF Shape
<1>4. QED
  BY <1>0, <1>2, <1>3, MovesOn

LEMMA TailOn ==
  ASSUME IInv, IInv', Quiet, NEW t \in Task, TailStep(t)
  PROVE  Left' < Left
<1>0. Shape /\ Shape' /\ Killed(pc) = pc
  BY PruneSparesPulls DEF IInv, TypeOK
<1>1. run' = run \/ (run' = "aborted" /\ run \in {"up", "aborted"})
  <2>1. loop = t /\ pc[t] \in InTail
    BY DEF TailStep, CheckLeak, SweepAll, CheckFootprint, Refootprint, TailExpired, InTail
  <2>2. t # None
    BY Distinct
  <2>3. run \in {"up", "aborted"}
    BY <1>0, <2>1, <2>2 DEF Quiet, IInv, BeforeWork, InTail, Shape
  <2>4. run' = run \/ run' = "aborted"
    BY DEF TailStep, CheckLeak, SweepAll, CheckFootprint, Refootprint, TailExpired, Finish
  <2>5. QED
    BY <2>3, <2>4
<1>2. PICK s \in States : pc' = [pc EXCEPT ![t] = s] /\ Rank(s) < Rank(pc[t])
  <2> USE DEF Rank, States, Resting, Leasing, InPull, InTail
  <2>1. CASE CheckLeak(t)
    <3>1. pc[t] = "leak" /\ (pc' = [pc EXCEPT ![t] = "sweep"] \/ pc' = [pc EXCEPT ![t] = "foot"])
      BY <2>1 DEF CheckLeak
    <3>2. QED
      BY <3>1
  <2>2. CASE SweepAll(t)
    BY <1>0, <2>2 DEF SweepAll
  <2>3. CASE CheckFootprint(t)
    <3>1. pc[t] = "foot" /\ (pc' = [pc EXCEPT ![t] = "done"] \/ pc' = [pc EXCEPT ![t] = "refoot"])
      BY <2>3 DEF CheckFootprint
    <3>2. QED
      BY <3>1
  <2>4. CASE Refootprint(t) \/ TailExpired(t)
    BY <1>0, <2>4 DEF Refootprint, TailExpired
  <2>5. QED
    BY <2>1, <2>2, <2>3, <2>4 DEF TailStep
<1>3. RunRank(run') <= RunRank(run)
  <2>1. CASE run' = run
    BY <1>0, <2>1, RunRankType DEF Shape
  <2>2. CASE run' = "aborted" /\ run \in {"up", "aborted"}
    BY <2>2 DEF RunRank
  <2>3. QED
    BY <1>1, <2>1, <2>2
<1>4. QED
  BY <1>0, <1>2, <1>3, MovesOn

LEMMA ProgressStep ==
  ASSUME IInv, IInv', Quiet, Progress
  PROVE  Left' < Left
<1>0. Shape /\ Shape'
  BY DEF IInv, TypeOK
<1>1. ASSUME NEW t \in Task, DaemonStep(t) PROVE Left' < Left
  <2>1. PICK o \in Outcome : PullEnds(t, o)
    BY <1>1 DEF DaemonStep, Outcome
  <2>2. QED
    BY <1>0, <2>1, DaemonOn
<1>2. ASSUME NEW t \in Task, WorkerStep(t) PROVE Left' < Left
  BY <1>2, WorkerOn
<1>3. ASSUME NEW t \in Task, TailStep(t) PROVE Left' < Left
  BY <1>3, TailOn
<1>4. CASE SweepStep
  BY <1>0, <1>4, SweepWalks
<1>5. CASE Up \/ RunEnd \/ CancelAll \/ Exit
  BY <1>5, ProcessOn
<1>6. ASSUME NEW t \in Task, OverlayRefused(t) PROVE Left' < Left
  <2>1. pc' = [pc EXCEPT ![t] = "done"] /\ "done" \in States /\ Rank("done") < Rank(pc[t])
    BY <1>6 DEF OverlayRefused, Rank, States, Resting
  <2>2. RunRank(run') <= RunRank(run)
    BY <1>6 DEF OverlayRefused, OnLoop, RunRank
  <2>3. QED
    BY <1>0, <2>1, <2>2, MovesOn
<1>7. QED
  BY <1>1, <1>2, <1>3, <1>4, <1>5, <1>6 DEF Progress

LEMMA LeftType ==
  ASSUME Shape
  PROVE  Left \in 0..((15 * Cardinality(Task) + 5) * (4 * Walk))
<1> DEFINE c == Cardinality(Ahead(pc))
           n == Cardinality(Task)
           w == 4 * Walk
           x == Sweeping(phase, todo, pulling)
           r == RunRank(run)
<1>1. /\ n \in Nat /\ w \in Nat /\ c \in 0..(15 * n) /\ r \in 0..4
      /\ x \in 0..(w - 1)
  BY WalkType, AheadFinite, RunRankType, SweepingType DEF Shape
<1>2. Left = (c + r) * w + x
  BY DEF Left, Ahead, Sweeping
<1> HIDE DEF c, n, w, x, r
<1>3. PICK d \in Nat : 15 * n + 4 = c + r + d
  <2>1. 15 * n + 4 - (c + r) \in Nat /\ 15 * n + 4 = c + r + (15 * n + 4 - (c + r))
    BY <1>1
  <2>2. QED
    BY <2>1
<1>4. (15 * n + 5) * w = (c + r) * w + d * w + w
  <2>1. 15 * n + 5 = c + r + d + 1
    BY <1>1, <1>3
  <2>2. (c + r + d + 1) * w = (c + r) * w + d * w + w
    BY <1>1
  <2>3. QED
    BY <2>1, <2>2
<1>5. d * w \in Nat /\ (c + r) * w \in Nat
  BY <1>1
<1>6. (15 * n + 5) * w \in Int
  BY <1>1
<1>7. Left \in 0..((15 * n + 5) * w)
  BY <1>1, <1>2, <1>4, <1>5, <1>6
<1>8. QED
  BY <1>7 DEF n, w

\* What a started run, its threads and the daemon do by themselves cannot go on
\* for ever, whatever faults happen: each such step of scale/run.py and
\* scale/rotation.py lowers Left, a number under a bound that the number of tasks sets.
THEOREM Termination ==
  Spec => /\ [](Left \in 0..((15 * Cardinality(Task) + 5) * (4 * Walk)))
          /\ [][Progress => Left' < Left]_vars
<1>1. IInv /\ IInv' /\ Quiet => [Progress => Left' < Left]_vars
  BY ProgressStep
<1>2. IInv => Left \in 0..((15 * Cardinality(Task) + 5) * (4 * Walk))
  BY LeftType DEF IInv, TypeOK
<1>3. QED
  BY <1>1, <1>2, Invariance, Quietness, PTL

-----------------------------------------------------------------------------
\* And it has such a step to make for as long as it has not ended: what each
\* coroutine and the process wait for is there, or is being brought about.
Lingering == Resting \cup {"reconciling", "removing", "removed", "unwinding"}
Waiting ==
  /\ workers # 0
  /\ run = "starting" <=> lock = Main
  /\ lock # None => phase # "off"
  /\ loop # None => run \in {"up", "aborted"} /\ pc[loop] \in InTail
  /\ \A t \in Task : /\ pc[t] \in InTail => loop = t
                     /\ pc[t] = "pulling" => t \in pulling
                     /\ pc[t] = "unwinding" => run = "cancelled"
                     /\ run = "cancelled" => pc[t] \in Lingering

\* The guards of Progress: of a worker's steps, its tail's and the daemon's, and of the
\* sweep's and the process's.
Moves(t) ==
  \/ t \in pulling
  \/ OnLoop /\ \/ pc[t] = "queued" /\ Cardinality(Active) < workers
               \/ pc[t] = "locking" /\ lock = None
               \/ pc[t] \notin Resting \cup InTail \cup {"locking", "reconciling", "pulling", "unwinding"}
               \/ lock = t /\ SweepOver
  \/ loop = t /\ pc[t] \in InTail
  \/ pc[t] \in {"unwinding", "removing"}
  \/ run = "cancelled" /\ lock = t /\ SweepOver
CanMove ==
  \/ phase # "off" /\ ~SweepOver
  \/ run = "starting" /\ SweepOver
  \/ \E t \in Task : Moves(t)
  \/ run = "up" /\ Active = {} /\ \A t \in Task : pc[t] # "queued"
  \/ run = "aborted" /\ loop = None
  \/ /\ run = "cancelled" /\ lock = None
     /\ \A t \in Task : /\ pc[t] \notin {"unwinding", "removing"}
                        /\ pc[t] = "cancelled" => t \notin pulling

LEMMA Semaphore ==
  ASSUME Shape
  PROVE  (IF Override = 0 THEN Suggested ELSE Override) # 0
<1>1. Suggested # 0
  <2> DEFINE d == Free \div HEADROOM_FACTOR
             b == IF d < MaxWorkers THEN d ELSE MaxWorkers
  <2>1. Suggested = IF b < 1 THEN 1 ELSE b
    BY DEF Suggested
  <2>2. CASE b < 1
    BY <2>1, <2>2
  <2>3. CASE ~(b < 1)
    <3>1. b # 0
      <4> HIDE DEF b
      <4>1. QED
        BY <2>3
    <3> HIDE DEF b
    <3>2. QED
      BY <2>1, <2>3, <3>1
  <2>4. QED
    BY <2>2, <2>3
<1>2. QED
  BY <1>1

LEMMA WaitingStep ==
  ASSUME IInv, Quiet, Waiting, Next
  PROVE  Waiting'
<1> USE DEF Waiting, Quiet, Lingering, Resting, InTail, tail, docker, sweep, OnLoop
<1>0. /\ pc \in [Task -> States] /\ loop \in Task \cup {None}
      /\ \A t \in Task : pc[t] = "reconciling" <=> lock = t
      /\ run \in {"down", "starting"} => \A t \in Task : pc[t] \in {"idle", "queued"}
      /\ lock \in Task \cup {Main, None}
  BY DEF IInv, TypeOK, Shape, LockHolder, BeforeWork
<1>1. PruneKills = {} \/ \A t \in Task : pc[t] # "pulling"
  <2>1. PruneIsSafe => Pullers = {}
    BY PullersFinite, FS_EmptySet DEF PruneIsSafe, IInv, PullCount
  <2>2. QED
    BY <2>1 DEF PruneKills, Pullers, InPull
<1>2. ASSUME NEW r \in Task, ScanLease(r) \/ RemoveContainer(r) \/ RemoveImage(r) PROVE Waiting'
  BY <1>2 DEF ScanLease, RemoveContainer, RemoveImage
<1>3. CASE ListContainers \/ ListImages
  BY <1>3 DEF ListContainers, ListImages
<1>4. CASE Start
  <2>1. workers' # 0
    BY <1>4, Semaphore DEF Start, IInv, TypeOK
  <2>2. \A t \in Task : pc'[t] \in {"idle", "queued"}
    BY <1>4 DEF Start
  <2>3. run' = "starting" /\ lock' = Main /\ phase' = "leases" /\ loop' = loop /\ loop = None
    BY <1>0, <1>4 DEF Start, BeginSweep
  <2>4. QED
    BY <2>1, <2>2, <2>3
<1>5. CASE Up
  BY <1>0, <1>5, Distinct DEF Up, EndSweep
<1>6. CASE Kill \/ RunEnd \/ Exit
  BY <1>0, <1>6, Distinct DEF Kill, RunEnd, Exit, ProcessEnds, EndSweep
<1>7. CASE CancelAll
  <2>1. \A t \in Task : (pc'[t] = pc[t] /\ pc[t] \in Lingering) \/ pc'[t] \in {"unwinding", "cancelled"}
    BY <1>7 DEF CancelAll
  <2>2. run' = "cancelled" /\ loop' = None /\ UNCHANGED <<workers, lock, phase>> /\ run = "aborted"
    BY <1>7 DEF CancelAll
  <2>3. QED
    BY <1>0, <2>1, <2>2
<1>8. ASSUME NEW t \in Task, Enter(t) \/ OverlayRefused(t) PROVE Waiting'
  BY <1>0, <1>8 DEF Enter, OverlayRefused
<1>9. ASSUME NEW t \in Task, Lock(t) PROVE Waiting'
  BY <1>0, <1>9, Distinct DEF Lock, BeginSweep
<1>10. ASSUME NEW t \in Task, Take(t) PROVE Waiting'
  BY <1>0, <1>10, Distinct DEF Take, EndSweep
<1>11. ASSUME NEW t \in Task, NotEnoughDisk(t) \/ SweepExpired(t) PROVE Waiting'
  BY <1>0, <1>11, Distinct DEF NotEnoughDisk, SweepExpired, EndSweep, BeginTail
<1>12. ASSUME NEW t \in Task, Pull(t) PROVE Waiting'
  BY <1>0, <1>12 DEF Pull
<1>13. ASSUME NEW t \in Task, Pulled(t) \/ Sized(t) \/ BackoffOver(t) PROVE Waiting'
  BY <1>0, <1>13 DEF Pulled, Sized, BackoffOver
<1>14. ASSUME NEW t \in Task, Refused(t) PROVE Waiting'
  BY <1>0, <1>14 DEF Refused
<1>15. ASSUME NEW t \in Task, \/ PullFailed(t) \/ PullExpired(t) \/ SizeExpired(t)
                              \/ RmiExpired(t) \/ Release(t)
       PROVE  Waiting'
  <2>1. /\ BeginTail(t) /\ OnLoop /\ UNCHANGED <<run, workers, sweep, pulling>>
        /\ pc[t] \in States \ (InTail \cup {"pulling", "reconciling", "unwinding"})
    BY <1>15 DEF PullFailed, PullExpired, SizeExpired, RmiExpired, Release, States, InPull, Leasing
  <2>2. /\ pc' = [pc EXCEPT ![t] = "leak"] /\ loop' = t /\ loop = None /\ t # None
        /\ UNCHANGED <<run, workers, lock, phase, pulling>> /\ run \in {"up", "aborted"}
        /\ lock # t
    BY <1>0, <2>1, Distinct DEF BeginTail
  <2>3. pc'[t] = "leak" /\ \A u \in Task : u # t => pc'[u] = pc[u]
    BY <1>0, <2>2
  <2>4. workers' # 0 /\ (run' = "starting" <=> lock' = Main) /\ (lock' # None => phase' # "off")
    BY <2>2
  <2>5. loop' # None => run' \in {"up", "aborted"} /\ pc'[loop'] \in InTail
    BY <2>2, <2>3
  <2>6. ASSUME NEW u \in Task
        PROVE  /\ pc'[u] \in InTail => loop' = u
               /\ pc'[u] = "pulling" => u \in pulling'
               /\ pc'[u] = "unwinding" => run' = "cancelled"
               /\ run' = "cancelled" => pc'[u] \in Lingering
    BY <2>2, <2>3, Distinct
  <2>7. QED
    BY <2>4, <2>5, <2>6
<1>16. ASSUME NEW t \in Task, StartContainer(t) PROVE Waiting'
  BY <1>0, <1>16 DEF StartContainer
<1>17. ASSUME NEW t \in Task, CheckEnds(t) PROVE Waiting'
  BY <1>0, <1>17 DEF CheckEnds
<1>18. ASSUME NEW t \in Task, Rmi(t) PROVE Waiting'
  BY <1>0, <1>18 DEF Rmi
<1>19. ASSUME NEW t \in Task, Unwind(t) PROVE Waiting'
  BY <1>0, <1>19 DEF Unwind
<1>20. ASSUME NEW t \in Task, Abandon(t) PROVE Waiting'
  BY <1>0, <1>20, Distinct DEF Abandon, EndSweep
<1>21. ASSUME NEW t \in Task, NEW o \in Outcome, PullEnds(t, o) PROVE Waiting'
  <2>1. /\ pc'[t] # "pulling" /\ (pc[t] # "pulling" => pc'[t] = pc[t])
        /\ pc'[t] # pc[t] => pc'[t] \in Outcome /\ pc[t] = "pulling"
        /\ \A u \in Task : u # t => pc'[u] = pc[u]
    BY <1>0, <1>21 DEF PullEnds, Outcome
  <2>2. pulling' = pulling \ {t} /\ UNCHANGED <<run, workers, sweep, tail>>
    BY <1>21 DEF PullEnds
  <2>3. QED
    BY <1>0, <2>1, <2>2 DEF Outcome
<1>22. ASSUME NEW t \in Task, TailStep(t) PROVE Waiting'
  <2>1. /\ loop = t /\ pc[t] \in InTail /\ run \in {"up", "aborted"}
        /\ UNCHANGED <<workers, sweep>> /\ (pulling' = pulling \/ pulling' = pulling \ PruneKills)
    BY <1>22, Distinct DEF TailStep, CheckLeak, SweepAll, CheckFootprint, Refootprint, TailExpired
  <2>2. \/ pc' = [pc EXCEPT ![t] = "done"] /\ loop' = None /\ run' \in {run, "aborted"}
        \/ \E s \in InTail : pc' = [pc EXCEPT ![t] = s] /\ UNCHANGED <<loop, run>>
    <3>1. CASE CheckLeak(t)
      BY <3>1 DEF CheckLeak
    <3>2. CASE SweepAll(t) \/ Refootprint(t) \/ TailExpired(t)
      BY <3>2, PruneSparesPulls DEF SweepAll, Refootprint, TailExpired, Finish
    <3>3. CASE CheckFootprint(t)
      BY <3>3 DEF CheckFootprint, Finish
    <3>4. QED
      BY <1>22, <3>1, <3>2, <3>3 DEF TailStep
  <2>3. QED
    BY <1>0, <1>1, <2>1, <2>2, Distinct
<1>23. QED
  BY <1>2, <1>3, <1>4, <1>5, <1>6, <1>7, <1>8, <1>9, <1>10, <1>11, <1>12, <1>13, <1>14, <1>15,
     <1>16, <1>17, <1>18, <1>19, <1>20, <1>21, <1>22
     DEF Next, Progress, SweepStep, WorkerStep, DaemonStep, Outcome

LEMMA SomethingMoves ==
  ASSUME IInv, Quiet, Waiting, run # "down", ~CanMove
  PROVE  FALSE
<1>0. /\ pc \in [Task -> States] /\ run \in {"down", "starting", "up", "aborted", "cancelled"}
      /\ loop \in Task \cup {None} /\ lock \in Task \cup {Main, None}
      /\ workers \in Nat \ {0}
      /\ \A t \in Task : pc[t] = "reconciling" <=> lock = t
      /\ \A t \in Task : ~Moves(t)
  BY DEF IInv, TypeOK, Shape, LockHolder, Waiting, CanMove
\* A sweep that is not over walks; the holder of one that is over goes on.
<1>1. lock # None => SweepOver
  BY DEF CanMove, Waiting
<1>2. run # "starting"
  BY <1>1, Distinct DEF CanMove, Waiting
<1>3. run \in {"up", "aborted"} => loop = None
  BY <1>0 DEF Moves, Waiting
<1>4. run # "aborted"
  BY <1>3 DEF CanMove
<1>5. lock = None
  BY <1>0, <1>1, <1>2, <1>3, <1>4 DEF Waiting, Moves, OnLoop
<1>6. CASE run = "cancelled"
  BY <1>0, <1>5, <1>6 DEF CanMove, Moves
\* A worker in its task moves; with none there the semaphore is free, and with
\* nobody waiting for it the run ends.
<1>7. CASE run = "up"
  <2>1. ASSUME NEW t \in Task, pc[t] \notin Resting PROVE FALSE
    <3>1. OnLoop /\ ~Moves(t) /\ lock # t
      BY <1>0, <1>3, <1>5, <1>7, Distinct DEF OnLoop
    <3>2. pc[t] \in InTail \cup {"reconciling", "pulling", "unwinding"}
      BY <1>5, <2>1, <3>1 DEF Moves
    <3>3. QED
      BY <1>0, <1>3, <1>7, <3>1, <3>2, Distinct DEF Waiting, Moves
  <2>2. Active = {} /\ Cardinality(Active) = 0
    BY <2>1, FS_EmptySet DEF Active
  <2>3. \A t \in Task : pc[t] # "queued"
    BY <1>0, <1>3, <1>7, <2>2 DEF Moves, OnLoop
  <2>4. QED
    BY <1>7, <2>2, <2>3 DEF CanMove
<1>8. QED
  BY <1>0, <1>2, <1>4, <1>6, <1>7

\* A started run never deadlocks, for any number of tasks and workers and with
\* whatever faults: until the process ends, the guard of one of its own steps holds.
THEOREM NeverStuck == Spec => [](run # "down" => CanMove)
<1>1. Init => Waiting
  BY Distinct DEF Init, Waiting, InTail
<1>2. IInv /\ Quiet /\ Waiting /\ [Next]_vars => Waiting'
  <2>1. ASSUME Waiting, UNCHANGED vars PROVE Waiting'
    BY <2>1 DEF Waiting, vars, sweep, tail, docker
  <2>2. QED
    BY <2>1, WaitingStep
<1>3. IInv /\ Quiet /\ Waiting => (run # "down" => CanMove)
  BY SomethingMoves
<1>4. QED
  BY <1>1, <1>2, <1>3, Invariance, Quietness, PTL DEF Spec
=============================================================================
