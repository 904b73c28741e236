------------------------------ MODULE Rotation ------------------------------
(***************************************************************************)
(* Image rotation: scale/rotation.py and the part of scale/run.py that     *)
(* drives it (run_one, and the start and end of main).                     *)
(*                                                                         *)
(* One run process, one event loop.  Code between two awaits is atomic for *)
(* the other coroutines; every docker command a worker awaits runs in a    *)
(* thread or in the daemon and interleaves with everything.  The tail of   *)
(* run_one is synchronous on the loop: while it runs (`loop` names the     *)
(* worker in it) no other coroutine moves, but threads and the daemon do.  *)
(*                                                                         *)
(* A task and its image are one identity here: the image reference is a    *)
(* function of the instance id, and the ids of a run are distinct.  The    *)
(* pacing of pulls is in PullPacing, the burn guard in BurnGuard.          *)
(***************************************************************************)
EXTENDS Integers, FiniteSets

CONSTANTS
  Task,          \* instances, each with its own image
  Main, None,    \* the main coroutine as holder of the sweep; nobody
  Capacity,      \* images the docker root filesystem has room for
  MaxWorkers,    \* the lesser of MAX_WORKERS and the RAM bound
  Override,      \* the --workers argument, 0 when absent
  Held,          \* images another workload on the host runs a container on
  Faults         \* which of the environment's faults may happen

FaultKinds == {"leak",     \* a runtime fails to stop its container
               "stuck",    \* docker rm -f fails on a container
               "expire",   \* a docker command runs into its timeout
               "overlay",  \* a task does not take the run's test overlay
               "orphan"}   \* a docker pull outlives the killed run

ASSUME Distinct == Main \notin Task /\ None \notin Task /\ Main # None
ASSUME Finite == IsFiniteSet(Task)
ASSUME Bounds == /\ Capacity \in Nat
                 /\ MaxWorkers \in Nat \ {0}
                 /\ Override \in Nat
ASSUME Environment == Held \subseteq Task /\ Faults \subseteq FaultKinds

HEADROOM_FACTOR == 2

VARIABLES
  run,           \* the process: down, starting, up, aborted, cancelled
  workers,       \* size of the semaphore
  pc,            \* where each task's coroutine is
  lock,          \* holder of _RECONCILE_LOCK, or of the sweep at start
  phase,         \* what the sweep is walking
  keep,          \* the refs the sweep has decided to keep
  todo,          \* what is left of the listing it walks
  loop,          \* the worker in the synchronous tail
  leaked,        \* that worker's leaked_image or leaked_containers
  leases,        \* lease files: none, or of a live or a dead pid
  images,        \* resident images of the namespace
  containers,    \* images a validate container exists for
  pulling,       \* docker pull in progress
  pullsInFlight  \* _PULLS_IN_FLIGHT

sweep  == <<lock, phase, keep, todo>>
tail   == <<loop, leaked>>
docker == <<images, containers, pulling>>
vars   == <<run, workers, pc, sweep, tail, leases, docker, pullsInFlight>>

-----------------------------------------------------------------------------
\* A worker between the entry of the semaphore and its exit.
Resting  == {"idle", "queued", "done", "refused", "cancelled"}
\* Inside `async with ImageLease`, lease taken and not released.
Leasing  == {"pacing", "pulling", "landed", "toomany", "failed", "killed",
             "sizing", "running", "checking", "removing", "removed", "unwinding"}
\* Awaiting the thread that runs docker pull.
InPull   == {"pulling", "landed", "toomany", "failed", "killed", "expired"}
\* The image has been pulled for this worker, which has not given it up.
Relying  == {"landed", "sizing", "running", "checking"}
InTail   == {"leak", "sweep", "foot", "refoot"}
States   == Resting \cup Leasing \cup InPull \cup InTail
              \cup {"locking", "reconciling", "backoff"}

Live     == {r \in Task : leases[r] = "live"}
Files    == {r \in Task : leases[r] # "none"}
Active   == {t \in Task : pc[t] \notin Resting}
Free     == Capacity - Cardinality(images)
OnLoop   == run \in {"up", "aborted"} /\ loop = None
CanFail(f) == f \in Faults

\* docker rmi -f fails while any container runs on the image.
InUse(r) == r \in containers \cup Held

\* suggested_workers, in units of images.
Suggested_NoDisk == MaxWorkers
Suggested ==
  LET byDisk == Free \div HEADROOM_FACTOR
      bound  == IF byDisk < MaxWorkers THEN byDisk ELSE MaxWorkers
  IN  IF bound < 1 THEN 1 ELSE bound

\* reclaim_orphans: prunes only when no pull is in flight.  A prune fails every
\* pull the daemon is working on; it removes no tagged image.
PruneIsSafe_Always == TRUE
PruneIsSafe == pullsInFlight = 0
PruneKills  == IF PruneIsSafe THEN pulling ELSE {}
Killed(p)   == [t \in Task |-> IF t \in PruneKills /\ p[t] = "pulling"
                                 THEN "killed" ELSE p[t]]

\* docker rm -f of a set of containers: what may be left of them.
Survivors(c) == IF CanFail("stuck") THEN SUBSET c ELSE {{}}

\* unowned_footprint of given containers and images, with leases of dead pids dropped.
Footprint_Global(img, con) == img \cup con
Footprint(img, con) == (img \cup con) \ Live

-----------------------------------------------------------------------------
Init ==
  /\ run = "down" /\ workers = 1
  /\ pc = [t \in Task |-> "idle"]
  /\ lock = None /\ phase = "off" /\ keep = {} /\ todo = {}
  /\ loop = None /\ leaked = FALSE
  /\ leases \in [Task -> {"none", "dead"}]
  /\ images \in {I \in SUBSET Task : /\ Held \subseteq I
                                     /\ Cardinality(I) <= Capacity}
  /\ containers \in SUBSET images
  /\ pulling = {} /\ pullsInFlight = 0

-----------------------------------------------------------------------------
(* The sweep: reconcile, in main at the start and in a thread thereafter.  *)

BeginSweep_Unlisted(holder, own) ==
  lock' = holder /\ phase' = "leases" /\ keep' = own /\ todo' = {}
BeginSweep(holder, own) ==
  /\ lock' = holder /\ phase' = "leases" /\ keep' = own /\ todo' = Files

EndSweep == lock' = None /\ phase' = "off" /\ keep' = {} /\ todo' = {}

\* Leases.live_refs, one lease file at a time; one that vanished is skipped.
ScanLease_AnyPid(r) ==
  /\ phase = "leases" /\ r \in todo
  /\ todo' = todo \ {r}
  /\ keep' = keep \cup {r}
  /\ UNCHANGED <<run, workers, pc, lock, phase, tail, leases, docker, pullsInFlight>>
ScanLease(r) ==
  /\ phase = "leases" /\ r \in todo
  /\ todo' = todo \ {r}
  /\ keep' = IF leases[r] = "live" THEN keep \cup {r} ELSE keep
  /\ leases' = IF leases[r] = "dead" THEN [leases EXCEPT ![r] = "none"] ELSE leases
  /\ UNCHANGED <<run, workers, pc, lock, phase, tail, docker, pullsInFlight>>

ListContainers_All ==
  /\ phase = "leases" /\ todo = {}
  /\ phase' = "containers" /\ todo' = containers
  /\ UNCHANGED <<run, workers, pc, lock, keep, tail, leases, docker, pullsInFlight>>
ListContainers ==
  /\ phase = "leases" /\ todo = {}
  /\ phase' = "containers" /\ todo' = containers \ keep
  /\ UNCHANGED <<run, workers, pc, lock, keep, tail, leases, docker, pullsInFlight>>

\* reconcile_containers: one docker rm -f.
RemoveContainer(r) ==
  /\ phase = "containers" /\ r \in todo
  /\ todo' = todo \ {r}
  /\ \E left \in Survivors(containers \cap {r}) :
        containers' = (containers \ {r}) \cup left
  /\ UNCHANGED <<run, workers, pc, lock, phase, keep, tail, leases, images,
                 pulling, pullsInFlight>>

ListImages_All ==
  /\ phase = "containers" /\ todo = {}
  /\ phase' = "images" /\ todo' = images
  /\ UNCHANGED <<run, workers, pc, lock, keep, tail, leases, docker, pullsInFlight>>
ListImages ==
  /\ phase = "containers" /\ todo = {}
  /\ phase' = "images" /\ todo' = images \ keep
  /\ UNCHANGED <<run, workers, pc, lock, keep, tail, leases, docker, pullsInFlight>>

RemoveImage(r) ==
  /\ phase = "images" /\ r \in todo
  /\ todo' = todo \ {r}
  /\ images' = IF InUse(r) THEN images ELSE images \ {r}
  /\ UNCHANGED <<run, workers, pc, lock, phase, keep, tail, leases, containers,
                 pulling, pullsInFlight>>

SweepStep == \/ \E r \in Task : ScanLease(r) \/ RemoveContainer(r) \/ RemoveImage(r)
             \/ ListContainers
             \/ ListImages

SweepOver == phase = "images" /\ todo = {}

-----------------------------------------------------------------------------
(* The process.                                                            *)

\* main up to the reconcile: the ids asked for, the size of the semaphore.
Start ==
  /\ run = "down"
  /\ run' = "starting"
  /\ workers' = IF Override = 0 THEN Suggested ELSE Override
  /\ \E ids \in SUBSET Task :
        pc' = [t \in Task |-> IF t \in ids THEN "queued" ELSE "idle"]
  /\ BeginSweep(Main, {})
  /\ UNCHANGED <<tail, leases, docker, pullsInFlight>>

\* The reconcile's prune, then the workers are released.
Up ==
  /\ run = "starting" /\ SweepOver
  /\ run' = "up"
  /\ pulling' = pulling \ PruneKills
  /\ EndSweep
  /\ UNCHANGED <<workers, pc, tail, leases, images, containers, pullsInFlight>>

\* The process is gone: its pid is dead, its memory with it.
ProcessEnds ==
  /\ run' = "down" /\ workers' = 1
  /\ pc' = [t \in Task |-> "idle"]
  /\ EndSweep
  /\ loop' = None /\ leaked' = FALSE
  /\ leases' = [r \in Task |-> IF leases[r] = "none" THEN "none" ELSE "dead"]
  /\ pullsInFlight' = 0
  /\ UNCHANGED <<images, containers>>

\* Killed at any instant.  A docker pull it started may go on without it.
Kill ==
  /\ run # "down"
  /\ ProcessEnds
  /\ IF CanFail("orphan") THEN pulling' \in SUBSET pulling ELSE pulling' = {}

\* gather returned: every task has its record or was refused.
RunEnd ==
  /\ run = "up" /\ Active = {}
  /\ \A t \in Task : pc[t] # "queued"
  /\ ProcessEnds
  /\ UNCHANGED pulling

\* An exception left gather: asyncio.run cancels every other coroutine.
\* A worker inside its task still runs __aexit__; a thread runs to its end.
CancelAll ==
  /\ run = "aborted" /\ loop = None
  /\ run' = "cancelled"
  /\ pc' = [t \in Task |->
              CASE pc[t] \in {"running", "checking"} -> "unwinding"
                [] pc[t] \in {"reconciling", "removing", "idle", "done", "refused"} -> pc[t]
                [] OTHER -> "cancelled"]
  /\ pullsInFlight' = 0
  /\ UNCHANGED <<workers, sweep, tail, leases, docker>>

\* The executor joins its threads before the process can end.
Exit ==
  /\ run = "cancelled"
  /\ \A t \in Task : /\ pc[t] \notin {"unwinding", "removing"}
                     /\ pc[t] = "cancelled" => t \notin pulling
  /\ lock = None
  /\ ProcessEnds
  /\ UNCHANGED pulling

-----------------------------------------------------------------------------
(* A worker: guarded, run_one and ImageLease.                              *)

\* The semaphore, then a task with a production target or the skipped record.
Enter(t) ==
  /\ OnLoop /\ pc[t] = "queued"
  /\ Cardinality(Active) < workers
  /\ pc' \in {[pc EXCEPT ![t] = s] : s \in {"locking", "done"}}
  /\ UNCHANGED <<run, workers, sweep, tail, leases, docker, pullsInFlight>>

Lock(t) ==
  /\ OnLoop /\ pc[t] = "locking" /\ lock = None
  /\ pc' = [pc EXCEPT ![t] = "reconciling"]
  /\ BeginSweep(t, {t})
  /\ UNCHANGED <<run, workers, tail, leases, docker, pullsInFlight>>

\* ensure_headroom, then the lease, and only then the lock is released.
Take_KeepsLock(t) ==
  /\ OnLoop /\ lock = t /\ SweepOver
  /\ Free >= HEADROOM_FACTOR
  /\ leases' = [leases EXCEPT ![t] = "live"]
  /\ pc' = [pc EXCEPT ![t] = "pacing"]
  /\ UNCHANGED <<run, workers, sweep, tail, docker, pullsInFlight>>
Take(t) ==
  /\ OnLoop /\ lock = t /\ SweepOver
  /\ Free >= HEADROOM_FACTOR
  /\ leases' = [leases EXCEPT ![t] = "live"]
  /\ pc' = [pc EXCEPT ![t] = "pacing"]
  /\ EndSweep
  /\ UNCHANGED <<run, workers, tail, docker, pullsInFlight>>

\* run_one has an error or a row: its synchronous tail takes the loop.
BeginTail(t) == pc' = [pc EXCEPT ![t] = "leak"] /\ loop' = t /\ leaked' = FALSE

NotEnoughDisk(t) ==
  /\ OnLoop /\ lock = t /\ SweepOver
  /\ Free < HEADROOM_FACTOR
  /\ BeginTail(t)
  /\ EndSweep
  /\ UNCHANGED <<run, workers, leases, docker, pullsInFlight>>

\* A docker command of the sweep runs into its timeout: the thread raises, wherever
\* it is in its walk, and no lease was taken.  What timed out is not done later.
SweepExpired(t) ==
  /\ CanFail("expire")
  /\ OnLoop /\ lock = t
  /\ BeginTail(t)
  /\ EndSweep
  /\ UNCHANGED <<run, workers, leases, docker, pullsInFlight>>

Pull(t) ==
  /\ OnLoop /\ pc[t] = "pacing"
  /\ pc' = [pc EXCEPT ![t] = "pulling"]
  /\ pullsInFlight' = pullsInFlight + 1
  /\ pulling' = pulling \cup {t}
  /\ UNCHANGED <<run, workers, sweep, tail, leases, images, containers>>

\* The daemon's side of a pull.  One nobody waits for may still land.
PullEnds(t, outcome) ==
  /\ t \in pulling
  /\ pulling' = pulling \ {t}
  /\ images' = IF outcome = "landed" THEN images \cup {t} ELSE images
  /\ outcome = "landed" => t \in images \/ Free > 0
  /\ pc' = IF pc[t] = "pulling" THEN [pc EXCEPT ![t] = outcome] ELSE pc
  /\ UNCHANGED <<run, workers, sweep, tail, leases, containers, pullsInFlight>>

DaemonStep(t) == \/ PullEnds(t, "landed")
                 \/ PullEnds(t, "toomany")
                 \/ PullEnds(t, "failed")
                 \/ CanFail("expire") /\ PullEnds(t, "expired")

\* The coroutine resumes after docker pull: the finally, then the return code.
Pulled_Releasing(t) ==
  /\ OnLoop /\ pc[t] = "landed"
  /\ pullsInFlight' = pullsInFlight - 1
  /\ leases' = [leases EXCEPT ![t] = "none"]
  /\ pc' = [pc EXCEPT ![t] = "sizing"]
  /\ UNCHANGED <<run, workers, sweep, tail, docker>>
Pulled(t) ==
  /\ OnLoop /\ pc[t] = "landed"
  /\ pullsInFlight' = pullsInFlight - 1
  /\ pc' = [pc EXCEPT ![t] = "sizing"]
  /\ UNCHANGED <<run, workers, sweep, tail, leases, docker>>

Refused(t) ==
  /\ OnLoop /\ pc[t] = "toomany"
  /\ pullsInFlight' = pullsInFlight - 1
  /\ leases' = [leases EXCEPT ![t] = "none"]
  /\ pc' = [pc EXCEPT ![t] = "backoff"]
  /\ UNCHANGED <<run, workers, sweep, tail, docker>>

PullFailed_NoRelease(t) ==
  /\ OnLoop /\ pc[t] \in {"failed", "killed"}
  /\ pullsInFlight' = pullsInFlight - 1
  /\ BeginTail(t)
  /\ UNCHANGED <<run, workers, sweep, leases, docker>>
PullFailed(t) ==
  /\ OnLoop /\ pc[t] \in {"failed", "killed"}
  /\ pullsInFlight' = pullsInFlight - 1
  /\ leases' = [leases EXCEPT ![t] = "none"]
  /\ BeginTail(t)
  /\ UNCHANGED <<run, workers, sweep, docker>>

\* TimeoutExpired leaves __aenter__ past the release: no __aexit__ will run.
PullExpired(t) ==
  /\ OnLoop /\ pc[t] = "expired"
  /\ pullsInFlight' = pullsInFlight - 1
  /\ BeginTail(t)
  /\ UNCHANGED <<run, workers, sweep, leases, docker>>

\* image_size returns, or times out like the pull.
Sized(t) ==
  /\ OnLoop /\ pc[t] = "sizing"
  /\ pc' = [pc EXCEPT ![t] = "running"]
  /\ UNCHANGED <<run, workers, sweep, tail, leases, docker, pullsInFlight>>

SizeExpired(t) ==
  /\ CanFail("expire")
  /\ OnLoop /\ pc[t] = "sizing"
  /\ BeginTail(t)
  /\ UNCHANGED <<run, workers, sweep, leases, docker, pullsInFlight>>

StartContainer(t) ==
  /\ pc[t] = "running" /\ t \in images
  /\ containers' = containers \cup {t}
  /\ pc' = [pc EXCEPT ![t] = "checking"]
  /\ UNCHANGED <<run, workers, sweep, tail, leases, images, pulling, pullsInFlight>>

\* The check returns, raises or runs into the task timeout; the runtime stops
\* its container, or fails to.  A check whose container never started also ends.
CheckEnds(t) ==
  /\ OnLoop /\ pc[t] \in {"running", "checking"}
  /\ containers' = containers \ {t} \/ (CanFail("leak") /\ containers' = containers)
  /\ pc' = [pc EXCEPT ![t] = "removing"]
  /\ UNCHANGED <<run, workers, sweep, tail, leases, images, pulling, pullsInFlight>>

\* __aexit__'s docker rmi -f, in its thread.
Rmi(t) ==
  /\ pc[t] = "removing"
  /\ images' = IF InUse(t) THEN images ELSE images \ {t}
  /\ pc' = [pc EXCEPT ![t] = "removed"]
  /\ UNCHANGED <<run, workers, sweep, tail, leases, containers, pulling, pullsInFlight>>

Release(t) ==
  /\ OnLoop /\ pc[t] = "removed"
  /\ leases' = [leases EXCEPT ![t] = "none"]
  /\ BeginTail(t)
  /\ UNCHANGED <<run, workers, sweep, docker, pullsInFlight>>

\* The rmi times out: __aexit__ raises before the release, and the lease stays.
RmiExpired(t) ==
  /\ CanFail("expire")
  /\ OnLoop /\ pc[t] = "removing"
  /\ BeginTail(t)
  /\ UNCHANGED <<run, workers, sweep, leases, docker, pullsInFlight>>

\* __aexit__ of a cancelled worker, whose container the runtime stopped.
Unwind(t) ==
  /\ pc[t] = "unwinding"
  /\ containers' = containers \ {t} \/ (CanFail("leak") /\ containers' = containers)
  /\ \/ /\ images' = IF t \in containers' \cup Held THEN images ELSE images \ {t}
        /\ leases' = [leases EXCEPT ![t] = "none"]
     \/ CanFail("expire") /\ UNCHANGED <<images, leases>>
  /\ pc' = [pc EXCEPT ![t] = "cancelled"]
  /\ UNCHANGED <<run, workers, sweep, tail, pulling, pullsInFlight>>

BackoffOver(t) ==
  /\ OnLoop /\ pc[t] = "backoff"
  /\ pc' = [pc EXCEPT ![t] = "refused"]
  /\ UNCHANGED <<run, workers, sweep, tail, leases, docker, pullsInFlight>>

-----------------------------------------------------------------------------
(* The tail of run_one, on the loop.                                       *)

\* containers_for and image_present.
CheckLeak(t) ==
  /\ loop = t /\ pc[t] = "leak"
  /\ pc' = [pc EXCEPT ![t] = IF t \in images \/ InUse(t) THEN "sweep" ELSE "foot"]
  /\ UNCHANGED <<run, workers, sweep, tail, leases, docker, pullsInFlight>>

\* reconcile_containers(set()) -- nothing is kept -- then the prune and a recheck.
SweepAll(t) ==
  /\ loop = t /\ pc[t] = "sweep"
  /\ containers' \in Survivors(containers)
  /\ pulling' = pulling \ PruneKills
  /\ pc' = [Killed(pc) EXCEPT ![t] = "foot"]
  /\ leaked' = (t \in images \cup containers' \cup Held)
  /\ UNCHANGED <<run, workers, sweep, loop, leases, images, pullsInFlight>>

DropDead == leases' = [r \in Task |-> IF leases[r] = "dead" THEN "none" ELSE leases[r]]

\* check_task_cleanup and check_run_footprint raise.
Residue(footprint) == leaked \/ footprint # {}

\* The record is written, then the two checks.
Finish(t, footprint) ==
  /\ run' = IF Residue(footprint) THEN "aborted" ELSE run
  /\ loop' = None /\ leaked' = FALSE

CheckFootprint(t) ==
  /\ loop = t /\ pc[t] = "foot"
  /\ DropDead
  /\ IF Footprint(images, containers) = {}
       THEN Finish(t, {}) /\ pc' = [pc EXCEPT ![t] = "done"]
       ELSE pc' = [pc EXCEPT ![t] = "refoot"] /\ UNCHANGED <<run, tail>>
  /\ UNCHANGED <<workers, sweep, docker, pullsInFlight>>

\* reconcile_containers(live_refs()), the prune, the footprint again.
Refootprint_KeepsNothing(t) ==
  /\ loop = t /\ pc[t] = "refoot"
  /\ DropDead
  /\ containers' \in Survivors(containers)
  /\ pulling' = pulling \ PruneKills
  /\ pc' = [Killed(pc) EXCEPT ![t] = "done"]
  /\ Finish(t, Footprint(images, containers'))
  /\ UNCHANGED <<workers, sweep, images, pullsInFlight>>
Refootprint(t) ==
  /\ loop = t /\ pc[t] = "refoot"
  /\ DropDead
  /\ \E left \in Survivors(containers \ Live) :
        containers' = (containers \cap Live) \cup left
  /\ pulling' = pulling \ PruneKills
  /\ pc' = [Killed(pc) EXCEPT ![t] = "done"]
  /\ Finish(t, Footprint(images, containers'))
  /\ UNCHANGED <<workers, sweep, images, pullsInFlight>>

\* What a docker command that times out leaves of the containers its sweep removes.
Spared(t) == IF pc[t] = "sweep" THEN {} ELSE IF pc[t] = "refoot" THEN Live ELSE Task

\* A docker command of the tail runs into its timeout, before the prune or in it: nothing
\* catches that, run_one has written no record, and the exception leaves gather.
TailExpired(t) ==
  /\ CanFail("expire")
  /\ loop = t /\ pc[t] \in InTail
  /\ DropDead \/ UNCHANGED leases
  /\ containers' \in SUBSET containers /\ containers \cap Spared(t) \subseteq containers'
  /\ \/ pc' = [pc EXCEPT ![t] = "done"] /\ UNCHANGED pulling
     \/ /\ pc[t] \in {"sweep", "refoot"}
        /\ pc' = [Killed(pc) EXCEPT ![t] = "done"] /\ pulling' = pulling \ PruneKills
  /\ run' = "aborted" /\ loop' = None /\ leaked' = FALSE
  /\ UNCHANGED <<workers, sweep, images, pullsInFlight>>

\* build_task_spec raises before run_one catches anything: the exception leaves gather.
OverlayRefused(t) ==
  /\ CanFail("overlay")
  /\ OnLoop /\ pc[t] = "queued"
  /\ Cardinality(Active) < workers
  /\ pc' = [pc EXCEPT ![t] = "done"]
  /\ run' = "aborted"
  /\ UNCHANGED <<workers, sweep, tail, leases, docker, pullsInFlight>>

-----------------------------------------------------------------------------
\* The cancelled holder of the lock: its thread ends, nothing follows.
Abandon(t) ==
  /\ run = "cancelled" /\ lock = t /\ (SweepOver \/ CanFail("expire"))
  /\ pc' = [pc EXCEPT ![t] = "cancelled"]
  /\ EndSweep
  /\ UNCHANGED <<run, workers, tail, leases, docker, pullsInFlight>>

WorkerStep(t) ==
  \/ Enter(t) \/ Lock(t) \/ Take(t) \/ NotEnoughDisk(t) \/ SweepExpired(t) \/ Pull(t)
  \/ Pulled(t) \/ Refused(t) \/ PullFailed(t) \/ PullExpired(t)
  \/ Sized(t) \/ SizeExpired(t) \/ StartContainer(t) \/ CheckEnds(t)
  \/ Rmi(t) \/ RmiExpired(t) \/ Release(t) \/ Unwind(t) \/ BackoffOver(t) \/ Abandon(t)

TailStep(t) == \/ CheckLeak(t) \/ SweepAll(t) \/ CheckFootprint(t) \/ Refootprint(t)
               \/ TailExpired(t)

\* What the started process, its threads and the daemon do by themselves.
Progress == \/ SweepStep \/ Up \/ RunEnd \/ CancelAll \/ Exit
            \/ \E t \in Task : \/ WorkerStep(t) \/ TailStep(t) \/ DaemonStep(t)
                              \/ OverlayRefused(t)

Next == Start \/ Kill \/ Progress

Spec == Init /\ [][Next]_vars

FairSpec == Spec /\ WF_vars(Progress)

-----------------------------------------------------------------------------
(* Properties.                                                             *)

Shape ==
  /\ run \in {"down", "starting", "up", "aborted", "cancelled"}
  /\ workers \in Nat
  /\ pc \in [Task -> States]
  /\ lock \in Task \cup {Main, None}
  /\ phase \in {"off", "leases", "containers", "images"}
  /\ keep \subseteq Task /\ todo \subseteq Task
  /\ loop \in Task \cup {None} /\ leaked \in BOOLEAN
  /\ leases \in [Task -> {"none", "live", "dead"}]
  /\ images \subseteq Task /\ containers \subseteq Task /\ pulling \subseteq Task

TypeOK == Shape /\ pullsInFlight \in Nat

\* From the end of its pull to the end of its check a worker's image is
\* resident: no other worker's sweep, at whatever point of its walk, removes it.
ReliedImageResident == \A t \in Task : pc[t] \in Relying => t \in images

\* While the sweep walks containers or images, `keep` covers every live lease:
\* no lease is taken between the reading of the leases and the removals.
KeepCoversLeases == phase \in {"containers", "images"} => Live \subseteq keep

\* docker image prune never runs under a pull of this run (CHANGES.md 11).
NoPullPruned == \A t \in Task : pc[t] # "killed"

\* The container a worker is checking in exists for as long as it checks.
CheckedContainerExists == \A t \in Task : pc[t] = "checking" => t \in containers

\* A worker's container goes away under it only in the sweep of the tail that
\* keeps nothing; the reconciles that are given the live leases leave it.
OnlySweepAllTakesContainer ==
  [][\A t \in Task :
        pc[t] = "checking" /\ t \in containers /\ t \notin containers' =>
          pc'[t] # "checking" \/ \E u \in Task : pc[u] = "sweep" /\ pc'[u] # "sweep"]_vars

\* A run in which no fault of the environment happens is never stopped by its
\* own guards, whatever a killed run left on the host (CHANGES.md 24).
NeverAborts == run \notin {"aborted", "cancelled"}

\* When the workers are let go, nothing of an earlier run is left but the
\* images another workload is using.
StartReclaims ==
  [][run = "starting" /\ run' = "up" =>
       /\ images \subseteq Held
       /\ containers = {}
       /\ Files = {}]_vars

\* A worker that is through with its task holds no lease: it removed its own on
\* the way out, whichever way that was.
LeaseHasWorker ==
  run \in {"up", "aborted"} => \A t \in Live : pc[t] \notin Resting

\* The images resident and the ones being pulled fit on the disk together.
DiskFits == Cardinality(images \cup pulling) <= Capacity

\* Every started run ends: all its tasks reach an outcome or a guard stops it.
RunEnds == run # "down" ~> run = "down"

\* The inductive invariant behind the safety properties above.  A worker past
\* its Take has a live lease; the holder of the lock is the one reconciling; the
\* sweep has read, or has yet to read, every live lease, and what it is about to
\* remove it does not keep; _PULLS_IN_FLIGHT counts the workers inside a pull.
Pullers == {t \in Task : pc[t] \in InPull}

BeforeWork == run \in {"down", "starting"} =>
                \A t \in Task : pc[t] \in {"idle", "queued"}
LeaseLive  == \A t \in Task : pc[t] \in Leasing => leases[t] = "live"
LockHolder == \A t \in Task : pc[t] = "reconciling" <=> lock = t
SweepReads == phase = "leases" => Live \subseteq keep \cup todo
SweepSpares == phase \in {"containers", "images"} => todo \cap keep = {}
PullCount  == pullsInFlight = Cardinality(Pullers)

IInv == /\ TypeOK
        /\ BeforeWork
        /\ LeaseLive
        /\ LockHolder
        /\ SweepReads
        /\ SweepSpares
        /\ KeepCoversLeases
        /\ ReliedImageResident
        /\ PullCount
        /\ NoPullPruned

\* Workers that have come back from their pull and not given the image up.
Inside == {t \in Task : pc[t] \in {"sizing", "running", "checking"}}

\* rotation.py promises what ImageCustody promises.
Custody == INSTANCE ImageCustody
             WITH Ref      <- Task,
                  resident <- images,
                  owned    <- Live,
                  relied   <- Inside
ImplementsCustody == Custody!Spec
=============================================================================
