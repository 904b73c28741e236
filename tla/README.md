# formcheck, in TLA+

formcheck asks of a SWE-bench task whether its tests accept a behaviour-preserving
rewrite of the reference solution.  It applies a family of transforms to the
reference inside the task's own docker image, one at a time, and runs the graded
tests on each.  The result depends on things no unit test of the repository reaches
in full: workers that share one docker daemon, one disk and one registry quota, with
crashes and refusals; a check that carries state from one case of a task to the
next; records that are read while others write them; and a chain of scanners, from
the gold patch's diff to the log of a runner, each of which can turn a verdict round
without an error.  These modules model all of them, and the two measurements that
were built on the results: the repair gate and the judge's variance.

## The system

| Part | Source | State | Operations | Interacts with |
|---|---|---|---|---|
| Image rotation | `scale/rotation.py` | lease files, `_RECONCILE_LOCK`, `_PULLS_IN_FLIGHT` | `reconcile`, `ImageLease` enter/exit, `reclaim_orphans`, `unowned_footprint` | docker, the run driver |
| Run driver | `scale/run.py` | semaphore, coroutines, `recent`, record files | `main`, `guarded`, `run_one`, the structural checks, `check_progress` | rotation, the check, record files |
| Pull pacing | `rotation.py` 72-129 | none of its own; reads the registry's | `hub_rate_limit`, `wait_for_pull_slot` | registry |
| Refusal backoff | `rotation.py` 148-176 | `_consecutive_refusals` | `note_refusal`, `note_pull_success` | burn guard |
| The check | `repro/formcheck_hook.py` | rows, log, the last grading, digest and analysis | `formcheck`, `_formcheck_row` | container task |
| Container task | `scale/container_task.py` | working tree, `_graded_memo`, `oracle.last_analysis` | `formcheck_reset`, `graded_report`, `SuiteOracle.check`, `classify_failures` | runner, grader |
| Grader | `repro/m4_grader.py` | none | `grade_log` | container task |
| Task specification | `container_task.py` 298-480, `eligibility.py` | none | `build_task_spec`, `check_tests_overlay`, `changed_lines`, `symbols_covering` | dataset, the operators |
| Operators | `repro/f2_operators.py` | none | `anchors`, `apply` | hook, working tree |
| Log parsers | `repro/f4_formcheck.py` 170-300 | none | `failure_sections`, `section_for`, `names_symbol` | oracle, import-local |
| Record files, resume | `run.py` 207-230, 477-480 | `records/*.json`, `.partial` | `write_record`, `is_complete` | aggregate |
| Sample, aggregate | `scale/sample_50.py`, `scale/aggregate.py` | the frozen ids | `draw`, `allocate`; `controlled`, the rates | record files |
| Repair gate | `repair/gate.py` | one container, the matrix of cells | `build`, `graded`, C1, C2, C3 | docker, overlay guard |
| Import-local measurement | `repair/scan/import_local_run.py` | one container, the rows on disk | `run_task`, `classify_zero`, `main` | records, log parsers |
| Judge variance | `judge/variance.py` | scores in memory, one result file | `select`, the calls, instrument check, gate | a model's API |
| Scans, early phases | the rest of `repair/scan/`, `repro/` | none | one-shot scripts | committed files |

What is hard here: a sweep of the host (list, then remove, one docker command at a
time, in a thread) runs beside the other workers' pulls and checks, and is safe
only through the order of lock, lease and pull; the tail of `run_one` runs on the
event loop and answers one worker's leak by touching everybody's containers; a
quota is read and used in two steps; an abort cancels coroutines but not threads; a
kill leaves leases, containers, images and half a file for the next start; outcomes
of all workers feed one burn window; a verdict reads attributes that an earlier case
wrote; an operator is applied twice and walks the tree in no fixed order; and one
container serves the eight cells of a gate.  `PROJECT.json` lists each hazard with
its line and its properties.

What makes each part correct:

* rotation: an image somebody works in stays; what nobody owns can be reclaimed and
  is, after any crash; the disk is not overcommitted; the run ends, and stops itself
  only over residue of its own;
* pacing and backoff: no burst exhausts the quota, nobody waits for ever;
* burn guard: stops exactly when nothing progresses;
* check: a verdict is about its own tree, a witness is a failure by name, absence of
  judgement is not agreement, and a record says complete of a whole check or says
  that the check raised;
* specification, operator, parsers: what is renamed is what the patch wrote, all of
  it or nothing; each failure is judged by its own block; a case nobody can read is
  not a verdict;
* records and aggregate: nothing half-written is read, nothing complete is lost,
  resuming finishes the sample, the counts agree;
* gate and measurements: every cell is graded on its own tree; PASS, a coupled row
  and an open gate each rest on measurements that took place.

## The modules

| Module | Models | State and actions |
|---|---|---|
| `ImageCustody` | what rotation promises | `resident`, `owned`, `relied` |
| `RecordStore` | what the records directory promises | the records as registers, the invocation and what is `due` of it, what a reader has `listed` |
| `Rotation` | `rotation.py` with `run_one` and `main` around it | below |
| `PullPacing` | pacing against a sliding window | `pc`, `remaining`; `Grant` reads, `Counted` pulls |
| `BurnGuard` | `guarded`, `check_progress`, backoff, abort | `recent` is the code's list, `idle` the history it stands for |
| `GuardedRun` | composes the two on the same tasks and semaphore | a step of one guard, of the other, or of both |
| `Formcheck` | the check of one task and its record | the hook's attributes, one by one |
| `Campaign` | sample, record files, resume, aggregate | disk, coroutines' stages, the reader's process |
| `PatchScope` | gold patch to scope | the loop variables of `changed_lines` |
| `SymbolRename` | `symbol_rename` on a tree (EXTENDS `PatchScope`) | the files, what the scan has collected |
| `Attribution` | the log of a suite to a reason per failing test | the buffers of `failure_sections` |
| `RenameVerdict` | composes the three: a case from patch to verdict | and the verdict |
| `RepairGate` | `repair/gate.py` | the container's tree, the matrix |
| `ImportLocal` | `import_local_run.py` | rows in memory and on disk, container, images |
| `JudgeVariance` | `judge/variance.py` | the loops of `main`, scores, the result file |
| `MC*` | values of the constants, symmetry | |
| `*_proofs` | the theorems | |

`Rotation` and `ImageCustody` are related by refinement (`ImplementsCustody`), as are
`Campaign` and `RecordStore` (`ImplementsStore`): coroutines, checks, `.partial` files
and the steps of a write are gone there, and a record is a register that the run let
loose on its task writes at once, and at most once in an invocation.  The value it
writes, if it says it is complete, is whole or says that its check raised (`Honest`),
and a resume is let loose on no complete record, so that it never takes one away:
`ResumeKeepsComplete`, which no run checks beside this one and `ResumeSafety` proves.
`PullPacing` and `BurnGuard` refine two waits of a worker that `Rotation` shows as
single states (`pacing`, `backoff`).  `Formcheck` is the whole family on one task, with
the outcome of an oracle and a grader given; `RenameVerdict` is one case of it and shows
where that outcome comes from.  `Campaign` is many tasks, of which it knows only what
the record keeps.

**Rotation.**  A task and its image are one identity.  `pc[t]` is where the task's
coroutine is, from `queued` (the semaphore) over `locking`, `reconciling`, `pacing`,
`pulling` and the outcomes of a pull, `sizing`, `running`, `checking`, `removing`,
`removed`, to the tail (`leak`, `sweep`, `foot`, `refoot`) and `done`.  The sweep of
`reconcile` is four variables -- its holder, what it walks, what it keeps, what is left
of the listing -- and one step per lease file, per `docker rm` and per `docker rmi`,
because the code reads a listing once and acts on it later.  Code between two awaits is
one action; the tail is synchronous on the loop, so its several docker calls are several
actions during which (`loop`) only threads and the daemon move.  `Kill` ends the process
anywhere; `Start` after it finds whatever it left.  Sizes are counted in images
(`ASSUMED_IMAGE_BYTES`).  The environment's faults are in the constant `Faults`: a
runtime that leaks its container, a `docker rm` that fails, a docker command that times
out, a task that does not take the run's test overlay, a pull that outlives its run.  A
timeout is caught or not by where it comes: in the sweep under the lock
(`SweepExpired`), in a pull (`PullExpired`), the size of its image (`SizeExpired`) or
the `rmi` (`RmiExpired`) it is the task's error; in the tail (`TailExpired`) nothing
catches it, and the run ends, as it does over an overlay (`OverlayRefused`, `run.py`
312); in the reconcile of a start it ends the process, as a kill does.  A command that
timed out is taken not to be carried out later, but for a pull.

**PullPacing.**  `remaining` is what the registry would answer.  Between `Grant`
and `Counted` others may read the same value.  `unpaced` records that some pull went
ahead without a reading, which the code allows (`rotation.py` 118-121).  `GuardedRun`
puts it between `BurnGuard`'s `Enter` and the outcomes of the pull: a task may fail
before it asks for quota (`FailEarly`), `Refused` is `TooMany` of the one guard and
`Refuse` of the other, and a nap for quota is no outcome and keeps the worker's place.

**BurnGuard.**  Time is only told apart by `check_progress`'s comparison, so a wasted
task takes less than `MIN_PLAUSIBLE_TASK_SECONDS` and a real one as much: the two
populations of `run.py` 69-74.  The fault `waited` drops that assumption.

**Formcheck.**  A tree is the set of transforms on the reference.  A run of the suite
gives each graded test one of `pass`, `coupled` (its failure block names the symbol),
`broke`, `unparsed` (no block found), freely at every run: tests may be flaky.  A
grading names at most `LIMIT` failing P2P tests (`m4_grader.py` 69, there ten), and only
those are attributed.  `memo`, `graded`, `digest`, `last`, `analysis` are the attributes
of the same role, and `Row` reads whatever they hold.  `Raise` and `Timeout` may end the
check at any step.

**Campaign.**  `file` and `partial` are the two names `write_record` uses; opening,
dumping and replacing are three steps, and `Kill` may come between any two.  The
aggregate is a process of its own: `List` takes the directory's names, `Read` opens one,
`Reported` computes `Report`, whose operators are the rates of `aggregate.py`. A task's
coroutine may be refused, run into `run_one`'s timeout or an exception of its lease
(`Fails`, which sets the error), raise inside the check (`Raises`: `_run_check` answers
with a row that says so, and the record is complete) or come to its end.  `Allocate` is
the largest-remainder division, in integers.

**PatchScope, SymbolRename, Attribution, RenameVerdict.**  A file is a sequence of lines
with an operation each and the definitions they belong to; its diff is generated as git
writes it -- header, `---`/`+++`, a hunk header wherever lines are left out -- and
`Read*` is one iteration of `changed_lines`' loop over it.  A file of the tree is the
set of kinds of occurrence the operator tells apart (an import, a qualified attribute, a
string in an annotation, an entry of `__all__`, a longer identifier, ...), each with
what is written there now.  `Pick` chooses an anchor in scope and an order for the
directory walk; a scan of a file raises, collects a hit or rewrites.  `RunSuite` takes a
run (`IsRun`: what becomes of each test -- it passes, fails with a block of its own or
of its fixture, is lost with its module, or nothing is printed of it --, whether the
import error of a module says the name, the order of printing, the failures the grading
names) and its `log`, a sequence of rules, labels, lines of `=` and text in the dialect
of pytest, unittest or sympy.  `ScanRule` and `ScanText` read one line each in the first
pass of `failure_sections`, `ScanEnd` closes the last block, `ScanLabel` reads one line
in the second pass, and a named test is given its block by `SectionFor`, whose four ways
to match are those of the code: bare name, path and name, a module path that contains
the test's (`Layout`'s `holders`), a module name among the parts of its dotted name
(`leaf`, `parts`).  `Judge` is the oracle, `Reapply` the second application.

**RepairGate, ImportLocal, JudgeVariance** follow the loops of the three scripts, one
action per call that may raise.  A tree is the set of what was applied to it, so that a
cell or a row can be compared with what it claims; in the gate's container files that
git ignores may stay from cell to cell (`kept`), and the search for what a rename left,
run without `check`, may fail and find nothing (`searched`).  History variables (`kept`
of `ImportLocal`, `begun`, `unstarted`, `sent`) are marked as such and no action reads
them.

## What is checked

| Run | Module, bounds | Shows |
|---|---|---|
| `rotation_healthy` | 5 tasks, 4 images of disk, no fault | containers, disk, leases and aborts are as they should be when docker does as told, kills and refusals included |
| `rotation_faulty` | 3 tasks, 3 workers, every fault | image safety, prune safety, the inductive invariant, refinement, and termination |
| `guards` | 4 tasks, 3 workers, reserve 3, limit 5, streak 3 | nobody is refused; the burn guard is neither late nor early; naps are capped; the run ends |
| `formcheck` | 4 slots, 3 tests, one P2P failure of two named | what verdicts, the tri-state and records mean |
| `campaign` | 4 tasks, sample of 2, 2 workers, one fault, one rerun | the sample is fair; complete records are whole or say that the check raised; the directory is a `RecordStore`, written at once, read as it is and kept by a resume; reports add up; resuming finishes |
| `rename_verdict` | every diff of 2 changes in 5 lines, two-file patches, 2 more files, 3 to 5 tests of which two P2P failures are named, 3 runners | scope, overlay, rename, attribution and verdict, from patch to row |
| `repair_gate` | 2 mutants, 2 files, 2 tests, one fault | cells, PASS and clean-up |
| `import_local` | 3 pairs of 2 tasks, 2 tests, two faults | rows, restarts and clean-up |
| `judge_variance` | 3 of 4 tasks, 2 calls, both arms | the gate and the result |
| `rotation_leak`, `rename_incomplete`, `scope_neighbour` | as above | the three findings below |

Bounds.  Three tasks are enough for a worker that sweeps, one it could hurt, and one
that pulls; the healthy run has five so that the disk, at four images and a headroom
factor of two, is the limit on the workers.  Four pulls over a limit of five and a
reserve of three reach the reserve from above with all workers at once.  Four outcomes
pass a window of three with a work before it, after it or in it.  The family of four has
a slot without anchor, two anchors of a loud operator and a silent one; two P2P tests
and one F2P test give every combination of attributed and unattributed failures, and a
limit of one named P2P failure leaves the other unread. `Rotation` takes disk capacity,
workers and the residue at the first start in every combination the constants allow.

`FAULTS` bounds the kills, errors, refusals and timeouts of a campaign, of a walk and of
a gate; one of each is enough for a kill between two steps of a write and for the resume
that meets what it left, two let a rerun fail too.  A sample of two out of three
eligible tasks leaves a remainder in both levels of the draw.  Two changed lines of one
file are every pair of insertion, deletion and replacement, adjacent or in two hunks; a
second file before or after it shows what carries over.  A case with the full set of
trees has a file with one occurrence and one with up to two of any kind, so a hit in
each of two files in either order of the walk, and a case with one plain tree has every
run of the suite: with a module whose path contains another's, two modules with one leaf
and a class of a module's name, tests with one bare name, a parameter with a dot, and up
to four P2P failures of which two are named.  Two calls per task and arm with a minimum
of two make a lost call a task that does not count.

Fairness.  `RunEnds` assumes weak fairness of `Progress` as a whole: the process,
its threads and the daemon do something while they can.  Nothing is assumed about
which worker moves.  `Ends` assumes that the event loop and the executor's threads give
each worker its turn, and that the registry's window slides: without the last a worker
naps for quota for ever.  `CampaignFinishes` assumes this of each coroutine, and that
somebody draws the sample and starts the run with `--resume` while it is down; kills,
failures and reruns are never assumed and are finite in number.

Three violation runs show where the code is not what it says of itself; each quotes its
line in `PROJECT.json`:

* `rotation_leak` -- `run.py` 372 sweeps with an empty keep set: one leaked container
  costs every other worker its own;
* `rename_incomplete` -- `from m import Name as N` is neither rewritten nor refused;
  the production module that says it no longer imports, and as its error names the
  symbol, the case is a WITNESS of coupling;
* `scope_neighbour` -- a removed line is given the number of the line that moves up
  (`container_task.py` 407), so the removed last line of a definition brings its
  neighbour into scope, against 404-406 and 382-383.

### Where a property stops

Some properties are stated narrower than one would like, because the code is
otherwise.  These are the places:

* rotation: an image another workload holds stops the run (`run.py` 384, against
  `rotation.py` 460-462); a pull, an inspect or an `rmi` that times out leaves its lease
  for the rest of the run (`rotation.py` 575, 589, 599); a docker command of the tail that
  times out ends the run without the task's record (`run.py` 368-387), as one overlay
  that is refused does; a task's time includes its waits, so a slow failure looks
  like work (`run.py` 314);
* check: P2P failures past the tenth are attributed to nothing (`m4_grader.py` 69), so
  `WitnessAttributed` and `WitnessIsEarned` speak of the named ones, where
  `formcheck_hook.py` 241-245 says that every failing test was attributed; rows that ran
  nothing carry another case's digest and analysis (`formcheck_hook.py` 323); a check that
  raised between cases is recorded complete with the rows it had, and no resume takes
  it up again (`run.py` 305, against the comment at 302-304), so `CompleteIsWhole`,
  `RecordMeans` and `Honest` except records whose row says so;
* campaign: the aggregate counts rows of unfinished records, and takes the witness
  split over all records but the counts over controlled ones; `SampleIsFair` allows
  a group a share rounded to nothing; two runs over one directory would share the
  `.partial` names;
* gate and measurements: `docker run` is outside the `try` in both, so a failed start
  may leave its image (`unstarted`); the rows and the two result files are not
  written atomically, and a torn rows file makes every later start raise; a walk
  that stopped at a defect skips that pair when started again, and can then exit 0;
  the gate to step 2 reads the arm `1.0` even if its temperature was refused; C3
  flips the gate although a comment (`gate.py` 324-329) says it does not; what git ignores
  is graded along with the next cell, and a rename whose search for residue fails is not
  checked for it (`gate.py` 138), both of which `CellsAreSound` allows; a production
  file that is not listed is searched for the old name only, never for the new one;
* burn guard: how fast a backoff grows and that a success resets it are in the model,
  but no property speaks of either;
* scope: `ScopeIsPatched` says exactly which names are in scope, the neighbour of a
  deletion among them (`scope_neighbour`); scope is a union of bare names over all
  targets; git writes no `b//dev/null` header, so a deleted production file is a target
  and the check of such a row raises;
* rename: an `async def` is no anchor, and parameters and keywords of the same name
  are left; of several causes that refuse a rename, other than dynamic hits, the one
  that is said follows the order of the walk;
* attribution: the first block with a test's bare name is taken for its own, whatever
  parameters, class or file it is of (`f4_formcheck.py` 234; `Shadowed`); a test without
  one is given the block of any module that does not import and whose path contains its
  own (261) or whose name is a part of its dotted name (279-280; `SharesModule`), two such
  modules of one name sharing the first's block (217); the last underscore block runs into
  pytest's summary.  `CoupledIsOwn` and `BrokeIsOwn` exempt these tests and no others.
  A parameter with a dot behind a class is never matched, nor the block of a fixture but
  for a test behind a class, whose header is by accident one of the test's
  (`UnreadIsUnjudged`); blocks of a teardown are not modelled.  An unread P2P failure is
  UNVALIDATED in the container runs and INVALID in the earlier phase (`PhaseFour`).

## What is proved

Every theorem holds for all values of the constants that satisfy the named `ASSUME`s
and the hypothesis of its row, if there is one.

| Theorem | Says | Hypothesis |
|---|---|---|
| `Rotation_proofs!Invariance`, `TypeCorrect`, `ImageSafety`, `PruneSafety`, `SweepSafety` | `IInv` and its parts, under any faults | |
| `Rotation_proofs!Refinement` | `Rotation` implements `ImageCustody` | |
| `Rotation_proofs!Termination` | a started run cannot go on for ever: each step of `Progress` lowers a bounded number, under any faults | |
| `Rotation_proofs!NeverStuck` | until its process ends a run has a step of its own, under any faults | |
| `Rotation_proofs!ContainerSafety` | only the sweep with an empty keep set takes a running check's container | |
| `Rotation_proofs!LeaseOwnership` | a live lease is of a worker with a slot | no docker call times out |
| `Rotation_proofs!Reclaiming` | a start takes away all that nobody owns | `docker rm` obeys, no pull outlives its run |
| `Rotation_proofs!ContainerHealth`, `NoFalseAbort` | no check loses its container, no guard stops the run | no faults, no foreign images |
| `Rotation_proofs!DiskSuffices` | images never exceed the disk | the same, and workers as computed |
| `RunGuards_proofs!BurstSafety`, `Pacing` | no burst takes the last slot, and no pull is refused (`BurstSafe`, `NeverRefused` of `PullPacing`) | `Workers <= PULL_RESERVE` |
| `RunGuards_proofs!Composition` | a run with both guards is a run of each | |
| `RunGuards_proofs!RunIsPaced`, `Unthrottled` | so no pull of such a run is refused, and if every reading succeeds nobody backs off | `Workers <= PULL_RESERVE` |
| `RunGuards_proofs!TypeCorrect` | naps and history are bounded | |
| `RunGuards_proofs!Halting` | three steps a task and two more, and one to make until the run has ended | `Workers # 0` |
| `RunGuards_proofs!Timeliness`, `Exactness` | the guard is never late, nor early | `"waited" \notin Faults` |
| `Formcheck_proofs!VerdictSoundness` | judged rows rest on their own tree; invalid ones on a read failure | |
| `Formcheck_proofs!WitnessSoundness` | witnesses fail by name, as far as the grading names failures | |
| `Formcheck_proofs!RecordSoundness` | what a record says of a check is what its rows are | |
| `Campaign_proofs!CompleteRecords`, `ResumeSafety` | a complete record is whole or says that its check raised, and a resume never takes it away | |
| `Campaign_proofs!StoreRefinement` | `Campaign` implements `RecordStore` | |
| `Campaign_proofs!ResumeSettles` | when a resume returns, each task of the sample is complete, or its check failed or was refused in this very run | |
| `Campaign_proofs!InvocationEnds` | an invocation makes boundedly many steps, and has one to make until it is down | every operator has an outcome |
| `Campaign_proofs!ReportSoundness` | the reader never fails, and every count of its report adds up | |
| `Campaign_proofs!SampleFairness` | each group's share of the sample is exact within one | `N <= Cardinality(Eligible)` |
| `RenameVerdict_proofs!ScopeSoundness` | the scope is exactly the names of added lines and of lines a deletion moved up | |
| `RenameVerdict_proofs!OverlaySafety` | an applied overlay touches no target | |
| `RenameVerdict_proofs!RenameWholeness`, `Determinism` | all of a rename or nothing, whether is decided by the tree and not by the walk, and what a refusal says is in the tree | |
| `RenameVerdict_proofs!PhaseAgreement` | the container runs judge as the earlier phase did | |
| `RenameVerdict_proofs!FailureAttribution` | a named test is judged by a block of its own, or by one of those `section_for` takes for it | |
| `RenameVerdict_proofs!EarnedWitness` | a witness is a whole rename, with every named failure read and, but for those blocks, by name | |
| `RepairGate_proofs!CellSoundness`, `PassSoundness`, `CleanEnd` | the gate's three properties, for any mutants, library and suite | |
| `ImportLocal_proofs!RowSoundness`, `CleanEnd`, `Growth` | rows, clean-up and the growth of the file, for any witnesses and tests | |
| `JudgeVariance_proofs!WholeResult` | a result is of a whole run on a balanced choice | |
| `JudgeVariance_proofs!GateSoundness` | the gate opens on a measured floor only | `Calls <= MIN_USABLE_PER_TASK` |

The hypotheses are the ones under which the code keeps the property, and the runs with
the matching constants check the same.  `LeaseOwnership` without its own is what
`rotation.py` 575, 589 and 599 break; a disk is only safe if nobody overrides the worker
count that was computed from it; and a sample of 50 out of the some 500 eligible tasks
exists. `GateSoundness` needs that no task is called more often than it takes to admit
it. Both numbers are `N_CALLS` by default, but `--n` moves only the first (`variance.py`
233; `spread`, 203, keeps its default): with a larger `--n` a task is admitted with
calls missing, where `PROTOCOL.md` 468 asks for a score of every call.  TLC refutes
`GateIsMeasured` with three calls and two needed.

**Rotation.**  `ImageSafety` is not inductive.  That a sweep spares an image somebody
relies on follows because the sweep keeps every live lease (`KeepCoversLeases`); that
holds because no lease is taken between its reading of the leases and its end, which
is what the lock is for (`LockHolder`: the only coroutine about to take a lease is the
one that holds it), and because while it reads, every live lease is kept or still to
be read (`SweepReads`).  `SweepSpares` says that what is left to remove is not kept,
`LeaseLive` that whoever relies on an image has a live lease.  `NoPullPruned` needs
that `_PULLS_IN_FLIGHT` counts the workers inside a pull (`PullCount`), a fact about
cardinalities; `CountStep` proves it apart from the rest, which SMT does not need it
for.  The refinement follows from the invariant action by action: a removal is
`Evict` because the removed image is not relied on.

`Termination` and `NeverStuck` are the two halves of `RunEnds` that need no fairness.
`Left` is a number in two digits.  The high one counts what the coroutines and the
process have before them (`Rank`, fifteen for a task in the queue; the count is the
size of a set of pairs, so that one coroutine's step takes elements away and the sum
over all of them need not be spoken of).  The low one counts the rest of the sweep --
the walks to come, the listing of this one -- and the pulls still in the daemon; a
coroutine that starts a sweep or a pull pays for it with the high digit.  A worker's
turn is never given back: nobody is ever queued twice.  `Waiting` says what a step
waits for: a lock that is held has a sweep under way, a loop that is taken has a task
in its tail, a `pulling` worker has a pull in the daemon, and after a cancellation
only threads are left.  If nothing could move, then, lock and loop would be free, no
task be between the queue and its end, and so the semaphore (`workers # 0`) or the
end of the run be open.

Without faults three more invariants join it.  `PullOwned`: a pull in the daemon is of
a worker that waits for it.  `StartSweep`: the reconcile of a start has no leases to
keep, and what it has not removed is still in its listing -- from which `Reclaiming`
follows at its end.  `Healthy`: while the run is up, each image is of a worker between
its pull and its removal and each container is of a check.  `DiskSuffices` adds `Room`,
which counts: at most `workers` tasks hold a slot, and the worker count was taken from
the disk left by what was resident at the start; a worker's headroom test before the
pull speaks of images only, so the pulls of the others are bounded through the slots.

**Pacing, burn guard.**  For pacing the invariant is that the quota exceeds the
outstanding grants by what the last grant saw above the reserve, less the workers.  For
the burn guard (`Tracks`) it is that `recent` is a suffix of the history of outcomes, so
that the length of the idle streak can be read off it.  For `Halting` a task is three
steps from its end in the queue and never comes back to it, a nap included; an abort,
which ends the naps of all, is the last step.  `Composition` takes a step of
`GuardedRun` apart: `StepOfGuard` and `StepOfPacing` say that each guard sees a step of
its own or none, so that the invariants of both hold together; `Unthrottled` needs both,
as a count of refusals only leaves zero where the registry had nothing left for a grant.

**The check.**  `Handed` is the invariant that matters: when the reward step begins, the
memo still holds the very grading the oracle has attributed, so that reading the reward
alone is sound even if tests are flaky; it needs `MemoOwn` and `AtCase`, and `NamedOf`,
which says what of the failures of a run its grading names. `RecordSoundness` adds
`Meant`: the rows so far mean what they say, the tri-state is still open until the last
row is made, and a check that stops before it has its error set, or a row that says it
raised.

**Campaign.**  The invariant has a part per promise.  `Closing`: a task past its check
failed or went through the family, what is dumped under the `.partial` name is the
record of that, and whatever is under the final name and says it is complete is whole.
`Resumed`: what a resume has still to write is of no task with a complete record.
`Reading`: each name the reader has still to open is one that exists, as `write_record`
replaces and never removes.  `Controls` is what the report's sums need of the rows.
The refinement takes these parts action by action: `Replace` is the one that publishes,
an end of a coroutine without a record forgoes it, a read yields a record because of
`Reading`, and `ReadUp` (a reader that is not reading has nothing left to open) lets a
report forget.  `Accounted` is what `ResumeSettles` needs: what a resume passed over
is complete, and what it is through with is settled.  In `InvocationEnds`
`Distance` counts the steps of a coroutine with the rows it has still to make.
That the counts add up is a statement about sums over any set of records, and that the
draw is fair one about the largest remainders of any groups: both are proved by
induction on the set, taken as the least counterexample of a set of sizes
(`SetInduct`, `LargestRemainders`: the seats left after rounding down are fewer than
the groups, so each group gets at most one of them).

**The rename.**  `RInv` follows a case through its stages.  While the walk goes on
(`Walking`), each file is still to be read or was passed: it could be parsed, what it
names dynamically is in `dynamic`, and if nothing is there its text is the rewritten
one and the rewriting can be undone.  So at the end `out` is the whole rename whatever
the order was, or something of `Hazardous(before)` was met, which is what makes the
answer one of the tree; that the hit cited is the strongest and the least in path order
needs that a finite set of paths has a least one (`SomeStrongest`).  `Again` says that
a tree that was renamed once can be renamed again, from which `escaped` is never
reached.  `Asked` and `Judged` carry from the reading of the blocks to the verdict what
`PhaseAgreement` compares.

**The diff.**  `ScopeSoundness` is about a loop over the concatenation of the files'
diffs, of any length.  The concatenation of sequences is first laid end to end
(`Flattening`, `Locating`: a position is a place in exactly one of the parts), then each
file's diff the same way as a concatenation of one entry per line.  `InBody` says what
`changed_lines` holds when it has read the entries up to a line of a file: the changed
set is what `ChangedIsTheDiff` gives for those lines, and `new_line` is the number of
the next line of the post-patch file; a hunk header restores it where lines were left
out, for which the hidden lines must be unchanged ones.  `BodyStep` is one entry,
`BodyIsRead` and `DiffIsRead` the induction over entries and files, `DiffInv` the
invariant of the case.  `Climbing` and `Covering` take it through `symbols_covering`.

**The log.**  `FailureAttribution` is about two passes over a log of any length.
`ScanInv` holds whatever the lines are: each section is what one head line leads in the
pass that reads its kind (`Grounds`), the open block is that of the last rule read, and
no head that was read is missing, since a dictionary only replaces the body of a header
it has.  For the log of a run (`Reached`: its lines stand in its blocks, laid end to
end) each head line is then a failing test's or a broken module's, and leads that one's
text and nothing else unless it is the last of pytest, where the summary follows
(`Headed`, `WhoseHead`); and each printed test or broken module has its head
(`HasHead`).  So whichever section `section_for` hits first is the test's own, its
module's, or, by the way the runner's headers match (`TestMatches`,
`ModuleMatches`), of a failing test with
the same bare name or of a module that `SharesModule` speaks of; and if it hits none the
test is not `Findable`.  `Attributing`
adds that what was called so far is still what the sections say.  `EarnedWitness` is
then `IInv` and the second half of that.

**The gate.**  `Filled` ties the matrix to the loop's position (the cells passed are
`CellAt(1)`, `CellAt(2)`, ..., and `Matrix` shows by Euclidean division that these are
all cells), and `Own` says that the container about to be graded is the cell's
(`Builds`, `Renames`), where a rename whose search was run has left no symbol behind.
PASS is then read off three comparisons; that every test ran is a count of present tests
against a full one (`AllPresent`), which needs the graded tests to be finitely many.

**The measurement.**  `UnderWay` says what the row holds at each point of `run_task`,
and `Taken` that no pair of a row, in memory or on disk, is taken again.  `Docker` is
what `CleanExit` needs through kills: every image on the host is of a task that
docker did not start, that is under way, or that this run or the next will still come
to (`Ahead`, `Stored`); at the end nothing is ahead.  `Growth` rests on `Kept`: between
two dumps the file and the rows in memory are the same.

**The judge.**  `Looping` gives the position of the three loops: the calls made are the
arms and tasks behind times `Calls`, tasks ahead are untouched, and the payloads on
record of the task at hand are those in `seen`; `Whole` is the same when they have
ended.  `ResultIsWhole` adds that the choice is balanced (`SelectIsBalanced`): `Before`
is a strict linear order (`Order`), so each place is taken exactly once, by pigeonhole
(`PlacesTaken`), and of the repositories of an id left out and of one chosen the first
has given no fewer ids, as ranks are compared first.  `GateReadsFloor` takes the gate
apart: the median of the spreads of full tasks has half of them at or below it
(`HalfBelowMedian`).

Assumptions are the named `ASSUME`s, which each passing run evaluates.  Tasks, graded
tests and scanned files are finitely many; numbers are natural.  `Main`, `None`, `Torn`
and `gold` are none of the things they are told apart from (`Distinct`, `Unreadable`,
`Contents`, `Absent`, `Table`).  A family is a sequence that has its loud operators
(`Operators`).  A dataset row names each file once, and the lines its diff leaves out
are unchanged ones (`Rows`), which is what git leaves out; paths can be compared
(`Paths`), and a tree gives every file a set of occurrences (`TreesOfFiles`).  A header
or a text is not the absence of a block (`Unlike`), nor a verdict that of one
(`Verdicts`); a module's path contains itself, its leaf is a part of its dotted name,
and unittest names a test by module, class and method (`Told`).  A population names each
id once (`Ids`: it is the sorted names of record files), and what an arm may answer is a
reply (`Answers`).

Only model-checked is liveness (`RunEnds`, `Ends`, `CampaignFinishes`), which
is out of the prover's reach here, as is everything with `ENABLED`.  What of it needs
no fairness is proved for all constants: `Termination` and `NeverStuck` of `RunEnds`,
`Halting` of `Ends`, `InvocationEnds` and `ResumeSettles` of `CampaignFinishes`.  Each
names a number that every step lowers and a guard that holds until the end; that the
guard is the one `ENABLED` stands for, and that fairness turns both into an end, is
what the runs add on their instances.  For the wait for quota there is no such number:
`wait_for_pull_slot` naps as often as the window is full, and only the sliding of it ends
that, so the part of `Ends` that speaks of it is checked and not proved.

## What is not modelled

* Two `run.py` processes at once share the lease directory; the lock, the counter
  and the empty keep set are then per process.  One process is modelled.
* Ids listed twice, reuse of a dead run's pid, co-tenants of the quota, a limit not
  above the reserve (`wait_for_pull_slot` then never returns), a free-space
  measurement that fails.
* A burn abort inside `Rotation`: what follows it is `CancelAll`, as for the other
  abort, and `BurnGuard` models when it comes.
* The operators beside `symbol_rename`: `Formcheck` knows them by their outcomes.
  `MarkerSetOracle`, `--keep-image` of the gate, the images' references, the download of
  the dataset, prompts and costs of the judge, intervals around the rates, printing.
* The one-shot scans over committed files and the workers of the phases before the
  container runs, which have no state of their own; of these `Attribution` models the
  parsers and `PhaseFour` the verdict.
* A docker command that times out and is carried out after all, but for a pull; blocks of
  a test's teardown; a suite that is cut off in the middle of its log.
* Content lines of a diff that begin with `--` or `++`, decorators (outside the lines
  of a definition), files that are no utf-8.

## Plan

Every component with state of its own has its module, and every safety property of a
passing run its theorem.  What is left are the other three operators
(`KwonlySpecialize`, `CollectionReverse`, `MessageReword`), which could be modelled as
`SymbolRename` is.

## Running

    tlc -config RotationFaulty.cfg MCRotation.tla
    tlc -config RenameVerdict.cfg MCRenameVerdict.tla
    tlc -config GuardedRun.cfg GuardedRun.tla
    tlapm Rotation_proofs.tla
