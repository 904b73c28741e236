------------------------------- MODULE Campaign -------------------------------
(***************************************************************************)
(* A campaign of runs over one records directory: the frozen sample of     *)
(* scale/sample_50.py, the invocations of scale/run.py that write one      *)
(* record per task and resume past the complete ones, and the report of    *)
(* scale/aggregate.py, whose process may read the directory at any moment. *)
(*                                                                         *)
(* On disk are the records and their .partial siblings; they survive the   *)
(* process.  A kill comes between any two steps.  Rotation and Formcheck   *)
(* say what happens inside one task, here a check ends with its rows, with *)
(* some of them (a timeout, an exception) or with none (refusal).          *)
(***************************************************************************)
EXTENDS Integers, Sequences, FiniteSets, FiniteSetsExt

CONSTANTS
  Eligible,     \* tasks with a production Python file in their gold patch
  Untargeted,   \* tasks without one
  Multi,        \* tasks with several such files
  RepoOf,       \* the repository of an eligible task
  N,            \* size of the sample
  Workers,      \* the semaphore
  Family,       \* operators, in the order their rows are made
  Loud,         \* operators of which an incomplete rewrite fails loudly
  THE_NUMBER_OPERATOR,
  Shows,        \* what a row of an operator may say: set of [verdict, p2p]
  FAULTS,       \* bound: kills, timeouts, errors and refusals of the campaign
  RERUNS,       \* bound: invocations without --resume
  None, Torn

Task == Eligible \cup Untargeted

ASSUME Tasks == Task \subseteq Nat /\ IsFiniteSet(Task) /\ Multi \subseteq Eligible
ASSUME Sizes == N \in Nat /\ Workers \in Nat \ {0} /\ FAULTS \in Nat /\ RERUNS \in Nat
ASSUME Operators ==
  Family \in Seq(Range(Family)) /\ Loud \subseteq Range(Family) /\ THE_NUMBER_OPERATOR \in Loud

JUDGED == {"WITNESS", "CLEAN", "INVALID"}
Row    == UNION {{[op |-> o, verdict |-> s.verdict, p2p |-> s.p2p] : s \in Shows[o]}
                   : o \in Range(Family)}
Rows   == UNION {[1..k -> Row] : k \in 0..Len(Family)}
\* `raised`: the row of _run_check has an error_type (mountable is its negation).
Record == [completed : BOOLEAN, control : BOOLEAN, rows : Rows, raised : BOOLEAN]

\* No file, and a file that is half written, are no record.
ASSUME Unreadable == None # Torn /\ None \notin Record /\ Torn \notin Record

VARIABLES
  sample,    \* ids_50.txt, frozen before the first run
  file,      \* <id>.json of each task
  partial,   \* <id>.json.partial of each task
  run,       \* the run process: "down", or its invocation
  stage,     \* where the coroutine of each task is
  found,     \* what the task object of each task holds
  reader,    \* the aggregate's process
  unread,    \* names it listed and has still to open
  loaded,    \* records it has read
  faults, reruns

disk   == <<file, partial>>
tasks  == <<stage, found>>
agg    == <<reader, unread, loaded>>
vars   == <<sample, disk, run, tasks, agg, faults, reruns>>

-----------------------------------------------------------------------------
\* Sampling.

SumOver(f) == MapThenSumSet(LAMBDA k : f[k], DOMAIN f)

\* allocate: the largest remainders get what flooring left over.  Remainders
\* are floats in the code, so equal ones are taken in either order.
Allocate_Floored(counts, n) ==
  {[k \in DOMAIN counts |-> (counts[k] * n) \div SumOver(counts)]}
Allocate(counts, n) ==
  LET K     == DOMAIN counts
      total == SumOver(counts)
      base  == [k \in K |-> (counts[k] * n) \div total]
      rest  == [k \in K |-> (counts[k] * n) % total]
  IN {[k \in K |-> base[k] + (IF k \in S THEN 1 ELSE 0)] : S \in
        {S \in SUBSET K : /\ Cardinality(S) = n - SumOver(base)
                          /\ \A i \in S, j \in K \ S : rest[i] >= rest[j]}}

Strata(rows) == {g \in {rows \cap Multi, rows \ Multi} : g # {}}
Repos(rows)  == {{t \in rows : RepoOf[t] = RepoOf[u]} : u \in rows}
Counts(parts) == [p \in parts |-> Cardinality(p)]

\* draw: by target-count group first, then by repository within the group.
Draws(rows, n) ==
  {S \in SUBSET rows :
     \E quota \in Allocate(Counts(Strata(rows)), n) : \A g \in Strata(rows) :
       IF quota[g] = 0 THEN S \cap g = {}
       ELSE \E q \in Allocate(Counts(Repos(g)), quota[g]) : \A p \in Repos(g) :
              Cardinality(S \cap p) =
                IF q[p] <= Cardinality(p) THEN q[p] ELSE Cardinality(p)}

-----------------------------------------------------------------------------
Nothing == [control |-> FALSE, rows |-> <<>>, error |-> FALSE, raised |-> FALSE]

Init ==
  /\ sample = None
  /\ file = [t \in Task |-> None] /\ partial = [t \in Task |-> None]
  /\ run = "down"
  /\ stage = [t \in Task |-> "out"] /\ found = [t \in Task |-> Nothing]
  /\ reader = "idle" /\ unread = {} /\ loaded = [t \in {} |-> None]
  /\ faults = 0 /\ reruns = 0

Draw ==
  /\ sample = None
  /\ sample' \in Draws(Eligible, N)
  /\ UNCHANGED <<disk, run, tasks, agg, faults, reruns>>

\* is_complete: the record says so itself.
IsCompleted(t) == file[t] \notin {None, Torn} /\ file[t].completed
IsComplete_Present(t) == file[t] # None
IsComplete(t) == file[t] \notin {None, Torn} /\ file[t].completed

Invoke(ids, how) ==
  /\ run = "down"
  /\ run' = how
  /\ stage' = [t \in Task |-> IF t \in ids THEN "waiting" ELSE "out"]
  /\ found' = [t \in Task |-> Nothing]
  /\ UNCHANGED <<sample, disk, agg, faults>>

\* run.py --ids-file ids_50.txt --resume.
Resume_All ==
  /\ sample # None
  /\ Invoke(sample, "resume") /\ UNCHANGED reruns
Resume ==
  /\ sample # None
  /\ Invoke({t \in sample : ~IsComplete(t)}, "resume") /\ UNCHANGED reruns

\* Without --resume: the sample again, or --instance-id with a task that has no
\* production Python.
Rerun ==
  /\ sample # None /\ reruns < RERUNS
  /\ \E ids \in {sample} \cup {{t} : t \in Untargeted} : Invoke(ids, "rerun")
  /\ reruns' = reruns + 1

-----------------------------------------------------------------------------
\* run_one.

At(t, s)     == run # "down" /\ stage[t] = s
Step(t, s)   == stage' = [stage EXCEPT ![t] = s]
InSemaphore  == {t \in Task : stage[t] \in {"checking", "tail", "open", "dumped"}}

Begin(t) ==
  /\ At(t, "waiting") /\ Cardinality(InSemaphore) < Workers
  /\ IF t \in Untargeted
       THEN /\ found' = [found EXCEPT ![t].error = TRUE]
            /\ Step(t, "tail")
       ELSE Step(t, "checking") /\ UNCHANGED found
  /\ UNCHANGED <<sample, disk, run, agg, faults, reruns>>

\* The hook: the control first, then the rows in the order of the family.
Control(t) ==
  /\ At(t, "checking") /\ ~found[t].control
  /\ \/ found' = [found EXCEPT ![t].control = TRUE] /\ UNCHANGED stage
     \/ Step(t, "tail") /\ UNCHANGED found
  /\ UNCHANGED <<sample, disk, run, agg, faults, reruns>>

MakeRow(t) ==
  /\ At(t, "checking") /\ found[t].control /\ Len(found[t].rows) < Len(Family)
  /\ LET op == Family[Len(found[t].rows) + 1]
     IN \E s \in Shows[op] :
          found' = [found EXCEPT ![t].rows =
                      Append(@, [op |-> op, verdict |-> s.verdict, p2p |-> s.p2p])]
  /\ UNCHANGED <<sample, disk, run, stage, agg, faults, reruns>>

Checked(t) ==
  /\ At(t, "checking") /\ Len(found[t].rows) = Len(Family)
  /\ Step(t, "tail")
  /\ UNCHANGED <<sample, disk, run, found, agg, faults, reruns>>

\* The hook or the setup raises, or its own time limit does: _run_check answers
\* with a row that says so, and for run_one nothing went wrong.
Raises(t) ==
  /\ At(t, "checking") /\ faults < FAULTS /\ faults' = faults + 1
  /\ found' = [found EXCEPT ![t].raised = TRUE]
  /\ Step(t, "tail")
  /\ UNCHANGED <<sample, disk, run, agg, reruns>>

\* run_one's wait_for runs out, or the lease raises.
Fails(t) ==
  /\ At(t, "checking") /\ faults < FAULTS /\ faults' = faults + 1
  /\ found' = [found EXCEPT ![t].error = TRUE]
  /\ Step(t, "tail")
  /\ UNCHANGED <<sample, disk, run, agg, reruns>>

\* RateLimited, before the control: no record at all.
Refused(t) ==
  /\ At(t, "checking") /\ ~found[t].control
  /\ faults < FAULTS /\ faults' = faults + 1
  /\ Step(t, "done")
  /\ UNCHANGED <<sample, disk, run, found, agg, reruns>>

BuildRecord_Always(f) ==
  [completed |-> TRUE, control |-> f.control, rows |-> f.rows, raised |-> f.raised]
BuildRecord(f) ==
  [completed |-> ~f.error, control |-> f.control, rows |-> f.rows, raised |-> f.raised]

\* write_record: open the sibling, dump into it, rename it over the record.  No
\* await in between, so that no other coroutine runs; a kill may come.
NoneWriting == \A u \in Task : stage[u] \notin {"open", "dumped"}

Open_InPlace(t) ==
  /\ At(t, "tail") /\ NoneWriting
  /\ file' = [file EXCEPT ![t] = Torn] /\ Step(t, "open")
  /\ UNCHANGED <<sample, partial, run, found, agg, faults, reruns>>
Open(t) ==
  /\ At(t, "tail") /\ NoneWriting
  /\ partial' = [partial EXCEPT ![t] = Torn] /\ Step(t, "open")
  /\ UNCHANGED <<sample, file, run, found, agg, faults, reruns>>

Dump(t) ==
  /\ At(t, "open")
  /\ partial' = [partial EXCEPT ![t] = BuildRecord(found[t])] /\ Step(t, "dumped")
  /\ UNCHANGED <<sample, file, run, found, agg, faults, reruns>>

Replace(t) ==
  /\ At(t, "dumped")
  /\ file' = [file EXCEPT ![t] = partial[t]]
  /\ partial' = [partial EXCEPT ![t] = None]
  /\ Step(t, "done")
  /\ UNCHANGED <<sample, run, found, agg, faults, reruns>>

\* gather is over.
Return ==
  /\ run # "down" /\ \A t \in Task : stage[t] \in {"out", "done"}
  /\ run' = "down"
  /\ stage' = [t \in Task |-> "out"] /\ found' = [t \in Task |-> Nothing]
  /\ UNCHANGED <<sample, disk, agg, faults, reruns>>

\* A kill, or an abort of the run's own guards: every coroutine is gone.
Kill ==
  /\ run # "down" /\ faults < FAULTS /\ faults' = faults + 1
  /\ run' = "down"
  /\ stage' = [t \in Task |-> "out"] /\ found' = [t \in Task |-> Nothing]
  /\ UNCHANGED <<sample, disk, agg, reruns>>

-----------------------------------------------------------------------------
\* aggregate.py: list the names, then read them one after the other.

List ==
  /\ sample # None /\ reader = "idle"
  /\ unread' = {t \in Task : file[t] # None}
  /\ reader' = IF unread' = {} THEN "idle" ELSE "reading"
  /\ loaded' = [t \in {} |-> None]
  /\ UNCHANGED <<sample, disk, run, tasks, faults, reruns>>

Read ==
  /\ reader = "reading"
  /\ LET t == Min(unread)
     IN IF file[t] = Torn
          THEN reader' = "raised" /\ UNCHANGED <<unread, loaded>>
          ELSE /\ loaded' = [u \in DOMAIN loaded \cup {t} |->
                               IF u = t THEN file[t] ELSE loaded[u]]
               /\ unread' = unread \ {t}
               /\ reader' = IF unread' = {} THEN "reported" ELSE "reading"
  /\ UNCHANGED <<sample, disk, run, tasks, faults, reruns>>

Reported ==
  /\ reader = "reported"
  /\ reader' = "idle" /\ loaded' = [t \in {} |-> None]
  /\ UNCHANGED <<sample, disk, run, tasks, unread, faults, reruns>>

\* The report, a function R from tasks to their records.

Lines(rec, op)       == {i \in DOMAIN rec.rows : rec.rows[i].op = op}
Says(rec, op, V)     == \E i \in Lines(rec, op) : rec.rows[i].verdict \in V
Controlled(R)        == {t \in DOMAIN R : R[t].control}
Judged(R, op)        == {t \in Controlled(R) : Says(R[t], op, JUDGED)}
Witnessing(R, op)    == {t \in Judged(R, op) : Says(R[t], op, {"WITNESS"})}

WitnessRate(R, op) ==
  [witness |-> Cardinality(Witnessing(R, op)),
   judged  |-> Cardinality(Judged(R, op))]

Only(R, S) == [t \in DOMAIN R \cap S |-> R[t]]

\* The rows of the records of S, and how many have an operator of ops and a verdict of V.
RowsOf(R, S) == UNION {{<<t, i>> : i \in DOMAIN R[t].rows} : t \in S}
CountRows(R, S, ops, V) ==
  Cardinality({x \in RowsOf(R, S) : /\ R[x[1]].rows[x[2]].op \in ops
                                    /\ R[x[1]].rows[x[2]].verdict \in V})

VerdictCount(R, op, v) == CountRows(R, Controlled(R), {op}, {v})

LoudSilent(R) ==
  LET In(ops, V) == CountRows(R, Controlled(R), ops, V)
  IN [loud   |-> [judged |-> In(Loud, JUDGED), witnesses |-> In(Loud, {"WITNESS"})],
      silent |-> [judged |-> In(Range(Family) \ Loud, JUDGED),
                  witnesses |-> In(Range(Family) \ Loud, {"WITNESS"})]]

AnchorAvailability(R, op) ==
  [tasks  |-> Cardinality({t \in Controlled(R) : Lines(R[t], op) # {}}),
   anchor |-> Cardinality({t \in Controlled(R) :
                \E i \in Lines(R[t], op) : R[t].rows[i].verdict # "NOT_APPLICABLE"})]

\* build_record's witness_side, counted over every record.
Side(row) == IF row.p2p = "coupled" THEN "p2p_coupling"
             ELSE IF row.p2p = "none" THEN "f2p_only" ELSE "p2p_unattributed"
WitnessSplit(R, side) ==
  Cardinality({x \in RowsOf(R, DOMAIN R) : LET r == R[x[1]].rows[x[2]]
                                          IN r.verdict = "WITNESS" /\ Side(r) = side})

Sides == {"f2p_only", "p2p_coupling", "p2p_unattributed"}

Report(R) ==
  [n_records  |-> Cardinality(DOMAIN R),
   controlled |-> Cardinality(Controlled(R)),
   failed     |-> Cardinality({t \in DOMAIN R : ~R[t].control}),
   the_number |-> WitnessRate(R, THE_NUMBER_OPERATOR),
   single     |-> WitnessRate(Only(R, Task \ Multi), THE_NUMBER_OPERATOR),
   multi      |-> WitnessRate(Only(R, Multi), THE_NUMBER_OPERATOR),
   counts     |-> [o \in Range(Family) |-> [v \in {r.verdict : r \in Row} |->
                     VerdictCount(R, o, v)]],
   anchors    |-> [o \in Range(Family) |-> AnchorAvailability(R, o)],
   loudsilent |-> LoudSilent(R),
   split      |-> [s \in Sides |-> WitnessSplit(R, s)]]

-----------------------------------------------------------------------------
Coroutine(t) ==
  \/ Begin(t) \/ Control(t) \/ MakeRow(t) \/ Checked(t) \/ Open(t) \/ Dump(t)
  \/ Replace(t) \/ Refused(t) \/ Raises(t) \/ Fails(t)
Progress(t) ==
  \/ Begin(t) \/ Control(t) \/ MakeRow(t) \/ Checked(t) \/ Open(t) \/ Dump(t)
  \/ Replace(t)

Next ==
  \/ Draw \/ Resume \/ Rerun \/ Return \/ Kill
  \/ \E t \in Task : Coroutine(t)
  \/ List \/ Read \/ Reported

Spec == Init /\ [][Next]_vars

\* The event loop runs what is ready, and whoever runs the campaign draws the
\* sample and resumes as long as there is something left.
FairSpec ==
  /\ Spec /\ WF_vars(Draw) /\ WF_vars(Resume) /\ WF_vars(Return)
  /\ \A t \in Task : WF_vars(Progress(t))

-----------------------------------------------------------------------------
\* Types; only a .partial file may be torn, never a record.
TypeOK ==
  /\ sample = None \/ sample \in SUBSET Eligible
  /\ \A t \in Task : file[t] \in Record \cup {None}
  /\ \A t \in Task : partial[t] \in Record \cup {None, Torn}
  /\ run \in {"down", "resume", "rerun"}
  /\ stage \in [Task -> {"out", "waiting", "checking", "tail", "open", "dumped", "done"}]
  /\ \A t \in Task :
       found[t] \in [control : BOOLEAN, rows : Rows, error : BOOLEAN, raised : BOOLEAN]
  /\ reader \in {"idle", "reading", "reported", "raised"}
  /\ unread \subseteq Task
  /\ DOMAIN loaded \subseteq Task /\ \A t \in DOMAIN loaded : loaded[t] \in Record
  /\ faults \in 0..FAULTS /\ reruns \in 0..RERUNS

\* The frozen sample has exactly N tasks, and each group and each repository in
\* it got its exact share, rounded down or up (allocate, draw).
Near(part, whole, n, m) == part * whole - n * m \in (1 - whole)..(whole - 1)
SampleIsFair ==
  sample # None =>
    /\ Cardinality(sample) = N
    /\ \A g \in Strata(Eligible) :
         LET drawn == Cardinality(sample \cap g)
         IN /\ Near(drawn, Cardinality(Eligible), Cardinality(g), N)
            /\ \A p \in Repos(g) :
                 Near(Cardinality(sample \cap p), Cardinality(g), Cardinality(p), drawn)

\* A record that says it is complete holds a whole check, a failed control and no
\* row or a row of every operator, unless its row says that the check raised.  A
\* check cut short by run_one's timeout or by its lease never passes for complete;
\* one that raised between two operators does, with the rows it had, and no
\* resume takes it up again (_run_check, build_record, is_complete).
Whole(rec) ==
  \/ rec.raised
  \/ IF rec.control THEN Len(rec.rows) = Len(Family) ELSE rec.rows = <<>>
CompleteIsWhole ==
  TypeOK /\ \A t \in Task : file[t] \notin {None, Torn} /\ file[t].completed => Whole(file[t])

\* A process that tails the records directory never meets half a record, not
\* even after kills between the dump and the rename (write_record).
ReaderSeesWhole == reader # "raised"

\* The aggregate never reads half a record and the counts of its report agree with
\* each other, whenever and beside whichever workers it read them: the strata sum to
\* THE NUMBER, which is a number of anchored tasks; the loud and the silent rows sum to
\* the counts by operator; and every witness the split counts over all records is one
\* the rates count over controlled ones (build).
Total(rep, V) == SumOver([o \in Range(Family) |-> SumOver(Only(rep.counts[o], V))])
ReportAddsUp ==
  ReaderSeesWhole /\ (reader = "reported" =>
    LET rep == Report(loaded)
    IN /\ rep.the_number.judged = rep.single.judged + rep.multi.judged
       /\ rep.the_number.witness = rep.single.witness + rep.multi.witness
       /\ rep.the_number.judged <= rep.anchors[THE_NUMBER_OPERATOR].anchor
       /\ rep.loudsilent.loud.judged + rep.loudsilent.silent.judged = Total(rep, JUDGED)
       /\ SumOver(rep.split) = Total(rep, {"WITNESS"}))

\* An invocation with --resume never takes away a complete record, whatever
\* fails in it and wherever it is killed (is_complete, write_record).
ResumeKeepsComplete ==
  [][run = "resume" =>
       \A t \in Task : IsCompleted(t) => file'[t] = file[t]]_vars

\* The records directory, .partial files, kills and all, is what RecordStore
\* promises: every record is written at once and whole, by the one coroutine that
\* was given the task, a resume touches no complete one, and the aggregate reads
\* each as it is at that moment (write_record, is_complete, load).
Honest == {rec \in Record : rec.completed => Whole(rec)}
Due    == {t \in Task : stage[t] \notin {"out", "done"}}
Store  == INSTANCE RecordStore
           WITH records    <- file,
                invocation <- run,
                due        <- Due,
                listed     <- unread,
                Value      <- Honest,
                Complete   <- {rec \in Record : rec.completed}
ImplementsStore == Store!Spec

\* With finitely many faults and someone who resumes, every sampled task ends
\* up with a complete record, for good (--resume, completed).
CampaignFinishes ==
  <>[](sample # None /\ \A t \in sample : IsCompleted(t))
=============================================================================
