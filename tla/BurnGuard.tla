------------------------------ MODULE BurnGuard ------------------------------
(***************************************************************************)
(* The liveness invariant of a run: guarded and check_progress of          *)
(* scale/run.py, with the backoff on a refusal storm of scale/rotation.py. *)
(* Outcomes of all workers go through one list, in the order the workers   *)
(* leave the semaphore; a refused worker holds the semaphore while it      *)
(* backs off, and a pull that succeeds meanwhile resets the backoff.       *)
(***************************************************************************)
EXTENDS Integers, Sequences, FiniteSets

CONSTANTS
  Task,
  Workers,                      \* size of the semaphore
  BURN_STREAK,
  MIN_PLAUSIBLE_TASK_SECONDS,
  REFUSAL_STREAK, BACKOFF_BASE_SECONDS, BACKOFF_CAP_SECONDS,
  Faults

FaultKinds == {"waited"}   \* a task that fails at once has first waited, for
                           \* the reconcile lock or for quota, past the floor

ASSUME TaskFinite == IsFiniteSet(Task)
ASSUME Numbers ==
  /\ Workers \in Nat /\ BURN_STREAK \in Nat \ {0}
  /\ MIN_PLAUSIBLE_TASK_SECONDS \in Nat \ {0}
  /\ REFUSAL_STREAK \in Nat /\ BACKOFF_BASE_SECONDS \in Nat /\ BACKOFF_CAP_SECONDS \in Nat
ASSUME Environment == Faults \subseteq FaultKinds

VARIABLES
  run,        \* up, raised (BurnDetected is on its way to main), ended
  pc,         \* where each task is
  refusals,   \* _consecutive_refusals
  nap,        \* seconds a refused worker backs off
  recent,     \* the last outcomes, in seconds
  idle        \* history: outcomes in a row that did no work

vars == <<run, pc, refusals, nap, recent, idle>>

States  == {"queued", "pulling", "working", "napping", "done", "cancelled"}
Holding == {t \in Task : pc[t] \in {"pulling", "working", "napping"}}
OnLoop  == run # "ended"

Fast == 0..(MIN_PLAUSIBLE_TASK_SECONDS - 1)

\* How long a task that did not do its work may seem to have taken.
Wasted == IF "waited" \in Faults THEN 0..MIN_PLAUSIBLE_TASK_SECONDS ELSE Fast

Init == /\ run = "up"
        /\ pc = [t \in Task |-> "queued"]
        /\ refusals = 0
        /\ nap = [t \in Task |-> 0]
        /\ recent = <<>>
        /\ idle = 0

-----------------------------------------------------------------------------
\* append, then del recent[:-BURN_STREAK].
Remember(s, seconds) ==
  IF Len(s) < BURN_STREAK THEN Append(s, seconds) ELSE Append(Tail(s), seconds)

\* check_progress raises.
Burning_Early(s) ==
  /\ Len(s) >= BURN_STREAK - 1
  /\ \A i \in 1..Len(s) : s[i] < MIN_PLAUSIBLE_TASK_SECONDS
Burning(s) ==
  /\ Len(s) >= BURN_STREAK
  /\ \A i \in 1..Len(s) : s[i] < MIN_PLAUSIBLE_TASK_SECONDS

\* guarded, once run_one is over and the semaphore released.
Outcome(t, seconds, worked) ==
  /\ pc' = [pc EXCEPT ![t] = "done"]
  /\ recent' = Remember(recent, seconds)
  /\ idle' = IF worked THEN 0 ELSE idle + 1
  /\ run' = IF Burning(recent') THEN "raised" ELSE run

\* The nap of note_refusal at the n-th refusal in a row.
Backoff_Uncapped(n) == BACKOFF_BASE_SECONDS * 2 ^ (n - REFUSAL_STREAK)
Backoff(n) ==
  LET doubled == BACKOFF_BASE_SECONDS * 2 ^ (n - REFUSAL_STREAK)
  IN  IF doubled < BACKOFF_CAP_SECONDS THEN doubled ELSE BACKOFF_CAP_SECONDS

-----------------------------------------------------------------------------
Enter(t) ==
  /\ OnLoop /\ pc[t] = "queued"
  /\ Cardinality(Holding) < Workers
  /\ pc' = [pc EXCEPT ![t] = "pulling"]
  /\ UNCHANGED <<run, refusals, nap, recent, idle>>

\* No target, no disk, or a pull that failed for another reason than quota.
Fail(t) ==
  /\ OnLoop /\ pc[t] = "pulling"
  /\ \E seconds \in Wasted : Outcome(t, seconds, FALSE)
  /\ UNCHANGED <<refusals, nap>>

\* RateLimited: note_refusal returns at once, or naps.
Refuse_Unfed(t) ==
  /\ OnLoop /\ pc[t] = "pulling"
  /\ refusals' = refusals + 1
  /\ idle' = idle + 1
  /\ pc' = [pc EXCEPT ![t] = "done"]
  /\ UNCHANGED <<run, nap, recent>>
Refuse(t) ==
  /\ OnLoop /\ pc[t] = "pulling"
  /\ refusals' = refusals + 1
  /\ IF refusals' < REFUSAL_STREAK
       THEN /\ Outcome(t, 0, FALSE)
            /\ UNCHANGED nap
       ELSE /\ pc' = [pc EXCEPT ![t] = "napping"]
            /\ nap' = [nap EXCEPT ![t] = Backoff(refusals')]
            /\ UNCHANGED <<run, recent, idle>>

NapOver_Stuck(t) == FALSE /\ UNCHANGED vars
NapOver(t) ==
  /\ OnLoop /\ pc[t] = "napping"
  /\ nap' = [nap EXCEPT ![t] = 0]
  /\ Outcome(t, 0, FALSE)
  /\ UNCHANGED refusals

\* note_pull_success.
PullSucceeds(t) ==
  /\ OnLoop /\ pc[t] = "pulling"
  /\ refusals' = 0
  /\ pc' = [pc EXCEPT ![t] = "working"]
  /\ UNCHANGED <<run, nap, recent, idle>>

\* The container, the control and the rows: nothing real beats the floor.
Work(t) ==
  /\ OnLoop /\ pc[t] = "working"
  /\ Outcome(t, MIN_PLAUSIBLE_TASK_SECONDS, TRUE)
  /\ UNCHANGED <<refusals, nap>>

\* The check broke before it did any of that.
Break(t) ==
  /\ OnLoop /\ pc[t] = "working"
  /\ \E seconds \in Wasted : Outcome(t, seconds, FALSE)
  /\ UNCHANGED <<refusals, nap>>

Step(t) == \/ Enter(t) \/ Fail(t) \/ Refuse(t) \/ NapOver(t)
           \/ PullSucceeds(t) \/ Work(t) \/ Break(t)

\* gather hands BurnDetected to main, which returns: asyncio.run cancels the rest.
Abort ==
  /\ run = "raised"
  /\ run' = "ended"
  /\ pc' = [t \in Task |-> IF pc[t] = "done" THEN "done" ELSE "cancelled"]
  /\ nap' = [t \in Task |-> 0]
  /\ UNCHANGED <<refusals, recent, idle>>

RunEnd ==
  /\ run = "up" /\ \A t \in Task : pc[t] = "done"
  /\ run' = "ended"
  /\ UNCHANGED <<pc, refusals, nap, recent, idle>>

Ended == run = "ended" /\ UNCHANGED vars

Next == (\E t \in Task : Step(t)) \/ Abort \/ RunEnd \/ Ended

Spec == Init /\ [][Next]_vars

FairSpec == Spec /\ WF_vars(Abort) /\ WF_vars(RunEnd) /\ \A t \in Task : WF_vars(Step(t))

-----------------------------------------------------------------------------
Outcomes ==
  /\ recent \in Seq(Nat) /\ Len(recent) <= BURN_STREAK
  /\ idle \in Nat

\* Types, and the cap that keeps a long block from an unbounded stall.
TypeOK ==
  /\ run \in {"up", "raised", "ended"}
  /\ pc \in [Task -> States]
  /\ refusals \in Nat
  /\ nap \in [Task -> 0..BACKOFF_CAP_SECONDS]
  /\ Outcomes

\* check_progress: a run that goes on has done work in its last BURN_STREAK
\* outcomes, refusals counted, whichever workers they came from.
StopsInTime == run = "up" => idle < BURN_STREAK

\* ... and it is stopped by nothing less than BURN_STREAK such outcomes.
StopsOnlyBurning == [][run = "up" /\ run' = "raised" => idle' >= BURN_STREAK]_vars

\* The run comes to its end: no backoff and no burnt queue holds it for ever.
Ends == <>(run = "ended")

\* The inductive invariant: `recent` is the end of the history of outcomes, and
\* `idle` can be read off it as far back as it goes.
Tracks ==
  \/ /\ idle < Len(recent)
     /\ recent[Len(recent) - idle] >= MIN_PLAUSIBLE_TASK_SECONDS
     /\ \A i \in 1..Len(recent) :
          i > Len(recent) - idle => recent[i] < MIN_PLAUSIBLE_TASK_SECONDS
  \/ /\ idle = Len(recent) \/ (idle > Len(recent) /\ Len(recent) = BURN_STREAK)
     /\ \A i \in 1..Len(recent) : recent[i] < MIN_PLAUSIBLE_TASK_SECONDS

IInv == Outcomes /\ Tracks /\ StopsInTime
=============================================================================
