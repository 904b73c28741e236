----------------------------- MODULE GuardedRun -----------------------------
(***************************************************************************)
(* The two guards of a run on the same tasks and the same semaphore: the    *)
(* burn guard and the backoff (BurnGuard), and the pacing of pulls          *)
(* (PullPacing).  A task that has its place first takes its lease, or fails *)
(* there; then it waits for quota and pulls; a 429 is the refusal that the  *)
(* backoff counts (ImageLease.__aenter__, run_one and guarded).  A nap for  *)
(* quota keeps the place of the worker and is no outcome.                   *)
(***************************************************************************)
EXTENDS BurnGuard

CONSTANTS Limit, PULL_RESERVE
ASSUME Quota == Limit \in Nat /\ PULL_RESERVE \in Nat

VARIABLES stage, remaining, unpaced   \* PullPacing's pc; what the registry would answer;
                                      \* history: some pull went ahead without a reading

Pull == INSTANCE PullPacing WITH pc <- stage

pullVars == <<stage, remaining, unpaced>>
runVars  == <<vars, pullVars>>

GuardedInit == Init /\ Pull!Init

\* guarded: a place in the semaphore; run_one and the lease begin.
Admit(t) == Enter(t) /\ UNCHANGED pullVars

\* No target, or no headroom: before the quota is read.
FailEarly(t) == stage[t] = "queued" /\ Fail(t) /\ UNCHANGED pullVars

\* wait_for_pull_slot, in a thread.
Ask(t)  == OnLoop /\ pc[t] = "pulling" /\ Pull!Enter(t) /\ UNCHANGED vars
Pace(t) == /\ OnLoop /\ (Pull!Grant(t) \/ Pull!GrantUnmeasured(t) \/ Pull!Nap(t) \/ Pull!Wake(t))
           /\ UNCHANGED vars

\* The pull is counted, refused, or fails for another reason.
Pulled(t)   == Pull!Counted(t) /\ PullSucceeds(t)
Refused(t)  == Pull!TooMany(t) /\ Refuse(t)
FailPull(t) == Pull!PullFails(t) /\ Fail(t)

Over(t) == Pull!Leave(t) /\ (Work(t) \/ Break(t))

GuardedStep(t) ==
  \/ Admit(t) \/ FailEarly(t) \/ Ask(t) \/ Pace(t) \/ Pulled(t) \/ Refused(t) \/ FailPull(t) \/ Over(t)
  \/ NapOver(t) /\ UNCHANGED pullVars

\* The window slides whatever the run does.
GuardedNext ==
  \/ \E t \in Task : GuardedStep(t)
  \/ (Abort \/ RunEnd \/ Ended) /\ UNCHANGED pullVars
  \/ Pull!Age /\ UNCHANGED vars

GuardedSpec == GuardedInit /\ [][GuardedNext]_runVars

\* The event loop gives every worker its turn, and the window of the registry slides.
FairGuardedSpec ==
  /\ GuardedSpec
  /\ \A t \in Task : WF_runVars(GuardedStep(t))
  /\ WF_runVars(Abort /\ UNCHANGED pullVars) /\ WF_runVars(RunEnd /\ UNCHANGED pullVars)
  /\ WF_runVars(Pull!Age /\ UNCHANGED vars)

-----------------------------------------------------------------------------
(* As long as every reading succeeds, no pull is refused: a burst of workers *)
(* that read the same quota never takes the last slot, with no more of them  *)
(* than pulls in reserve (rotation.py 67-69).                                *)
NeverRefused == Pull!NeverRefused
=============================================================================
