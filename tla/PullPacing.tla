----------------------------- MODULE PullPacing -----------------------------
(***************************************************************************)
(* Pacing of pulls off the registry's own headers: hub_rate_limit and      *)
(* wait_for_pull_slot of scale/rotation.py, called in a thread by each     *)
(* worker that holds the run's semaphore.  The reading and the pull it     *)
(* permits are two steps: between them any number of the other workers may *)
(* read the same quota.  GuardedRun composes it with the rest of the run.  *)
(***************************************************************************)
EXTENDS Integers, FiniteSets

CONSTANTS
  Task,           \* tasks to pull for
  Workers,        \* size of the semaphore
  Limit,          \* pulls the registry allows in a window
  PULL_RESERVE    \* pulls to keep in hand

VARIABLES pc,          \* where each task is
          remaining,   \* what the registry would answer now
          unpaced      \* history: some pull went ahead without a reading

vars == <<pc, remaining, unpaced>>

States   == {"queued", "waiting", "napping", "granted", "working", "done", "refused"}
Holding  == {t \in Task : pc[t] \in {"waiting", "napping", "granted", "working"}}
Granted  == {t \in Task : pc[t] = "granted"}
Goto(t, s) == pc' = [pc EXCEPT ![t] = s]

Init == /\ pc = [t \in Task |-> "queued"]
        /\ remaining \in 0..Limit
        /\ unpaced = FALSE

\* The semaphore of main, held until the task is over.
Enter(t) == /\ pc[t] = "queued"
            /\ Cardinality(Holding) < Workers
            /\ Goto(t, "waiting")
            /\ UNCHANGED <<remaining, unpaced>>

\* hub_rate_limit answered with quota to spare.
Grant_NoReserve(t) == /\ pc[t] = "waiting" /\ remaining > 0
                      /\ Goto(t, "granted") /\ UNCHANGED <<remaining, unpaced>>
Grant(t) == /\ pc[t] = "waiting"
            /\ remaining > PULL_RESERVE
            /\ Goto(t, "granted")
            /\ UNCHANGED <<remaining, unpaced>>

\* hub_rate_limit returned None: the pull proceeds unpaced.
GrantUnmeasured(t) == /\ pc[t] = "waiting"
                      /\ Goto(t, "granted")
                      /\ unpaced' = TRUE
                      /\ UNCHANGED remaining

\* Not enough: sleep, then read again.
Nap(t) == /\ pc[t] = "waiting"
          /\ remaining <= PULL_RESERVE
          /\ Goto(t, "napping")
          /\ UNCHANGED <<remaining, unpaced>>

Wake(t) == /\ pc[t] = "napping"
           /\ Goto(t, "waiting")
           /\ UNCHANGED <<remaining, unpaced>>

\* The docker pull reaches the registry, which counts it or answers 429.
Counted(t) == /\ pc[t] = "granted"
              /\ remaining > 0
              /\ Goto(t, "working")
              /\ remaining' = remaining - 1
              /\ UNCHANGED unpaced

TooMany(t) == /\ pc[t] = "granted"
              /\ remaining = 0
              /\ Goto(t, "refused")
              /\ UNCHANGED <<remaining, unpaced>>

\* The pull fails for another reason than quota, counted by the registry or not.
PullFails(t) == /\ pc[t] = "granted"
                /\ Goto(t, "done")
                /\ remaining' \in {remaining, remaining - 1} \cap Nat
                /\ UNCHANGED unpaced

Leave(t) == /\ pc[t] = "working"
            /\ Goto(t, "done")
            /\ UNCHANGED <<remaining, unpaced>>

\* The window slides: one pull of the past no longer counts.
Age == /\ remaining < Limit
       /\ remaining' = remaining + 1
       /\ UNCHANGED <<pc, unpaced>>

Step(t) == \/ Enter(t) \/ Grant(t) \/ GrantUnmeasured(t) \/ Nap(t) \/ Wake(t)
           \/ Counted(t) \/ TooMany(t) \/ PullFails(t) \/ Leave(t)

Finished == /\ \A t \in Task : pc[t] \in {"done", "refused"}
            /\ UNCHANGED vars

Next == \/ \E t \in Task : Step(t)
        \/ Age
        \/ Finished

Spec == Init /\ [][Next]_vars

-----------------------------------------------------------------------------
TypeOK == /\ pc \in [Task -> States]
          /\ remaining \in 0..Limit
          /\ unpaced \in BOOLEAN

\* However many workers have read the quota and not yet pulled, the quota serves
\* them all and is not exhausted: as long as every reading succeeds, a burst
\* never takes the last slot (rotation.py 67-69).
BurstSafe == ~unpaced /\ Granted # {} => remaining > Cardinality(Granted)

\* As long as every reading succeeds, no pull is refused.
NeverRefused == ~unpaced => \A t \in Task : pc[t] # "refused"

\* The inductive invariant: since each grant saw more than the reserve and the
\* semaphore bounds the grants outstanding, at least this much is left.
SlotsLeft == ~unpaced /\ Granted # {} =>
               remaining - Cardinality(Granted) >= PULL_RESERVE + 1 - Workers
InSemaphore == Cardinality(Holding) <= Workers
IInv == TypeOK /\ InSemaphore /\ SlotsLeft
=============================================================================
