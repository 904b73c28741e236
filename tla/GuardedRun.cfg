\* As many workers as pulls in reserve, as in the defaults (8 and 8); a run that is
\* refused, fails and works in any order, with readings that fail or not.
CONSTANTS
  Task = {t1, t2, t3, t4}
  Workers = 3
  Limit = 5
  PULL_RESERVE = 3
  BURN_STREAK = 3
  MIN_PLAUSIBLE_TASK_SECONDS = 1
  REFUSAL_STREAK = 2
  BACKOFF_BASE_SECONDS = 2
  BACKOFF_CAP_SECONDS = 5
  Faults = {}
SPECIFICATION FairGuardedSpec
INVARIANTS TypeOK StopsInTime NeverRefused
PROPERTIES StopsOnlyBurning Ends
