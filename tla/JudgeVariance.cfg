\* Both arms of three tasks; 75 per cent of twelve calls leave room for three failures.
CONSTANTS
  Populations <- Pops
  RepoOf <- Prefix
  K = 3
  FROZEN <- Frozen3
  Calls = 2
  MIN_USABLE_PER_TASK = 2
  MIN_COUNTING_TASKS = 2
  MIN_PARSE_PERCENT = 75
  Replies <- Answers2
  None = None
  Torn = Torn
SPECIFICATION Spec
INVARIANTS GateIsMeasured ResultIsWhole
CHECK_DEADLOCK FALSE
