\* Two calls that raise, or kills, anywhere in the walk over three pairs.
CONSTANTS
  Pair = {"p", "q", "r"}
  Witnesses <- Walk
  TaskOf <- TaskTable
  Modules <- Files
  Graded = {g1, g2}
  FAULTS = 2
  None = None
  Torn = Torn
SPECIFICATION Spec
INVARIANTS  CleanExit
PROPERTIES RowsAreKept
CHECK_DEADLOCK FALSE
