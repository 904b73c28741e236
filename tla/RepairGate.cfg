\* The matrix of two variants and four solutions, one call that raises or one kill.
CONSTANTS
  Mutant <- Mutants2
  File = {"core", "util"}
  Listed <- Paths
  Worlds <- Libs
  Anchors <- Counts
  Graded = {"t1", "t2"}
  Gradings <- EndTable
  FAULTS = 1
  None = None
SPECIFICATION Spec
INVARIANTS CellsAreSound PassIsEarned LeavesNothing
CHECK_DEADLOCK FALSE
