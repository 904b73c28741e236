\* Five tasks, two workers' worth of disk, kills and refusals but no fault.
CONSTANTS
  Task = {t1, t2, t3, t4, t5}
  Main = Main
  None = None
  Capacity = 4
  MaxWorkers = 5
  Override = 0
  Held = {}
  Faults = {}
SYMMETRY Symmetry
SPECIFICATION Spec
INVARIANTS
  CheckedContainerExists
  NeverAborts
  LeaseHasWorker
  DiskFits
PROPERTIES
  StartReclaims
