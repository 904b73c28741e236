\* One worker's leaked container and the other workers' live ones.
CONSTANTS
  Task = {t1, t2}
  Main = Main
  None = None
  Capacity = 4
  MaxWorkers = 2
  Override = 0
  Held = {}
  Faults = {"leak"}
SPECIFICATION Spec
INVARIANTS
  CheckedContainerExists
