\* Three tasks, every fault the environment can show; liveness, so no symmetry.
CONSTANTS
  Task = {t1, t2, t3}
  Main = Main
  None = None
  Capacity = 3
  MaxWorkers = 3
  Override = 3
  Held = {}
  Faults = {"leak", "stuck", "expire", "overlay", "orphan"}
SPECIFICATION FairSpec
INVARIANTS IInv ReliedImageResident NoPullPruned
PROPERTIES OnlySweepAllTakesContainer ImplementsCustody RunEnds
