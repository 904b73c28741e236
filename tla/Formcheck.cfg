\* The whole check, with flaky tests, an exception or a timeout anywhere.
CONSTANTS
  Slot = {"kwonly", "rename1", "rename2", "reverse"}
  Family <- Slots4
  Anchored = {"rename1", "rename2", "reverse"}
  Loud = {"rename1", "rename2"}
  F2P = {f1}
  P2P = {p1, p2}
  LIMIT = 1
  None = None
  Faults = {"raise", "timeout"}
SPECIFICATION Spec
INVARIANTS JudgedOnOwnTree WitnessAttributed RecordMeans
