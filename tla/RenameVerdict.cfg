\* Two scanned files beside the patched ones, every walk order.
CONSTANTS
  Definition = {"C", "C.m", "C.f", "f", "g"}
  NameOf <- Names
  Sort <- SortOf
  Instances <- Rows_
  Others <- Unpatched
  Trees <- TreesOf
  Dialect <- Tests
  SuitesOf <- Suites
  Layout <- Modules_
  LIMIT = 2
  None = None
  NoBlock = NoBlock
SPECIFICATION Spec
INVARIANTS ScopeIsPatched OverlayKeepsSolution RenameIsWhole DecidedByTree   PhasesAgree
CHECK_DEADLOCK FALSE
