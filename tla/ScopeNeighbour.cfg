\* A deletion at the end of a definition.  The same instance as RenameVerdict.cfg.
CONSTANTS
  Definition = {"C", "C.m", "C.f", "f", "g"}
  NameOf <- Names
  Sort <- SortOf
  Instances <- Rows_
  Others <- Unpatched
  Trees <- TreesOf
  Dialect <- Tests
  SuitesOf <- Suites
  Layout <- Modules_
  LIMIT = 2
  None = None
  NoBlock = NoBlock
SPECIFICATION Spec
INVARIANT ScopeInsidePatch
CHECK_DEADLOCK FALSE
