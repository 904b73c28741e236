\* A sample of two, runs that fail, are refused or killed, a rerun, a reader.
CONSTANTS
  Eligible = {1, 2, 3}
  Untargeted = {4}
  Multi = {3}
  RepoOf <- RepoTable
  N = 2
  Workers = 2
  Family <- Ops2
  Loud = {"rename"}
  THE_NUMBER_OPERATOR = "rename"
  Shows <- Says2
  FAULTS = 1
  RERUNS = 1
  None = None
  Torn = Torn
SPECIFICATION FairSpec
INVARIANTS SampleIsFair CompleteIsWhole ReportAddsUp
PROPERTIES ImplementsStore CampaignFinishes
