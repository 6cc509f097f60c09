CONSTANTS
  a = a
  b = b
  c = c
  Unit <- TwoUnits
  Job = {j1, j2, j3}
  None = None
  Dep <- DepRequires
  Device = {}
  Reloadable <- TwoUnits
  Watched = {}
  JobTimeout = {}
  RunningTimeout = {}
  IgnoreOnIsolate = {}
  Transactions <- TrAll
  Modes = {"replace"}
  EnvStep <- Progress
  MaxRequests = 2
SPECIFICATION FairSpec
CHECK_DEADLOCK FALSE
PROPERTIES JobsFinish HandlersReturn
