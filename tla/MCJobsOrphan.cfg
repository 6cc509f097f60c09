CONSTANTS
  a = a
  b = b
  c = c
  Unit <- TwoUnits
  Job = {j1, j2, j3}
  None = None
  Dep <- DepOrdered
  Device = {}
  Reloadable = {}
  Watched = {b}
  JobTimeout = {}
  RunningTimeout = {}
  IgnoreOnIsolate = {}
  Transactions <- TrSolo
  Modes = {"replace"}
  EnvStep <- Progress
  MaxRequests = 2
SPECIFICATION Spec
CHECK_DEADLOCK FALSE
INVARIANT SlotConsistent
