CONSTANTS
  a = a
  b = b
  c = c
  Unit <- TwoUnits
  Job = {j1, j2, j3}
  None = None
  Dep <- DepBinds
  Device = {}
  Reloadable = {b}
  Watched = {}
  JobTimeout = {a}
  RunningTimeout = {b}
  IgnoreOnIsolate = {}
  Transactions <- TrModes
  Modes = {"fail", "replace-irreversibly", "flush", "ignore-dependencies"}
  EnvStep <- ProgressDown
  MaxRequests = 3
SPECIFICATION Spec
SYMMETRY JobSymmetry
CHECK_DEADLOCK FALSE
INVARIANTS TypeOK JobTableConsistent TimerArmed NoLostWakeup
PROPERTIES OrderRespected
