CONSTANTS
  a = a
  b = b
  c = c
  Unit <- ThreeUnits
  Job = {j1, j2, j3, j4}
  None = None
  Dep <- DepMixed
  Device = {a}
  Reloadable = {}
  Watched = {b}
  JobTimeout = {}
  RunningTimeout = {}
  IgnoreOnIsolate = {}
  Transactions <- TrMixed
  Modes = {"replace-irreversibly", "flush"}
  EnvStep <- ProgressMixed
  MaxRequests = 2
SPECIFICATION Spec
SYMMETRY JobSymmetry
CHECK_DEADLOCK FALSE
INVARIANTS JobTableConsistent RequirementPropagated RunningJobPending
PROPERTIES IrreversibleKept
