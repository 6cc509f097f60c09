SPECIFICATION Spec
CONSTANTS
    a = a
    b = b
    c = c
    Unit <- Units
    None = None
    Deps <- DepsPulled
    Masked <- NoUnits
    Perpetual <- NoUnits
    Reloadable <- NoUnits
    CanReload <- NoUnits
    IgnoreOnIsolate <- NoUnits
    UnitStates <- TwoStates
    Requests <- RequestsPulled
    Propagations <- NoPropagations
    MaxRequests = 1
SYMMETRY OthersAlike
CHECK_DEADLOCK FALSE
INVARIANTS AnchorKept MarksClosed
PROPERTIES RequirementsHonoured ConflictsHonoured StopsPropagated NoNeedlessStop
