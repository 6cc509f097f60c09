SPECIFICATION Spec
CONSTANTS
    a = a
    b = b
    c = c
    Unit <- Units
    None = None
    Deps <- DepsInstalled
    Masked <- NoUnits
    Perpetual <- NoUnits
    Reloadable <- NoUnits
    CanReload <- NoUnits
    IgnoreOnIsolate <- NoUnits
    UnitStates <- TwoStates
    Requests <- RequestsInstalled
    Propagations <- NoPropagations
    MaxRequests = 2
CHECK_DEADLOCK FALSE
INVARIANTS OrderAcyclic
PROPERTIES RequirementsHonoured AnchorHonoured IrreversibleKept
