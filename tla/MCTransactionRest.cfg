SPECIFICATION FairSpec
CONSTANTS
    a = a
    b = b
    c = c
    Unit <- Units
    None = None
    Deps <- DepsRest
    Masked <- JustC
    Perpetual <- JustC
    Reloadable <- Units
    CanReload <- Units
    IgnoreOnIsolate <- JustC
    UnitStates <- Reloading
    Requests <- RequestsRest
    Propagations <- PropagationsRest
    MaxRequests = 1
CHECK_DEADLOCK FALSE
INVARIANTS ReloadApart
PROPERTIES TransactionEnds
