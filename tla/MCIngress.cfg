\* Deadlock is not an error: effects that have ended take no further step.
SPECIFICATION Spec
CONSTANTS
    Effects = {e1, e2, e3}
    Dispatches <- AllDispatches
    OldGrant = OldGrant
    NoAllocation = NoAllocation
    e1 = e1 e2 = e2 e3 = e3
INVARIANTS
    CleanFailure PermitsCover RaisedRebindRestored RemovalTrue DanglingExplained
PROPERTIES
    ForeignUntouched ServesAtSuccess
CHECK_DEADLOCK FALSE
