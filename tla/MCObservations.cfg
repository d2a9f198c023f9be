SPECIFICATION Spec
CONSTANTS
    None = None
    InitialWorlds <- Nodes
    MaxChanges = 3
    MaxClock = 6
    MaxAge = 2
INVARIANTS ConfirmedHeld RowsHeldTogether SnapshotStable
CHECK_DEADLOCK FALSE
