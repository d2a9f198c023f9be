\* Deadlock is not an error: a call that has ended takes no further step.
SPECIFICATION FairSpec
CONSTANTS
    Requests <- MCRequests
    NoRequest = NoRequest
CHECK_DEADLOCK FALSE
INVARIANTS
    ClientReleased OutcomeAcknowledged PermitsCoverIo
PROPERTIES
    TlsMaterialRemoved
