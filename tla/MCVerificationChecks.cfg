\* Deadlock is not an error: a check that has a verdict takes no further step.
SPECIFICATION FairSpec
CONSTANTS
    MaximumAttempts = 3
    MaximumRecords = 2
    Inet = {1, 2}
    Inet6 = {11, 12}
    Global = {1, 11, 12}
    Checks <- MCChecks
CHECK_DEADLOCK FALSE
INVARIANTS
    RequestsVetted
    VerdictExplained
PROPERTIES
    CheckEnds
