\* A read that has ended takes no further step.
SPECIFICATION Spec
CONSTANTS
    MaxWall = 3
    NotBefore = 1
    ExpiresAt = 3
    Timeout = 2
    MaxBody = 2
    MaxChunk = 2
INVARIANT CancellationPropagates
CHECK_DEADLOCK FALSE
