SPECIFICATION Spec
CONSTANTS
    MaxWall = 3
    NotBefore = 1
    ExpiresAt = 3
    Timeout = 2
    MaxBody = 2
    MaxChunk = 2
INVARIANTS SentOnceInWindow CodesTrue ReadSettled
PROPERTY EveryReadEnds
CHECK_DEADLOCK FALSE
