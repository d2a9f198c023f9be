SPECIFICATION FairSpec
CONSTANTS
    Refs = {a, b}
    Stagers = {s1, s2}
    Cleaners = {c1, c2}
    Selection <- TwoSelections
    Candidates <- TwoCleanups
    InitialVolumes <- AnyVolume
    NoVolume = NoVolume
    Workloads <- Dispatched
    a = a b = b s1 = s1 s2 = s2 c1 = c1 c2 = c2
INVARIANTS InstalledIntact CleanupRowsTrue
PROPERTIES OnlyOwnedDeleted CleanupReports
CHECK_DEADLOCK FALSE
