SPECIFICATION Spec
CONSTANTS
    Calls = {c1, c2}
    Intents = {i1, i2}
    Correlations = {k0, k1, k2}
    Requests <- AllRequests
    InitialVersions <- NoneOrTwo
    NoRequest = NoRequest
    NoAnswer = NoAnswer
    i1 = i1 i2 = i2 k0 = k0 k1 = k1 k2 = k2
INVARIANTS DefiniteMeansUnaffected ReceiptsTrue ResolvedWasActive CompensationExplained
CHECK_DEADLOCK FALSE
