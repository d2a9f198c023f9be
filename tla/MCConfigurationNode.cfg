SPECIFICATION ConfiguredSpec
CONSTANTS
    Effects = {e1, e2}
    Runtimes = {r1, r2}
    Plans = {p1, p2}
    Graphs = {g1}
    Materials = {m1, m2}
    Privileged = {}
    Selections = {s1, s2}
    NoSelection = NoSelection
    Foreign = Foreign
    NoContainer = NoContainer
    NoNetwork = NoNetwork
    NoRequest = NoRequest
    DefaultNetworks = {bridge}
    LocalTransport = TRUE
    InitialContainers <- NodeBefore
    InitialNetworks <- NetworkBefore
    InitialImages <- AllImages
    Requests <- OrdinaryRequests
    ConfiguredRequests <- SomeConfigured
    r1 = r1 r2 = r2 m1 = m1 m2 = m2 p1 = p1 p2 = p2 g1 = g1 s1 = s1 s2 = s2
SYMMETRY Symmetry
INVARIANTS
    ActsOnExactContainer ReceiptHonest CreationAccounted
    SecretFailureIsClean
CHECK_DEADLOCK FALSE
