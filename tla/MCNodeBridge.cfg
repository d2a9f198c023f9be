SPECIFICATION Spec
CONSTANTS
    Effects = {e1, e2}
    Runtimes = {r1}
    Plans = {p1, p2}
    Graphs = {g1, g2}
    Materials = {m1, m2, priv}
    Privileged = {priv}
    Selections = {}
    NoSelection = NoSelection
    Foreign = Foreign
    NoContainer = NoContainer
    NoNetwork = NoNetwork
    NoRequest = NoRequest
    DefaultNetworks = {bridge}
    LocalTransport = TRUE
    InitialContainers <- NoneOrOld
    InitialNetworks <- OwnNetwork
    InitialImages <- NoImages
    Requests <- NodeRequests
    r1 = r1 r2 = r2 m1 = m1 m2 = m2 priv = priv p1 = p1 p2 = p2 g1 = g1 g2 = g2
SYMMETRY Symmetry
INVARIANTS
    CreatedConforms
CHECK_DEADLOCK FALSE
