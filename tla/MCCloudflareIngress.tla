------------------------- MODULE MCCloudflareIngress ------------------------
(* Creation with and without an invocation port, teardown of what was      *)
(* created, and the reservation lifecycle of an allocation that exists.    *)
EXTENDS CloudflareIngress, TLC

CONSTANTS e1, e2, e3

Asks(o1, o2, o3, invoked, existing, maxId) ==
    [op |-> (e1 :> o1) @@ (e2 :> o2) @@ (e3 :> o3), invoked |-> invoked,
     existing |-> existing, maxId |-> maxId]

Creations == Asks("create", "create", "none", {e2}, FALSE, 5)
CreateThenRemove == Asks("create", "teardown", "teardown", {e1, e2}, FALSE, 3)
Rebinds == Asks("rebind", "rebind", "none", {}, TRUE, 3)
Lifecycle == Asks("deactivate", "rebind", "release", {}, TRUE, 3)

AllDispatches == {Creations, CreateThenRemove, Rebinds, Lifecycle}
=============================================================================
