--------------------------- MODULE MCNodeEffects ----------------------------
(* Small instances of NodeEffects.                                         *)
EXTENDS NodeEffects, TLC

CONSTANTS r1, r2, m1, m2, priv, p1, p2, g1, g2

Req(op, rt, plan, graph, mat) ==
    [op |-> op, rt |-> rt, plan |-> plan, graph |-> graph, mat |-> mat, sel |-> NoSelection]

Owned(rt, plan, graph, mat) ==
    [id |-> 1, rt |-> rt, plan |-> plan, graph |-> graph, mat |-> mat, evidence |-> TRUE,
     sel |-> NoSelection, image |-> mat, nets |-> {rt}, running |-> TRUE, auth |-> "none"]

(* One runtime owns the node: all eight operations, two materials.         *)
NodeRequests ==
    {Req("StartNode", r1, p1, g1, m1), Req("StartNode", r1, p2, g1, m1),
     Req("StartNode", r1, p2, g1, m2), Req("ReconcileNode", r1, p2, g1, m1), Req("ReconcileNode", r1, p2, g1, m2),
     Req("ReconcileNode", r1, p2, g1, priv),
     Req("StopNode", r1, p2, g1, m1), Req("RemoveNodeResource", r1, p2, g1, m1)}

RuntimeRequests ==
    {Req(op, r1, p1, g1, m1) : op \in RuntimeOps}

OneOwner == NodeRequests \cup RuntimeRequests

(* A second runtime of the workspace names the same node.                  *)
TwoOwners ==
    {Req("StartNode", r1, p1, g1, m1), Req("StopNode", r1, p1, g1, m1),
     Req("RemoveNodeResource", r1, p1, g1, m1), Req("StartNode", r2, p1, g1, m1)}

Old == Owned(r1, p1, g1, m1)

(* Nothing; the node as installed before; foreign, malformed, unreadable,  *)
(* privileged and misplaced containers under the node's name.              *)
AnyContainer ==
    {NoContainer, Old, [Old EXCEPT !.running = FALSE], [Old EXCEPT !.rt = Foreign],
     [Old EXCEPT !.evidence = FALSE], [Old EXCEPT !.auth = "unknown"],
     [Old EXCEPT !.auth = "socket"], [Old EXCEPT !.image = m2]}

NoneOrOld == {NoContainer, Old}

AnyNetwork ==
    [Runtimes -> {NoNetwork, [rt |-> r1, graph |-> g1], [rt |-> Foreign, graph |-> g1]}]
OwnNetwork == {[r \in Runtimes |-> [rt |-> r, graph |-> g1]]}
NoImages == {{}}
AllImages == {Materials}

Symmetry == Permutations(Effects)
=============================================================================
