------------------------ MODULE MCConfigurationNode -------------------------
(* Configured effects of one runtime among ordinary effects of two.        *)
EXTENDS ConfigurationNode, TLC

CONSTANTS r1, r2, m1, m2, p1, p2, g1, s1, s2

Plain(op, rt, mat) ==
    [op |-> op, rt |-> rt, plan |-> p1, graph |-> g1, mat |-> mat, sel |-> NoSelection]

Conf(op, plan, mat, sel, secret) ==
    [op |-> op, rt |-> r1, plan |-> plan, graph |-> g1, mat |-> mat, sel |-> sel,
     secret |-> secret]

OrdinaryRequests ==
    {Plain("StopNode", r1, m1), Plain("RemoveNodeResource", r1, m1),
     Plain("StartNode", r2, m1), Plain("ReconcileNode", r1, m2),
     Plain("RemoveNodeResource", r2, m1)}

SomeConfigured ==
    {Conf("StartConfigured", p1, m1, s1, FALSE), Conf("StartConfigured", p1, m1, s1, TRUE),
     Conf("ReconcileConfigured", p2, m1, s2, TRUE), Conf("ReconcileConfigured", p2, m1, s1, FALSE),
     Conf("ReconcileConfigured", p2, m2, NoSelection, TRUE)}

Installed ==
    [id |-> 1, rt |-> r1, plan |-> p1, graph |-> g1, mat |-> m1, evidence |-> TRUE,
     sel |-> s1, image |-> m1, nets |-> {r1}, running |-> TRUE, auth |-> "none"]

NodeBefore ==
    {NoContainer, Installed, [Installed EXCEPT !.running = FALSE], [Installed EXCEPT !.rt = r2],
     [Installed EXCEPT !.auth = "unknown"]}

NetworkBefore ==
    {[r \in Runtimes |-> [rt |-> r, graph |-> g1]], [r \in Runtimes |-> NoNetwork]}
AllImages == {Materials}

Symmetry == Permutations(Effects)
=============================================================================
