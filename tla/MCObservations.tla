--------------------------- MODULE MCObservations ---------------------------
(* Small instances of Observations.                                        *)
EXTENDS Observations

Node(own, running) ==
    [id |-> 1, own |-> own, net |-> 1, mounts |-> TRUE, image |-> 1, running |-> running,
     started |-> 0, sample |-> [end |-> 1, ok |-> TRUE]]

(* The node as it was installed, running or stopped, and nothing at all.   *)
Nodes ==
    {[container |-> Node("owned", running), network |-> [id |-> 1, own |-> "owned"],
      volume |-> [id |-> 1, stamp |-> 1], image |-> 1, stamp |-> 1] : running \in BOOLEAN}
        \cup {[container |-> None, network |-> None, volume |-> None, image |-> 0, stamp |-> 1]}
=============================================================================
