---------------------------- MODULE DockerDaemon ----------------------------
(***************************************************************************)
(* The Docker Engine as docker/sdk.py uses it for ONE node name: the slot  *)
(* held by the container of that name, the runtime networks, the local     *)
(* image store, and the calls whose client gave up waiting.                *)
(*                                                                         *)
(* The container name is derived from workspace and node alone             *)
(* (runtime.py, _container_name), so every runtime of a workspace that     *)
(* names the node shares the slot; a network name is derived from the      *)
(* runtime, so networks are indexed by runtime.  The Engine is external:   *)
(* it is modelled from how the SDK client calls it.                        *)
(***************************************************************************)
EXTENDS Naturals, FiniteSets

CONSTANTS
    Effects,          \* effect identities; each is executed at most once
    Runtimes,         \* runtime ids of the workspace that may name the node
    Plans, Graphs,    \* creation coordinates carried in labels
    Materials,        \* node material: what the node fingerprint digests
    Privileged,       \* the materials that declare the Docker socket delivery
    Selections,       \* selected configurations: what the selection label digests
    NoSelection,      \* a container without the configuration.selection label
    Foreign,          \* owner of a resource that carries no matching labels
    NoContainer, NoNetwork,
    DefaultNetworks,  \* networks the Engine attaches when create names none
    InitialContainers, InitialNetworks, InitialImages

VARIABLES
    daemon,  \* container slot, networks, images and the next container id
    late     \* calls that timed out at the client and may still be executed

Nets == Runtimes \cup DefaultNetworks

Container ==
    [id: Nat, rt: Runtimes \cup {Foreign}, plan: Plans, graph: Graphs,
     mat: Materials, evidence: BOOLEAN, sel: Selections \cup {NoSelection},
     image: Materials, nets: SUBSET Nets, running: BOOLEAN,
     auth: {"none", "socket", "unknown"}]

Network == [rt: Runtimes \cup {Foreign}, graph: Graphs]

ASSUME DaemonAssumption ==
    /\ Runtimes # {} /\ Plans # {} /\ Graphs # {} /\ Materials # {}
    /\ Privileged \subseteq Materials
    /\ Foreign \notin Runtimes
    /\ DefaultNetworks \cap Runtimes = {}
    /\ NoSelection \notin Selections
    /\ NoContainer \notin Container
    /\ NoNetwork \notin Network
    /\ \A c \in InitialContainers \ {NoContainer} : c \in Container /\ c.id = 1
    /\ InitialNetworks \subseteq [Runtimes -> Network \cup {NoNetwork}]
    /\ InitialImages \subseteq SUBSET Materials

(* The labels, image, mounts and network set a container is created with;  *)
(* the Engine assigns its id.                                              *)
Created(r, nets) ==
    [id |-> 0, rt |-> r.rt, plan |-> r.plan, graph |-> r.graph, mat |-> r.mat,
     evidence |-> TRUE, sel |-> r.sel, image |-> r.mat, nets |-> nets,
     running |-> FALSE,
     auth |-> IF r.mat \in Privileged THEN "socket" ELSE "none"]

-----------------------------------------------------------------------------
(* Mutating calls.  A call that names a container carries the id that      *)
(* containers.get resolved, since docker-py mutates through the object.    *)

Call ==
    [op: {"start", "stop", "remove"}, id: Nat]
        \cup [op: {"connect"}, id: Nat, rt: Runtimes]
        \cup [op: {"create"}, as: Container]
        \cup [op: {"create_network"}, rt: Runtimes, net: Network]
        \cup [op: {"remove_network"}, rt: Runtimes]
        \cup [op: {"pull"}, mat: Materials]

Holds(d, id) == d.container # NoContainer /\ d.container.id = id

(* Whether the Engine executes the call; otherwise it answers an error.    *)
Accepts(d, c) ==
    CASE c.op = "create"         -> d.container = NoContainer
      [] c.op = "start"          -> /\ Holds(d, c.id)
                                    /\ \A n \in d.container.nets \cap Runtimes :
                                            d.network[n] # NoNetwork
      [] c.op = "connect"        -> Holds(d, c.id) /\ d.network[c.rt] # NoNetwork
      [] c.op = "create_network" -> d.network[c.rt] = NoNetwork
      [] c.op = "remove_network" -> /\ d.network[c.rt] # NoNetwork
                                    /\ ~ /\ d.container # NoContainer
                                         /\ d.container.running
                                         /\ c.rt \in d.container.nets
      [] c.op = "pull"           -> TRUE
      [] OTHER                   -> Holds(d, c.id)

Apply(d, c) ==
    CASE c.op = "create" -> [d EXCEPT !.container = [c.as EXCEPT !.id = d.nextId],
                                      !.nextId = d.nextId + 1]
      [] c.op = "start"   -> [d EXCEPT !.container.running = TRUE]
      [] c.op = "stop"    -> [d EXCEPT !.container.running = FALSE]
      [] c.op = "remove"  -> [d EXCEPT !.container = NoContainer]
      [] c.op = "connect" -> [d EXCEPT !.container.nets = d.container.nets \cup {c.rt}]
      [] c.op = "create_network" -> [d EXCEPT !.network[c.rt] = c.net]
      [] c.op = "remove_network" -> [d EXCEPT !.network[c.rt] = NoNetwork]
      [] OTHER -> [d EXCEPT !.images = d.images \cup {c.mat}]

(* A workload process may exit by itself.                                  *)
WorkloadExits ==
    /\ daemon.container # NoContainer
    /\ daemon.container.running
    /\ daemon' = [daemon EXCEPT !.container.running = FALSE]
    /\ UNCHANGED late

(* A call the client gave up on reaches the Engine after all.              *)
LateCall ==
    \E l \in late :
        /\ late' = late \ {l}
        /\ daemon' = IF Accepts(daemon, l.call) THEN Apply(daemon, l.call) ELSE daemon

DaemonInit ==
    /\ \E c \in InitialContainers, n \in InitialNetworks, i \in InitialImages :
            daemon = [container |-> c, network |-> n, images |-> i, nextId |-> 2]
    /\ late = {}

DaemonTypeOK ==
    /\ daemon \in [container: Container \cup {NoContainer},
                   network: [Runtimes -> Network \cup {NoNetwork}],
                   images: SUBSET Materials, nextId: Nat]
    /\ late \subseteq [by: Effects, call: Call]
=============================================================================
