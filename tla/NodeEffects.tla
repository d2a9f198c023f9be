---------------------------- MODULE NodeEffects -----------------------------
(***************************************************************************)
(* DockerRuntimeInterpreter's ordinary effects on one node and its runtime *)
(* network (docker/runtime.py): StartNode, ReconcileNode, StopNode,        *)
(* RemoveNodeResource, StartRuntime, ReconcileRuntime, StopRuntime and     *)
(* RemoveRuntimeResource, each as the sequence of provider calls it makes. *)
(*                                                                         *)
(* Effects run concurrently: nothing in the interpreter serialises two     *)
(* requests, and between two provider calls of one effect any call of      *)
(* another, a late call or a workload exit may happen.  A process that     *)
(* dies inside an effect is an effect that takes no further step.          *)
(***************************************************************************)
EXTENDS DockerDaemon

CONSTANTS
    Requests,        \* the requests operations may dispatch
    NoRequest,       \* req of an effect that has not been dispatched
    LocalTransport   \* the client's transport is the declared local socket

VARIABLES
    pc,      \* the next provider call of an effect
    req,     \* its request
    seen,    \* what its first inspection returned
    action,  \* the "action" evidence
    result,  \* the kind of its RuntimeEffectResult
    issued,  \* history: the mutating calls it has made
    hit,     \* history: the existing resources its calls acted on, with their owners
    mine,    \* history: the container id its create call produced, or 0
    witness  \* history: the container id its last inspection proved, or 0

local == <<pc, req, seen, action, result, issued, hit, mine, witness>>
vars == <<daemon, late, local>>

NodeOps == {"StartNode", "ReconcileNode", "StopNode", "RemoveNodeResource"}
RuntimeOps == {"StartRuntime", "ReconcileRuntime", "StopRuntime", "RemoveRuntimeResource"}
Results == {"succeeded", "failed", "unsupported", "uncertain"}

Request == [op: NodeOps \cup RuntimeOps, rt: Runtimes, plan: Plans,
            graph: Graphs, mat: Materials, sel: {NoSelection}]

ASSUME RequestAssumption ==
    /\ Requests \subseteq Request /\ Requests # {}
    /\ LocalTransport \in BOOLEAN
    /\ NoRequest \notin Request

-----------------------------------------------------------------------------
(* Label, network and authority checks.                                    *)

fingerprint_matches(c, r) == c.rt = r.rt /\ c.mat = r.mat

require_node_owner(c, r) == c.rt = r.rt

require_node_network(c, r) == c.nets = {r.rt}

(* Mutant: the plan and graph labels are not compared.                     *)
CorrelationIgnoresPlan(c, r, prior) ==
    c.evidence /\ fingerprint_matches(c, r) /\ c.sel = r.sel /\ require_node_network(c, r)

(* Every cpk label equal; prior excuses the plan and graph coordinates but *)
(* then asks for well-formed material evidence.                            *)
require_node_container_correlation(c, r, prior) ==
    /\ c.evidence /\ fingerprint_matches(c, r) /\ c.sel = r.sel
    /\ prior \/ (c.plan = r.plan /\ c.graph = r.graph)
    /\ require_node_network(c, r)

require_start_node_container(c, r, prior) ==
    require_node_container_correlation(c, r, prior) /\ c.image = r.mat

docker_authority_conformance(c, r) ==
    IF c.auth = "unknown" THEN "UNKNOWN"
    ELSE IF (c.auth = "socket") = (r.mat \in Privileged) THEN "CONFORMANT" ELSE "CONFLICT"

require_runtime_owner(n, r) == n.rt = r.rt

require_owned(n, r) == n.rt = r.rt /\ n.graph = r.graph

CreateNetworkCall(r) ==
    [op |-> "create_network", rt |-> r.rt, net |-> [rt |-> r.rt, graph |-> r.graph]]

-----------------------------------------------------------------------------
(* How a step of an effect ends: at its next call or with a result.        *)

Goto(e, label) == pc' = [pc EXCEPT ![e] = label] /\ UNCHANGED result

(* Mutant: the effect ends without a result.                               *)
FinishSilently(e, kind) == pc' = [pc EXCEPT ![e] = "done"] /\ UNCHANGED result

Finish(e, kind) ==
    /\ pc' = [pc EXCEPT ![e] = "done"]
    /\ result' = [result EXCEPT ![e] = kind]

Acted(e, what) == action' = [action EXCEPT ![e] = what]

Reads == UNCHANGED <<daemon, late, req, issued, hit, mine>>

(* Mutant: a call the client gave up on counts as failed.                  *)
MutateGivesUp(e, call, Continue) ==
    /\ issued' = [issued EXCEPT ![e] = @ \cup {call.op}]
    /\ UNCHANGED <<req, seen, witness>>
    /\ \/ /\ Accepts(daemon, call)
          /\ daemon' = Apply(daemon, call)
          /\ UNCHANGED late
          /\ Continue
       \/ /\ Finish(e, "failed")
          /\ late' \in {late, late \cup {[by |-> e, call |-> call]}}
          /\ UNCHANGED <<daemon, action>>

(* A mutating provider call: executed and answered, refused or lost before *)
(* it took effect, or given up on by the client while it may still run.    *)
(* The last two raise, which ends the effect as uncertain.                 *)
Mutate(e, call, Continue) ==
    /\ issued' = [issued EXCEPT ![e] = @ \cup {call.op}]
    /\ UNCHANGED <<req, seen, witness>>
    /\ \/ /\ Accepts(daemon, call)
          /\ daemon' = Apply(daemon, call)
          /\ UNCHANGED late
          /\ Continue
       \/ /\ Finish(e, "uncertain")
          /\ UNCHANGED <<daemon, late, action>>
       \/ /\ Finish(e, "uncertain")
          /\ late' = late \cup {[by |-> e, call |-> call]}
          /\ UNCHANGED <<daemon, action>>

Then(e, label) == Goto(e, label) /\ UNCHANGED action

Succeed(e) == Finish(e, "succeeded") /\ UNCHANGED action

(* Mutant: a container that has disappeared is not handled.                *)
MutatePresent(e, op, Continue) ==
    /\ daemon.container # NoContainer
    /\ Mutate(e, [op |-> op, id |-> daemon.container.id], Continue)
    /\ hit' = [hit EXCEPT ![e] = @ \cup {[id |-> daemon.container.id, owner |-> daemon.container.rt]}]
    /\ UNCHANGED mine

(* A call that names the node: containers.get(name), then the mutation.    *)
MutateByName(e, op, Continue) ==
    \/ /\ daemon.container = NoContainer
       /\ Finish(e, "uncertain")
       /\ Reads /\ UNCHANGED <<seen, action, witness>>
    \/ /\ daemon.container # NoContainer
       /\ Mutate(e, [op |-> op, id |-> daemon.container.id], Continue)
       /\ hit' = [hit EXCEPT ![e] = @ \cup {[id |-> daemon.container.id, owner |-> daemon.container.rt]}]
       /\ UNCHANGED mine

-----------------------------------------------------------------------------
(* execute(): dispatch of a request.                                       *)

execute(e) ==
    /\ pc[e] = "idle"
    /\ \E r \in Requests :
        /\ req' = [req EXCEPT ![e] = r]
        /\ IF /\ r.op \in {"StartNode", "ReconcileNode"}
              /\ r.mat \in Privileged /\ ~LocalTransport
           THEN Finish(e, "unsupported")
           ELSE Goto(e, IF r.op \in NodeOps THEN "inspect" ELSE "network")
    /\ UNCHANGED <<daemon, late, seen, action, issued, hit, mine, witness>>

(* Any read may raise; the effect then ends uncertain.                     *)
ReadFails(e) ==
    /\ pc[e] \in {"inspect", "image", "network", "final"}
    /\ Finish(e, "uncertain")
    /\ Reads /\ UNCHANGED <<seen, action, witness>>

(* The first inspection of StartNode and ReconcileNode and the checks that *)
(* precede secret resolution and every mutation.                           *)
StartNodeAdmits(c, r) == require_node_container_correlation(c, r, FALSE)

ReconcileNodeAdmits(c, r) ==
    /\ require_node_owner(c, r) /\ c.evidence /\ require_node_network(c, r)

InspectNode(e) ==
    /\ pc[e] = "inspect" /\ req[e].op \in {"StartNode", "ReconcileNode"}
    /\ LET c == daemon.container  r == req[e] IN
        /\ seen' = [seen EXCEPT ![e] = c]
        /\ IF c = NoContainer THEN Goto(e, "image")
           ELSE IF ~ IF r.op = "StartNode" THEN StartNodeAdmits(c, r) ELSE ReconcileNodeAdmits(c, r)
                THEN Finish(e, "failed")
           ELSE CASE docker_authority_conformance(c, r) = "UNKNOWN" -> Finish(e, "uncertain")
                  [] docker_authority_conformance(c, r) = "CONFLICT" -> Finish(e, "unsupported")
                  [] OTHER ->
                        IF fingerprint_matches(c, r)
                        THEN IF require_node_container_correlation(c, r, r.op = "ReconcileNode")
                             THEN Goto(e, "image") ELSE Finish(e, "failed")
                        ELSE IF r.mat \in Privileged
                             THEN Finish(e, "unsupported") ELSE Goto(e, "image")
    /\ Reads /\ UNCHANGED <<action, witness>>

(* Secret and pull-credential resolution, before the image is looked at,   *)
(* refuse or raise.                                                        *)
ResolutionRefused(e) ==
    /\ pc[e] = "image" /\ issued[e] = {}
    /\ \E kind \in {"failed", "uncertain"} : Finish(e, kind)
    /\ Reads /\ UNCHANGED <<seen, action, witness>>

(* _admit_start_node_image: a present image is admitted or conflicts with  *)
(* the declared digest; an absent one is pulled first.                     *)
AdmitImage(e) ==
    /\ pc[e] = "image"
    /\ req[e].mat \in daemon.images
    /\ Goto(e, "network") \/ Finish(e, "failed")
    /\ Reads /\ UNCHANGED <<seen, action, witness>>

PullImage(e) ==
    /\ pc[e] = "image"
    /\ req[e].mat \notin daemon.images
    /\ Mutate(e, [op |-> "pull", mat |-> req[e].mat], Then(e, "image"))
    /\ UNCHANGED <<hit, mine>>

(* _preflight_secret_files refuses before any further provider mutation.   *)
PreflightRefused(e) ==
    /\ pc[e] = "network" /\ req[e].op \in NodeOps
    /\ \E kind \in {"failed", "uncertain"} : Finish(e, kind)
    /\ Reads /\ UNCHANGED <<seen, action, witness>>

(* What StartNode and ReconcileNode do once their network is there, by the *)
(* container they inspected first.                                         *)
AfterNetwork(e) ==
    LET c == seen[e]  r == req[e]  prior == r.op = "ReconcileNode" IN
    IF c = NoContainer THEN Goto(e, "create") /\ Acted(e, "created")
    ELSE IF prior /\ ~fingerprint_matches(c, r) THEN Goto(e, "replace") /\ Acted(e, "recreated")
    ELSE IF ~require_start_node_container(c, r, prior) THEN Finish(e, "failed") /\ UNCHANGED action
    ELSE IF c.running THEN Goto(e, "final") /\ Acted(e, "reused")
    ELSE Goto(e, "start") /\ Acted(e, "started")

NodeNetwork(e) ==
    /\ pc[e] = "network" /\ req[e].op \in NodeOps
    /\ LET n == daemon.network[req[e].rt] IN
        IF n = NoNetwork THEN Goto(e, "create_network") /\ UNCHANGED action
        ELSE IF require_runtime_owner(n, req[e]) THEN AfterNetwork(e)
        ELSE Finish(e, "failed") /\ UNCHANGED action
    /\ Reads /\ UNCHANGED <<seen, witness>>

NodeCreateNetwork(e) ==
    /\ pc[e] = "create_network" /\ req[e].op \in NodeOps
    /\ Mutate(e, CreateNetworkCall(req[e]), AfterNetwork(e))
    /\ UNCHANGED <<hit, mine>>

(* ReconcileNode replaces changed material: removal by name, and only then *)
(* preparation and creation.                                               *)
ReplaceRemoves(e) ==
    /\ pc[e] = "replace"
    /\ MutateByName(e, "remove", Then(e, "create"))

(* _prepare_node_container stages volumes; it may refuse or raise.         *)
PreparationRefused(e) ==
    /\ pc[e] = "create"
    /\ issued' = [issued EXCEPT ![e] = @ \cup {"create_volume"}]
    /\ \E kind \in {"failed", "uncertain"} : Finish(e, kind)
    /\ UNCHANGED <<daemon, late, req, seen, action, hit, mine, witness>>

(* Mutant: no creation names the network.                                  *)
CreateUnconnected(e) ==
    /\ pc[e] = "create"
    /\ Mutate(e, [op |-> "create", as |-> Created(req[e], DefaultNetworks)], Then(e, "start"))
    /\ mine' = [mine EXCEPT ![e] = IF daemon' # daemon THEN daemon.nextId ELSE 0]
    /\ UNCHANGED hit

(* StartNode creates with the network; ReconcileNode's run_container       *)
(* creates without one and connects afterwards.                            *)
CreateContainer(e) ==
    /\ pc[e] = "create"
    /\ LET r == req[e]
           start == r.op = "StartNode"
           nets == IF start THEN {r.rt} ELSE DefaultNetworks
       IN /\ Mutate(e, [op |-> "create", as |-> Created(r, nets)],
                    Then(e, IF start THEN "start" ELSE "connect"))
          /\ mine' = [mine EXCEPT ![e] = IF daemon' # daemon THEN daemon.nextId ELSE 0]
    /\ UNCHANGED hit

RunContainerConnects(e) ==
    /\ pc[e] = "connect"
    /\ Mutate(e, [op |-> "connect", id |-> mine[e], rt |-> req[e].rt], Then(e, "run"))
    /\ UNCHANGED <<hit, mine>>

RunContainerStarts(e) ==
    /\ pc[e] = "run"
    /\ Mutate(e, [op |-> "start", id |-> mine[e]], Then(e, "final"))
    /\ UNCHANGED <<hit, mine>>

StartContainer(e) ==
    /\ pc[e] = "start"
    /\ MutateByName(e, "start", Then(e, "final"))

(* The last inspection, by name, that a success rests on.                  *)
FinalInspect(e) ==
    /\ pc[e] = "final"
    /\ LET c == daemon.container  r == req[e] IN
        IF c = NoContainer THEN Finish(e, "uncertain") /\ UNCHANGED witness
        ELSE IF ~ /\ require_start_node_container(c, r, r.op = "ReconcileNode")
                  /\ c.running
             THEN Finish(e, "failed") /\ UNCHANGED witness
        ELSE CASE docker_authority_conformance(c, r) = "UNKNOWN" ->
                    Finish(e, "uncertain") /\ UNCHANGED witness
               [] docker_authority_conformance(c, r) = "CONFLICT" ->
                    Finish(e, "failed") /\ UNCHANGED witness
               [] OTHER -> /\ Finish(e, "succeeded")
                           /\ witness' = [witness EXCEPT ![e] = c.id]
    /\ Reads /\ UNCHANGED <<seen, action>>

-----------------------------------------------------------------------------
(* StopNode and RemoveNodeResource: inspect by name, check the owner, then *)
(* act by name.                                                            *)

stop_node(e) ==
    /\ pc[e] = "inspect" /\ req[e].op = "StopNode"
    /\ LET c == daemon.container IN
        /\ seen' = [seen EXCEPT ![e] = c]
        /\ IF c = NoContainer THEN Finish(e, "succeeded") /\ Acted(e, "absent")
           ELSE IF ~require_node_owner(c, req[e]) THEN Finish(e, "failed") /\ UNCHANGED action
           ELSE IF c.running THEN Goto(e, "stop") /\ Acted(e, "stopped")
           ELSE Finish(e, "succeeded") /\ Acted(e, "already-stopped")
    /\ Reads /\ UNCHANGED witness

StopContainer(e) ==
    /\ pc[e] = "stop"
    /\ MutateByName(e, "stop", Succeed(e))

(* Mutant: the owner is not checked.                                       *)
RemoveAnyNode(e) ==
    /\ pc[e] = "inspect" /\ req[e].op = "RemoveNodeResource"
    /\ seen' = [seen EXCEPT ![e] = daemon.container]
    /\ IF daemon.container = NoContainer
       THEN Finish(e, "succeeded") /\ Acted(e, "absent")
       ELSE Goto(e, "remove") /\ Acted(e, "removed")
    /\ Reads /\ UNCHANGED witness

remove_node(e) ==
    /\ pc[e] = "inspect" /\ req[e].op = "RemoveNodeResource"
    /\ LET c == daemon.container IN
        /\ seen' = [seen EXCEPT ![e] = c]
        /\ IF c = NoContainer THEN Finish(e, "succeeded") /\ Acted(e, "absent")
           ELSE IF ~require_node_owner(c, req[e]) THEN Finish(e, "failed") /\ UNCHANGED action
           ELSE Goto(e, "remove") /\ Acted(e, "removed")
    /\ Reads /\ UNCHANGED witness

(* Mutant: the container is stopped and left behind.                       *)
RemoveOnlyStops(e) == pc[e] = "remove" /\ MutateByName(e, "stop", Succeed(e))

RemoveContainer(e) ==
    /\ pc[e] = "remove"
    /\ MutateByName(e, "remove", Succeed(e))

-----------------------------------------------------------------------------
(* Runtime effects: the inspection of the network and, where there is one, *)
(* the mutation that follows it.                                           *)

InspectRuntime(e) ==
    /\ pc[e] = "network" /\ req[e].op \in RuntimeOps
    /\ LET n == daemon.network[req[e].rt]  op == req[e].op IN
        IF n = NoNetwork
        THEN IF op \in {"StartRuntime", "ReconcileRuntime"}
             THEN Goto(e, "create_network") /\ Acted(e, "created")
             ELSE /\ Finish(e, "succeeded")
                  /\ Acted(e, IF op = "StopRuntime" THEN "logical-stop" ELSE "absent")
        ELSE IF ~ IF op = "StartRuntime" THEN require_owned(n, req[e])
                                         ELSE require_runtime_owner(n, req[e])
             THEN Finish(e, "failed") /\ UNCHANGED action
        ELSE CASE op = "RemoveRuntimeResource" -> Goto(e, "remove_network") /\ Acted(e, "removed")
               [] op = "StopRuntime" -> Finish(e, "succeeded") /\ Acted(e, "logical-stop")
               [] OTHER -> Finish(e, "succeeded") /\ Acted(e, "reused")
    /\ Reads /\ UNCHANGED <<seen, witness>>

CreateNetwork(e) ==
    /\ pc[e] = "create_network" /\ req[e].op \in RuntimeOps
    /\ Mutate(e, CreateNetworkCall(req[e]), Succeed(e))
    /\ UNCHANGED <<hit, mine>>

RemoveNetwork(e) ==
    /\ pc[e] = "remove_network"
    /\ LET n == daemon.network[req[e].rt] IN
        \/ /\ n = NoNetwork
           /\ Finish(e, "uncertain")
           /\ Reads /\ UNCHANGED <<seen, action, witness>>
        \/ /\ n # NoNetwork
           /\ Mutate(e, [op |-> "remove_network", rt |-> req[e].rt], Succeed(e))
           /\ hit' = [hit EXCEPT ![e] = @ \cup {[id |-> 0, owner |-> n.rt]}]
           /\ UNCHANGED mine

-----------------------------------------------------------------------------

Step(e) ==
    \/ execute(e) \/ ReadFails(e) \/ InspectNode(e) \/ ResolutionRefused(e)
    \/ AdmitImage(e) \/ PullImage(e) \/ PreflightRefused(e) \/ NodeNetwork(e)
    \/ NodeCreateNetwork(e) \/ ReplaceRemoves(e) \/ PreparationRefused(e)
    \/ CreateContainer(e) \/ RunContainerConnects(e) \/ RunContainerStarts(e)
    \/ StartContainer(e) \/ FinalInspect(e)
    \/ stop_node(e) \/ StopContainer(e) \/ remove_node(e) \/ RemoveContainer(e)
    \/ InspectRuntime(e) \/ CreateNetwork(e) \/ RemoveNetwork(e)

Environment == (WorkloadExits \/ LateCall) /\ UNCHANGED local

LocalInit ==
    /\ pc = [e \in Effects |-> "idle"]
    /\ req = [e \in Effects |-> NoRequest]
    /\ seen = [e \in Effects |-> NoContainer]
    /\ action = [e \in Effects |-> "none"]
    /\ result = [e \in Effects |-> "none"]
    /\ issued = [e \in Effects |-> {}]
    /\ hit = [e \in Effects |-> {}]
    /\ mine = [e \in Effects |-> 0]
    /\ witness = [e \in Effects |-> 0]

Init == DaemonInit /\ LocalInit

Next == Environment \/ \E e \in Effects : Step(e)

Spec == Init /\ [][Next]_vars

(* Every provider call returns or raises within the client's timeout, so   *)
(* an effect whose process lives takes its next step.                      *)
FairSpec == Spec /\ \A e \in Effects : WF_vars(Step(e) /\ pc[e] # "idle")

-----------------------------------------------------------------------------
(* Properties.                                                             *)

Labels == {"idle", "inspect", "image", "network", "create_network", "replace", "create",
           "connect", "run", "start", "final", "stop", "remove", "remove_network", "done"}

CallNames == {"create", "start", "stop", "remove", "connect", "create_network",
              "remove_network", "pull", "create_volume"}

Actions == {"none", "created", "recreated", "reused", "started", "absent", "stopped",
            "already-stopped", "removed", "logical-stop"}

LocalTypeOK ==
    /\ pc \in [Effects -> Labels]
    /\ req \in [Effects -> Requests \cup {NoRequest}]
    /\ seen \in [Effects -> Container \cup {NoContainer}]
    /\ action \in [Effects -> Actions]
    /\ result \in [Effects -> Results \cup {"none"}]
    /\ issued \in [Effects -> SUBSET CallNames]
    /\ hit \in [Effects -> SUBSET [id: Nat, owner: Runtimes \cup {Foreign}]]
    /\ mine \in [Effects -> Nat]
    /\ witness \in [Effects -> Nat]
    /\ \A e \in Effects :
          /\ pc[e] # "idle" => req[e] # NoRequest
          /\ (pc[e] = "done") = (result[e] # "none")

(* The values every variable may take; an effect is done exactly when it   *)
(* has a result.                                                           *)
TypeOK == DaemonTypeOK /\ LocalTypeOK

(* StopNode, RemoveNodeResource, RemoveRuntimeResource and the start and   *)
(* replacement calls of StartNode and ReconcileNode act only on resources  *)
(* the request owns, although each names its target a second time after    *)
(* the ownership check.                                                    *)
OwnedOnly == \A e \in Effects : \A h \in hit[e] : h.owner = req[e].rt

(* A succeeded, failed or unsupported result is final: none of the         *)
(* effect's provider calls can still take effect.  Only an uncertain       *)
(* result leaves a call whose outcome is unknown.                          *)
TerminalMeansSettled ==
    \A e \in Effects : result[e] \in {"succeeded", "failed", "unsupported"} =>
        ~ \E l \in late : l.by = e

(* An unsupported result mutated nothing: process authority is compared    *)
(* before secrets, images, networks and containers are touched.            *)
UnsupportedMutatesNothing ==
    \A e \in Effects : result[e] = "unsupported" => issued[e] = {}

(* A container RemoveNodeResource inspected and reported removed is gone   *)
(* for good, whichever container its removal by name hit and whatever late *)
(* calls the Engine still executes.                                        *)
RemovedStaysGone ==
    \A e \in Effects :
        req[e] # NoRequest /\ result[e] = "succeeded"
            /\ action[e] = "removed" /\ seen[e] # NoContainer
            => ~Holds(daemon, seen[e].id)

(* Two effects whose successes rest on the same container asked for the    *)
(* same owner and material; two StartNode successes also for the same plan *)
(* and graph.  So of two competing StartNode effects at most one wins.     *)
WitnessAgreement ==
    \A e, f \in Effects :
        witness[e] # 0 /\ witness[e] = witness[f] =>
            /\ req[e].rt = req[f].rt /\ req[e].mat = req[f].mat
            /\ req[e].op = "StartNode" /\ req[f].op = "StartNode" =>
                    req[e].plan = req[f].plan /\ req[e].graph = req[f].graph

(* The container StartNode or ReconcileNode creates is one its own final   *)
(* inspection accepts: nothing the creation calls leave out makes the      *)
(* effect report a conflict with itself.                                   *)
CreatedConforms ==
    \A e \in Effects :
        pc[e] = "final" /\ mine[e] # 0 /\ Holds(daemon, mine[e]) =>
            require_start_node_container(daemon.container, req[e], req[e].op = "ReconcileNode")

(* The Engine's state as far as effects change it: a workload may exit at  *)
(* any time, so whether a container runs is left out.                      *)
DurableState ==
    [daemon EXCEPT !.container =
        IF @ = NoContainer THEN @ ELSE [@ EXCEPT !.running = FALSE]]

Contract ==
    INSTANCE EffectContract WITH
        Terminal <- {"succeeded", "failed", "unsupported"}, Uncertain <- "uncertain",
        world <- DurableState, outcome <- result,
        owed <- [e \in Effects |-> \E l \in late : l.by = e]

(* The effects keep the contract: one report each, no change of the Engine *)
(* by an effect that has settled, and at most one late call of one that    *)
(* has not.                                                                *)
KeepsContract == Contract!Spec

(* Every dispatched effect ends with a result.                             *)
EveryEffectReports ==
    \A e \in Effects : pc[e] # "idle" ~> result[e] # "none"

=============================================================================
