------------------------- MODULE NodeEffectsProofs --------------------------
(***************************************************************************)
(* Theorems about node effects for every set of effects, runtimes,         *)
(* requests and initial daemon states: type correctness, safety and the    *)
(* refinement of EffectContract for NodeEffects, then the properties of    *)
(* ConfigurationNode, whose configured effects run beside the ordinary     *)
(* ones.  The lemmas on steps take the requests and labels they range over *)
(* as parameters, so that both specifications use them.                    *)
(***************************************************************************)
EXTENDS ConfigurationNode, TLAPS

-----------------------------------------------------------------------------
(* NodeEffects: types.                                                     *)

DaemonState ==
    [container: Container \cup {NoContainer},
     network: [Runtimes -> Network \cup {NoNetwork}],
     images: SUBSET Materials, nextId: Nat]

(* An accepted call leaves a well-formed daemon.                           *)
LEMMA ApplyType ==
    ASSUME NEW d \in DaemonState, NEW c \in Call, Accepts(d, c)
    PROVE  Apply(d, c) \in DaemonState
<1> USE DaemonAssumption
<1>1. CASE c.op = "create"
  <2> DEFINE x == [c.as EXCEPT !.id = d.nextId]
  <2>1. c.as \in Container
    BY <1>1 DEF Call
  <2>2. x \in Container
    BY <2>1 DEF DaemonState, Container
  <2> DEFINE n == d.nextId + 1
  <2>3. n \in Nat
    BY DEF DaemonState
  <2>4. Apply(d, c) = [d EXCEPT !.container = x, !.nextId = n]
    BY <1>1 DEF Apply
  <2> HIDE DEF x, n
  <2> QED BY <2>2, <2>3, <2>4 DEF DaemonState
<1>2. CASE c.op = "start"
  BY <1>2 DEF DaemonState, Call, Apply, Accepts, Container, Holds
<1>3. CASE c.op = "stop"
  BY <1>3 DEF DaemonState, Call, Apply, Accepts, Container, Holds
<1>4. CASE c.op = "remove"
  BY <1>4 DEF DaemonState, Call, Apply, Accepts
<1>5. CASE c.op = "connect"
  BY <1>5 DEF DaemonState, Call, Apply, Accepts, Container, Holds, Nets
<1>6. CASE c.op = "create_network"
  BY <1>6 DEF DaemonState, Call, Apply, Accepts
<1>7. CASE c.op = "remove_network"
  BY <1>7 DEF DaemonState, Call, Apply, Accepts
<1>8. CASE c.op = "pull"
  BY <1>8 DEF DaemonState, Call, Apply, Accepts
<1> QED BY <1>1, <1>2, <1>3, <1>4, <1>5, <1>6, <1>7, <1>8 DEF Call

(* The three ways a mutating call ends keep the daemon well formed.        *)
Called(e, call) ==
    \/ Accepts(daemon, call) /\ daemon' = Apply(daemon, call) /\ UNCHANGED late
    \/ UNCHANGED <<daemon, late>>
    \/ late' = late \cup {[by |-> e, call |-> call]} /\ UNCHANGED daemon

(* Whatever happens to a call, the Engine keeps its type.                  *)
LEMMA CalledType ==
    ASSUME DaemonTypeOK, NEW e \in Effects, NEW call \in Call, Called(e, call)
    PROVE  DaemonTypeOK'
<1>1. daemon \in DaemonState /\ late \subseteq [by: Effects, call: Call]
  BY DEF DaemonTypeOK, DaemonState
<1>2. daemon' \in DaemonState
  BY <1>1, ApplyType DEF Called
<1>3. late' \subseteq [by: Effects, call: Call]
  BY <1>1 DEF Called
<1> QED BY <1>2, <1>3 DEF DaemonTypeOK, DaemonState

(* The initial states are typed.                                           *)
LEMMA InitType == Init => TypeOK
BY DaemonAssumption, RequestAssumption
DEF Init, DaemonInit, LocalInit, TypeOK, DaemonTypeOK, LocalTypeOK, Labels, Actions, Results

(* The coordinates every request names, ordinary or configured.            *)
Coordinates(r) ==
    /\ r.rt \in Runtimes /\ r.plan \in Plans /\ r.graph \in Graphs
    /\ r.mat \in Materials /\ r.sel \in Selections \cup {NoSelection}

(* The local state of effects that may also be dispatched with other       *)
(* requests and stand at other labels than those of NodeEffects.           *)
LocalTyped(R, L) ==
    /\ pc \in [Effects -> L]
    /\ req \in [Effects -> R \cup {NoRequest}]
    /\ seen \in [Effects -> Container \cup {NoContainer}]
    /\ action \in [Effects -> Actions]
    /\ result \in [Effects -> Results \cup {"none"}]
    /\ issued \in [Effects -> SUBSET CallNames]
    /\ hit \in [Effects -> SUBSET [id: Nat, owner: Runtimes \cup {Foreign}]]
    /\ mine \in [Effects -> Nat]
    /\ witness \in [Effects -> Nat]
    /\ \A e \in Effects :
          /\ pc[e] # "idle" => req[e] # NoRequest
          /\ (pc[e] = "done") = (result[e] # "none")

Widens(R, L) ==
    /\ Requests \subseteq R /\ Labels \subseteq L
    /\ NoRequest \notin R /\ \A r \in R : Coordinates(r)

(* The ordinary requests and labels are what the lemmas on steps ask for.  *)
LEMMA OrdinaryWidens == Widens(Requests, Labels)
BY RequestAssumption DEF Widens, Coordinates, Request

(* What a dispatched effect's request is.                                  *)
LEMMA RequestType ==
    ASSUME NEW R, NEW L, Widens(R, L), LocalTyped(R, L), NEW e \in Effects, pc[e] # "idle"
    PROVE  req[e] \in R /\ Coordinates(req[e])
BY DEF LocalTyped, Widens

(* The owner a call writes into what it creates is the request's runtime.  *)
OwnCall(call, r) ==
    /\ call.op = "create" => call.as.rt = r.rt
    /\ call.op = "create_network" => call.rt = r.rt /\ call.net.rt = r.rt

(* A network is connected only to the container the effect created.        *)
OwnConnect(call, e) ==
    call.op = "connect" => /\ pc[e] = "connect"
                           /\ call.id = mine[e] /\ call.rt = req[e].rt

(* A step of an effect leaves the daemon alone or makes one call.          *)
LEMMA StepCalls ==
    ASSUME NEW R, NEW L, Widens(R, L), DaemonTypeOK, LocalTyped(R, L),
           NEW e \in Effects, Step(e)
    PROVE  \/ UNCHANGED <<daemon, late>>
           \/ \E call \in Call : Called(e, call) /\ OwnCall(call, req[e]) /\ OwnConnect(call, e)
<1>6. CASE PullImage(e)
  <2> DEFINE call == [op |-> "pull", mat |-> req[e].mat]
  <2>1. call \in Call /\ OwnCall(call, req[e]) /\ OwnConnect(call, e)
    BY <1>6, RequestType DEF PullImage, Coordinates, Call, OwnCall, OwnConnect, LocalTyped
  <2>2. Called(e, call)
    BY <1>6 DEF PullImage, Mutate, Called
  <2> QED BY <2>1, <2>2
<1>9. CASE NodeCreateNetwork(e)
  <2> DEFINE call == CreateNetworkCall(req[e])
  <2>1. call \in Call /\ OwnCall(call, req[e]) /\ OwnConnect(call, e)
    BY <1>9, RequestType DEF NodeCreateNetwork, Coordinates, Call, OwnCall, OwnConnect, LocalTyped, CreateNetworkCall, Network
  <2>2. Called(e, call)
    BY <1>9 DEF NodeCreateNetwork, Mutate, Called
  <2> QED BY <2>1, <2>2
<1>10. CASE ReplaceRemoves(e)
  <2> DEFINE call == [op |-> "remove", id |-> daemon.container.id]
  <2>1. CASE daemon.container = NoContainer
    BY <1>10, <2>1 DEF ReplaceRemoves, MutateByName, Reads
  <2>2. CASE daemon.container # NoContainer
    <3>1. call \in Call /\ OwnCall(call, req[e]) /\ OwnConnect(call, e)
      BY <2>2 DEF DaemonTypeOK, Container, Call, OwnCall, OwnConnect
    <3>2. Called(e, call)
      BY <1>10, <2>2 DEF ReplaceRemoves, MutateByName, Mutate, Called
    <3> QED BY <3>1, <3>2
  <2> QED BY <2>1, <2>2
<1>12. CASE CreateContainer(e)
  <2> DEFINE nets == IF req[e].op = "StartNode" THEN {req[e].rt} ELSE DefaultNetworks
             call == [op |-> "create", as |-> Created(req[e], nets)]
  <2>1. Coordinates(req[e])
    BY <1>12, RequestType DEF CreateContainer
  <2>2. Created(req[e], nets) \in Container
    BY <2>1 DEF Coordinates, Created, Container, Nets
  <2>3. call \in Call /\ OwnCall(call, req[e]) /\ OwnConnect(call, e)
    BY <2>2 DEF Call, OwnCall, OwnConnect, Created
  <2>4. Called(e, call)
    BY <1>12 DEF CreateContainer, Mutate, Called
  <2> QED BY <2>3, <2>4
<1>13. CASE RunContainerConnects(e)
  <2> DEFINE call == [op |-> "connect", id |-> mine[e], rt |-> req[e].rt]
  <2>1. call \in Call /\ OwnCall(call, req[e]) /\ OwnConnect(call, e)
    BY <1>13, RequestType DEF RunContainerConnects, Coordinates, Call, OwnCall, OwnConnect, LocalTyped
  <2>2. Called(e, call)
    BY <1>13 DEF RunContainerConnects, Mutate, Called
  <2> QED BY <2>1, <2>2
<1>14. CASE RunContainerStarts(e)
  <2> DEFINE call == [op |-> "start", id |-> mine[e]]
  <2>1. call \in Call /\ OwnCall(call, req[e]) /\ OwnConnect(call, e)
    BY <1>14, RequestType DEF RunContainerStarts, Coordinates, Call, OwnCall, OwnConnect, LocalTyped
  <2>2. Called(e, call)
    BY <1>14 DEF RunContainerStarts, Mutate, Called
  <2> QED BY <2>1, <2>2
<1>15. CASE StartContainer(e)
  <2> DEFINE call == [op |-> "start", id |-> daemon.container.id]
  <2>1. CASE daemon.container = NoContainer
    BY <1>15, <2>1 DEF StartContainer, MutateByName, Reads
  <2>2. CASE daemon.container # NoContainer
    <3>1. call \in Call /\ OwnCall(call, req[e]) /\ OwnConnect(call, e)
      BY <2>2 DEF DaemonTypeOK, Container, Call, OwnCall, OwnConnect
    <3>2. Called(e, call)
      BY <1>15, <2>2 DEF StartContainer, MutateByName, Mutate, Called
    <3> QED BY <3>1, <3>2
  <2> QED BY <2>1, <2>2
<1>18. CASE StopContainer(e)
  <2> DEFINE call == [op |-> "stop", id |-> daemon.container.id]
  <2>1. CASE daemon.container = NoContainer
    BY <1>18, <2>1 DEF StopContainer, MutateByName, Reads
  <2>2. CASE daemon.container # NoContainer
    <3>1. call \in Call /\ OwnCall(call, req[e]) /\ OwnConnect(call, e)
      BY <2>2 DEF DaemonTypeOK, Container, Call, OwnCall, OwnConnect
    <3>2. Called(e, call)
      BY <1>18, <2>2 DEF StopContainer, MutateByName, Mutate, Called
    <3> QED BY <3>1, <3>2
  <2> QED BY <2>1, <2>2
<1>20. CASE RemoveContainer(e)
  <2> DEFINE call == [op |-> "remove", id |-> daemon.container.id]
  <2>1. CASE daemon.container = NoContainer
    BY <1>20, <2>1 DEF RemoveContainer, MutateByName, Reads
  <2>2. CASE daemon.container # NoContainer
    <3>1. call \in Call /\ OwnCall(call, req[e]) /\ OwnConnect(call, e)
      BY <2>2 DEF DaemonTypeOK, Container, Call, OwnCall, OwnConnect
    <3>2. Called(e, call)
      BY <1>20, <2>2 DEF RemoveContainer, MutateByName, Mutate, Called
    <3> QED BY <3>1, <3>2
  <2> QED BY <2>1, <2>2
<1>22. CASE CreateNetwork(e)
  <2> DEFINE call == CreateNetworkCall(req[e])
  <2>1. call \in Call /\ OwnCall(call, req[e]) /\ OwnConnect(call, e)
    BY <1>22, RequestType DEF CreateNetwork, Coordinates, Call, OwnCall, OwnConnect, LocalTyped, CreateNetworkCall, Network
  <2>2. Called(e, call)
    BY <1>22 DEF CreateNetwork, Mutate, Called
  <2> QED BY <2>1, <2>2
<1>23. CASE RemoveNetwork(e)
  <2> DEFINE call == [op |-> "remove_network", rt |-> req[e].rt]
  <2>1. call \in Call /\ OwnCall(call, req[e]) /\ OwnConnect(call, e)
    BY <1>23, RequestType DEF RemoveNetwork, Coordinates, Call, OwnCall, OwnConnect, LocalTyped
  <2>2. UNCHANGED <<daemon, late>> \/ Called(e, call)
    BY <1>23 DEF RemoveNetwork, Mutate, Called, Reads
  <2> QED BY <2>1, <2>2
<1>1. CASE execute(e)
  BY <1>1 DEF execute, Reads
<1>2. CASE ReadFails(e)
  BY <1>2 DEF ReadFails, Reads
<1>3. CASE InspectNode(e)
  BY <1>3 DEF InspectNode, Reads
<1>4. CASE ResolutionRefused(e)
  BY <1>4 DEF ResolutionRefused, Reads
<1>5. CASE AdmitImage(e)
  BY <1>5 DEF AdmitImage, Reads
<1>7. CASE PreflightRefused(e)
  BY <1>7 DEF PreflightRefused, Reads
<1>8. CASE NodeNetwork(e)
  BY <1>8 DEF NodeNetwork, Reads
<1>11. CASE PreparationRefused(e)
  BY <1>11 DEF PreparationRefused, Reads
<1>16. CASE FinalInspect(e)
  BY <1>16 DEF FinalInspect, Reads
<1>17. CASE stop_node(e)
  BY <1>17 DEF stop_node, Reads
<1>19. CASE remove_node(e)
  BY <1>19 DEF remove_node, Reads
<1>21. CASE InspectRuntime(e)
  BY <1>21 DEF InspectRuntime, Reads
<1> QED
  BY <1>1, <1>2, <1>3, <1>4, <1>5, <1>6, <1>7, <1>8, <1>9, <1>10, <1>11, <1>12, <1>13, <1>14, <1>15, <1>16, <1>17, <1>18, <1>19, <1>20, <1>21, <1>22, <1>23 DEF Step

(* A step keeps the types of the local variables.                          *)
LEMMA StepLocalType ==
    ASSUME NEW R, NEW L, Widens(R, L), DaemonTypeOK, LocalTyped(R, L),
           NEW e \in Effects, Step(e)
    PROVE  LocalTyped(R, L)'
<1> USE DEF DaemonTypeOK, LocalTyped, Widens, Labels, Results, Actions, CallNames
<1>1. CASE execute(e)
  BY <1>1, RequestAssumption DEF execute, Goto, Finish
<1>2. CASE ReadFails(e)
  BY <1>2 DEF ReadFails, Finish, Reads
<1>3. CASE InspectNode(e)
  BY <1>3 DEF InspectNode, Goto, Finish, Reads
<1>4. CASE ResolutionRefused(e)
  BY <1>4 DEF ResolutionRefused, Finish, Reads
<1>5. CASE AdmitImage(e)
  BY <1>5 DEF AdmitImage, Goto, Finish, Reads
<1>6. CASE PullImage(e)
  BY <1>6 DEF PullImage, Mutate, Then, Goto, Finish
<1>7. CASE PreflightRefused(e)
  BY <1>7 DEF PreflightRefused, Finish, Reads
<1>8. CASE NodeNetwork(e)
  BY <1>8 DEF NodeNetwork, AfterNetwork, Acted, Goto, Finish, Reads
<1>9. CASE NodeCreateNetwork(e)
  BY <1>9 DEF NodeCreateNetwork, CreateNetworkCall, AfterNetwork, Acted, Mutate, Goto, Finish
<1>10. CASE ReplaceRemoves(e)
  <2>1. CASE daemon.container = NoContainer
    BY <1>10, <2>1 DEF ReplaceRemoves, MutateByName, Finish, Reads
  <2>2. CASE daemon.container # NoContainer
    <3>1. daemon.container.id \in Nat /\ daemon.container.rt \in Runtimes \cup {Foreign}
      BY <2>2 DEF Container
    <3> QED BY <1>10, <2>2, <3>1 DEF ReplaceRemoves, MutateByName, Mutate, Then, Goto, Finish
  <2> QED BY <2>1, <2>2
<1>11. CASE PreparationRefused(e)
  BY <1>11 DEF PreparationRefused, Finish
<1>12. CASE CreateContainer(e)
  BY <1>12 DEF CreateContainer, Mutate, Then, Goto, Finish
<1>13. CASE RunContainerConnects(e)
  BY <1>13 DEF RunContainerConnects, Mutate, Then, Goto, Finish
<1>14. CASE RunContainerStarts(e)
  BY <1>14 DEF RunContainerStarts, Mutate, Then, Goto, Finish
<1>15. CASE StartContainer(e)
  <2>1. CASE daemon.container = NoContainer
    BY <1>15, <2>1 DEF StartContainer, MutateByName, Finish, Reads
  <2>2. CASE daemon.container # NoContainer
    <3>1. daemon.container.id \in Nat /\ daemon.container.rt \in Runtimes \cup {Foreign}
      BY <2>2 DEF Container
    <3> QED BY <1>15, <2>2, <3>1 DEF StartContainer, MutateByName, Mutate, Then, Goto, Finish
  <2> QED BY <2>1, <2>2
<1>16. CASE FinalInspect(e)
  BY <1>16 DEF FinalInspect, Finish, Reads, Container
<1>17. CASE stop_node(e)
  BY <1>17 DEF stop_node, Acted, Goto, Finish, Reads
<1>18. CASE StopContainer(e)
  <2>1. CASE daemon.container = NoContainer
    BY <1>18, <2>1 DEF StopContainer, MutateByName, Finish, Reads
  <2>2. CASE daemon.container # NoContainer
    <3>1. daemon.container.id \in Nat /\ daemon.container.rt \in Runtimes \cup {Foreign}
      BY <2>2 DEF Container
    <3> QED BY <1>18, <2>2, <3>1 DEF StopContainer, MutateByName, Mutate, Succeed, Finish
  <2> QED BY <2>1, <2>2
<1>19. CASE remove_node(e)
  BY <1>19 DEF remove_node, Acted, Goto, Finish, Reads
<1>20. CASE RemoveContainer(e)
  <2>1. CASE daemon.container = NoContainer
    BY <1>20, <2>1 DEF RemoveContainer, MutateByName, Finish, Reads
  <2>2. CASE daemon.container # NoContainer
    <3>1. daemon.container.id \in Nat /\ daemon.container.rt \in Runtimes \cup {Foreign}
      BY <2>2 DEF Container
    <3> QED BY <1>20, <2>2, <3>1 DEF RemoveContainer, MutateByName, Mutate, Succeed, Finish
  <2> QED BY <2>1, <2>2
<1>21. CASE InspectRuntime(e)
  BY <1>21 DEF InspectRuntime, Acted, Goto, Finish, Reads
<1>22. CASE CreateNetwork(e)
  BY <1>22 DEF CreateNetwork, CreateNetworkCall, Mutate, Succeed, Finish
<1>23. CASE RemoveNetwork(e)
  <2> DEFINE n == daemon.network[req[e].rt]
  <2>1. CASE n = NoNetwork
    BY <1>23, <2>1 DEF RemoveNetwork, Finish, Reads
  <2>2. CASE n # NoNetwork
    <3>1. req[e].rt \in Runtimes
      BY <1>23, RequestType DEF RemoveNetwork, Coordinates
    <3>2. n.rt \in Runtimes \cup {Foreign}
      BY <2>2, <3>1 DEF Network
    <3> QED BY <1>23, <2>2, <3>2 DEF RemoveNetwork, Mutate, Succeed, Finish
  <2> QED BY <2>1, <2>2
<1> QED
  BY <1>1, <1>2, <1>3, <1>4, <1>5, <1>6, <1>7, <1>8, <1>9, <1>10, <1>11, <1>12, <1>13, <1>14, <1>15, <1>16, <1>17, <1>18, <1>19, <1>20, <1>21, <1>22, <1>23 DEF Step

(* A step of an effect keeps all types.                                    *)
LEMMA StepType ==
    ASSUME NEW R, NEW L, Widens(R, L), DaemonTypeOK, LocalTyped(R, L),
           NEW e \in Effects, Step(e)
    PROVE  DaemonTypeOK' /\ LocalTyped(R, L)'
<1>1. DaemonTypeOK'
  BY StepCalls, CalledType DEF DaemonTypeOK
<1> QED BY <1>1, StepLocalType

(* So do late calls and exits of workloads.                                *)
LEMMA EnvironmentType ==
    ASSUME DaemonTypeOK, Environment
    PROVE  DaemonTypeOK'
<1>1. daemon \in DaemonState /\ late \subseteq [by: Effects, call: Call]
  BY DEF DaemonTypeOK, DaemonState
<1>3. CASE WorkloadExits
  BY <1>1, <1>3 DEF WorkloadExits, DaemonState, Container, DaemonTypeOK
<1>4. CASE LateCall
  <2>1. daemon' \in DaemonState
    BY <1>1, <1>4, ApplyType DEF LateCall
  <2>2. late' \subseteq [by: Effects, call: Call]
    BY <1>1, <1>4 DEF LateCall
  <2> QED BY <2>1, <2>2 DEF DaemonTypeOK, DaemonState
<1> QED BY <1>3, <1>4 DEF Environment

(* TypeOK is inductive.                                                    *)
LEMMA NextType == TypeOK /\ [Next]_vars => TypeOK'
<1> SUFFICES ASSUME TypeOK, [Next]_vars PROVE TypeOK'
  OBVIOUS
<1>1. CASE Environment
  <2>1. LocalTypeOK'
    BY <1>1 DEF Environment, local, TypeOK, LocalTypeOK
  <2> QED BY <1>1, <2>1, EnvironmentType DEF TypeOK
<1>2. CASE \E e \in Effects : Step(e)
  <2>1. DaemonTypeOK /\ LocalTyped(Requests, Labels)
    BY DEF TypeOK, LocalTypeOK, LocalTyped
  <2>2. DaemonTypeOK' /\ LocalTyped(Requests, Labels)'
    BY <1>2, <2>1, OrdinaryWidens, StepType
  <2> QED BY <2>2 DEF TypeOK, LocalTypeOK, LocalTyped
<1>3. CASE UNCHANGED vars
  BY <1>3 DEF vars, local, TypeOK, DaemonTypeOK, LocalTypeOK
<1> QED BY <1>1, <1>2, <1>3 DEF Next

(* Every reachable state is well formed, for every instance.               *)
THEOREM TypeCorrect == Spec => []TypeOK
BY InitType, NextType, PTL DEF Spec

-----------------------------------------------------------------------------
(* NodeEffects: safety and refinement, from type correctness and a         *)
(* strengthening each.                                                     *)

(* A step of an effect is taken before it is done, touches only its own    *)
(* part of the state, keeps its request once it is dispatched, and leaves  *)
(* a call behind only by ending uncertain.                                 *)
LEMMA StepFrameTyped ==
    ASSUME NEW R, NEW L, LocalTyped(R, L), NEW e \in Effects, Step(e)
    PROVE  /\ pc[e] # "done" /\ pc'[e] # "idle"
           /\ pc'[e] \in Labels
           /\ IF pc[e] = "idle" THEN req'[e] \in Requests ELSE req'[e] = req[e]
           /\ pc[e] = "idle" => UNCHANGED <<daemon, late>>
           /\ \A f \in Effects \ {e} :
                /\ pc'[f] = pc[f] /\ req'[f] = req[f] /\ seen'[f] = seen[f]
                /\ action'[f] = action[f] /\ result'[f] = result[f]
                /\ issued'[f] = issued[f] /\ hit'[f] = hit[f]
                /\ mine'[f] = mine[f] /\ witness'[f] = witness[f]
           /\ \/ late' = late
              \/ \E call : /\ late' = late \cup {[by |-> e, call |-> call]}
                           /\ result'[e] = "uncertain"
<1> USE DEF LocalTyped, Labels
<1>1. CASE execute(e)
  BY <1>1 DEF execute, Goto, Finish
<1>2. CASE ReadFails(e)
  BY <1>2 DEF ReadFails, Finish, Reads
<1>3. CASE InspectNode(e)
  BY <1>3 DEF InspectNode, Goto, Finish, Reads
<1>4. CASE ResolutionRefused(e)
  BY <1>4 DEF ResolutionRefused, Finish, Reads
<1>5. CASE AdmitImage(e)
  BY <1>5 DEF AdmitImage, Goto, Finish, Reads
<1>6. CASE PullImage(e)
  BY <1>6 DEF PullImage, Mutate, Then, Goto, Finish
<1>7. CASE PreflightRefused(e)
  BY <1>7 DEF PreflightRefused, Finish, Reads
<1>8. CASE NodeNetwork(e)
  BY <1>8 DEF NodeNetwork, AfterNetwork, Acted, Goto, Finish, Reads
<1>9. CASE NodeCreateNetwork(e)
  BY <1>9 DEF NodeCreateNetwork, AfterNetwork, Acted, Mutate, Goto, Finish
<1>10. CASE ReplaceRemoves(e)
  BY <1>10 DEF ReplaceRemoves, MutateByName, Mutate, Then, Goto, Finish, Reads
<1>11. CASE PreparationRefused(e)
  BY <1>11 DEF PreparationRefused, Finish
<1>12. CASE CreateContainer(e)
  BY <1>12 DEF CreateContainer, Mutate, Then, Goto, Finish
<1>13. CASE RunContainerConnects(e)
  BY <1>13 DEF RunContainerConnects, Mutate, Then, Goto, Finish
<1>14. CASE RunContainerStarts(e)
  BY <1>14 DEF RunContainerStarts, Mutate, Then, Goto, Finish
<1>15. CASE StartContainer(e)
  BY <1>15 DEF StartContainer, MutateByName, Mutate, Then, Goto, Finish, Reads
<1>16. CASE FinalInspect(e)
  BY <1>16 DEF FinalInspect, Finish, Reads
<1>17. CASE stop_node(e)
  BY <1>17 DEF stop_node, Acted, Goto, Finish, Reads
<1>18. CASE StopContainer(e)
  BY <1>18 DEF StopContainer, MutateByName, Mutate, Succeed, Finish, Reads
<1>19. CASE remove_node(e)
  BY <1>19 DEF remove_node, Acted, Goto, Finish, Reads
<1>20. CASE RemoveContainer(e)
  BY <1>20 DEF RemoveContainer, MutateByName, Mutate, Succeed, Finish, Reads
<1>21. CASE InspectRuntime(e)
  BY <1>21 DEF InspectRuntime, Acted, Goto, Finish, Reads
<1>22. CASE CreateNetwork(e)
  BY <1>22 DEF CreateNetwork, Mutate, Succeed, Finish
<1>23. CASE RemoveNetwork(e)
  BY <1>23 DEF RemoveNetwork, Mutate, Succeed, Finish, Reads
<1> QED
  BY <1>1, <1>2, <1>3, <1>4, <1>5, <1>6, <1>7, <1>8, <1>9, <1>10, <1>11,
     <1>12, <1>13, <1>14, <1>15, <1>16, <1>17, <1>18, <1>19, <1>20, <1>21,
     <1>22, <1>23 DEF Step

(* The same of the effects of NodeEffects alone.                           *)
LEMMA OrdinaryTyped == TypeOK => DaemonTypeOK /\ LocalTyped(Requests, Labels)
BY DEF TypeOK, LocalTypeOK, LocalTyped

(* The calls of a step of an ordinary effect.                              *)
LEMMA OrdinaryCalls ==
    ASSUME TypeOK, NEW e \in Effects, Step(e)
    PROVE  \/ UNCHANGED <<daemon, late>>
           \/ \E call \in Call : Called(e, call) /\ OwnCall(call, req[e]) /\ OwnConnect(call, e)
BY OrdinaryTyped, OrdinaryWidens, StepCalls

(* The frame of a step, for the ordinary requests and labels.              *)
LEMMA StepFrame ==
    ASSUME TypeOK, NEW e \in Effects, Step(e)
    PROVE  /\ pc[e] # "done" /\ pc'[e] # "idle"
           /\ pc[e] # "idle" => req'[e] = req[e]
           /\ pc[e] = "idle" => UNCHANGED <<daemon, late>>
           /\ \A f \in Effects \ {e} :
                /\ pc'[f] = pc[f] /\ req'[f] = req[f] /\ seen'[f] = seen[f]
                /\ action'[f] = action[f] /\ result'[f] = result[f]
                /\ issued'[f] = issued[f] /\ hit'[f] = hit[f]
                /\ mine'[f] = mine[f] /\ witness'[f] = witness[f]
           /\ \/ late' = late
              \/ \E call : /\ late' = late \cup {[by |-> e, call |-> call]}
                           /\ result'[e] = "uncertain"
BY OrdinaryTyped, StepFrameTyped

-----------------------------------------------------------------------------
(* Every call still under way belongs to an effect that ended uncertain.   *)
Settled == \A l \in late : result[l.by] = "uncertain"

(* Settled is inductive.                                                   *)
LEMMA SettledNext ==
    ASSUME TypeOK, Settled, [Next]_vars
    PROVE  Settled'
<1>1. CASE UNCHANGED vars
  BY <1>1 DEF vars, local, Settled
<1>2. CASE Environment
  BY <1>2 DEF Environment, WorkloadExits, LateCall, local, Settled
<1>3. CASE \E e \in Effects : Step(e)
  <2>1. PICK e \in Effects : Step(e)
    BY <1>3
  <2>2. result[e] = "none"
    BY <2>1, StepFrame DEF TypeOK, LocalTypeOK
  <2>3. \A l \in late : l.by \in Effects \ {e}
    BY <2>2 DEF Settled, TypeOK, DaemonTypeOK
  <2>4. \A l \in late : result'[l.by] = "uncertain"
    BY <2>1, <2>3, StepFrame DEF Settled
  <2> QED BY <2>1, <2>4, StepFrame DEF Settled
<1> QED BY <1>1, <1>2, <1>3 DEF Next

(* A succeeded, failed or unsupported result leaves no provider call that  *)
(* may still take effect, whatever the Engine and the other effects do.    *)
THEOREM TerminalResultsSettled == Spec => []TerminalMeansSettled
<1>1. Init => Settled
  BY DEF Init, DaemonInit, Settled
<1>2. Settled => TerminalMeansSettled
  BY DEF Settled, TerminalMeansSettled
<1> QED BY <1>1, <1>2, TypeCorrect, SettledNext, PTL DEF Spec

-----------------------------------------------------------------------------
(* An effect is unsupported, or still to inspect, only before it has made  *)
(* a call.                                                                 *)
Untouched ==
    \A e \in Effects :
        pc[e] \in {"idle", "inspect"} \/ result[e] = "unsupported" => issued[e] = {}

(* A step that only looks, or refuses for the authority, issues no call.   *)
LEMMA StepIssues ==
    ASSUME TypeOK, NEW e \in Effects, Step(e)
    PROVE  pc'[e] = "inspect" \/ result'[e] = "unsupported" =>
              pc[e] \in {"idle", "inspect"} /\ issued'[e] = issued[e]
<1> USE DEF TypeOK, LocalTypeOK
<1>1. CASE execute(e)
  BY <1>1 DEF execute, Goto, Finish
<1>2. CASE ReadFails(e)
  BY <1>2 DEF ReadFails, Finish, Reads
<1>3. CASE InspectNode(e)
  BY <1>3 DEF InspectNode, Goto, Finish, Reads
<1>4. CASE ResolutionRefused(e)
  BY <1>4 DEF ResolutionRefused, Finish, Reads
<1>5. CASE AdmitImage(e)
  BY <1>5 DEF AdmitImage, Goto, Finish, Reads
<1>6. CASE PullImage(e)
  BY <1>6 DEF PullImage, Mutate, Then, Goto, Finish
<1>7. CASE PreflightRefused(e)
  BY <1>7 DEF PreflightRefused, Finish, Reads
<1>8. CASE NodeNetwork(e)
  BY <1>8 DEF NodeNetwork, AfterNetwork, Acted, Goto, Finish, Reads
<1>9. CASE NodeCreateNetwork(e)
  BY <1>9 DEF NodeCreateNetwork, AfterNetwork, Acted, Mutate, Goto, Finish
<1>10. CASE ReplaceRemoves(e)
  BY <1>10 DEF ReplaceRemoves, MutateByName, Mutate, Then, Goto, Finish, Reads
<1>11. CASE PreparationRefused(e)
  BY <1>11 DEF PreparationRefused, Finish
<1>12. CASE CreateContainer(e)
  BY <1>12 DEF CreateContainer, Mutate, Then, Goto, Finish
<1>13. CASE RunContainerConnects(e)
  BY <1>13 DEF RunContainerConnects, Mutate, Then, Goto, Finish
<1>14. CASE RunContainerStarts(e)
  BY <1>14 DEF RunContainerStarts, Mutate, Then, Goto, Finish
<1>15. CASE StartContainer(e)
  BY <1>15 DEF StartContainer, MutateByName, Mutate, Then, Goto, Finish, Reads
<1>16. CASE FinalInspect(e)
  BY <1>16 DEF FinalInspect, Finish, Reads
<1>17. CASE stop_node(e)
  BY <1>17 DEF stop_node, Acted, Goto, Finish, Reads
<1>18. CASE StopContainer(e)
  BY <1>18 DEF StopContainer, MutateByName, Mutate, Succeed, Finish, Reads
<1>19. CASE remove_node(e)
  BY <1>19 DEF remove_node, Acted, Goto, Finish, Reads
<1>20. CASE RemoveContainer(e)
  BY <1>20 DEF RemoveContainer, MutateByName, Mutate, Succeed, Finish, Reads
<1>21. CASE InspectRuntime(e)
  BY <1>21 DEF InspectRuntime, Acted, Goto, Finish, Reads
<1>22. CASE CreateNetwork(e)
  BY <1>22 DEF CreateNetwork, Mutate, Succeed, Finish
<1>23. CASE RemoveNetwork(e)
  BY <1>23 DEF RemoveNetwork, Mutate, Succeed, Finish, Reads
<1> QED
  BY <1>1, <1>2, <1>3, <1>4, <1>5, <1>6, <1>7, <1>8, <1>9, <1>10, <1>11,
     <1>12, <1>13, <1>14, <1>15, <1>16, <1>17, <1>18, <1>19, <1>20, <1>21,
     <1>22, <1>23 DEF Step

(* Untouched is inductive.                                                 *)
LEMMA UntouchedNext ==
    ASSUME TypeOK, Untouched, [Next]_vars
    PROVE  Untouched'
<1>1. CASE UNCHANGED vars
  BY <1>1 DEF vars, local, Untouched
<1>2. CASE Environment
  BY <1>2 DEF Environment, local, Untouched
<1>3. CASE \E e \in Effects : Step(e)
  <2>1. PICK e \in Effects : Step(e)
    BY <1>3
  <2>2. \A f \in Effects \ {e} :
            pc'[f] = pc[f] /\ result'[f] = result[f] /\ issued'[f] = issued[f]
    BY <2>1, StepFrame
  <2>3. pc'[e] # "idle"
    BY <2>1, StepFrame
  <2>4. pc'[e] = "inspect" \/ result'[e] = "unsupported" => issued'[e] = {}
    BY <2>1, StepIssues DEF Untouched
  <2> QED BY <2>2, <2>3, <2>4 DEF Untouched
<1> QED BY <1>1, <1>2, <1>3 DEF Next

(* Process authority is refused before any provider mutation: an           *)
(* unsupported effect has issued no call.                                  *)
THEOREM UnsupportedIsInert == Spec => []UnsupportedMutatesNothing
<1>1. Init => Untouched
  BY DEF Init, LocalInit, Untouched
<1>2. Untouched => UnsupportedMutatesNothing
  BY DEF Untouched, UnsupportedMutatesNothing
<1> QED BY <1>1, <1>2, TypeCorrect, UntouchedNext, PTL DEF Spec

-----------------------------------------------------------------------------
(* What an accepted call may do to the container slot and the id counter.  *)
LEMMA ApplySlot ==
    ASSUME NEW d \in DaemonState, NEW c \in Call, Accepts(d, c)
    PROVE  LET x == Apply(d, c).container IN
           \/ /\ x = NoContainer \/ (d.container # NoContainer /\ x.id = d.container.id
                                                           /\ x.rt = d.container.rt)
              /\ Apply(d, c).nextId = d.nextId
           \/ /\ c.op = "create" /\ d.container = NoContainer
              /\ x.id = d.nextId /\ x.rt = c.as.rt
              /\ Apply(d, c).nextId = d.nextId + 1
<1> USE DaemonAssumption
<1>1. CASE c.op = "create"
  <2> DEFINE n == d.nextId + 1
             x == [c.as EXCEPT !.id = d.nextId]
  <2>1. c.as \in Container
    BY <1>1 DEF Call
  <2>2. x.id = d.nextId /\ x.rt = c.as.rt
    BY <2>1 DEF Container
  <2>3. Apply(d, c) = [d EXCEPT !.container = x, !.nextId = n]
    BY <1>1 DEF Apply
  <2>4. d.container = NoContainer
    BY <1>1 DEF Accepts
  <2> HIDE DEF x, n
  <2>5. Apply(d, c).container = x /\ Apply(d, c).nextId = n
    BY <2>3 DEF DaemonState
  <2> QED BY <1>1, <2>2, <2>4, <2>5 DEF n
<1>2. CASE c.op \in {"start", "stop", "connect"}
  BY <1>2 DEF DaemonState, Call, Apply, Accepts, Container, Holds
<1>3. CASE c.op \in {"remove", "create_network", "remove_network", "pull"}
  BY <1>3 DEF DaemonState, Call, Apply, Accepts, Container
<1> QED BY <1>1, <1>2, <1>3 DEF Call

(* Ids are never reused: every container that exists or was inspected has  *)
(* an id below the next one.                                               *)
FreshIds ==
    /\ daemon.container # NoContainer => daemon.container.id < daemon.nextId
    /\ \A e \in Effects : seen[e] # NoContainer => seen[e].id < daemon.nextId

(* Where an effect that is to report "removed" stands, and which effects   *)
(* inspect a container.                                                    *)
Removing ==
    \A e \in Effects :
        /\ action[e] = "removed" => pc[e] \in {"remove", "remove_network", "done"}
        /\ pc[e] = "remove_network" => req[e].op \in RuntimeOps
        /\ pc[e] = "idle" => seen[e] = NoContainer
        /\ pc[e] # "idle" /\ req[e].op \in RuntimeOps => seen[e] = NoContainer

GoneInv == FreshIds /\ Removing /\ RemovedStaysGone

(* Only a first inspection of a node effect stores what it saw.            *)
LEMMA StepSeen ==
    ASSUME TypeOK, NEW e \in Effects, Step(e)
    PROVE  \/ seen'[e] = seen[e]
           \/ /\ pc[e] = "inspect" /\ req[e].op \in NodeOps
              /\ seen'[e] = daemon.container /\ daemon' = daemon
<1> USE DEF TypeOK, LocalTypeOK, NodeOps
<1>1. CASE execute(e)
  BY <1>1 DEF execute, Goto, Finish
<1>2. CASE ReadFails(e)
  BY <1>2 DEF ReadFails, Finish, Reads
<1>3. CASE InspectNode(e)
  BY <1>3 DEF InspectNode, Goto, Finish, Reads
<1>4. CASE ResolutionRefused(e)
  BY <1>4 DEF ResolutionRefused, Finish, Reads
<1>5. CASE AdmitImage(e)
  BY <1>5 DEF AdmitImage, Goto, Finish, Reads
<1>6. CASE PullImage(e)
  BY <1>6 DEF PullImage, Mutate, Then, Goto, Finish
<1>7. CASE PreflightRefused(e)
  BY <1>7 DEF PreflightRefused, Finish, Reads
<1>8. CASE NodeNetwork(e)
  BY <1>8 DEF NodeNetwork, AfterNetwork, Acted, Goto, Finish, Reads
<1>9. CASE NodeCreateNetwork(e)
  BY <1>9 DEF NodeCreateNetwork, AfterNetwork, Acted, Mutate, Goto, Finish
<1>10. CASE ReplaceRemoves(e)
  BY <1>10 DEF ReplaceRemoves, MutateByName, Mutate, Then, Goto, Finish, Reads
<1>11. CASE PreparationRefused(e)
  BY <1>11 DEF PreparationRefused, Finish
<1>12. CASE CreateContainer(e)
  BY <1>12 DEF CreateContainer, Mutate, Then, Goto, Finish
<1>13. CASE RunContainerConnects(e)
  BY <1>13 DEF RunContainerConnects, Mutate, Then, Goto, Finish
<1>14. CASE RunContainerStarts(e)
  BY <1>14 DEF RunContainerStarts, Mutate, Then, Goto, Finish
<1>15. CASE StartContainer(e)
  BY <1>15 DEF StartContainer, MutateByName, Mutate, Then, Goto, Finish, Reads
<1>16. CASE FinalInspect(e)
  BY <1>16 DEF FinalInspect, Finish, Reads
<1>17. CASE stop_node(e)
  BY <1>17 DEF stop_node, Acted, Goto, Finish, Reads
<1>18. CASE StopContainer(e)
  BY <1>18 DEF StopContainer, MutateByName, Mutate, Succeed, Finish, Reads
<1>19. CASE remove_node(e)
  BY <1>19 DEF remove_node, Acted, Goto, Finish, Reads
<1>20. CASE RemoveContainer(e)
  BY <1>20 DEF RemoveContainer, MutateByName, Mutate, Succeed, Finish, Reads
<1>21. CASE InspectRuntime(e)
  BY <1>21 DEF InspectRuntime, Acted, Goto, Finish, Reads
<1>22. CASE CreateNetwork(e)
  BY <1>22 DEF CreateNetwork, Mutate, Succeed, Finish
<1>23. CASE RemoveNetwork(e)
  BY <1>23 DEF RemoveNetwork, Mutate, Succeed, Finish, Reads
<1> QED
  BY <1>1, <1>2, <1>3, <1>4, <1>5, <1>6, <1>7, <1>8, <1>9, <1>10, <1>11,
     <1>12, <1>13, <1>14, <1>15, <1>16, <1>17, <1>18, <1>19, <1>20, <1>21,
     <1>22, <1>23 DEF Step

(* "removed" is chosen by remove_node and InspectRuntime only, and         *)
(* reported only after a removal was answered.                             *)
LEMMA StepRemoves ==
    ASSUME TypeOK, NEW e \in Effects, Step(e),
           action[e] = "removed" => pc[e] \in {"remove", "remove_network", "done"}
    PROVE  /\ action'[e] = "removed" => pc'[e] \in {"remove", "remove_network", "done"}
           /\ pc'[e] = "remove_network" => req[e].op \in RuntimeOps /\ pc[e] # "idle"
           /\ result'[e] = "succeeded" /\ action'[e] = "removed" =>
                 pc[e] = "remove_network" \/ daemon'.container = NoContainer
<1> USE DEF TypeOK, LocalTypeOK
<1>1. CASE execute(e)
  BY <1>1 DEF execute, Goto, Finish
<1>2. CASE ReadFails(e)
  BY <1>2 DEF ReadFails, Finish, Reads
<1>3. CASE InspectNode(e)
  BY <1>3 DEF InspectNode, Goto, Finish, Reads
<1>4. CASE ResolutionRefused(e)
  BY <1>4 DEF ResolutionRefused, Finish, Reads
<1>5. CASE AdmitImage(e)
  BY <1>5 DEF AdmitImage, Goto, Finish, Reads
<1>6. CASE PullImage(e)
  BY <1>6 DEF PullImage, Mutate, Then, Goto, Finish
<1>7. CASE PreflightRefused(e)
  BY <1>7 DEF PreflightRefused, Finish, Reads
<1>8. CASE NodeNetwork(e)
  BY <1>8 DEF NodeNetwork, AfterNetwork, Acted, Goto, Finish, Reads
<1>9. CASE NodeCreateNetwork(e)
  BY <1>9 DEF NodeCreateNetwork, AfterNetwork, Acted, Mutate, Goto, Finish
<1>10. CASE ReplaceRemoves(e)
  BY <1>10 DEF ReplaceRemoves, MutateByName, Mutate, Then, Goto, Finish, Reads
<1>11. CASE PreparationRefused(e)
  BY <1>11 DEF PreparationRefused, Finish
<1>12. CASE CreateContainer(e)
  BY <1>12 DEF CreateContainer, Mutate, Then, Goto, Finish
<1>13. CASE RunContainerConnects(e)
  BY <1>13 DEF RunContainerConnects, Mutate, Then, Goto, Finish
<1>14. CASE RunContainerStarts(e)
  BY <1>14 DEF RunContainerStarts, Mutate, Then, Goto, Finish
<1>15. CASE StartContainer(e)
  BY <1>15 DEF StartContainer, MutateByName, Mutate, Then, Goto, Finish, Reads
<1>16. CASE FinalInspect(e)
  BY <1>16 DEF FinalInspect, Finish, Reads
<1>17. CASE stop_node(e)
  BY <1>17 DEF stop_node, Acted, Goto, Finish, Reads
<1>18. CASE StopContainer(e)
  BY <1>18 DEF StopContainer, MutateByName, Mutate, Succeed, Finish, Reads
<1>19. CASE remove_node(e)
  BY <1>19 DEF remove_node, Acted, Goto, Finish, Reads
<1>20. CASE RemoveContainer(e)
  <2>1. CASE daemon.container = NoContainer
    BY <1>20, <2>1 DEF RemoveContainer, MutateByName, Finish, Reads
  <2>2. CASE daemon.container # NoContainer
    <3>1. \A call : call = [op |-> "remove", id |-> daemon.container.id] =>
             Apply(daemon, call).container = NoContainer
      BY DEF Apply, DaemonTypeOK
    <3> QED BY <1>20, <2>2, <3>1 DEF RemoveContainer, MutateByName, Mutate, Succeed, Finish
  <2> QED BY <2>1, <2>2
<1>21. CASE InspectRuntime(e)
  BY <1>21 DEF InspectRuntime, Acted, Goto, Finish, Reads
<1>22. CASE CreateNetwork(e)
  BY <1>22 DEF CreateNetwork, Mutate, Succeed, Finish
<1>23. CASE RemoveNetwork(e)
  BY <1>23 DEF RemoveNetwork, Mutate, Succeed, Finish, Reads
<1> QED
  BY <1>1, <1>2, <1>3, <1>4, <1>5, <1>6, <1>7, <1>8, <1>9, <1>10, <1>11,
     <1>12, <1>13, <1>14, <1>15, <1>16, <1>17, <1>18, <1>19, <1>20, <1>21,
     <1>22, <1>23 DEF Step

(* One provider call, whoever makes it, keeps ids fresh and never brings   *)
(* a container back.                                                       *)
LEMMA CallKeepsGone ==
    ASSUME TypeOK, FreshIds, NEW c \in Call, Accepts(daemon, c),
           daemon' = Apply(daemon, c)
    PROVE  /\ daemon'.container # NoContainer => daemon'.container.id < daemon'.nextId
           /\ daemon'.nextId \in Nat /\ daemon.nextId <= daemon'.nextId
           /\ \A i \in Nat : i < daemon.nextId /\ ~Holds(daemon, i) => ~Holds(daemon', i)
<1>1. daemon \in DaemonState /\ daemon' \in DaemonState
  BY ApplyType DEF TypeOK, DaemonTypeOK, DaemonState
<1>2. daemon.nextId \in Nat /\ daemon'.nextId \in Nat
  BY <1>1 DEF DaemonState
<1>3. daemon.container # NoContainer => daemon.container.id \in Nat
  BY <1>1 DEF DaemonState, Container
<1> QED BY <1>1, <1>2, <1>3, ApplySlot DEF FreshIds, Holds

(* GoneInv is inductive.                                                   *)
LEMMA GoneNext ==
    ASSUME TypeOK, TypeOK', GoneInv, [Next]_vars
    PROVE  GoneInv'
<1>1. CASE UNCHANGED vars
  BY <1>1 DEF vars, local, GoneInv, FreshIds, Removing, RemovedStaysGone, Holds
<1> DEFINE Monotone ==
        /\ daemon'.container # NoContainer => daemon'.container.id < daemon'.nextId
        /\ daemon'.nextId \in Nat /\ daemon.nextId <= daemon'.nextId
        /\ \A i \in Nat : i < daemon.nextId /\ ~Holds(daemon, i) => ~Holds(daemon', i)
<1>4. daemon.nextId \in Nat /\ \A e \in Effects : seen[e] # NoContainer => seen[e].id \in Nat
  BY DEF TypeOK, DaemonTypeOK, LocalTypeOK, Container
<1>2. CASE Environment
  <2>1. Monotone
    <3>1. CASE WorkloadExits
      BY <3>1, <1>4 DEF WorkloadExits, GoneInv, FreshIds, Holds, TypeOK, DaemonTypeOK, Container
    <3>2. CASE LateCall
      <4>1. PICK l \in late :
              daemon' = IF Accepts(daemon, l.call) THEN Apply(daemon, l.call) ELSE daemon
        BY <3>2 DEF LateCall
      <4>2. l.call \in Call
        BY <4>1 DEF TypeOK, DaemonTypeOK
      <4>3. CASE Accepts(daemon, l.call)
        BY <4>1, <4>2, <4>3, CallKeepsGone DEF GoneInv
      <4>4. CASE ~Accepts(daemon, l.call)
        BY <4>1, <4>4, <1>4 DEF GoneInv, FreshIds, Holds
      <4> QED BY <4>3, <4>4
    <3> QED BY <1>2, <3>1, <3>2 DEF Environment
  <2> HIDE DEF Monotone
  <2>2. FreshIds'
    BY <1>2, <2>1, <1>4 DEF Environment, local, GoneInv, FreshIds, Monotone
  <2>3. Removing' /\ RemovedStaysGone'
    BY <1>2, <2>1, <1>4 DEF Environment, local, GoneInv, FreshIds, Removing, RemovedStaysGone, Monotone
  <2> QED BY <2>2, <2>3 DEF GoneInv
<1>3. CASE \E e \in Effects : Step(e)
  <2>1. PICK e \in Effects : Step(e)
    BY <1>3
  <2>2. Monotone
    <3>1. CASE daemon' = daemon
      BY <3>1, <1>4 DEF GoneInv, FreshIds, Holds
    <3>2. CASE daemon' # daemon
      <4>1. PICK call \in Call : Called(e, call)
        BY <2>1, <3>2, OrdinaryCalls
      <4> QED BY <3>2, <4>1, CallKeepsGone DEF Called, GoneInv
    <3> QED BY <3>1, <3>2
  <2> HIDE DEF Monotone
  <2>3. FreshIds'
    <3>1. \A f \in Effects : seen'[f] = seen[f] \/ (seen'[f] = daemon.container /\ daemon' = daemon)
      BY <2>1, StepFrame, StepSeen
    <3> QED BY <2>2, <3>1, <1>4 DEF GoneInv, FreshIds, Monotone
  <2>4. Removing'
    <3>1. \A f \in Effects \ {e} : /\ pc'[f] = pc[f] /\ req'[f] = req[f]
                                  /\ seen'[f] = seen[f] /\ action'[f] = action[f]
      BY <2>1, StepFrame
    <3>2. /\ action'[e] = "removed" => pc'[e] \in {"remove", "remove_network", "done"}
          /\ pc'[e] = "remove_network" => req'[e].op \in RuntimeOps
      BY <2>1, StepFrame, StepRemoves DEF GoneInv, Removing
    <3>3. pc'[e] # "idle"
      BY <2>1, StepFrame
    <3>4. req'[e].op \in RuntimeOps => seen'[e] = NoContainer
      BY <2>1, StepFrame, StepSeen DEF GoneInv, Removing, NodeOps, RuntimeOps
    <3> QED BY <3>1, <3>2, <3>3, <3>4 DEF Removing, GoneInv
  <2>5. RemovedStaysGone'
    <3>1. ASSUME NEW f \in Effects \ {e}, result'[f] = "succeeded", action'[f] = "removed",
                 req'[f] # NoRequest, seen'[f] # NoContainer
          PROVE  ~Holds(daemon', seen'[f].id)
      <4>1. seen'[f] = seen[f] /\ ~Holds(daemon, seen[f].id) /\ seen[f].id < daemon.nextId
        BY <2>1, <3>1, StepFrame DEF GoneInv, RemovedStaysGone, FreshIds
      <4> QED BY <2>2, <3>1, <4>1, <1>4 DEF Monotone
    <3>2. ASSUME result'[e] = "succeeded", action'[e] = "removed", seen'[e] # NoContainer
          PROVE  ~Holds(daemon', seen'[e].id)
      <4>1. pc[e] = "remove_network" \/ daemon'.container = NoContainer
        BY <2>1, <3>2, StepRemoves DEF GoneInv, Removing
      <4>2. pc[e] # "remove_network"
        BY <2>1, <3>2, StepSeen DEF GoneInv, Removing
      <4> QED BY <4>1, <4>2 DEF Holds
    <3> QED BY <3>1, <3>2 DEF RemovedStaysGone
  <2> QED BY <2>3, <2>4, <2>5 DEF GoneInv
<1> QED BY <1>1, <1>2, <1>3 DEF Next

(* A container RemoveNodeResource inspected and reported removed never     *)
(* exists again: removal by name empties the slot, and no late call names  *)
(* an id anew.                                                             *)
THEOREM RemovedIsGone == Spec => []RemovedStaysGone
<1>1. Init => GoneInv
  BY DaemonAssumption DEF Init, DaemonInit, LocalInit, GoneInv, FreshIds, Removing, RemovedStaysGone
<1>2. GoneInv => RemovedStaysGone
  BY DEF GoneInv
<1> QED BY <1>1, <1>2, TypeCorrect, GoneNext, PTL DEF Spec

-----------------------------------------------------------------------------
(* With a single owner R of the node name, the container slot and R's      *)
(* network, once empty or owned by R, stay so: every creation call any     *)
(* effect makes labels the resource with R.                                *)

OwnSlot(d, R) == d.container = NoContainer \/ d.container.rt = R

OwnNetwork(d, R) == d.network[R] = NoNetwork \/ d.network[R].rt = R

(* What an effect's control state promises about the resource its next     *)
(* call names.                                                             *)
Poised(e, R) ==
    /\ \/ pc[e] \in {"replace", "start", "stop", "remove"}
       \/ pc[e] \in {"image", "network", "create_network"} /\ seen[e] # NoContainer
       => OwnSlot(daemon, R)
    /\ pc[e] = "remove_network" => OwnNetwork(daemon, R)
    /\ pc[e] = "idle" => hit[e] = {} /\ seen[e] = NoContainer
    /\ \A h \in hit[e] : h.owner = R

OwnershipInv(R) ==
    /\ \A e \in Effects : Poised(e, R)
    /\ \A l \in late : OwnCall(l.call, [rt |-> R])

(* A call of the one runtime leaves the name free or its own.              *)
LEMMA OwnCallKeepsOwn ==
    ASSUME NEW R \in Runtimes, NEW d \in DaemonState, NEW c \in Call, Accepts(d, c),
           OwnCall(c, [rt |-> R])
    PROVE  /\ OwnSlot(d, R) => OwnSlot(Apply(d, c), R)
           /\ OwnNetwork(d, R) => OwnNetwork(Apply(d, c), R)
<1>1. OwnSlot(d, R) => OwnSlot(Apply(d, c), R)
  BY ApplySlot DEF OwnSlot, OwnCall
<1>2. CASE c.op = "create_network"
  BY <1>1, <1>2 DEF Apply, OwnCall, OwnNetwork, DaemonState, Call
<1>3. CASE c.op = "remove_network"
  BY <1>1, <1>3 DEF Apply, OwnNetwork, DaemonState, Call
<1>4. CASE c.op \in {"create", "start", "stop", "remove", "connect", "pull"}
  BY <1>1, <1>4 DEF Apply, OwnNetwork, DaemonState, Call
<1> QED BY <1>2, <1>3, <1>4 DEF Call

(* The effect that steps stays poised.                                     *)
LEMMA StepPoised ==
    ASSUME TypeOK, NEW R \in Runtimes, \A r \in Requests : r.rt = R,
           NEW e \in Effects, Step(e), Poised(e, R),
           OwnSlot(daemon, R) => OwnSlot(daemon', R),
           OwnNetwork(daemon, R) => OwnNetwork(daemon', R)
    PROVE  Poised(e, R)'
<1> USE DEF TypeOK, LocalTypeOK, Poised
<1>24. pc[e] # "idle" => req[e].rt = R
  BY DEF Poised
<1>1. CASE execute(e)
  BY <1>1, <1>24 DEF execute, Goto, Finish
<1>2. CASE ReadFails(e)
  BY <1>2, <1>24 DEF ReadFails, Finish, Reads
<1>3. CASE InspectNode(e)
  BY <1>3, <1>24 DEF InspectNode, Goto, Finish, Reads, StartNodeAdmits, ReconcileNodeAdmits, require_node_owner,
          require_node_container_correlation, fingerprint_matches, OwnSlot
<1>4. CASE ResolutionRefused(e)
  BY <1>4, <1>24 DEF ResolutionRefused, Finish, Reads
<1>5. CASE AdmitImage(e)
  BY <1>5, <1>24 DEF AdmitImage, Goto, Finish, Reads
<1>6. CASE PullImage(e)
  BY <1>6, <1>24 DEF PullImage, Mutate, Then, Goto, Finish
<1>7. CASE PreflightRefused(e)
  BY <1>7, <1>24 DEF PreflightRefused, Finish, Reads
<1>8. CASE NodeNetwork(e)
  BY <1>8, <1>24 DEF NodeNetwork, AfterNetwork, Acted, Goto, Finish, Reads
<1>9. CASE NodeCreateNetwork(e)
  BY <1>9, <1>24 DEF NodeCreateNetwork, AfterNetwork, Acted, Mutate, Goto, Finish
<1>10. CASE ReplaceRemoves(e)
  <2>1. CASE daemon.container = NoContainer
    BY <1>10, <2>1 DEF ReplaceRemoves, MutateByName, Finish, Reads
  <2>2. CASE daemon.container # NoContainer
    <3>1. daemon.container.rt = R
      BY <1>10, <2>2 DEF ReplaceRemoves, Poised, OwnSlot
    <3> QED BY <1>10, <2>2, <3>1 DEF ReplaceRemoves, MutateByName, Mutate, Then, Goto, Finish
  <2> QED BY <2>1, <2>2
<1>11. CASE PreparationRefused(e)
  BY <1>11, <1>24 DEF PreparationRefused, Finish
<1>12. CASE CreateContainer(e)
  <2> DEFINE nets == IF req[e].op = "StartNode" THEN {req[e].rt} ELSE DefaultNetworks
             call == [op |-> "create", as |-> Created(req[e], nets)]
  <2>1. pc'[e] = "start" => daemon' = Apply(daemon, call)
    BY <1>12 DEF CreateContainer, Mutate, Then, Goto, Finish
  <2>2. Apply(daemon, call).container.rt = req[e].rt
    BY DEF Apply, Created, DaemonTypeOK
  <2>3. pc'[e] = "start" => OwnSlot(daemon', R)
    BY <1>12, <1>24, <2>1, <2>2 DEF CreateContainer, OwnSlot
  <2> HIDE DEF call
  <2> QED BY <1>12, <2>3 DEF CreateContainer, Mutate, Then, Goto, Finish
<1>13. CASE RunContainerConnects(e)
  BY <1>13, <1>24 DEF RunContainerConnects, Mutate, Then, Goto, Finish
<1>14. CASE RunContainerStarts(e)
  BY <1>14, <1>24 DEF RunContainerStarts, Mutate, Then, Goto, Finish
<1>15. CASE StartContainer(e)
  <2>1. CASE daemon.container = NoContainer
    BY <1>15, <2>1 DEF StartContainer, MutateByName, Finish, Reads
  <2>2. CASE daemon.container # NoContainer
    <3>1. daemon.container.rt = R
      BY <1>15, <2>2 DEF StartContainer, Poised, OwnSlot
    <3> QED BY <1>15, <2>2, <3>1 DEF StartContainer, MutateByName, Mutate, Then, Goto, Finish
  <2> QED BY <2>1, <2>2
<1>16. CASE FinalInspect(e)
  BY <1>16, <1>24 DEF FinalInspect, Finish, Reads
<1>17. CASE stop_node(e)
  BY <1>17, <1>24 DEF stop_node, Acted, Goto, Finish, Reads, require_node_owner, OwnSlot
<1>18. CASE StopContainer(e)
  <2>1. CASE daemon.container = NoContainer
    BY <1>18, <2>1 DEF StopContainer, MutateByName, Finish, Reads
  <2>2. CASE daemon.container # NoContainer
    <3>1. daemon.container.rt = R
      BY <1>18, <2>2 DEF StopContainer, Poised, OwnSlot
    <3> QED BY <1>18, <2>2, <3>1 DEF StopContainer, MutateByName, Mutate, Succeed, Finish
  <2> QED BY <2>1, <2>2
<1>19. CASE remove_node(e)
  BY <1>19, <1>24 DEF remove_node, Acted, Goto, Finish, Reads, require_node_owner, OwnSlot
<1>20. CASE RemoveContainer(e)
  <2>1. CASE daemon.container = NoContainer
    BY <1>20, <2>1 DEF RemoveContainer, MutateByName, Finish, Reads
  <2>2. CASE daemon.container # NoContainer
    <3>1. daemon.container.rt = R
      BY <1>20, <2>2 DEF RemoveContainer, Poised, OwnSlot
    <3> QED BY <1>20, <2>2, <3>1 DEF RemoveContainer, MutateByName, Mutate, Succeed, Finish
  <2> QED BY <2>1, <2>2
<1>21. CASE InspectRuntime(e)
  BY <1>21, <1>24 DEF InspectRuntime, Acted, Goto, Finish, Reads, require_runtime_owner, OwnNetwork
<1>22. CASE CreateNetwork(e)
  BY <1>22, <1>24 DEF CreateNetwork, Mutate, Succeed, Finish
<1>23. CASE RemoveNetwork(e)
  <2> DEFINE n == daemon.network[req[e].rt]
  <2>1. n = NoNetwork \/ n.rt = R
    BY <1>23, <1>24 DEF RemoveNetwork, OwnNetwork
  <2> QED BY <1>23, <1>24, <2>1 DEF RemoveNetwork, Mutate, Succeed, Finish, Reads
<1> QED
  BY <1>1, <1>2, <1>3, <1>4, <1>5, <1>6, <1>7, <1>8, <1>9, <1>10, <1>11,
     <1>12, <1>13, <1>14, <1>15, <1>16, <1>17, <1>18, <1>19, <1>20, <1>21,
     <1>22, <1>23 DEF Step

(* OwnershipInv is inductive.                                              *)
LEMMA OwnershipNext ==
    ASSUME TypeOK, NEW R \in Runtimes, \A r \in Requests : r.rt = R,
           OwnershipInv(R), [Next]_vars
    PROVE  OwnershipInv(R)'
<1>1. CASE UNCHANGED vars
  BY <1>1 DEF vars, local, OwnershipInv, Poised, OwnSlot, OwnNetwork
<1>2. daemon \in DaemonState
  BY DEF TypeOK, DaemonTypeOK, DaemonState
<1>3. CASE Environment
  <2>1. /\ OwnSlot(daemon, R) => OwnSlot(daemon', R)
        /\ OwnNetwork(daemon, R) => OwnNetwork(daemon', R)
    <3>1. CASE WorkloadExits
      BY <1>2, <3>1 DEF WorkloadExits, DaemonState, Container, OwnSlot, OwnNetwork
    <3>2. CASE LateCall
      <4>1. PICK l \in late :
              daemon' = IF Accepts(daemon, l.call) THEN Apply(daemon, l.call) ELSE daemon
        BY <3>2 DEF LateCall
      <4>2. l.call \in Call /\ OwnCall(l.call, [rt |-> R])
        BY <4>1 DEF TypeOK, DaemonTypeOK, OwnershipInv
      <4> QED BY <1>2, <4>1, <4>2, OwnCallKeepsOwn
    <3> QED BY <1>3, <3>1, <3>2 DEF Environment
  <2>2. \A e \in Effects : Poised(e, R)'
    BY <1>3, <2>1 DEF Environment, local, OwnershipInv, Poised
  <2>3. \A l \in late' : OwnCall(l.call, [rt |-> R])
    BY <1>3 DEF Environment, WorkloadExits, LateCall, OwnershipInv
  <2> QED BY <2>2, <2>3 DEF OwnershipInv
<1>4. CASE \E e \in Effects : Step(e)
  <2>1. PICK e \in Effects : Step(e)
    BY <1>4
  <2>2. UNCHANGED <<daemon, late>> \/
        \E call \in Call : Called(e, call) /\ OwnCall(call, [rt |-> R])
    <3>1. CASE pc[e] = "idle"
      BY <2>1, <3>1, StepFrame
    <3>2. CASE pc[e] # "idle"
      <4>1. req[e].rt = R
        BY <3>2, OrdinaryTyped, OrdinaryWidens, RequestType
      <4> QED BY <2>1, <4>1, OrdinaryCalls DEF OwnCall
    <3> QED BY <3>1, <3>2
  <2>3. /\ OwnSlot(daemon, R) => OwnSlot(daemon', R)
        /\ OwnNetwork(daemon, R) => OwnNetwork(daemon', R)
    BY <1>2, <2>2, OwnCallKeepsOwn DEF Called, OwnSlot, OwnNetwork
  <2>4. \A l \in late' : OwnCall(l.call, [rt |-> R])
    BY <2>2 DEF Called, OwnershipInv
  <2>5. Poised(e, R)'
    BY <2>1, <2>3, StepPoised DEF OwnershipInv
  <2>6. ASSUME NEW f \in Effects \ {e}
        PROVE  Poised(f, R)'
    <3>1. pc'[f] = pc[f] /\ seen'[f] = seen[f] /\ hit'[f] = hit[f]
      BY <2>1, StepFrame
    <3> QED BY <2>3, <3>1 DEF OwnershipInv, Poised
  <2> QED BY <2>4, <2>5, <2>6 DEF OwnershipInv
<1> QED BY <1>1, <1>3, <1>4 DEF Next

(* When every request of a workspace that names the node comes from one    *)
(* runtime, effects act on that runtime's resources only, although each    *)
(* names its target again after the ownership check and late calls run at  *)
(* any time.                                                               *)
THEOREM OwnerActsAlone ==
    ASSUME NEW R \in Runtimes, \A r \in Requests : r.rt = R
    PROVE  Spec => []OwnedOnly
<1>1. Init => OwnershipInv(R)
  BY DEF Init, DaemonInit, LocalInit, OwnershipInv, Poised
<1>2. TypeOK /\ OwnershipInv(R) /\ [Next]_vars => OwnershipInv(R)'
  BY OwnershipNext
<1>3. TypeOK /\ OwnershipInv(R) => OwnedOnly
  BY DEF TypeOK, LocalTypeOK, OwnershipInv, Poised, OwnedOnly
<1> QED BY <1>1, <1>2, <1>3, TypeCorrect, PTL DEF Spec

-----------------------------------------------------------------------------
(* What a success says of the container it rests on.                       *)
Matches(c, r) ==
    /\ c.rt = r.rt /\ c.mat = r.mat
    /\ r.op = "StartNode" => c.plan = r.plan /\ c.graph = r.graph

(* Labels are immutable and ids are not reused, so as long as a witness is *)
(* there it still matches.                                                 *)
WitnessInv ==
    /\ \A e \in Effects :
          witness[e] # 0 => /\ pc[e] = "done" /\ witness[e] < daemon.nextId
                            /\ Holds(daemon, witness[e]) => Matches(daemon.container, req[e])
    /\ WitnessAgreement

(* An effect has created a container or is still to create one.            *)
Early == {"idle", "inspect", "image", "network", "create_network", "replace", "create"}

MineAt(e) ==
    /\ pc[e] \in Early => mine[e] = 0
    /\ pc[e] \in {"connect", "run"} => mine[e] # 0

(* A created container carries its request's labels, and is in the         *)
(* runtime's network once the call that puts it there was answered.        *)
CreatedFor(c, r) ==
    /\ c.evidence /\ fingerprint_matches(c, r) /\ c.sel = r.sel
    /\ c.plan = r.plan /\ c.graph = r.graph /\ c.image = r.mat /\ c.nets \subseteq {r.rt}

(* Created ids are fresh, one effect's each, and the connect calls still   *)
(* under way name the container their effect created.                      *)
MineInv ==
    /\ daemon.nextId > 0
    /\ \A e \in Effects : MineAt(e) /\ (mine[e] # 0 => mine[e] < daemon.nextId)
    /\ \A e, f \in Effects : mine[e] # 0 /\ mine[e] = mine[f] => e = f
    /\ \A l \in late :
          l.call.op = "connect" =>
              mine[l.by] # 0 /\ l.call.id = mine[l.by] /\ l.call.rt = req[l.by].rt

ConformInv ==
    \A e \in Effects :
        mine[e] # 0 /\ Holds(daemon, mine[e]) =>
            /\ CreatedFor(daemon.container, req[e])
            /\ pc[e] \in {"start", "run", "final"} => daemon.container.nets = {req[e].rt}

(* Everything of a container but its networks and whether it runs.         *)
SameLabels(c, x) ==
    /\ x.id = c.id /\ x.rt = c.rt /\ x.plan = c.plan /\ x.graph = c.graph /\ x.mat = c.mat
    /\ x.evidence = c.evidence /\ x.sel = c.sel /\ x.image = c.image

(* An accepted call empties the slot, keeps the container in it with its   *)
(* labels, or fills it under the next id.                                  *)
LEMMA ApplyLabels ==
    ASSUME NEW d \in DaemonState, NEW c \in Call, Accepts(d, c)
    PROVE  LET x == Apply(d, c).container IN
           \/ x = NoContainer
           \/ /\ d.container # NoContainer /\ x # NoContainer /\ SameLabels(d.container, x)
              /\ \/ x.nets = d.container.nets
                 \/ /\ c.op = "connect" /\ c.id = d.container.id
                    /\ x.nets = d.container.nets \cup {c.rt}
           \/ c.op = "create" /\ x.id = d.nextId
<1> USE DaemonAssumption
<1>1. CASE c.op = "create"
  BY <1>1, ApplySlot DEF Apply, Call, DaemonState, Container
<1>2. CASE c.op \in {"start", "stop"}
  <2>1. d.container \in Container /\ d.container # NoContainer
    BY <1>2 DEF DaemonState, Call, Accepts, Holds
  <2>2. \E v \in BOOLEAN : Apply(d, c).container = [d.container EXCEPT !.running = v]
    BY <1>2 DEF DaemonState, Call, Apply
  <2>3. PICK v \in BOOLEAN : Apply(d, c).container = [d.container EXCEPT !.running = v]
    BY <2>2
  <2>4. [d.container EXCEPT !.running = v] \in Container
    BY <2>1 DEF Container
  <2>5. /\ SameLabels(d.container, [d.container EXCEPT !.running = v])
        /\ [d.container EXCEPT !.running = v].nets = d.container.nets
    BY <2>1 DEF Container, SameLabels
  <2> QED  BY <2>1, <2>3, <2>4, <2>5
<1>3. CASE c.op = "connect"
  <2> DEFINE x == [d.container EXCEPT !.nets = d.container.nets \cup {c.rt}]
  <2>1. d.container \in Container /\ d.container # NoContainer /\ c.id = d.container.id /\ c.rt \in Runtimes
    BY <1>3 DEF DaemonState, Call, Accepts, Holds
  <2>2. Apply(d, c).container = x
    BY <1>3 DEF DaemonState, Call, Apply
  <2>3. x \in Container /\ SameLabels(d.container, x) /\ x.nets = d.container.nets \cup {c.rt}
    BY <2>1 DEF Container, SameLabels, Nets
  <2> HIDE DEF x
  <2> QED  BY <1>3, <2>1, <2>2, <2>3
<1>4. CASE c.op = "remove"
  BY <1>4 DEF DaemonState, Call, Apply
<1>5. CASE c.op \in {"create_network", "remove_network", "pull"}
  <2>1. Apply(d, c).container = d.container
    BY <1>5 DEF DaemonState, Call, Apply
  <2> QED  BY <2>1 DEF SameLabels
<1> QED  BY <1>1, <1>2, <1>3, <1>4, <1>5 DEF Call

(* The create and connect calls of an effect.                              *)
CreateCall(r) ==
    [op |-> "create",
     as |-> Created(r, IF r.op = "StartNode" THEN {r.rt} ELSE DefaultNetworks)]

ConnectCall(e) == [op |-> "connect", id |-> mine[e], rt |-> req[e].rt]

Creates(e) ==
    /\ pc[e] = "create" /\ mine'[e] = daemon.nextId
    /\ Accepts(daemon, CreateCall(req[e])) /\ daemon' = Apply(daemon, CreateCall(req[e]))
    /\ pc'[e] = IF req[e].op = "StartNode" THEN "start" ELSE "connect"

Connects(e) ==
    /\ pc[e] = "connect" /\ pc'[e] = "run"
    /\ Accepts(daemon, ConnectCall(e)) /\ daemon' = Apply(daemon, ConnectCall(e))

(* An effect gets its container by an answered create call only, and moves *)
(* on to start it only with the network connected.                         *)
LEMMA StepMine ==
    ASSUME TypeOK, NEW e \in Effects, Step(e), MineAt(e), daemon.nextId > 0
    PROVE  /\ MineAt(e)'
           /\ \/ Creates(e)
              \/ /\ mine'[e] = mine[e] \/ (mine[e] = 0 /\ mine'[e] = 0)
                 /\ mine[e] # 0 /\ pc'[e] \in {"start", "run", "final"} =>
                       pc[e] \in {"start", "run", "final"} \/ Connects(e)
<1> USE DEF TypeOK, LocalTypeOK, MineAt, Early
<1>1. CASE execute(e)
  BY <1>1 DEF execute, Goto, Finish
<1>2. CASE ReadFails(e)
  BY <1>2 DEF ReadFails, Finish, Reads
<1>3. CASE InspectNode(e)
  BY <1>3 DEF InspectNode, Goto, Finish, Reads
<1>4. CASE ResolutionRefused(e)
  BY <1>4 DEF ResolutionRefused, Finish, Reads
<1>5. CASE AdmitImage(e)
  BY <1>5 DEF AdmitImage, Goto, Finish, Reads
<1>6. CASE PullImage(e)
  BY <1>6 DEF PullImage, Mutate, Then, Goto, Finish
<1>7. CASE PreflightRefused(e)
  BY <1>7 DEF PreflightRefused, Finish, Reads
<1>8. CASE NodeNetwork(e)
  BY <1>8 DEF NodeNetwork, AfterNetwork, Acted, Goto, Finish, Reads
<1>9. CASE NodeCreateNetwork(e)
  BY <1>9 DEF NodeCreateNetwork, AfterNetwork, Acted, Mutate, Goto, Finish
<1>10. CASE ReplaceRemoves(e)
  BY <1>10 DEF ReplaceRemoves, MutateByName, Mutate, Then, Goto, Finish, Reads
<1>11. CASE PreparationRefused(e)
  BY <1>11 DEF PreparationRefused, Finish
<1>12. CASE CreateContainer(e)
  <2> DEFINE call == CreateCall(req[e])
  <2>1. Apply(daemon, call).nextId = daemon.nextId + 1
    BY DEF CreateCall, Apply, DaemonTypeOK
  <2>2. Apply(daemon, call) # daemon
    BY <2>1 DEF DaemonTypeOK
  <2>3. \/ Accepts(daemon, call) /\ daemon' = Apply(daemon, call) /\ Then(e, IF req[e].op = "StartNode" THEN "start" ELSE "connect")
        \/ daemon' = daemon /\ Finish(e, "uncertain")
    BY <1>12 DEF CreateContainer, Mutate, CreateCall
  <2>4. mine' = [mine EXCEPT ![e] = IF daemon' # daemon THEN daemon.nextId ELSE 0] /\ pc[e] = "create"
    BY <1>12 DEF CreateContainer
  <2> HIDE DEF call
  <2>5. CASE Accepts(daemon, call) /\ daemon' = Apply(daemon, call) /\ Then(e, IF req[e].op = "StartNode" THEN "start" ELSE "connect")
    <3>1. mine'[e] = daemon.nextId /\ pc'[e] = (IF req[e].op = "StartNode" THEN "start" ELSE "connect")
      BY <2>2, <2>4, <2>5 DEF Then, Goto
    <3> QED  BY <2>4, <2>5, <3>1 DEF Creates, call
  <2>6. CASE daemon' = daemon /\ Finish(e, "uncertain")
    BY <2>4, <2>6 DEF Finish
  <2> QED  BY <2>3, <2>5, <2>6
<1>13. CASE RunContainerConnects(e)
  BY <1>13 DEF RunContainerConnects, Mutate, Then, Goto, Finish, Connects, ConnectCall
<1>14. CASE RunContainerStarts(e)
  BY <1>14 DEF RunContainerStarts, Mutate, Then, Goto, Finish
<1>15. CASE StartContainer(e)
  BY <1>15 DEF StartContainer, MutateByName, Mutate, Then, Goto, Finish, Reads
<1>16. CASE FinalInspect(e)
  BY <1>16 DEF FinalInspect, Finish, Reads
<1>17. CASE stop_node(e)
  BY <1>17 DEF stop_node, Acted, Goto, Finish, Reads
<1>18. CASE StopContainer(e)
  BY <1>18 DEF StopContainer, MutateByName, Mutate, Succeed, Finish, Reads
<1>19. CASE remove_node(e)
  BY <1>19 DEF remove_node, Acted, Goto, Finish, Reads
<1>20. CASE RemoveContainer(e)
  BY <1>20 DEF RemoveContainer, MutateByName, Mutate, Succeed, Finish, Reads
<1>21. CASE InspectRuntime(e)
  BY <1>21 DEF InspectRuntime, Acted, Goto, Finish, Reads
<1>22. CASE CreateNetwork(e)
  BY <1>22 DEF CreateNetwork, Mutate, Succeed, Finish
<1>23. CASE RemoveNetwork(e)
  BY <1>23 DEF RemoveNetwork, Mutate, Succeed, Finish, Reads
<1> QED
  BY <1>1, <1>2, <1>3, <1>4, <1>5, <1>6, <1>7, <1>8, <1>9, <1>10, <1>11,
     <1>12, <1>13, <1>14, <1>15, <1>16, <1>17, <1>18, <1>19, <1>20, <1>21,
     <1>22, <1>23 DEF Step

(* How a step may change the slot.  Only an effect's connect call adds a   *)
(* network, to the container it created.                                   *)
LEMMA SlotNext ==
    ASSUME TypeOK, MineInv, [Next]_vars
    PROVE  /\ daemon.nextId \in Nat /\ daemon'.nextId \in Nat /\ daemon.nextId <= daemon'.nextId
           /\ \/ daemon'.container = NoContainer
              \/ /\ daemon.container # NoContainer /\ SameLabels(daemon.container, daemon'.container)
                 /\ \/ daemon'.container.nets = daemon.container.nets
                    \/ \E e \in Effects :
                          /\ mine[e] # 0 /\ mine[e] = daemon.container.id
                          /\ daemon'.container.nets = daemon.container.nets \cup {req[e].rt}
              \/ daemon'.container.id = daemon.nextId
<1> DEFINE Goal ==
           /\ daemon.nextId \in Nat /\ daemon'.nextId \in Nat /\ daemon.nextId <= daemon'.nextId
           /\ \/ daemon'.container = NoContainer
              \/ /\ daemon.container # NoContainer /\ SameLabels(daemon.container, daemon'.container)
                 /\ \/ daemon'.container.nets = daemon.container.nets
                    \/ \E e \in Effects :
                          /\ mine[e] # 0 /\ mine[e] = daemon.container.id
                          /\ daemon'.container.nets = daemon.container.nets \cup {req[e].rt}
              \/ daemon'.container.id = daemon.nextId
<1>1. daemon \in DaemonState /\ daemon.nextId \in Nat
  BY DEF TypeOK, DaemonTypeOK, DaemonState
<1>2. CASE daemon' = daemon
  BY <1>1, <1>2 DEF SameLabels
<1>3. ASSUME NEW e \in Effects, NEW call \in Call, Accepts(daemon, call), daemon' = Apply(daemon, call),
             call.op = "connect" => mine[e] # 0 /\ call.id = mine[e] /\ call.rt = req[e].rt
      PROVE  Goal
  <2>1. daemon'.nextId \in {daemon.nextId, daemon.nextId + 1}
    BY <1>1, <1>3, ApplySlot
  <2>2. daemon'.nextId \in Nat /\ daemon.nextId <= daemon'.nextId
    BY <1>1, <2>1
  <2> QED  BY <1>1, <1>3, <2>2, ApplyLabels
<1>4. CASE Environment
  <2>1. CASE WorkloadExits
    <3>1. daemon.container \in Container /\ daemon.container # NoContainer
      BY <1>1, <2>1 DEF WorkloadExits, DaemonState
    <3>2. daemon'.container = [daemon.container EXCEPT !.running = FALSE] /\ daemon'.nextId = daemon.nextId
      BY <1>1, <2>1 DEF WorkloadExits, DaemonState
    <3>3. SameLabels(daemon.container, daemon'.container) /\ daemon'.container.nets = daemon.container.nets
      BY <3>1, <3>2 DEF SameLabels, Container
    <3> QED  BY <1>1, <3>1, <3>2, <3>3
  <2>2. CASE LateCall
    <3>1. PICK l \in late :
            daemon' = IF Accepts(daemon, l.call) THEN Apply(daemon, l.call) ELSE daemon
      BY <2>2 DEF LateCall
    <3>2. l.call \in Call /\ l.by \in Effects
      BY <3>1 DEF TypeOK, DaemonTypeOK
    <3>3. l.call.op = "connect" => mine[l.by] # 0 /\ l.call.id = mine[l.by] /\ l.call.rt = req[l.by].rt
      BY <3>1 DEF MineInv
    <3> QED  BY <1>2, <1>3, <3>1, <3>2, <3>3
  <2> QED  BY <1>4, <2>1, <2>2 DEF Environment
<1>5. CASE \E e \in Effects : Step(e)
  <2>1. PICK e \in Effects : Step(e)
    BY <1>5
  <2>2. CASE daemon' # daemon
    <3>1. PICK call \in Call : Called(e, call) /\ OwnConnect(call, e)
      BY <2>1, <2>2, OrdinaryCalls
    <3>2. Accepts(daemon, call) /\ daemon' = Apply(daemon, call)
      BY <2>2, <3>1 DEF Called
    <3>3. call.op = "connect" => mine[e] # 0 /\ call.id = mine[e] /\ call.rt = req[e].rt
      BY <3>1 DEF OwnConnect, MineInv, MineAt
    <3> QED  BY <1>3, <3>2, <3>3
  <2> QED  BY <1>2, <2>2
<1> QED  BY <1>2, <1>4, <1>5 DEF Next, vars

(* MineInv is inductive.                                                   *)
LEMMA MineNext ==
    ASSUME TypeOK, Settled, MineInv, [Next]_vars
    PROVE  MineInv'
<1>1. daemon.nextId \in Nat /\ daemon'.nextId \in Nat /\ daemon.nextId <= daemon'.nextId
  BY SlotNext
<1>2. daemon'.nextId > 0
  BY <1>1 DEF MineInv
<1>3. \A f \in Effects : mine[f] \in Nat
  BY DEF TypeOK, LocalTypeOK
<1>4. CASE UNCHANGED vars
  BY <1>4 DEF vars, local, MineInv, MineAt
<1>5. CASE Environment
  <2>1. UNCHANGED local /\ late' \subseteq late
    BY <1>5 DEF Environment, WorkloadExits, LateCall
  <2> QED  BY <1>1, <1>2, <1>3, <2>1 DEF local, MineInv, MineAt
<1>6. CASE \E e \in Effects : Step(e)
  <2>1. PICK e \in Effects : Step(e)
    BY <1>6
  <2>2. /\ \A f \in Effects \ {e} : pc'[f] = pc[f] /\ mine'[f] = mine[f] /\ req'[f] = req[f]
        /\ pc[e] # "idle" => req'[e] = req[e]
    BY <2>1, StepFrame
  <2>3. MineAt(e)' /\ (Creates(e) \/ mine'[e] = mine[e])
    BY <2>1, StepMine DEF MineInv
  <2>4. \A f \in Effects : MineAt(f)'
    BY <2>2, <2>3 DEF MineInv, MineAt
  <2>5. Creates(e) => mine'[e] = daemon.nextId /\ daemon'.nextId = daemon.nextId + 1
    BY <1>1 DEF Creates, CreateCall, Apply, TypeOK, DaemonTypeOK
  <2>6. \A f \in Effects : mine'[f] # 0 => mine'[f] < daemon'.nextId
    <3>1. \A f \in Effects : mine'[f] = mine[f] /\ mine'[f] # 0 => mine'[f] < daemon'.nextId
      BY <1>1, <1>3 DEF MineInv
    <3>2. Creates(e) => mine'[e] < daemon'.nextId
      BY <1>1, <2>5
    <3> QED  BY <2>2, <2>3, <3>1, <3>2
  <2>7. \A f, g \in Effects : mine'[f] # 0 /\ mine'[f] = mine'[g] => f = g
    <3>1. CASE mine'[e] = mine[e]
      BY <2>2, <3>1 DEF MineInv
    <3>2. CASE Creates(e)
      <4>1. \A f \in Effects \ {e} : mine'[f] # 0 => mine'[f] # mine'[e]
        BY <1>1, <1>3, <2>2, <2>5, <3>2 DEF MineInv
      <4> QED  BY <2>2, <4>1 DEF MineInv
    <3> QED  BY <2>3, <3>1, <3>2
  <2>8. ASSUME NEW l \in late', l.call.op = "connect"
        PROVE  mine'[l.by] # 0 /\ l.call.id = mine'[l.by] /\ l.call.rt = req'[l.by].rt
    <3>1. CASE l \in late
      <4>1. l.by \in Effects \ {e}
        <5>1. result[e] = "none"
          BY <2>1, StepFrame DEF TypeOK, LocalTypeOK
        <5> QED  BY <3>1, <5>1 DEF Settled, TypeOK, DaemonTypeOK
      <4> QED  BY <2>2, <2>8, <3>1, <4>1 DEF MineInv
    <3>2. CASE l \notin late
      <4>1. PICK call \in Call : Called(e, call) /\ OwnConnect(call, e)
        BY <2>1, <2>8, <3>2, OrdinaryCalls
      <4>2. l = [by |-> e, call |-> call] /\ daemon' = daemon
        BY <2>8, <3>2, <4>1 DEF Called
      <4>3. pc[e] = "connect" /\ call.id = mine[e] /\ call.rt = req[e].rt
        BY <2>8, <4>1, <4>2 DEF OwnConnect
      <4>4. mine[e] # 0 /\ mine'[e] = mine[e] /\ req'[e] = req[e]
        BY <2>2, <2>3, <4>3 DEF MineInv, MineAt, Creates
      <4> QED  BY <4>2, <4>3, <4>4
    <3> QED  BY <3>1, <3>2
  <2> QED  BY <1>2, <2>4, <2>6, <2>7, <2>8 DEF MineInv
<1> QED  BY <1>4, <1>5, <1>6 DEF Next

(* MineInv holds initially.                                                *)
LEMMA MineInit == Init => MineInv
BY DEF Init, DaemonInit, LocalInit, MineInv, MineAt, Early

(* A success rests on a container its last inspection matched.             *)
LEMMA StepWitness ==
    ASSUME TypeOK, NEW e \in Effects, Step(e)
    PROVE  \/ witness'[e] = witness[e]
           \/ /\ pc[e] # "idle" /\ pc'[e] = "done" /\ daemon' = daemon
              /\ daemon.container # NoContainer /\ witness'[e] = daemon.container.id
              /\ Matches(daemon.container, req[e])
<1> USE DEF TypeOK, LocalTypeOK
<1>1. CASE execute(e)
  BY <1>1 DEF execute, Goto, Finish
<1>2. CASE ReadFails(e)
  BY <1>2 DEF ReadFails, Finish, Reads
<1>3. CASE InspectNode(e)
  BY <1>3 DEF InspectNode, Goto, Finish, Reads
<1>4. CASE ResolutionRefused(e)
  BY <1>4 DEF ResolutionRefused, Finish, Reads
<1>5. CASE AdmitImage(e)
  BY <1>5 DEF AdmitImage, Goto, Finish, Reads
<1>6. CASE PullImage(e)
  BY <1>6 DEF PullImage, Mutate, Then, Goto, Finish
<1>7. CASE PreflightRefused(e)
  BY <1>7 DEF PreflightRefused, Finish, Reads
<1>8. CASE NodeNetwork(e)
  BY <1>8 DEF NodeNetwork, AfterNetwork, Acted, Goto, Finish, Reads
<1>9. CASE NodeCreateNetwork(e)
  BY <1>9 DEF NodeCreateNetwork, AfterNetwork, Acted, Mutate, Goto, Finish
<1>10. CASE ReplaceRemoves(e)
  BY <1>10 DEF ReplaceRemoves, MutateByName, Mutate, Then, Goto, Finish, Reads
<1>11. CASE PreparationRefused(e)
  BY <1>11 DEF PreparationRefused, Finish
<1>12. CASE CreateContainer(e)
  BY <1>12 DEF CreateContainer, Mutate, Then, Goto, Finish
<1>13. CASE RunContainerConnects(e)
  BY <1>13 DEF RunContainerConnects, Mutate, Then, Goto, Finish
<1>14. CASE RunContainerStarts(e)
  BY <1>14 DEF RunContainerStarts, Mutate, Then, Goto, Finish
<1>15. CASE StartContainer(e)
  BY <1>15 DEF StartContainer, MutateByName, Mutate, Then, Goto, Finish, Reads
<1>16. CASE FinalInspect(e)
  BY <1>16 DEF FinalInspect, Finish, Reads, require_start_node_container,
     require_node_container_correlation, fingerprint_matches, Matches
<1>17. CASE stop_node(e)
  BY <1>17 DEF stop_node, Acted, Goto, Finish, Reads
<1>18. CASE StopContainer(e)
  BY <1>18 DEF StopContainer, MutateByName, Mutate, Succeed, Finish, Reads
<1>19. CASE remove_node(e)
  BY <1>19 DEF remove_node, Acted, Goto, Finish, Reads
<1>20. CASE RemoveContainer(e)
  BY <1>20 DEF RemoveContainer, MutateByName, Mutate, Succeed, Finish, Reads
<1>21. CASE InspectRuntime(e)
  BY <1>21 DEF InspectRuntime, Acted, Goto, Finish, Reads
<1>22. CASE CreateNetwork(e)
  BY <1>22 DEF CreateNetwork, Mutate, Succeed, Finish
<1>23. CASE RemoveNetwork(e)
  BY <1>23 DEF RemoveNetwork, Mutate, Succeed, Finish, Reads
<1> QED
  BY <1>1, <1>2, <1>3, <1>4, <1>5, <1>6, <1>7, <1>8, <1>9, <1>10, <1>11,
     <1>12, <1>13, <1>14, <1>15, <1>16, <1>17, <1>18, <1>19, <1>20, <1>21,
     <1>22, <1>23 DEF Step

(* WitnessInv is inductive.                                                *)
LEMMA WitnessNext ==
    ASSUME TypeOK, MineInv, GoneInv, WitnessInv, [Next]_vars
    PROVE  WitnessInv'
<1>1. /\ daemon.nextId \in Nat /\ daemon'.nextId \in Nat /\ daemon.nextId <= daemon'.nextId
      /\ \/ daemon'.container = NoContainer
         \/ daemon.container # NoContainer /\ SameLabels(daemon.container, daemon'.container)
         \/ daemon'.container.id = daemon.nextId
  BY SlotNext
<1>2. \A f \in Effects : witness[f] \in Nat
  BY DEF TypeOK, LocalTypeOK
<1>3. ASSUME NEW f \in Effects, witness[f] # 0, witness'[f] = witness[f], req'[f] = req[f]
      PROVE  /\ witness'[f] < daemon'.nextId
             /\ Holds(daemon', witness'[f]) => Matches(daemon'.container, req'[f])
  <2>1. witness[f] < daemon.nextId
    BY <1>3 DEF WitnessInv
  <2>2. witness'[f] < daemon'.nextId
    BY <1>1, <1>2, <1>3, <2>1
  <2>3. ASSUME Holds(daemon', witness[f])
        PROVE  Holds(daemon, witness[f]) /\ SameLabels(daemon.container, daemon'.container)
    <3>1. daemon'.container.id # daemon.nextId /\ daemon'.container # NoContainer
      BY <1>1, <1>2, <2>1, <2>3 DEF Holds
    <3> QED  BY <1>1, <2>3, <3>1 DEF Holds, SameLabels
  <2> QED  BY <1>3, <2>2, <2>3 DEF WitnessInv, Matches, SameLabels
<1>4. CASE UNCHANGED local
  <2>1. UNCHANGED <<pc, req, witness>>
    BY <1>4 DEF local
  <2> QED  BY <1>3, <2>1 DEF WitnessInv, WitnessAgreement
<1>5. CASE \E e \in Effects : Step(e)
  <2>1. PICK e \in Effects : Step(e)
    BY <1>5
  <2>2. /\ \A f \in Effects \ {e} : pc'[f] = pc[f] /\ req'[f] = req[f] /\ witness'[f] = witness[f]
        /\ pc[e] # "done" /\ (pc[e] # "idle" => req'[e] = req[e])
    BY <2>1, StepFrame
  <2>3. witness[e] = 0
    BY <2>2 DEF WitnessInv
  <2>4. CASE witness'[e] = witness[e]
    BY <1>3, <2>2, <2>3, <2>4 DEF WitnessInv, WitnessAgreement
  <2>5. CASE witness'[e] # witness[e]
    <3>1. /\ pc[e] # "idle" /\ pc'[e] = "done" /\ daemon' = daemon
          /\ daemon.container # NoContainer /\ witness'[e] = daemon.container.id
          /\ Matches(daemon.container, req[e]) /\ req'[e] = req[e]
      BY <2>1, <2>2, <2>5, StepWitness
    <3>2. witness'[e] < daemon'.nextId
      BY <3>1 DEF GoneInv, FreshIds
    <3>3. \A f \in Effects \ {e} : witness[f] # 0 /\ witness[f] = witness'[e] =>
                Matches(daemon.container, req[f])
      BY <3>1 DEF WitnessInv, Holds
    <3>4. WitnessAgreement'
      <4>1. \A f \in Effects \ {e} : witness[f] # 0 /\ witness[f] = witness'[e] =>
              /\ req[e].rt = req[f].rt /\ req[e].mat = req[f].mat
              /\ req[e].op = "StartNode" /\ req[f].op = "StartNode" =>
                    req[e].plan = req[f].plan /\ req[e].graph = req[f].graph
        BY <3>1, <3>3 DEF Matches
      <4>2. \A f, g \in Effects \ {e} : witness[f] # 0 /\ witness[f] = witness[g] =>
              /\ req[f].rt = req[g].rt /\ req[f].mat = req[g].mat
              /\ req[f].op = "StartNode" /\ req[g].op = "StartNode" =>
                    req[f].plan = req[g].plan /\ req[f].graph = req[g].graph
        BY DEF WitnessInv, WitnessAgreement
      <4> QED  BY <2>2, <3>1, <4>1, <4>2 DEF WitnessAgreement
    <3>5. \A f \in Effects :
            witness'[f] # 0 => /\ pc'[f] = "done" /\ witness'[f] < daemon'.nextId
                               /\ Holds(daemon', witness'[f]) => Matches(daemon'.container, req'[f])
      BY <1>3, <2>2, <3>1, <3>2 DEF WitnessInv
    <3> QED  BY <3>4, <3>5 DEF WitnessInv
  <2> QED  BY <2>4, <2>5
<1> QED  BY <1>4, <1>5 DEF Next, Environment, vars

(* MineInv holds always.                                                   *)
LEMMA MineAlways == Spec => [](TypeOK /\ GoneInv /\ MineInv)
<1>1. Init => Settled /\ GoneInv
  BY DaemonAssumption DEF Init, DaemonInit, LocalInit, Settled, GoneInv, FreshIds, Removing,
     RemovedStaysGone
<1> QED BY <1>1, MineInit, TypeCorrect, SettledNext, GoneNext, MineNext, PTL DEF Spec

(* Of two effects whose successes rest on one container, both asked for    *)
(* its owner and material, and two StartNode effects for one plan and      *)
(* graph: of competing starts at most one wins, for any number of effects. *)
THEOREM WitnessesAgree == Spec => []WitnessAgreement
<1>1. Init => WitnessInv
  BY DEF Init, LocalInit, WitnessInv, WitnessAgreement
<1>2. WitnessInv => WitnessAgreement
  BY DEF WitnessInv
<1> QED BY <1>1, <1>2, MineAlways, WitnessNext, PTL DEF Spec

(* ConformInv is inductive.                                                *)
LEMMA ConformNext ==
    ASSUME DefaultNetworks = {}, TypeOK, MineInv, GoneInv, ConformInv, [Next]_vars
    PROVE  ConformInv'
<1>1. SUFFICES ASSUME NEW f \in Effects, mine'[f] # 0, Holds(daemon', mine'[f])
               PROVE  /\ CreatedFor(daemon'.container, req'[f])
                      /\ pc'[f] \in {"start", "run", "final"} => daemon'.container.nets = {req'[f].rt}
  BY DEF ConformInv
<1>2. daemon.nextId \in Nat /\ daemon \in DaemonState /\ \A g \in Effects : mine[g] \in Nat
  BY DEF TypeOK, DaemonTypeOK, LocalTypeOK, DaemonState
<1>3. \/ Creates(f)
      \/ /\ mine'[f] = mine[f]
         /\ pc'[f] \in {"start", "run", "final"} =>
               pc[f] \in {"start", "run", "final"} \/ Connects(f)
  <2>1. CASE UNCHANGED local
    BY <2>1 DEF local
  <2>2. CASE \E e \in Effects : Step(e)
    <3>1. PICK e \in Effects : Step(e)
      BY <2>2
    <3>2. CASE f = e
      <4>1. MineAt(e) /\ daemon.nextId > 0
        BY DEF MineInv
      <4> QED  BY <1>1, <3>1, <3>2, <4>1, StepMine
    <3>3. CASE f # e
      BY <3>1, <3>3, StepFrame
    <3> QED  BY <3>2, <3>3
  <2> QED  BY <2>1, <2>2 DEF Next, Environment, vars
<1>4. pc[f] # "idle" => req'[f] = req[f]
  BY StepFrame DEF Next, Environment, local, vars
<1>5. CASE Creates(f)
  <2> DEFINE r == req[f]
             nets == IF r.op = "StartNode" THEN {r.rt} ELSE DefaultNetworks
             x == [Created(r, nets) EXCEPT !.id = daemon.nextId]
  <2>1. daemon'.container = x /\ req'[f] = r
    BY <1>2, <1>4, <1>5 DEF Creates, CreateCall, Apply, DaemonState
  <2>2. /\ x.evidence = TRUE /\ x.rt = r.rt /\ x.mat = r.mat /\ x.sel = r.sel
        /\ x.plan = r.plan /\ x.graph = r.graph /\ x.image = r.mat /\ x.nets = nets
    BY DEF Created
  <2> HIDE DEF x
  <2>3. CreatedFor(x, r)
    BY <1>1, <2>2 DEF CreatedFor, fingerprint_matches
  <2>4. pc'[f] \in {"start", "run", "final"} => x.nets = {r.rt}
    BY <1>5, <2>2 DEF Creates
  <2> QED  BY <2>1, <2>3, <2>4
<1>6. CASE /\ mine'[f] = mine[f]
           /\ pc'[f] \in {"start", "run", "final"} =>
                 pc[f] \in {"start", "run", "final"} \/ Connects(f)
  <2>1. mine[f] # 0 /\ mine[f] < daemon.nextId /\ req'[f] = req[f]
    BY <1>1, <1>4, <1>6 DEF MineInv, MineAt, Early
  <2>2. daemon'.container # NoContainer /\ daemon'.container.id = mine[f]
    BY <1>1, <1>6 DEF Holds
  <2>3. daemon'.container.id # daemon.nextId
    BY <1>2, <2>1, <2>2
  <2>4. /\ daemon.container # NoContainer /\ SameLabels(daemon.container, daemon'.container)
        /\ \/ daemon'.container.nets = daemon.container.nets
           \/ \E e \in Effects :
                 /\ mine[e] # 0 /\ mine[e] = daemon.container.id
                 /\ daemon'.container.nets = daemon.container.nets \cup {req[e].rt}
    BY <2>2, <2>3, SlotNext
  <2>5. Holds(daemon, mine[f]) /\ mine[f] = daemon.container.id
    BY <2>2, <2>4 DEF Holds, SameLabels
  <2>6. /\ CreatedFor(daemon.container, req[f])
        /\ pc[f] \in {"start", "run", "final"} => daemon.container.nets = {req[f].rt}
    BY <2>1, <2>5 DEF ConformInv
  <2>7. \/ daemon'.container.nets = daemon.container.nets
        \/ daemon'.container.nets = daemon.container.nets \cup {req[f].rt}
    BY <2>4, <2>5 DEF MineInv
  <2>8. CreatedFor(daemon'.container, req[f])
    BY <2>4, <2>6, <2>7 DEF CreatedFor, SameLabels, fingerprint_matches
  <2>9. pc[f] \in {"start", "run", "final"} => daemon'.container.nets = {req[f].rt}
    BY <2>6, <2>7
  <2>10. Connects(f) => daemon'.container.nets = {req[f].rt}
    <3> SUFFICES ASSUME Connects(f) PROVE daemon'.container.nets = {req[f].rt}
      OBVIOUS
    <3>1. daemon'.container = [daemon.container EXCEPT !.nets = daemon.container.nets \cup {req[f].rt}]
      BY <1>2 DEF Connects, ConnectCall, Apply, DaemonState
    <3>2. daemon.container \in Container
      BY <1>2, <2>4 DEF DaemonState
    <3>3. daemon'.container.nets = daemon.container.nets \cup {req[f].rt}
      BY <3>1, <3>2 DEF Container
    <3> QED  BY <2>6, <3>3 DEF CreatedFor
  <2> QED  BY <1>6, <2>1, <2>8, <2>9, <2>10
<1> QED  BY <1>3, <1>5, <1>6

(* On an Engine that attaches no network of its own, the container an      *)
(* effect creates is one its own final inspection accepts, whatever other  *)
(* effects and late calls do to the slot meanwhile.                        *)
THEOREM CreatedIsAccepted ==
    ASSUME DefaultNetworks = {}
    PROVE  Spec => []CreatedConforms
<1>1. Init => ConformInv
  BY DEF Init, LocalInit, ConformInv
<1>2. TypeOK /\ MineInv /\ GoneInv /\ ConformInv /\ [Next]_vars => ConformInv'
  BY ConformNext
<1>3. ConformInv => CreatedConforms
  BY DEF ConformInv, CreatedFor, CreatedConforms, require_start_node_container,
     require_node_container_correlation, require_node_network
<1> QED BY <1>1, <1>2, <1>3, MineAlways, PTL DEF Spec

-----------------------------------------------------------------------------
(* NodeEffects implements EffectContract, for every set of effects,        *)
(* requests and initial daemon states.                                     *)

(* An effect leaves at most one call behind: the one it ended with.        *)
OneLateEach == \A l, m \in late : l.by = m.by => l = m

(* OneLateEach is inductive.                                               *)
LEMMA OneLateNext ==
    ASSUME TypeOK, Settled, OneLateEach, [Next]_vars
    PROVE  OneLateEach'
<1>1. CASE UNCHANGED vars
  BY <1>1 DEF vars, OneLateEach
<1>2. CASE Environment
  BY <1>2 DEF Environment, WorkloadExits, LateCall, OneLateEach
<1>3. CASE \E e \in Effects : Step(e)
  <2>1. PICK e \in Effects : Step(e)
    BY <1>3
  <2>2. result[e] = "none"
    BY <2>1, StepFrame DEF TypeOK, LocalTypeOK
  <2>3. \A l \in late : l.by # e
    BY <2>2 DEF Settled
  <2>4. CASE late' = late
    BY <2>4 DEF OneLateEach
  <2>5. CASE \E call : late' = late \cup {[by |-> e, call |-> call]}
    BY <2>3, <2>5 DEF OneLateEach
  <2> QED BY <2>1, <2>4, <2>5, StepFrame
<1> QED BY <1>1, <1>2, <1>3 DEF Next

(* A step of an effect is a step of the contract.                          *)
LEMMA StepKeepsContract ==
    ASSUME TypeOK, TypeOK', Settled, NEW e \in Effects, Step(e)
    PROVE  Contract!Next
<1> DEFINE Owed(f) == \E l \in late : l.by = f
<1>1. result[e] = "none" /\ ~Owed(e)
  BY StepFrame DEF TypeOK, LocalTypeOK, Settled
<1>2. \A f \in Effects \ {e} : result'[f] = result[f]
  BY StepFrame
<1>3. result' = [result EXCEPT ![e] = result'[e]] /\ result'[e] \in Results \cup {"none"}
  BY <1>2 DEF TypeOK, LocalTypeOK
<1>4. CASE late' = late
  <2>1. [f \in Effects |-> Owed(f)]' = [f \in Effects |-> Owed(f)]
    BY <1>4
  <2>2. CASE result'[e] = "none"
    <3>1. result' = result
      BY <1>1, <1>3, <2>2 DEF TypeOK, LocalTypeOK
    <3>2. Contract!Act(e)
      BY <1>1, <2>1, <3>1 DEF Contract!Act
    <3> QED BY <3>2 DEF Contract!Next
  <2>3. CASE result'[e] \in {"succeeded", "failed", "unsupported"}
    <3>1. Contract!Settle(e)
      BY <1>1, <1>3, <2>1, <2>3 DEF Contract!Settle
    <3> QED BY <3>1 DEF Contract!Next
  <2>4. CASE result'[e] = "uncertain"
    <3>1. Contract!GiveUp(e)
      BY <1>1, <1>3, <2>1, <2>4 DEF Contract!GiveUp
    <3> QED BY <3>1 DEF Contract!Next
  <2> QED BY <1>3, <2>2, <2>3, <2>4 DEF Results
<1>5. CASE \E call : /\ late' = late \cup {[by |-> e, call |-> call]}
                     /\ result'[e] = "uncertain"
  <2>0. PICK call : late' = late \cup {[by |-> e, call |-> call]}
    BY <1>5
  <2>1. \A f \in Effects : Owed(f)' = IF f = e THEN TRUE ELSE Owed(f)
    <3>1. Owed(e)'
      <4>1. [by |-> e, call |-> call] \in late'
        BY <2>0
      <4> QED BY <4>1
    <3>2. ASSUME NEW f \in Effects, f # e
          PROVE  Owed(f)' = Owed(f)
      BY <2>0, <3>2
    <3> QED BY <3>1, <3>2
  <2>2. [f \in Effects |-> Owed(f)]' = [[f \in Effects |-> Owed(f)] EXCEPT ![e] = TRUE]
    BY <2>1
  <2>3. Contract!GiveUp(e)
    BY <1>1, <1>3, <1>5, <2>2 DEF Contract!GiveUp
  <2> QED BY <2>3 DEF Contract!Next
<1> QED BY <1>4, <1>5, StepFrame

(* A call that lands late is the one call its uncertain effect owes.       *)
LEMMA LateCallKeepsContract ==
    ASSUME TypeOK, Settled, OneLateEach, LateCall, UNCHANGED local
    PROVE  Contract!Next
<1> DEFINE Owed(f) == \E l \in late : l.by = f
<1>1. PICK l \in late : late' = late \ {l}
  BY DEF LateCall
<1>2. l.by \in Effects /\ result[l.by] = "uncertain" /\ Owed(l.by)
  BY <1>1 DEF Settled, TypeOK, DaemonTypeOK
<1>3. \A f \in Effects : Owed(f)' = IF f = l.by THEN FALSE ELSE Owed(f)
  BY <1>1 DEF OneLateEach
<1>4. [f \in Effects |-> Owed(f)]' = [[f \in Effects |-> Owed(f)] EXCEPT ![l.by] = FALSE]
  BY <1>2, <1>3
<1>5. Contract!Land(l.by)
  BY <1>2, <1>4 DEF Contract!Land, local
<1> QED BY <1>2, <1>5 DEF Contract!Next

(* A workload that exits changes nothing the contract speaks of.           *)
LEMMA ExitKeepsContract ==
    ASSUME TypeOK, WorkloadExits, UNCHANGED local
    PROVE  UNCHANGED Contract!vars
<1>1. DurableState' = DurableState
  BY DEF DurableState, WorkloadExits, TypeOK, DaemonTypeOK
<1> QED BY <1>1 DEF WorkloadExits, Contract!vars, local

(* Ordinary node and runtime effects keep the contract: each reports once, *)
(* a settled effect no longer changes the Engine, and an uncertain one     *)
(* leaves at most one call that lands at most once.                        *)
THEOREM ContractKept == Spec => KeepsContract
<1>1. Init => Contract!Init /\ Settled /\ OneLateEach
  BY DEF Init, DaemonInit, LocalInit, Contract!Init, Settled, OneLateEach
<1>2. TypeOK /\ TypeOK' /\ Settled /\ OneLateEach /\ [Next]_vars
        => [Contract!Next]_(Contract!vars)
  <2> SUFFICES ASSUME TypeOK, TypeOK', Settled, OneLateEach, [Next]_vars
               PROVE  [Contract!Next]_(Contract!vars)
    OBVIOUS
  <2>1. CASE UNCHANGED vars
    BY <2>1 DEF vars, local, DurableState, Contract!vars
  <2>2. CASE Environment
    BY <2>2, LateCallKeepsContract, ExitKeepsContract DEF Environment
  <2>3. CASE \E e \in Effects : Step(e)
    BY <2>3, StepKeepsContract
  <2> QED BY <2>1, <2>2, <2>3 DEF Next
<1> QED
  BY <1>1, <1>2, TypeCorrect, SettledNext, OneLateNext, PTL
  DEF Spec, KeepsContract, Contract!Spec

-----------------------------------------------------------------------------
(* ConfigurationNode.                                                      *)

(* Types of the configured specification.                                  *)

EarlyLabels == {"image", "network", "create_network", "stage", "prepare", "recheck", "remove-id"}
InstallLabels == {"start-id", "installed", "verify"}
ConfiguredLabels ==
    EarlyLabels \cup InstallLabels
        \cup {"preflight", "reused-check", "removed-check", "create-id", "done"}

Attempt ==
    [old: Nat, cid: Nat, removed: BOOLEAN, unknown: BOOLEAN,
     receipt: {"none", "created", "reused", "replaced"}]

AllRequests == Requests \cup ConfiguredRequests
AllLabels == Labels \cup ConfiguredLabels

(* An effect that is not a configured one is where NodeEffects puts it and *)
(* has not touched its attempt.                                            *)
Placed(e) ==
    /\ (pc[e] = "idle") = (req[e] = NoRequest)
    /\ IF Configured(e) THEN pc[e] \in ConfiguredLabels
       ELSE pc[e] \in Labels /\ attempt[e] = NewAttempt
    /\ pc[e] = "idle" => seen[e] = NoContainer /\ mine[e] = 0 /\ hit[e] = {} /\ issued[e] = {}

ConfiguredTypeOK ==
    /\ DaemonTypeOK /\ LocalTyped(AllRequests, AllLabels)
    /\ attempt \in [Effects -> Attempt]
    /\ \A e \in Effects : Placed(e)

-----------------------------------------------------------------------------
(* The inductive invariant.                                                *)

(* Ids are never reused: the id in the slot and every id a configured      *)
(* effect remembers are below the next one.                                *)
SlotFresh ==
    /\ daemon.nextId > 0
    /\ daemon.container # NoContainer => 0 < daemon.container.id /\ daemon.container.id < daemon.nextId

Remembers(e) ==
    /\ seen[e] # NoContainer => 0 < seen[e].id /\ seen[e].id < daemon.nextId
    /\ mine[e] < daemon.nextId
    /\ attempt[e].old < daemon.nextId /\ attempt[e].cid < daemon.nextId

(* A container with this id, if there is one, belongs to the request.      *)
OwnedIfHeld(id, r) == Holds(daemon, id) => daemon.container.rt = r.rt

SeenId(e) == IF seen[e] = NoContainer THEN 0 ELSE seen[e].id

OwnHit(e, id) == [id |-> id, owner |-> req[e].rt]

Untaken(e) == mine[e] = 0 /\ hit[e] = {} /\ issued[e] \cap {"create", "start", "remove"} = {}

(* The attempts the invariant speaks of, field by field.                   *)
Fields(a, old, cid, removed) ==
    /\ a.old = old /\ a.cid = cid /\ (a.removed <=> removed) /\ ~a.unknown /\ a.receipt = "none"

(* What an effect that has not created anything knows in each phase.       *)
BeforeInstall(e) ==
    LET a == attempt[e] IN
    /\ pc[e] = "preflight" => Fields(a, 0, 0, FALSE) /\ Untaken(e)
    /\ pc[e] \in EarlyLabels =>
            /\ Fields(a, SeenId(e), 0, FALSE) /\ Untaken(e)
            /\ seen[e] # NoContainer => OwnedIfHeld(a.old, req[e])
    /\ pc[e] \in {"recheck", "remove-id", "reused-check", "removed-check"} => seen[e] # NoContainer
    /\ pc[e] = "reused-check" =>
            /\ Fields(a, SeenId(e), SeenId(e), FALSE) /\ Untaken(e)
            /\ OwnedIfHeld(a.old, req[e])
    /\ pc[e] = "removed-check" =>
            /\ Fields(a, SeenId(e), 0, FALSE) /\ mine[e] = 0
            /\ hit[e] = {OwnHit(e, a.old)} /\ ~Holds(daemon, a.old)
    /\ pc[e] = "create-id" =>
            /\ Fields(a, SeenId(e), 0, seen[e] # NoContainer)
            /\ mine[e] = 0
            /\ seen[e] = NoContainer => Untaken(e)
            /\ seen[e] # NoContainer => hit[e] = {OwnHit(e, a.old)} /\ ~Holds(daemon, a.old)

(* The three ways to an installed container.                               *)
InstallsOld(e) ==
    LET a == attempt[e] IN
    /\ Fields(a, SeenId(e), SeenId(e), FALSE) /\ seen[e] # NoContainer
    /\ mine[e] = 0 /\ issued[e] \cap {"create", "remove"} = {}
    /\ hit[e] \subseteq {OwnHit(e, a.old)}

InstallsNew(e) ==
    /\ Fields(attempt[e], 0, mine[e], FALSE) /\ mine[e] # 0
    /\ "remove" \notin issued[e]
    /\ hit[e] \subseteq {OwnHit(e, mine[e])}

InstallsInstead(e) ==
    LET a == attempt[e] IN
    /\ Fields(a, SeenId(e), mine[e], TRUE)
    /\ seen[e] # NoContainer /\ mine[e] # 0 /\ mine[e] # a.old
    /\ OwnHit(e, a.old) \in hit[e] /\ hit[e] \subseteq {OwnHit(e, a.old), OwnHit(e, mine[e])}
    /\ ~Holds(daemon, a.old)

Installs(e) ==
    pc[e] \in InstallLabels =>
        /\ InstallsOld(e) \/ InstallsNew(e) \/ InstallsInstead(e)
        /\ OwnedIfHeld(attempt[e].cid, req[e])

(* What is left to say of an effect that has ended.                        *)
Ended(e) ==
    LET a == attempt[e] IN
    pc[e] = "done" =>
        /\ \A h \in hit[e] : h.id \in {a.old, mine[e]} /\ h.owner = req[e].rt
        /\ a.receipt = "created" => mine[e] = a.cid /\ "remove" \notin issued[e]
        /\ a.receipt = "replaced" =>
                mine[e] = a.cid /\ ~Holds(daemon, a.old) /\ OwnHit(e, a.old) \in hit[e]
        /\ a.receipt = "reused" =>
                seen[e].id = a.cid /\ issued[e] \cap {"create", "remove"} = {}
        /\ mine[e] # 0 => a.cid = mine[e] \/ a.unknown
        /\ req[e].secret /\ result[e] = "failed" =>
                issued[e] \cap {"create", "start", "remove"} = {}

EffectInv(e) ==
    Configured(e) => Remembers(e) /\ BeforeInstall(e) /\ Installs(e) /\ Ended(e)

(* A creation the client gave up on is flagged by the attempt that made it.*)
LateFlagged ==
    \A l \in late :
        /\ pc[l.by] = "done"
        /\ Configured(l.by) /\ l.call.op = "create" => attempt[l.by].unknown

ConfiguredInv ==
    ConfiguredTypeOK /\ SlotFresh /\ LateFlagged /\ \A e \in Effects : EffectInv(e)

-----------------------------------------------------------------------------
(* Types.                                                                  *)

(* So are the ordinary and configured ones together.                       *)
LEMMA AllWiden == Widens(AllRequests, AllLabels)
BY RequestAssumption, ConfiguredAssumption
DEF Widens, AllRequests, AllLabels, Coordinates, Request, ConfiguredRequest

(* A dispatched effect is an ordinary or a configured one.                 *)
LEMMA RequestKind ==
    ASSUME LocalTyped(AllRequests, AllLabels), NEW e \in Effects
    PROVE  /\ Configured(e) => req[e] \in ConfiguredRequests /\ req[e].op \notin NodeOps \cup RuntimeOps
           /\ ~Configured(e) => req[e] = NoRequest \/ req[e] \in Requests
BY RequestAssumption, ConfiguredAssumption
DEF LocalTyped, AllRequests, Configured, ConfiguredOps, Request, ConfiguredRequest, NodeOps, RuntimeOps

(* What an ordinary step may do with a configured effect.                  *)
LEMMA StepOfConfigured ==
    ASSUME ConfiguredTypeOK, NEW e \in Effects, Step(e), Configured(e)
    PROVE  ReadFails(e) \/ ResolutionRefused(e) \/ AdmitImage(e) \/ PullImage(e)
<1>1. pc[e] \in ConfiguredLabels
  BY DEF ConfiguredTypeOK, Placed
<1>2. req[e].op \notin NodeOps \cup RuntimeOps
  BY RequestKind DEF ConfiguredTypeOK
<1> QED
  BY <1>1, <1>2
  DEF Step, ConfiguredLabels, EarlyLabels, InstallLabels, NodeOps, RuntimeOps, execute, InspectNode,
      PreflightRefused, NodeNetwork, NodeCreateNetwork, ReplaceRemoves, PreparationRefused,
      CreateContainer, RunContainerConnects, RunContainerStarts, StartContainer, FinalInspect,
      stop_node, StopContainer, remove_node, RemoveContainer, InspectRuntime, CreateNetwork,
      RemoveNetwork

(* An ordinary step keeps every effect among the labels of its kind.       *)
LEMMA StepPlaced ==
    ASSUME ConfiguredTypeOK, NEW e \in Effects, Step(e), UNCHANGED attempt
    PROVE  Placed(e)' /\ (Configured(e) <=> Configured(e)')
<1>1. CASE Configured(e)
  <2>1. req'[e] = req[e] /\ pc'[e] \in {"done", "network", "image"}
    BY <1>1, StepOfConfigured
    DEF ConfiguredTypeOK, LocalTyped, ReadFails, ResolutionRefused, AdmitImage, PullImage, Mutate, Then,
        Goto, Finish, Reads
  <2> QED BY <1>1, <2>1 DEF Placed, Configured, ConfiguredTypeOK, ConfiguredLabels, EarlyLabels
<1>2. CASE ~Configured(e)
  <2>1. pc'[e] \in Labels /\ pc'[e] # "idle"
    BY StepFrameTyped DEF ConfiguredTypeOK
  <2>2. req'[e] \in Requests
    BY <1>2, StepFrameTyped, RequestKind DEF ConfiguredTypeOK, Placed
  <2>3. ~Configured(e)' /\ req'[e] # NoRequest
    BY <2>2, RequestAssumption DEF Configured, ConfiguredOps, Request, NodeOps, RuntimeOps
  <2> QED BY <1>2, <2>1, <2>3 DEF Placed, ConfiguredTypeOK
<1> QED BY <1>1, <1>2

-----------------------------------------------------------------------------
(* A step of a configured effect.                                          *)

(* A configured step is of an effect with a configured request.            *)
LEMMA ConfiguredActor ==
    ASSUME ConfiguredTypeOK, NEW e \in Effects, ConfiguredStep(e), pc[e] # "idle"
    PROVE  Configured(e) /\ req[e] \in ConfiguredRequests /\ Coordinates(req[e])
<1>1. Configured(e) \/ pc[e] \notin Labels
  BY DEF ConfiguredStep, executeConfigured, ConfiguredReadFails, ResultCapacityRefused, Preflight,
         ConfiguredPreflightRefused, ConfiguredNetwork, ConfiguredCreateNetwork, StageConfiguration,
         ReusedMatches, Prepare, RecheckOld, RemoveOld, OldIsGone, CreateConfigured, StartById,
         InspectInstalled, VerifyInstalled, Labels
<1>2. Configured(e)
  BY <1>1 DEF ConfiguredTypeOK, Placed
<1> QED BY <1>2, RequestKind, AllWiden DEF ConfiguredTypeOK, Widens, AllRequests

(* It touches only the effect's own part of the state, keeps its request   *)
(* once it is dispatched, and leaves a call behind only by ending.         *)
LEMMA ConfiguredFrame ==
    ASSUME ConfiguredTypeOK, NEW e \in Effects, ConfiguredStep(e)
    PROVE  /\ pc[e] # "done" /\ pc'[e] \in ConfiguredLabels
           /\ IF pc[e] = "idle" THEN req'[e] \in ConfiguredRequests ELSE req'[e] = req[e]
           /\ \A f \in Effects \ {e} :
                /\ pc'[f] = pc[f] /\ req'[f] = req[f] /\ seen'[f] = seen[f]
                /\ result'[f] = result[f] /\ issued'[f] = issued[f]
                /\ hit'[f] = hit[f] /\ mine'[f] = mine[f] /\ attempt'[f] = attempt[f]
           /\ late' # late => pc'[e] = "done"
<1> USE DEF ConfiguredTypeOK, LocalTyped, ConfiguredLabels, EarlyLabels, InstallLabels
<1>1. CASE executeConfigured(e)
  BY <1>1 DEF executeConfigured, Goto
<1>2. CASE ConfiguredReadFails(e)
  BY <1>2 DEF ConfiguredReadFails, Finish, Reads
<1>3. CASE ResultCapacityRefused(e)
  BY <1>3 DEF ResultCapacityRefused, Finish, Reads
<1>4. CASE Preflight(e)
  BY <1>4 DEF Preflight, Note, Goto, Finish, Reads
<1>5. CASE ConfiguredPreflightRefused(e)
  BY <1>5 DEF ConfiguredPreflightRefused, Finish, Reads
<1>6. CASE ConfiguredNetwork(e)
  BY <1>6 DEF ConfiguredNetwork, Goto, Finish, Reads
<1>7. CASE ConfiguredCreateNetwork(e)
  BY <1>7 DEF ConfiguredCreateNetwork, CreateNetworkCall, Mutate, Then, Goto, Finish
<1>8. CASE StageConfiguration(e)
  BY <1>8 DEF StageConfiguration, Conflict, Note, Goto, Finish, Reads
<1>9. CASE ReusedMatches(e)
  BY <1>9 DEF ReusedMatches, Conflict, Acted, Goto, Finish, Reads
<1>10. CASE Prepare(e)
  BY <1>10 DEF Prepare, Conflict, Note, Goto, Finish
<1>11. CASE RecheckOld(e)
  BY <1>11 DEF RecheckOld, Goto, Finish, Reads
<1>12. CASE RemoveOld(e)
  BY <1>12 DEF RemoveOld, MutateById, Mutate, Then, Goto, Finish
<1>13. CASE OldIsGone(e)
  BY <1>13 DEF OldIsGone, Note, Goto, Finish, Reads
<1>14. CASE CreateConfigured(e)
  BY <1>14 DEF CreateConfigured, Note, Mutate, Then, Goto, Finish
<1>15. CASE StartById(e)
  BY <1>15 DEF StartById, MutateById, Mutate, Acted, Goto, Finish
<1>16. CASE InspectInstalled(e)
  BY <1>16 DEF InspectInstalled, Conflict, Goto, Finish, Reads
<1>17. CASE VerifyInstalled(e)
  BY <1>17 DEF VerifyInstalled, Conflict, Note, Finish, Reads
<1> QED
  BY <1>1, <1>2, <1>3, <1>4, <1>5, <1>6, <1>7, <1>8, <1>9,
     <1>10, <1>11, <1>12, <1>13, <1>14, <1>15, <1>16, <1>17 DEF ConfiguredStep


(* It leaves the daemon alone or makes one call.                           *)
LEMMA ConfiguredCalls ==
    ASSUME ConfiguredTypeOK, NEW e \in Effects, ConfiguredStep(e)
    PROVE  \/ UNCHANGED <<daemon, late>>
           \/ \E call \in Call : Called(e, call) /\ OwnCall(call, req[e])
<1>1. CASE ConfiguredCreateNetwork(e)
  <2> DEFINE call == CreateNetworkCall(req[e])
  <2>0. Coordinates(req[e])
    BY <1>1, ConfiguredActor DEF ConfiguredCreateNetwork
  <2>1. call \in Call /\ OwnCall(call, req[e])
    BY <2>0 DEF Coordinates, Call, OwnCall, CreateNetworkCall, Network
  <2>2. Called(e, call)
    BY <1>1 DEF ConfiguredCreateNetwork, Mutate, Called
  <2> QED BY <2>1, <2>2
<1>2. CASE RemoveOld(e)
  <2> DEFINE call == [op |-> "remove", id |-> attempt[e].old]
  <2>1. call \in Call /\ OwnCall(call, req[e])
    BY DEF ConfiguredTypeOK, Attempt, Call, OwnCall
  <2>2. Called(e, call)
    BY <1>2 DEF RemoveOld, MutateById, Mutate, Called
  <2> QED BY <2>1, <2>2
<1>3. CASE StartById(e)
  <2> DEFINE call == [op |-> "start", id |-> attempt[e].cid]
  <2>1. call \in Call /\ OwnCall(call, req[e])
    BY DEF ConfiguredTypeOK, Attempt, Call, OwnCall
  <2>2. Called(e, call)
    BY <1>3 DEF StartById, MutateById, Mutate, Called
  <2> QED BY <2>1, <2>2
<1>4. CASE CreateConfigured(e)
  <2> DEFINE call == [op |-> "create", as |-> Created(req[e], {req[e].rt})]
  <2>0. Coordinates(req[e])
    BY <1>4, ConfiguredActor DEF CreateConfigured, ConfiguredStep
  <2>1. Created(req[e], {req[e].rt}) \in Container
    BY <2>0 DEF Coordinates, Created, Container, Nets
  <2>2. call \in Call /\ OwnCall(call, req[e])
    BY <2>1 DEF Call, OwnCall, Created
  <2>3. Called(e, call)
    BY <1>4 DEF CreateConfigured, Mutate, Called
  <2> QED BY <2>2, <2>3
<1> QED
  BY <1>1, <1>2, <1>3, <1>4
  DEF ConfiguredStep, executeConfigured, ConfiguredReadFails, ResultCapacityRefused, Preflight,
      ConfiguredPreflightRefused, ConfiguredNetwork, StageConfiguration, ReusedMatches, Prepare,
      RecheckOld, OldIsGone, InspectInstalled, VerifyInstalled, Reads

(* A configured step keeps the types of the local variables.               *)
LEMMA ConfiguredLocalType ==
    ASSUME ConfiguredTypeOK, NEW e \in Effects, ConfiguredStep(e)
    PROVE  LocalTyped(AllRequests, AllLabels)'
<1>0. /\ daemon.container # NoContainer =>
            daemon.container \in Container /\ daemon.container.rt \in Runtimes \cup {Foreign}
      /\ daemon.nextId \in Nat /\ attempt[e].old \in Nat /\ attempt[e].cid \in Nat
      /\ NoRequest \notin ConfiguredRequests
  BY ConfiguredAssumption DEF ConfiguredTypeOK, DaemonTypeOK, Container, Attempt
<1> USE <1>0 DEF ConfiguredTypeOK, DaemonTypeOK, LocalTyped, AllLabels, AllRequests, Labels, ConfiguredLabels,
        EarlyLabels, InstallLabels, Results, Actions, CallNames, Holds
<1>1. CASE executeConfigured(e)
  BY <1>1 DEF executeConfigured, Goto
<1>2. CASE ConfiguredReadFails(e)
  BY <1>2 DEF ConfiguredReadFails, Finish, Reads
<1>3. CASE ResultCapacityRefused(e)
  BY <1>3 DEF ResultCapacityRefused, Finish, Reads
<1>4. CASE Preflight(e)
  <2>1. Goto(e, "image") \/ \E kind \in {"failed", "uncertain", "unsupported"} : Finish(e, kind)
    BY <1>4, Zenon DEF Preflight
  <2>2. seen' = [seen EXCEPT ![e] = daemon.container] /\ Reads /\ UNCHANGED <<action, witness>>
    BY <1>4, Zenon DEF Preflight
  <2>3. seen' \in [Effects -> Container \cup {NoContainer}]
    BY <2>2
  <2>4. CASE Goto(e, "image")
    BY <2>2, <2>3, <2>4, <1>4 DEF Goto, Reads, Preflight
  <2>5. ASSUME NEW kind \in {"failed", "uncertain", "unsupported"}, Finish(e, kind)
        PROVE  LocalTyped(AllRequests, AllLabels)'
    BY <2>2, <2>3, <2>5, <1>4 DEF Finish, Reads, Preflight
  <2> QED BY <2>1, <2>4, <2>5
<1>5. CASE ConfiguredPreflightRefused(e)
  BY <1>5 DEF ConfiguredPreflightRefused, Finish, Reads
<1>6. CASE ConfiguredNetwork(e)
  BY <1>6 DEF ConfiguredNetwork, Goto, Finish, Reads
<1>7. CASE ConfiguredCreateNetwork(e)
  BY <1>7 DEF ConfiguredCreateNetwork, CreateNetworkCall, Mutate, Then, Goto, Finish
<1>8. CASE StageConfiguration(e)
  BY <1>8 DEF StageConfiguration, Conflict, Note, Goto, Finish, Reads
<1>9. CASE ReusedMatches(e)
  BY <1>9 DEF ReusedMatches, Conflict, Acted, Goto, Finish, Reads
<1>10. CASE Prepare(e)
  BY <1>10 DEF Prepare, Conflict, Note, Goto, Finish
<1>11. CASE RecheckOld(e)
  BY <1>11 DEF RecheckOld, Goto, Finish, Reads
<1>12. CASE RemoveOld(e)
  BY <1>12 DEF RemoveOld, MutateById, Mutate, Then, Goto, Finish
<1>13. CASE OldIsGone(e)
  BY <1>13 DEF OldIsGone, Note, Goto, Finish, Reads
<1>14. CASE CreateConfigured(e)
  BY <1>14 DEF CreateConfigured, Note, Mutate, Then, Goto, Finish
<1>15. CASE StartById(e)
  BY <1>15 DEF StartById, MutateById, Mutate, Acted, Goto, Finish
<1>16. CASE InspectInstalled(e)
  BY <1>16 DEF InspectInstalled, Conflict, Goto, Finish, Reads
<1>17. CASE VerifyInstalled(e)
  BY <1>17 DEF VerifyInstalled, Conflict, Note, Finish, Reads
<1> QED
  BY <1>1, <1>2, <1>3, <1>4, <1>5, <1>6, <1>7, <1>8, <1>9,
     <1>10, <1>11, <1>12, <1>13, <1>14, <1>15, <1>16, <1>17 DEF ConfiguredStep


(* A configured step keeps the type of its attempt.                        *)
LEMMA ConfiguredAttemptType ==
    ASSUME ConfiguredTypeOK, NEW e \in Effects, ConfiguredStep(e)
    PROVE  attempt' \in [Effects -> Attempt]
<1>0. attempt \in [Effects -> Attempt] /\ daemon.nextId \in Nat
  BY DEF ConfiguredTypeOK, DaemonTypeOK
<1>1. CASE Preflight(e)
  <2>1. daemon.container # NoContainer => daemon.container.id \in Nat
    BY DEF ConfiguredTypeOK, DaemonTypeOK, Container
  <2> QED BY <1>0, <1>1, <2>1 DEF Preflight, Note, Attempt
<1>2. CASE StageConfiguration(e)
  <2>1. seen[e] # NoContainer => seen[e].id \in Nat
    BY DEF ConfiguredTypeOK, LocalTyped, Container
  <2> QED BY <1>0, <1>2, <2>1 DEF StageConfiguration, Note, Attempt
<1>3. CASE Prepare(e)
  BY <1>0, <1>3 DEF Prepare, Note, Attempt
<1>4. CASE OldIsGone(e)
  BY <1>0, <1>4 DEF OldIsGone, Note, Attempt
<1>5. CASE CreateConfigured(e)
  BY <1>0, <1>5 DEF CreateConfigured, Note, Attempt
<1>6. CASE VerifyInstalled(e)
  <2> DEFINE d == incarnation_fields(attempt[e])
  <2>1. d \in {"created", "reused", "replaced", "unknown"}
    BY DEF incarnation_fields
  <2>2. UNCHANGED attempt \/ (d # "unknown" /\ Note(e, [attempt[e] EXCEPT !.receipt = d]))
    BY <1>6 DEF VerifyInstalled
  <2> HIDE DEF d
  <2> QED BY <1>0, <2>1, <2>2 DEF Note, Attempt
<1> QED
  BY <1>0, <1>1, <1>2, <1>3, <1>4, <1>5, <1>6
  DEF ConfiguredStep, executeConfigured, ConfiguredReadFails, ResultCapacityRefused,
      ConfiguredPreflightRefused, ConfiguredNetwork, ConfiguredCreateNetwork, ReusedMatches,
      RecheckOld, RemoveOld, StartById, InspectInstalled

(* So does a configured step.                                              *)
LEMMA ConfiguredPlaced ==
    ASSUME ConfiguredTypeOK, NEW e \in Effects, ConfiguredStep(e)
    PROVE  Placed(e)' /\ Configured(e)'
<1>1. req'[e] \in ConfiguredRequests
  BY ConfiguredFrame, ConfiguredActor
<1>2. Configured(e)' /\ req'[e] # NoRequest
  BY <1>1, ConfiguredAssumption DEF Configured, ConfiguredOps, ConfiguredRequest
<1>3. pc'[e] \in ConfiguredLabels /\ pc'[e] # "idle"
  BY ConfiguredFrame DEF ConfiguredLabels, EarlyLabels, InstallLabels
<1> QED BY <1>2, <1>3 DEF Placed

-----------------------------------------------------------------------------
(* What any step does to the container slot: it empties it, changes the    *)
(* container in it without touching its identity or its owner, or fills an *)
(* empty one under a new id.                                               *)
SlotMoves ==
    \/ /\ daemon'.nextId = daemon.nextId
       /\ \/ daemon'.container = NoContainer
          \/ /\ daemon.container # NoContainer /\ daemon'.container # NoContainer
             /\ daemon'.container.id = daemon.container.id
             /\ daemon'.container.rt = daemon.container.rt
    \/ /\ daemon.container = NoContainer /\ daemon'.container # NoContainer
       /\ daemon'.container.id = daemon.nextId
       /\ daemon'.nextId = daemon.nextId + 1

(* What an accepted call does to the container under the name.             *)
LEMMA AcceptedMoves ==
    ASSUME DaemonTypeOK, NEW call \in Call, Accepts(daemon, call), daemon' = Apply(daemon, call)
    PROVE  SlotMoves
<1>1. daemon \in DaemonState
  BY DEF DaemonTypeOK, DaemonState
<1>2. CASE call.op = "create"
  <2>1. call.as \in Container
    BY <1>2 DEF Call
  <2>2. daemon'.container = [call.as EXCEPT !.id = daemon.nextId]
    BY <1>1, <1>2 DEF Apply, DaemonState
  <2>3. daemon'.container \in Container
    BY <1>1, <2>1, <2>2 DEF Container, DaemonState
  <2>4. daemon'.container # NoContainer
    BY <2>3, DaemonAssumption
  <2>5. daemon'.container.id = daemon.nextId
    BY <1>1, <2>1, <2>2 DEF Container, DaemonState
  <2>6. daemon'.nextId = daemon.nextId + 1
    BY <1>1, <1>2 DEF Apply, DaemonState
  <2>7. daemon.container = NoContainer
    BY <1>2 DEF Accepts
  <2> QED BY <2>4, <2>5, <2>6, <2>7 DEF SlotMoves
<1>3. CASE call.op # "create"
  BY <1>1, <1>3, ApplySlot DEF SlotMoves
<1> QED BY <1>2, <1>3

(* The same for a call however it is answered.                             *)
LEMMA CalledMoves ==
    ASSUME DaemonTypeOK, NEW e \in Effects, NEW call \in Call, Called(e, call)
    PROVE  SlotMoves
<1>1. CASE Accepts(daemon, call) /\ daemon' = Apply(daemon, call)
  BY <1>1, AcceptedMoves
<1>2. CASE UNCHANGED daemon
  BY <1>2 DEF SlotMoves
<1> QED BY <1>1, <1>2 DEF Called

(* The same for late calls and exits of workloads.                         *)
LEMMA EnvironmentMoves ==
    ASSUME DaemonTypeOK, Environment
    PROVE  SlotMoves
<1>1. CASE WorkloadExits
  <2>1. daemon.container \in Container /\ daemon.container # NoContainer
    BY <1>1 DEF WorkloadExits, DaemonTypeOK
  <2>2. daemon'.container = [daemon.container EXCEPT !.running = FALSE]
            /\ daemon'.nextId = daemon.nextId
    BY <1>1 DEF WorkloadExits, DaemonTypeOK
  <2>3. daemon'.container \in Container /\ daemon'.container.id = daemon.container.id
            /\ daemon'.container.rt = daemon.container.rt
    BY <2>1, <2>2 DEF Container
  <2> QED BY <2>1, <2>2, <2>3, DaemonAssumption DEF SlotMoves
<1>2. CASE LateCall
  <2>1. PICK l \in late : daemon' = IF Accepts(daemon, l.call) THEN Apply(daemon, l.call) ELSE daemon
    BY <1>2 DEF LateCall
  <2>2. l.call \in Call
    BY DEF DaemonTypeOK
  <2> QED BY <2>1, <2>2, AcceptedMoves DEF SlotMoves
<1> QED BY <1>1, <1>2 DEF Environment

(* Types and the slot, of every step.                                      *)
LEMMA ConfiguredStepType ==
    ASSUME ConfiguredTypeOK, NEW e \in Effects,
           (Step(e) /\ UNCHANGED attempt) \/ ConfiguredStep(e)
    PROVE  ConfiguredTypeOK' /\ SlotMoves
<1>1. UNCHANGED <<daemon, late>> \/ \E call \in Call : Called(e, call)
  BY StepCalls, AllWiden, ConfiguredCalls DEF ConfiguredTypeOK
<1>2. DaemonTypeOK' /\ SlotMoves
  <2>1. CASE UNCHANGED <<daemon, late>>
    BY <2>1 DEF DaemonTypeOK, SlotMoves, ConfiguredTypeOK
  <2>2. CASE \E call \in Call : Called(e, call)
    BY <2>2, CalledType, CalledMoves DEF ConfiguredTypeOK
  <2> QED BY <1>1, <2>1, <2>2
<1>3. LocalTyped(AllRequests, AllLabels)'
  BY StepLocalType, AllWiden, ConfiguredLocalType DEF ConfiguredTypeOK
<1>4. attempt' \in [Effects -> Attempt]
  BY ConfiguredAttemptType DEF ConfiguredTypeOK
<1>5. Placed(e)'
  BY StepPlaced, ConfiguredPlaced
<1>6. ASSUME NEW f \in Effects \ {e}
      PROVE  Placed(f)'
  <2>1. /\ pc'[f] = pc[f] /\ req'[f] = req[f] /\ attempt'[f] = attempt[f] /\ seen'[f] = seen[f]
        /\ mine'[f] = mine[f] /\ hit'[f] = hit[f] /\ issued'[f] = issued[f]
    BY StepFrameTyped, ConfiguredFrame DEF ConfiguredTypeOK
  <2> QED BY <2>1 DEF ConfiguredTypeOK, Placed, Configured
<1> QED BY <1>2, <1>3, <1>4, <1>5, <1>6 DEF ConfiguredTypeOK

(* ConfiguredTypeOK is inductive.                                          *)
LEMMA ConfiguredNextType ==
    ASSUME ConfiguredTypeOK, [ConfiguredNext]_cvars
    PROVE  ConfiguredTypeOK' /\ SlotMoves
<1>1. CASE UNCHANGED cvars
  BY <1>1 DEF cvars, vars, local, ConfiguredTypeOK, DaemonTypeOK, LocalTyped, Placed, Configured, SlotMoves
<1>2. CASE Environment /\ UNCHANGED attempt
  <2>1. DaemonTypeOK' /\ SlotMoves
    BY <1>2, EnvironmentType, EnvironmentMoves DEF ConfiguredTypeOK
  <2> QED BY <1>2, <2>1 DEF Environment, local, ConfiguredTypeOK, LocalTyped, Placed, Configured
<1>3. CASE \E e \in Effects : (Step(e) /\ UNCHANGED attempt) \/ ConfiguredStep(e)
  BY <1>3, ConfiguredStepType
<1> QED BY <1>1, <1>2, <1>3 DEF ConfiguredNext, Next

-----------------------------------------------------------------------------
(* The invariant is inductive.                                             *)

(* SlotFresh is inductive.                                                 *)
LEMMA SlotFreshNext ==
    ASSUME DaemonTypeOK, SlotFresh, SlotMoves
    PROVE  SlotFresh' /\ daemon.nextId \in Nat /\ daemon'.nextId >= daemon.nextId
<1>1. daemon.nextId \in Nat /\ (daemon.container # NoContainer => daemon.container.id \in Nat)
  BY DEF DaemonTypeOK, Container
<1> QED BY <1>1 DEF SlotFresh, SlotMoves

(* A container that has gone does not come back, and one that is there     *)
(* keeps its owner.                                                        *)
LEMMA HeldBefore ==
    ASSUME DaemonTypeOK, SlotMoves, NEW id \in Nat, id < daemon.nextId, Holds(daemon', id)
    PROVE  Holds(daemon, id) /\ daemon'.container.rt = daemon.container.rt
<1>1. daemon.nextId \in Nat
  BY DEF DaemonTypeOK
<1> QED BY <1>1 DEF SlotMoves, Holds

SameEffect(e) ==
    /\ pc'[e] = pc[e] /\ req'[e] = req[e] /\ seen'[e] = seen[e] /\ result'[e] = result[e]
    /\ issued'[e] = issued[e] /\ hit'[e] = hit[e] /\ mine'[e] = mine[e]
    /\ attempt'[e] = attempt[e]

(* Nothing another effect or the Engine does disturbs what an effect knows.*)
LEMMA OthersKeep ==
    ASSUME ConfiguredTypeOK, SlotFresh, SlotMoves, NEW e \in Effects, EffectInv(e), SameEffect(e)
    PROVE  EffectInv(e)'
<1>1. SUFFICES ASSUME Configured(e)
               PROVE  (Remembers(e) /\ BeforeInstall(e) /\ Installs(e) /\ Ended(e))'
  BY DEF EffectInv, Configured, SameEffect
<1>2. Remembers(e) /\ BeforeInstall(e) /\ Installs(e) /\ Ended(e)
  BY <1>1 DEF EffectInv
<1>3. /\ daemon.nextId \in Nat /\ daemon'.nextId \in Nat /\ daemon'.nextId >= daemon.nextId
      /\ mine[e] \in Nat /\ attempt[e].old \in Nat /\ attempt[e].cid \in Nat
      /\ seen[e] # NoContainer => seen[e].id \in Nat
  BY SlotFreshNext DEF ConfiguredTypeOK, DaemonTypeOK, LocalTyped, Attempt, Container, SlotMoves
<1>4. Remembers(e)'
  BY <1>2, <1>3 DEF Remembers, SameEffect
<1>5. \A id \in {attempt[e].old, attempt[e].cid} :
        Holds(daemon', id) => Holds(daemon, id) /\ daemon'.container.rt = daemon.container.rt
  BY <1>2, <1>3, HeldBefore DEF Remembers, ConfiguredTypeOK
<1>6. \A id \in {attempt[e].old, attempt[e].cid} :
        /\ OwnedIfHeld(id, req[e]) => OwnedIfHeld(id, req[e])'
        /\ ~Holds(daemon, id) => ~Holds(daemon', id)
  BY <1>5 DEF OwnedIfHeld, SameEffect
<1>7. SeenId(e)' = SeenId(e) /\ Untaken(e)' = Untaken(e) /\ \A id : OwnHit(e, id)' = OwnHit(e, id)
  BY DEF SeenId, Untaken, OwnHit, SameEffect
<1>8. BeforeInstall(e)'
  BY <1>2, <1>6, <1>7 DEF BeforeInstall, SameEffect
<1>9. Installs(e)'
  BY <1>2, <1>6, <1>7 DEF Installs, InstallsOld, InstallsNew, InstallsInstead, SameEffect
<1>10. Ended(e)'
  BY <1>2, <1>6, <1>7 DEF Ended, SameEffect
<1> QED BY <1>4, <1>8, <1>9, <1>10

(* Before it ends an effect has acted only on its own containers and has   *)
(* recorded the one it created.                                            *)
LEMMA PhaseAccounted ==
    ASSUME NEW e \in Effects, pc[e] \in ConfiguredLabels \ {"done"}, BeforeInstall(e), Installs(e)
    PROVE  /\ \A h \in hit[e] : h.id \in {attempt[e].old, mine[e]} /\ h.owner = req[e].rt
           /\ attempt[e].receipt = "none"
           /\ mine[e] # 0 => attempt[e].cid = mine[e]
<1> DEFINE a == attempt[e]
<1>1. CASE pc[e] \in InstallLabels
  <2>1. CASE InstallsOld(e)
    <3>1. Fields(a, SeenId(e), SeenId(e), FALSE)
      BY <2>1 DEF InstallsOld
    <3> QED BY <2>1, <3>1 DEF InstallsOld, OwnHit, Fields
  <2>2. CASE InstallsNew(e)
    <3>1. Fields(a, 0, mine[e], FALSE)
      BY <2>2 DEF InstallsNew
    <3> QED BY <2>2, <3>1 DEF InstallsNew, OwnHit, Fields
  <2>3. CASE InstallsInstead(e)
    <3>1. Fields(a, SeenId(e), mine[e], TRUE)
      BY <2>3 DEF InstallsInstead
    <3> QED BY <2>3, <3>1 DEF InstallsInstead, OwnHit, Fields
  <2> QED BY <1>1, <2>1, <2>2, <2>3 DEF Installs
<1>2. CASE pc[e] \in EarlyLabels \cup {"preflight", "reused-check"}
  <2>1. Untaken(e) /\ \E o, c : Fields(a, o, c, FALSE)
    BY <1>2 DEF BeforeInstall
  <2> QED BY <2>1 DEF Untaken, Fields
<1>3. CASE pc[e] \in {"removed-check", "create-id"}
  <2>1. mine[e] = 0 /\ (\E r : Fields(a, SeenId(e), 0, r)) /\ hit[e] \subseteq {OwnHit(e, a.old)}
    BY <1>3 DEF BeforeInstall, Untaken
  <2> QED BY <2>1 DEF OwnHit, Fields
<1> QED BY <1>1, <1>2, <1>3 DEF ConfiguredLabels

(* A step takes the ids it remembers from the slot, from its inspection or *)
(* from the creation it has just made.                                     *)
LEMMA RemembersKept ==
    ASSUME ConfiguredTypeOK, SlotFresh, SlotMoves, NEW e \in Effects, Remembers(e),
           seen'[e] \in {seen[e], daemon.container},
           \/ mine'[e] \in {mine[e], 0}
           \/ mine'[e] = daemon.nextId /\ daemon'.nextId = daemon.nextId + 1,
           \/ attempt'[e].old = attempt[e].old
           \/ daemon.container # NoContainer /\ attempt'[e].old = daemon.container.id,
           \/ attempt'[e].cid = attempt[e].cid
           \/ seen[e] # NoContainer /\ attempt'[e].cid = seen[e].id
           \/ attempt'[e].cid = daemon.nextId /\ daemon'.nextId = daemon.nextId + 1
    PROVE  Remembers(e)'
<1>1. /\ daemon.nextId \in Nat /\ daemon'.nextId \in Nat /\ daemon'.nextId >= daemon.nextId
      /\ mine[e] \in Nat /\ attempt[e].old \in Nat /\ attempt[e].cid \in Nat
      /\ seen[e] # NoContainer => seen[e].id \in Nat
      /\ daemon.container # NoContainer => daemon.container.id \in Nat
  BY SlotFreshNext DEF ConfiguredTypeOK, DaemonTypeOK, LocalTyped, Attempt, Container, SlotMoves
<1> QED BY <1>1 DEF Remembers, SlotFresh

(* An effect that ends without a further action on a container keeps it    *)
(* all; with secrets it may report a failure only before the first one.    *)
LEMMA EndsQuietly ==
    ASSUME ConfiguredTypeOK, NEW e \in Effects, EffectInv(e), Configured(e),
           pc[e] # "done", pc'[e] = "done", Remembers(e)',
           req'[e] = req[e], hit'[e] = hit[e], mine'[e] = mine[e],
           issued'[e] \cap {"create", "start", "remove"} = issued[e] \cap {"create", "start", "remove"},
           hit[e] # {} => attempt'[e].old = attempt[e].old,
           mine[e] # 0 => attempt'[e].cid = attempt[e].cid,
           attempt'[e].receipt = attempt[e].receipt,
           req[e].secret /\ result'[e] = "failed" => Untaken(e)
    PROVE  EffectInv(e)'
<1>1. BeforeInstall(e) /\ Installs(e) /\ pc[e] \in ConfiguredLabels
  BY DEF EffectInv, ConfiguredTypeOK, Placed
<1>2. BeforeInstall(e)' /\ Installs(e)'
  BY DEF BeforeInstall, Installs, EarlyLabels, InstallLabels
<1>3. Ended(e)'
  BY <1>1, PhaseAccounted DEF Ended, Untaken
<1> QED BY <1>2, <1>3 DEF EffectInv

(* An ordinary step of a configured effect reads, pulls the image or ends. *)
LEMMA OrdinaryKeeps ==
    ASSUME ConfiguredTypeOK, SlotFresh, SlotMoves, NEW e \in Effects, EffectInv(e), Configured(e),
           Step(e), UNCHANGED attempt
    PROVE  EffectInv(e)'
<1>1. /\ pc[e] \in {"image", "network"} /\ pc'[e] \in {"image", "network", "done"}
      /\ req'[e] = req[e] /\ seen'[e] = seen[e] /\ hit'[e] = hit[e] /\ mine'[e] = mine[e]
      /\ issued'[e] \subseteq issued[e] \cup {"pull"}
      /\ issued[e] \subseteq issued'[e]
  <2> USE DEF ConfiguredTypeOK, LocalTyped
  <2>1. CASE ReadFails(e)
    BY <2>1 DEF Placed, ConfiguredLabels, EarlyLabels, InstallLabels, ReadFails, Finish, Reads
  <2>2. CASE ResolutionRefused(e)
    BY <2>2 DEF ResolutionRefused, Finish, Reads
  <2>3. CASE AdmitImage(e)
    BY <2>3 DEF AdmitImage, Goto, Finish, Reads
  <2>4. CASE PullImage(e)
    BY <2>4 DEF PullImage, Mutate, Then, Goto, Finish
  <2> QED BY <2>1, <2>2, <2>3, <2>4, StepOfConfigured
<1>2. Remembers(e) /\ BeforeInstall(e)
  BY DEF EffectInv
<1>3. Untaken(e)
  BY <1>1, <1>2 DEF BeforeInstall, EarlyLabels
<1>4. CASE pc'[e] = "done"
  <2>1. Remembers(e)'
    BY <1>1, <1>2, RemembersKept
  <2> QED BY <1>1, <1>3, <1>4, <2>1, EndsQuietly
<1>5. CASE pc'[e] # "done"
  <2>1. /\ Fields(attempt[e], SeenId(e), 0, FALSE)
        /\ seen[e] # NoContainer => OwnedIfHeld(attempt[e].old, req[e])
    BY <1>1, <1>2 DEF BeforeInstall, EarlyLabels
  <2>2. Untaken(e)' /\ SeenId(e)' = SeenId(e)
    BY <1>1, <1>3 DEF Untaken, SeenId
  <2>3. attempt[e].old \in Nat
    BY DEF ConfiguredTypeOK, Attempt
  <2>4. seen[e] # NoContainer => OwnedIfHeld(attempt[e].old, req[e])'
    BY <1>1, <1>2, <2>1, <2>3, HeldBefore DEF OwnedIfHeld, Remembers, ConfiguredTypeOK
  <2>5. Remembers(e)'
    BY <1>1, <1>2, RemembersKept
  <2>6. BeforeInstall(e)'
    BY <1>1, <1>5, <2>1, <2>2, <2>4 DEF BeforeInstall
  <2>7. Installs(e)' /\ Ended(e)'
    BY <1>1, <1>5 DEF Installs, Ended, InstallLabels
  <2> QED BY <2>5, <2>6, <2>7 DEF EffectInv
<1> QED BY <1>4, <1>5

(* Steps that read, or that end the effect, before anything is installed.  *)
LEMMA ReadingKeeps ==
    ASSUME ConfiguredTypeOK, SlotFresh, SlotMoves, NEW e \in Effects, EffectInv(e), Configured(e),
           \/ ConfiguredReadFails(e) \/ ResultCapacityRefused(e) \/ Preflight(e)
           \/ ConfiguredPreflightRefused(e) \/ ConfiguredNetwork(e) \/ ConfiguredCreateNetwork(e)
           \/ StageConfiguration(e) \/ ReusedMatches(e) \/ Prepare(e) \/ RecheckOld(e)
    PROVE  EffectInv(e)'
<1> USE DEF ConfiguredTypeOK, LocalTyped
<1>0. Remembers(e) /\ BeforeInstall(e) /\ Installs(e) /\ attempt[e] \in Attempt
  BY DEF EffectInv
<1>1. CASE ConfiguredReadFails(e)
  <2>1. /\ pc[e] # "done" /\ pc'[e] = "done" /\ req'[e] = req[e] /\ seen'[e] = seen[e]
        /\ hit'[e] = hit[e] /\ mine'[e] = mine[e] /\ issued'[e] = issued[e]
        /\ attempt'[e] = attempt[e] /\ result'[e] = "uncertain"
    BY <1>1 DEF ConfiguredReadFails, Finish, Reads
  <2>2. Remembers(e)'
    BY <1>0, <2>1, RemembersKept
  <2> QED BY <2>1, <2>2, EndsQuietly
<1>2. CASE ResultCapacityRefused(e)
  <2>1. /\ pc[e] = "preflight" /\ pc'[e] = "done" /\ req'[e] = req[e] /\ seen'[e] = daemon.container
        /\ hit'[e] = hit[e] /\ mine'[e] = mine[e] /\ issued'[e] = issued[e] /\ attempt'[e] = attempt[e]
    BY <1>2 DEF ResultCapacityRefused, Finish, Reads
  <2>2. Remembers(e)'
    BY <1>0, <2>1, RemembersKept
  <2> QED BY <1>0, <2>1, <2>2, EndsQuietly DEF BeforeInstall
<1>3. CASE Preflight(e)
  <2> DEFINE c == daemon.container
  <2>1. /\ pc[e] = "preflight" /\ req'[e] = req[e] /\ seen'[e] = c /\ daemon' = daemon
        /\ hit'[e] = hit[e] /\ mine'[e] = mine[e] /\ issued'[e] = issued[e]
    BY <1>3, Zenon DEF Preflight, Reads
  <2>2. Untaken(e) /\ Fields(attempt[e], 0, 0, FALSE)
    BY <1>0, <2>1 DEF BeforeInstall
  <2>3. \/ attempt'[e] = attempt[e]
        \/ c # NoContainer /\ attempt'[e] = [attempt[e] EXCEPT !.old = c.id]
    BY <1>3 DEF Preflight, Note
  <2>4. /\ attempt'[e].cid = attempt[e].cid /\ attempt'[e].receipt = attempt[e].receipt
        /\ attempt'[e].removed = attempt[e].removed /\ attempt'[e].unknown = attempt[e].unknown
        /\ attempt'[e].old = attempt[e].old \/ (c # NoContainer /\ attempt'[e].old = c.id)
    BY <1>0, <2>3 DEF Attempt
  <2>5. Remembers(e)'
    BY <1>0, <2>1, <2>4, RemembersKept
  <2>6. CASE pc'[e] = "done"
    BY <2>1, <2>2, <2>4, <2>5, <2>6, EndsQuietly DEF Untaken
  <2>7. CASE pc'[e] # "done"
    <3>1. \/ c = NoContainer /\ UNCHANGED attempt /\ Goto(e, "image")
          \/ /\ c # NoContainer /\ Note(e, [attempt[e] EXCEPT !.old = c.id])
             /\ Goto(e, "image") /\ ReconcileNodeAdmits(c, req[e])
      <4>1. \A kind : ~Finish(e, kind)
        BY <2>7 DEF Finish
      <4> QED BY <1>3, <4>1, Zenon DEF Preflight
    <3>2. pc'[e] = "image"
      BY <3>1 DEF Goto
    <3>3. Fields(attempt'[e], SeenId(e)', 0, FALSE)
      BY <1>0, <2>1, <2>2, <3>1 DEF Note, Fields, SeenId, Attempt
    <3>4. c # NoContainer => OwnedIfHeld(attempt[e].old, req[e])'
      BY <2>1, <3>1 DEF ReconcileNodeAdmits, require_node_owner, OwnedIfHeld
    <3>5. BeforeInstall(e)'
      BY <2>1, <2>2, <3>2, <3>3, <3>4 DEF BeforeInstall, Untaken
    <3> QED BY <2>5, <3>2, <3>5 DEF EffectInv, Installs, InstallLabels, Ended
  <2> QED BY <2>6, <2>7
<1>4. CASE ConfiguredPreflightRefused(e) \/ ConfiguredNetwork(e) \/ ConfiguredCreateNetwork(e) \/ RecheckOld(e)
  <2>1. /\ pc[e] \in EarlyLabels /\ pc[e] # "done" /\ req'[e] = req[e] /\ seen'[e] = seen[e]
        /\ hit'[e] = hit[e] /\ mine'[e] = mine[e] /\ attempt'[e] = attempt[e]
        /\ issued[e] \subseteq issued'[e] /\ issued'[e] \subseteq issued[e] \cup {"create_network"}
        /\ pc'[e] \in {"create_network", "stage", "done"} \/ (pc[e] = "recheck" /\ pc'[e] = "remove-id")
    BY <1>4
    DEF ConfiguredPreflightRefused, ConfiguredNetwork, ConfiguredCreateNetwork, CreateNetworkCall,
        RecheckOld, Mutate, Then, Goto, Finish, Reads, EarlyLabels
  <2>2. /\ Fields(attempt[e], SeenId(e), 0, FALSE) /\ Untaken(e)
        /\ seen[e] # NoContainer => OwnedIfHeld(attempt[e].old, req[e])
        /\ pc[e] = "recheck" => seen[e] # NoContainer
    BY <1>0, <2>1 DEF BeforeInstall
  <2>3. Remembers(e)'
    BY <1>0, <2>1, RemembersKept
  <2>4. CASE pc'[e] = "done"
    BY <2>1, <2>2, <2>3, <2>4, EndsQuietly
  <2>5. CASE pc'[e] # "done"
    <3>1. attempt[e].old \in Nat
      BY <1>0 DEF Attempt
    <3>2. seen[e] # NoContainer => OwnedIfHeld(attempt[e].old, req[e])'
      BY <1>0, <2>1, <2>2, <3>1, HeldBefore DEF OwnedIfHeld, Remembers
    <3>3. Untaken(e)' /\ SeenId(e)' = SeenId(e)
      BY <2>1, <2>2 DEF Untaken, SeenId
    <3>4. BeforeInstall(e)'
      BY <2>1, <2>2, <2>5, <3>2, <3>3 DEF BeforeInstall
    <3> QED BY <2>1, <2>3, <2>5, <3>4 DEF EffectInv, Installs, InstallLabels, Ended
  <2> QED BY <2>4, <2>5
<1>5. CASE StageConfiguration(e)
  <2>1. /\ pc[e] = "stage" /\ req'[e] = req[e] /\ seen'[e] = seen[e] /\ daemon' = daemon
        /\ hit'[e] = hit[e] /\ mine'[e] = mine[e] /\ issued'[e] = issued[e]
    BY <1>5, Zenon DEF StageConfiguration, Reads
  <2>2. /\ Fields(attempt[e], SeenId(e), 0, FALSE) /\ Untaken(e)
        /\ seen[e] # NoContainer => OwnedIfHeld(attempt[e].old, req[e])
    BY <1>0, <2>1 DEF BeforeInstall, EarlyLabels
  <2>3. \/ UNCHANGED attempt /\ pc'[e] \in {"prepare", "done"}
        \/ /\ seen[e] # NoContainer /\ Note(e, [attempt[e] EXCEPT !.cid = seen[e].id])
           /\ pc'[e] \in {"reused-check", "done"}
    BY <1>5 DEF StageConfiguration, Conflict, Goto, Finish
  <2>4. /\ attempt'[e].old = attempt[e].old /\ attempt'[e].receipt = attempt[e].receipt
        /\ attempt'[e].removed = attempt[e].removed /\ attempt'[e].unknown = attempt[e].unknown
        /\ \/ attempt'[e].cid = attempt[e].cid /\ pc'[e] \in {"prepare", "done"}
           \/ /\ seen[e] # NoContainer /\ attempt'[e].cid = seen[e].id
              /\ pc'[e] \in {"reused-check", "done"}
    BY <1>0, <2>3 DEF Attempt, Note
  <2>5. Remembers(e)'
    BY <1>0, <2>1, <2>4, RemembersKept
  <2>6. CASE pc'[e] = "done"
    BY <2>1, <2>2, <2>4, <2>5, <2>6, EndsQuietly DEF Untaken
  <2>7. CASE pc'[e] # "done"
    <3>1. seen[e] # NoContainer => OwnedIfHeld(attempt[e].old, req[e])'
      BY <2>1, <2>2, <2>4 DEF OwnedIfHeld
    <3>2. Untaken(e)' /\ SeenId(e)' = SeenId(e)
      BY <2>1, <2>2 DEF Untaken, SeenId
    <3>3. \/ pc'[e] = "prepare" /\ Fields(attempt'[e], SeenId(e)', 0, FALSE)
          \/ pc'[e] = "reused-check" /\ seen[e] # NoContainer /\ Fields(attempt'[e], SeenId(e)', SeenId(e)', FALSE)
      BY <2>2, <2>4, <2>7, <3>2 DEF Fields, SeenId
    <3>4. BeforeInstall(e)'
      BY <2>1, <3>1, <3>2, <3>3 DEF BeforeInstall, EarlyLabels
    <3> QED BY <2>4, <2>5, <2>7, <3>4 DEF EffectInv, Installs, InstallLabels, Ended
  <2> QED BY <2>6, <2>7
<1>6. CASE ReusedMatches(e)
  <2>1. /\ pc[e] = "reused-check" /\ req'[e] = req[e] /\ seen'[e] = seen[e] /\ daemon' = daemon
        /\ hit'[e] = hit[e] /\ mine'[e] = mine[e] /\ issued'[e] = issued[e] /\ attempt'[e] = attempt[e]
        /\ pc'[e] \in {"done", "installed", "start-id"}
    BY <1>6 DEF ReusedMatches, Conflict, Goto, Finish, Reads
  <2>2. /\ Fields(attempt[e], SeenId(e), SeenId(e), FALSE) /\ Untaken(e) /\ seen[e] # NoContainer
        /\ OwnedIfHeld(attempt[e].old, req[e])
    BY <1>0, <2>1 DEF BeforeInstall
  <2>3. Remembers(e)'
    BY <1>0, <2>1, RemembersKept
  <2>4. CASE pc'[e] = "done"
    BY <2>1, <2>2, <2>3, <2>4, EndsQuietly
  <2>5. CASE pc'[e] # "done"
    <3>1. InstallsOld(e)'
      BY <2>1, <2>2 DEF InstallsOld, Untaken, SeenId, OwnHit
    <3>2. OwnedIfHeld(attempt[e].cid, req[e])'
      BY <2>1, <2>2 DEF OwnedIfHeld, Fields
    <3>3. Installs(e)'
      BY <2>1, <3>1, <3>2 DEF Installs
    <3> QED BY <2>1, <2>3, <2>5, <3>3 DEF EffectInv, BeforeInstall, EarlyLabels, Ended
  <2> QED BY <2>4, <2>5
<1>7. CASE Prepare(e)
  <2>1. /\ pc[e] = "prepare" /\ req'[e] = req[e] /\ seen'[e] = seen[e] /\ daemon' = daemon
        /\ hit'[e] = hit[e] /\ mine'[e] = mine[e] /\ issued'[e] = issued[e] \cup {"create_volume"}
    BY <1>7, Zenon DEF Prepare
  <2>2. /\ Fields(attempt[e], SeenId(e), 0, FALSE) /\ Untaken(e)
        /\ seen[e] # NoContainer => OwnedIfHeld(attempt[e].old, req[e])
    BY <1>0, <2>1 DEF BeforeInstall, EarlyLabels
  <2>3. \/ attempt'[e] = attempt[e] /\ pc'[e] = (IF seen[e] = NoContainer THEN "create-id" ELSE "recheck")
        \/ (attempt'[e] = attempt[e] \/ \E u \in BOOLEAN : attempt'[e] = [attempt[e] EXCEPT !.unknown = u])
             /\ pc'[e] = "done"
    BY <1>7 DEF Prepare, Conflict, Note, Goto, Finish
  <2>4. /\ attempt'[e].old = attempt[e].old /\ attempt'[e].receipt = attempt[e].receipt
        /\ attempt'[e].cid = attempt[e].cid
    BY <1>0, <2>3 DEF Attempt
  <2>5. Remembers(e)'
    BY <1>0, <2>1, <2>4, RemembersKept
  <2>6. CASE pc'[e] = "done"
    BY <2>1, <2>2, <2>4, <2>5, <2>6, EndsQuietly
  <2>7. CASE pc'[e] # "done"
    <3>1. seen[e] # NoContainer => OwnedIfHeld(attempt[e].old, req[e])'
      BY <2>1, <2>2, <2>4 DEF OwnedIfHeld
    <3>2. Untaken(e)' /\ SeenId(e)' = SeenId(e)
      BY <2>1, <2>2 DEF Untaken, SeenId
    <3>3. BeforeInstall(e)'
      BY <2>1, <2>2, <2>3, <2>7, <3>1, <3>2 DEF BeforeInstall, EarlyLabels, Untaken
    <3> QED BY <2>3, <2>5, <2>7, <3>3 DEF EffectInv, Installs, InstallLabels, Ended
  <2> QED BY <2>6, <2>7
<1> QED BY <1>1, <1>2, <1>3, <1>4, <1>5, <1>6, <1>7

(* Removal of the inspected container by its id.                           *)
LEMMA RemoveOldKeeps ==
    ASSUME ConfiguredTypeOK, SlotFresh, SlotMoves, NEW e \in Effects, EffectInv(e), Configured(e),
           RemoveOld(e)
    PROVE  EffectInv(e)'
<1> USE DEF ConfiguredTypeOK, LocalTyped
<1> DEFINE a == attempt[e]
           call == [op |-> "remove", id |-> a.old]
<1>0. Remembers(e) /\ BeforeInstall(e) /\ a \in Attempt
  BY DEF EffectInv
<1>1. /\ pc[e] = "remove-id" /\ req'[e] = req[e] /\ seen'[e] = seen[e] /\ mine'[e] = mine[e]
      /\ attempt'[e] = a /\ issued'[e] = issued[e] \cup {"remove"}
      /\ hit'[e] = IF Holds(daemon, a.old)
                   THEN hit[e] \cup {[id |-> a.old, owner |-> daemon.container.rt]} ELSE hit[e]
  BY DEF RemoveOld, MutateById, Mutate
<1>2. /\ Fields(a, SeenId(e), 0, FALSE) /\ Untaken(e) /\ seen[e] # NoContainer
      /\ OwnedIfHeld(a.old, req[e])
  BY <1>0, <1>1 DEF BeforeInstall, EarlyLabels
<1>3. Remembers(e)'
  BY <1>0, <1>1, RemembersKept
<1>4. hit'[e] = IF Holds(daemon, a.old) THEN {OwnHit(e, a.old)} ELSE {}
  BY <1>1, <1>2 DEF Untaken, OwnedIfHeld, OwnHit
<1>5. \/ Accepts(daemon, call) /\ daemon' = Apply(daemon, call) /\ pc'[e] = "removed-check"
      \/ pc'[e] = "done" /\ result'[e] = "uncertain"
  BY DEF RemoveOld, MutateById, Mutate, Then, Goto, Finish
<1>6. CASE pc'[e] = "done" /\ result'[e] = "uncertain"
  <2>0. \A h \in hit'[e] : h.id = a.old /\ h.owner = req[e].rt
    BY <1>4 DEF OwnHit
  <2>1. Ended(e)'
    BY <1>1, <1>2, <1>6, <2>0 DEF Ended, Untaken, Fields
  <2> QED BY <1>3, <1>6, <2>1 DEF EffectInv, BeforeInstall, Installs, EarlyLabels, InstallLabels
<1>7. CASE Accepts(daemon, call) /\ daemon' = Apply(daemon, call) /\ pc'[e] = "removed-check"
  <2>1. Holds(daemon, a.old)
    BY <1>7 DEF Accepts
  <2>2. daemon'.container = NoContainer
    BY <1>7 DEF Apply, DaemonTypeOK
  <2>3. ~Holds(daemon, a.old)'
    BY <2>2 DEF Holds
  <2>4. hit'[e] = {OwnHit(e, a.old)}' /\ SeenId(e)' = SeenId(e)
    BY <1>1, <1>4, <2>1 DEF OwnHit, SeenId
  <2>5. BeforeInstall(e)'
    BY <1>1, <1>2, <1>7, <2>3, <2>4 DEF BeforeInstall, EarlyLabels, Untaken
  <2> QED BY <1>3, <1>7, <2>5 DEF EffectInv, Installs, InstallLabels, Ended
<1> QED BY <1>5, <1>6, <1>7

(* After the removal of the old container.                                 *)
LEMMA OldIsGoneKeeps ==
    ASSUME ConfiguredTypeOK, SlotFresh, SlotMoves, NEW e \in Effects, EffectInv(e), Configured(e),
           OldIsGone(e)
    PROVE  EffectInv(e)'
<1> USE DEF ConfiguredTypeOK, LocalTyped
<1> DEFINE a == attempt[e]
<1>0. Remembers(e) /\ BeforeInstall(e) /\ a \in Attempt
  BY DEF EffectInv
<1>1. /\ pc[e] = "removed-check" /\ req'[e] = req[e] /\ seen'[e] = seen[e] /\ mine'[e] = mine[e]
      /\ hit'[e] = hit[e] /\ issued'[e] = issued[e] /\ daemon' = daemon
  BY DEF OldIsGone, Reads
<1>2. /\ Fields(a, SeenId(e), 0, FALSE) /\ mine[e] = 0 /\ seen[e] # NoContainer
      /\ hit[e] = {OwnHit(e, a.old)} /\ ~Holds(daemon, a.old)
  BY <1>0, <1>1 DEF BeforeInstall
<1>3. pc'[e] = "create-id" /\ attempt'[e] = [a EXCEPT !.removed = TRUE]
  BY <1>2 DEF OldIsGone, Goto, Note
<1>4. Fields(attempt'[e], SeenId(e), 0, TRUE)
  BY <1>0, <1>2, <1>3 DEF Fields, Attempt
<1>5. SeenId(e)' = SeenId(e) /\ \A id : OwnHit(e, id)' = OwnHit(e, id)
  BY <1>1 DEF SeenId, OwnHit
<1>6. Remembers(e)'
  BY <1>0, <1>1, <1>2, <1>4, RemembersKept DEF Fields
<1>7. attempt'[e].old = a.old
  BY <1>2, <1>4 DEF Fields
<1>8. Fields(attempt'[e], SeenId(e)', 0, seen'[e] # NoContainer)
  BY <1>1, <1>2, <1>4, <1>5 DEF Fields
<1>9. BeforeInstall(e)'
  BY <1>1, <1>2, <1>3, <1>5, <1>7, <1>8 DEF BeforeInstall, EarlyLabels
<1> QED BY <1>3, <1>6, <1>9 DEF EffectInv, Installs, InstallLabels, Ended

(* Creation, after which the attempt names the container or is flagged.    *)
LEMMA CreateKeeps ==
    ASSUME ConfiguredTypeOK, SlotFresh, SlotMoves, NEW e \in Effects, EffectInv(e), Configured(e),
           CreateConfigured(e)
    PROVE  EffectInv(e)' /\ (late' # late => attempt'[e].unknown)
<1> USE DEF ConfiguredTypeOK, LocalTyped
<1> DEFINE a == attempt[e]
           n == daemon.nextId
           call == [op |-> "create", as |-> Created(req[e], {req[e].rt})]
<1>0. Remembers(e) /\ BeforeInstall(e) /\ a \in Attempt /\ n \in Nat /\ n > 0 /\ SeenId(e) < n
  BY DEF EffectInv, DaemonTypeOK, SlotFresh, Remembers, SeenId
<1>1. /\ pc[e] = "create-id" /\ req'[e] = req[e] /\ seen'[e] = seen[e] /\ hit'[e] = hit[e]
      /\ issued'[e] = issued[e] \cup {"create"}
      /\ mine'[e] = IF daemon' # daemon THEN n ELSE 0
      /\ attempt'[e] = IF pc'[e] = "start-id" THEN [a EXCEPT !.cid = n, !.unknown = FALSE]
                       ELSE [a EXCEPT !.unknown = TRUE]
  BY DEF CreateConfigured, Mutate, Note
<1>2. /\ Fields(a, SeenId(e), 0, seen[e] # NoContainer) /\ mine[e] = 0
      /\ seen[e] = NoContainer => Untaken(e)
      /\ seen[e] # NoContainer => hit[e] = {OwnHit(e, a.old)} /\ ~Holds(daemon, a.old)
  BY <1>0, <1>1 DEF BeforeInstall, EarlyLabels
<1>3. \/ /\ Accepts(daemon, call) /\ daemon' = Apply(daemon, call) /\ UNCHANGED late
         /\ pc'[e] = "start-id" \/ (pc'[e] = "done" /\ result'[e] = "uncertain")
      \/ daemon' = daemon /\ pc'[e] = "done" /\ result'[e] = "uncertain"
  BY DEF CreateConfigured, Mutate, Then, Goto, Finish
<1>4. daemon' # daemon => daemon'.nextId = n + 1
  BY <1>3 DEF Apply, DaemonTypeOK
<1>5. SeenId(e)' = SeenId(e) /\ \A id : OwnHit(e, id)' = OwnHit(e, id)
  BY <1>1 DEF SeenId, OwnHit
<1>6. CASE pc'[e] = "done" /\ result'[e] = "uncertain"
  <2>1. /\ attempt'[e].old = a.old /\ attempt'[e].cid = a.cid /\ attempt'[e].receipt = "none"
        /\ attempt'[e].unknown = TRUE
    BY <1>0, <1>1, <1>2, <1>6 DEF Attempt, Fields
  <2>2. Remembers(e)'
    BY <1>0, <1>1, <1>4, <2>1, RemembersKept
  <2>3. Ended(e)'
    BY <1>1, <1>2, <1>6, <2>1 DEF Ended, Untaken, OwnHit
  <2> QED BY <1>6, <2>1, <2>2, <2>3 DEF EffectInv, BeforeInstall, Installs, EarlyLabels, InstallLabels
<1>7. CASE pc'[e] = "start-id"
  <2>1. Accepts(daemon, call) /\ daemon' = Apply(daemon, call) /\ UNCHANGED late
    BY <1>3, <1>7
  <2>2. daemon'.nextId = n + 1 /\ daemon'.container = [Created(req[e], {req[e].rt}) EXCEPT !.id = n]
    BY <2>1 DEF Apply, DaemonTypeOK
  <2>3. daemon'.container.rt = req[e].rt /\ daemon'.container.id = n
    BY <2>2 DEF Created
  <2>4. mine'[e] = n
    BY <1>0, <1>1, <2>2
  <2>5. Fields(attempt'[e], SeenId(e), n, seen[e] # NoContainer)
    BY <1>0, <1>1, <1>2, <1>7 DEF Fields, Attempt
  <2>6. Remembers(e)'
    BY <1>0, <1>1, <1>2, <2>2, <2>4, <2>5, RemembersKept DEF Fields
  <2>7. OwnedIfHeld(attempt[e].cid, req[e])'
    BY <1>1, <2>3 DEF OwnedIfHeld
  <2>8. CASE seen[e] = NoContainer
    <3>0. Fields(attempt'[e], 0, mine'[e], FALSE)
      BY <2>4, <2>5, <2>8 DEF Fields, SeenId
    <3>2. hit'[e] = {} /\ "remove" \notin issued'[e] /\ mine'[e] # 0
      BY <1>0, <1>1, <1>2, <2>4, <2>8 DEF Untaken
    <3>1. InstallsNew(e)'
      BY <3>0, <3>2 DEF InstallsNew
    <3> QED BY <1>7, <2>1, <2>6, <2>7, <3>1 DEF EffectInv, BeforeInstall, Installs, Ended, EarlyLabels
  <2>9. CASE seen[e] # NoContainer
    <3>1. a.old = SeenId(e) /\ attempt'[e].old = SeenId(e)
      BY <1>2, <2>5 DEF Fields
    <3>2. ~Holds(daemon, attempt[e].old)'
      BY <1>0, <2>3, <3>1 DEF Holds
    <3>3. Fields(attempt'[e], SeenId(e)', mine'[e], TRUE)
      BY <1>5, <2>4, <2>5, <2>9 DEF Fields
    <3>4. mine'[e] # attempt'[e].old /\ mine'[e] # 0
      BY <1>0, <2>4, <3>1 DEF SeenId, Remembers
    <3>6. hit'[e] = {OwnHit(e, attempt[e].old)'}
      BY <1>1, <1>2, <2>9, <3>1 DEF OwnHit
    <3>5. InstallsInstead(e)'
      BY <1>1, <2>9, <3>2, <3>3, <3>4, <3>6 DEF InstallsInstead
    <3> QED BY <1>7, <2>1, <2>6, <2>7, <3>5 DEF EffectInv, BeforeInstall, Installs, Ended, EarlyLabels
  <2> QED BY <2>8, <2>9
<1> QED BY <1>3, <1>6, <1>7

(* Start, by the recorded id, of the container to be installed.            *)
LEMMA StartKeeps ==
    ASSUME ConfiguredTypeOK, SlotFresh, SlotMoves, NEW e \in Effects, EffectInv(e), Configured(e),
           StartById(e)
    PROVE  EffectInv(e)'
<1> USE DEF ConfiguredTypeOK, LocalTyped
<1> DEFINE a == attempt[e]
<1>0. Remembers(e) /\ Installs(e) /\ a \in Attempt
  BY DEF EffectInv
<1>1. /\ pc[e] = "start-id" /\ req'[e] = req[e] /\ seen'[e] = seen[e] /\ mine'[e] = mine[e]
      /\ attempt'[e] = a /\ issued'[e] = issued[e] \cup {"start"}
      /\ hit'[e] = IF Holds(daemon, a.cid)
                   THEN hit[e] \cup {[id |-> a.cid, owner |-> daemon.container.rt]} ELSE hit[e]
      /\ pc'[e] = "installed" \/ (pc'[e] = "done" /\ result'[e] = "uncertain")
  BY DEF StartById, MutateById, Mutate, Goto, Finish
<1>2. /\ InstallsOld(e) \/ InstallsNew(e) \/ InstallsInstead(e)
      /\ OwnedIfHeld(a.cid, req[e])
  BY <1>0, <1>1 DEF Installs, InstallLabels
<1>3. Remembers(e)'
  BY <1>0, <1>1, RemembersKept
<1>4. hit[e] \subseteq hit'[e] /\ hit'[e] \subseteq hit[e] \cup {OwnHit(e, a.cid)}
  BY <1>1, <1>2 DEF OwnedIfHeld, OwnHit
<1>5. a.old \in Nat /\ a.cid \in Nat /\ a.old < daemon.nextId /\ a.cid < daemon.nextId
  BY <1>0 DEF Attempt, Remembers
<1>6. OwnedIfHeld(attempt[e].cid, req[e])'
  BY <1>1, <1>2, <1>5, HeldBefore DEF OwnedIfHeld
<1>7. ~Holds(daemon, a.old) => ~Holds(daemon', a.old)
  BY <1>5, HeldBefore
<1>8. SeenId(e)' = SeenId(e) /\ \A id : OwnHit(e, id)' = OwnHit(e, id)
  BY <1>1 DEF SeenId, OwnHit
<1>9. /\ InstallsOld(e)' \/ InstallsNew(e)' \/ InstallsInstead(e)'
      /\ a.receipt = "none" /\ (mine[e] # 0 => a.cid = mine[e])
      /\ hit'[e] \subseteq {OwnHit(e, a.old), OwnHit(e, mine[e])}
  <2>1. CASE InstallsOld(e)
    <3>1. a.cid = a.old /\ a.receipt = "none" /\ mine[e] = 0 /\ hit'[e] \subseteq {OwnHit(e, a.old)}
      BY <1>4, <2>1 DEF InstallsOld, Fields
    <3>2. InstallsOld(e)'
      BY <1>1, <1>8, <2>1, <3>1 DEF InstallsOld
    <3> QED BY <3>1, <3>2
  <2>2. CASE InstallsNew(e)
    <3>1. a.cid = mine[e] /\ a.receipt = "none" /\ hit'[e] \subseteq {OwnHit(e, mine[e])}
      BY <1>4, <2>2 DEF InstallsNew, Fields
    <3>2. InstallsNew(e)'
      BY <1>1, <1>8, <2>2, <3>1 DEF InstallsNew
    <3> QED BY <3>1, <3>2
  <2>3. CASE InstallsInstead(e)
    <3>1. /\ a.cid = mine[e] /\ a.receipt = "none" /\ OwnHit(e, a.old) \in hit'[e]
          /\ hit'[e] \subseteq {OwnHit(e, a.old), OwnHit(e, mine[e])}
      BY <1>4, <2>3 DEF InstallsInstead, Fields
    <3>2. InstallsInstead(e)'
      BY <1>1, <1>7, <1>8, <2>3, <3>1 DEF InstallsInstead
    <3> QED BY <3>1, <3>2
  <2> QED BY <1>2, <2>1, <2>2, <2>3
<1>10. CASE pc'[e] = "installed"
  BY <1>3, <1>6, <1>9, <1>10 DEF EffectInv, BeforeInstall, EarlyLabels, Installs, Ended
<1>11. CASE pc'[e] = "done" /\ result'[e] = "uncertain"
  <2>1. \A h \in hit'[e] : h.id \in {a.old, mine[e]} /\ h.owner = req[e].rt
    BY <1>9 DEF OwnHit
  <2>2. Ended(e)'
    BY <1>1, <1>9, <1>11, <2>1 DEF Ended
  <2> QED BY <1>3, <1>11, <2>2 DEF EffectInv, BeforeInstall, EarlyLabels, Installs, InstallLabels
<1> QED BY <1>1, <1>10, <1>11

(* The final inspection and the receipt.                                   *)
LEMMA InspectKeeps ==
    ASSUME ConfiguredTypeOK, SlotFresh, SlotMoves, NEW e \in Effects, EffectInv(e), Configured(e),
           InspectInstalled(e)
    PROVE  EffectInv(e)'
<1> USE DEF ConfiguredTypeOK, LocalTyped
<1>0. Remembers(e) /\ Installs(e)
  BY DEF EffectInv
<1>1. /\ pc[e] = "installed" /\ req'[e] = req[e] /\ seen'[e] = seen[e] /\ mine'[e] = mine[e]
      /\ attempt'[e] = attempt[e] /\ issued'[e] = issued[e] /\ hit'[e] = hit[e] /\ daemon' = daemon
  BY Zenon DEF InspectInstalled, Reads
<1>2. Goto(e, "verify") \/ Finish(e, "uncertain") \/ Conflict(e, TRUE)
  BY Zenon DEF InspectInstalled
<1>3. pc'[e] = "verify" \/ (pc'[e] = "done" /\ ~(req[e].secret /\ result'[e] = "failed"))
  BY <1>2 DEF Goto, Finish, Conflict
<1>4. Remembers(e)'
  BY <1>0, <1>1, RemembersKept
<1>5. CASE pc'[e] = "verify"
  <2>1. Installs(e)'
    BY <1>0, <1>1, <1>5
    DEF Installs, InstallLabels, InstallsOld, InstallsNew, InstallsInstead, OwnHit, SeenId, OwnedIfHeld
  <2> QED BY <1>4, <1>5, <2>1 DEF EffectInv, BeforeInstall, EarlyLabels, Ended
<1>6. CASE pc'[e] = "done" /\ ~(req[e].secret /\ result'[e] = "failed")
  BY <1>1, <1>4, <1>6, EndsQuietly
<1> QED BY <1>3, <1>5, <1>6

(* The last verification.                                                  *)
LEMMA VerifyKeeps ==
    ASSUME ConfiguredTypeOK, SlotFresh, SlotMoves, NEW e \in Effects, EffectInv(e), Configured(e),
           VerifyInstalled(e)
    PROVE  EffectInv(e)'
<1> USE DEF ConfiguredTypeOK, LocalTyped
<1> DEFINE a == attempt[e]
           d == incarnation_fields(a)
<1>0. Remembers(e) /\ Installs(e) /\ BeforeInstall(e) /\ a \in Attempt
  BY DEF EffectInv
<1>1. /\ pc[e] = "verify" /\ req'[e] = req[e] /\ seen'[e] = seen[e] /\ mine'[e] = mine[e]
      /\ issued'[e] = issued[e] /\ hit'[e] = hit[e] /\ daemon' = daemon
  BY Zenon DEF VerifyInstalled, Reads
<1>2. /\ pc'[e] = "done"
      /\ \/ UNCHANGED attempt /\ ~(req[e].secret /\ result'[e] = "failed")
         \/ attempt'[e] = [a EXCEPT !.receipt = d] /\ result'[e] = "succeeded"
  BY DEF VerifyInstalled, Conflict, Finish, Note
<1>3. CASE UNCHANGED attempt /\ ~(req[e].secret /\ result'[e] = "failed")
  <2>1. Remembers(e)'
    BY <1>0, <1>1, <1>3, RemembersKept
  <2> QED BY <1>1, <1>2, <1>3, <2>1, EndsQuietly
<1>4. CASE attempt'[e] = [a EXCEPT !.receipt = d] /\ result'[e] = "succeeded"
  <2>1. /\ attempt'[e].old = a.old /\ attempt'[e].cid = a.cid /\ attempt'[e].receipt = d
        /\ attempt'[e].unknown = a.unknown
    BY <1>0, <1>4 DEF Attempt
  <2>2. Remembers(e)'
    BY <1>0, <1>1, <2>1, RemembersKept
  <2>3. pc[e] \in ConfiguredLabels \ {"done"}
    BY <1>1 DEF ConfiguredLabels, InstallLabels
  <2>4. /\ \A h \in hit[e] : h.id \in {a.old, mine[e]} /\ h.owner = req[e].rt
        /\ mine[e] # 0 => a.cid = mine[e]
    BY <1>0, <2>3, PhaseAccounted
  <2>5. /\ d = "created" => mine[e] = a.cid /\ "remove" \notin issued[e]
        /\ d = "replaced" => mine[e] = a.cid /\ ~Holds(daemon, a.old) /\ OwnHit(e, a.old) \in hit[e]
        /\ d = "reused" => seen[e].id = a.cid /\ issued[e] \cap {"create", "remove"} = {}
    <3>1. CASE InstallsOld(e)
      <4>1. a.old = a.cid /\ a.cid = SeenId(e) /\ ~a.removed /\ a.old # 0
        BY <1>0, <3>1 DEF InstallsOld, Fields, Remembers, SeenId
      <4>2. d \in {"unknown", "reused"}
        BY <4>1 DEF incarnation_fields
      <4> QED BY <3>1, <4>1, <4>2 DEF InstallsOld, SeenId
    <3>2. CASE InstallsNew(e)
      <4>1. a.old = 0 /\ a.cid = mine[e] /\ ~a.removed
        BY <3>2 DEF InstallsNew, Fields
      <4>2. d \in {"unknown", "created"}
        BY <4>1 DEF incarnation_fields
      <4> QED BY <3>2, <4>1, <4>2 DEF InstallsNew
    <3>3. CASE InstallsInstead(e)
      <4>1. a.cid = mine[e] /\ a.removed
        BY <3>3 DEF InstallsInstead, Fields
      <4>2. d \in {"unknown", "replaced"}
        BY <4>1 DEF incarnation_fields
      <4> QED BY <3>3, <4>1, <4>2 DEF InstallsInstead
    <3> QED BY <1>0, <1>1, <3>1, <3>2, <3>3 DEF Installs, InstallLabels
  <2> HIDE DEF d
  <2>6. Ended(e)'
    BY <1>1, <1>4, <2>1, <2>4, <2>5 DEF Ended, OwnHit
  <2> QED BY <1>2, <2>2, <2>6 DEF EffectInv, BeforeInstall, EarlyLabels, Installs, InstallLabels
<1> QED BY <1>2, <1>3, <1>4

(* A configured step keeps the invariant of its effect.                    *)
LEMMA ConfiguredKeeps ==
    ASSUME ConfiguredTypeOK, SlotFresh, SlotMoves, NEW e \in Effects, EffectInv(e), ConfiguredStep(e)
    PROVE  EffectInv(e)'
<1>1. CASE pc[e] = "idle"
  <2>1. executeConfigured(e)
    BY <1>1 DEF ConfiguredStep, executeConfigured, ConfiguredReadFails, ResultCapacityRefused, Preflight,
         ConfiguredPreflightRefused, ConfiguredNetwork, ConfiguredCreateNetwork, StageConfiguration,
         ReusedMatches, Prepare, RecheckOld, RemoveOld, OldIsGone, CreateConfigured, StartById,
         InspectInstalled, VerifyInstalled
  <2>2. /\ seen[e] = NoContainer /\ mine[e] = 0 /\ hit[e] = {} /\ issued[e] = {}
        /\ attempt[e] = NewAttempt
    BY <1>1 DEF ConfiguredTypeOK, Placed, Configured
  <2>3. /\ pc'[e] = "preflight" /\ seen'[e] = seen[e] /\ mine'[e] = 0 /\ hit'[e] = {}
        /\ issued'[e] = {} /\ attempt'[e] = NewAttempt /\ daemon' = daemon
    BY <2>1, <2>2 DEF executeConfigured, Goto, ConfiguredTypeOK, LocalTyped
  <2>4. Remembers(e)'
    BY <2>2, <2>3 DEF Remembers, SlotFresh, NewAttempt
  <2>5. BeforeInstall(e)'
    BY <2>3 DEF BeforeInstall, Fields, NewAttempt, Untaken, EarlyLabels
  <2> QED BY <2>3, <2>4, <2>5 DEF EffectInv, Installs, InstallLabels, Ended
<1>2. CASE pc[e] # "idle"
  <2>1. Configured(e) /\ ~executeConfigured(e)
    BY <1>2, ConfiguredActor DEF executeConfigured
  <2> QED
    BY <2>1, ReadingKeeps, RemoveOldKeeps, OldIsGoneKeeps, CreateKeeps, StartKeeps, InspectKeeps,
       VerifyKeeps DEF ConfiguredStep
<1> QED BY <1>1, <1>2

(* The only creation a configured effect leaves under way is the one its   *)
(* attempt was flagged for.                                                *)
LEMMA LateFlaggedStep ==
    ASSUME ConfiguredTypeOK, ConfiguredTypeOK', SlotFresh, SlotMoves, LateFlagged, NEW e \in Effects, EffectInv(e),
           (Step(e) /\ UNCHANGED attempt) \/ ConfiguredStep(e)
    PROVE  LateFlagged'
<1>1. pc[e] # "done" /\ (late' # late => pc'[e] = "done")
  BY StepFrameTyped, ConfiguredFrame DEF ConfiguredTypeOK, LocalTyped
<1>2. \A l \in late : l.by \in Effects \ {e}
  BY <1>1 DEF LateFlagged, ConfiguredTypeOK, DaemonTypeOK
<1>3. \A f \in Effects \ {e} : pc'[f] = pc[f] /\ req'[f] = req[f] /\ attempt'[f] = attempt[f]
  BY StepFrameTyped, ConfiguredFrame DEF ConfiguredTypeOK
<1>4. \A l \in late : pc'[l.by] = "done" /\ (Configured(l.by)' /\ l.call.op = "create" => attempt'[l.by].unknown)
  BY <1>2, <1>3 DEF LateFlagged, Configured
<1>5. \/ late' = late
      \/ \E call : /\ late' = late \cup {[by |-> e, call |-> call]}
                   /\ Configured(e)' /\ call.op = "create" => attempt'[e].unknown
  <2>1. CASE Step(e) /\ UNCHANGED attempt /\ ~Configured(e)
    <3>1. ~Configured(e)'
      BY <2>1, StepPlaced
    <3> QED BY <2>1, <3>1, StepFrameTyped DEF ConfiguredTypeOK
  <2>2. CASE Step(e) /\ UNCHANGED attempt /\ Configured(e)
    <3>1. CASE PullImage(e)
      BY <3>1 DEF PullImage, Mutate
    <3>2. CASE ~PullImage(e)
      BY <2>2, <3>2, StepOfConfigured DEF ReadFails, ResolutionRefused, AdmitImage, Reads
    <3> QED BY <3>1, <3>2
  <2>3. CASE ConfiguredStep(e)
    <3>1. CASE CreateConfigured(e)
      <4>1. Configured(e)
        BY <2>3, <3>1, ConfiguredActor DEF CreateConfigured
      <4>2. late' # late => attempt'[e].unknown
        BY <3>1, <4>1, CreateKeeps
      <4> QED BY <3>1, <4>2 DEF CreateConfigured, Mutate
    <3>2. CASE ConfiguredCreateNetwork(e)
      BY <3>2 DEF ConfiguredCreateNetwork, CreateNetworkCall, Mutate
    <3>3. CASE RemoveOld(e)
      BY <3>3 DEF RemoveOld, MutateById, Mutate
    <3>4. CASE StartById(e)
      BY <3>4 DEF StartById, MutateById, Mutate
    <3> QED
      BY <2>3, <3>1, <3>2, <3>3, <3>4
      DEF ConfiguredStep, executeConfigured, ConfiguredReadFails, ResultCapacityRefused, Preflight,
          ConfiguredPreflightRefused, ConfiguredNetwork, StageConfiguration, ReusedMatches, Prepare,
          RecheckOld, OldIsGone, InspectInstalled, VerifyInstalled, Reads
  <2> QED BY <2>1, <2>2, <2>3
<1> QED BY <1>1, <1>4, <1>5 DEF LateFlagged

(* ConfiguredInv is inductive.                                             *)
LEMMA ConfiguredInvNext ==
    ASSUME ConfiguredInv, [ConfiguredNext]_cvars
    PROVE  ConfiguredInv'
<1>1. ConfiguredTypeOK' /\ SlotMoves /\ SlotFresh'
  BY ConfiguredNextType, SlotFreshNext DEF ConfiguredInv, ConfiguredTypeOK
<1>2. CASE UNCHANGED cvars \/ (Environment /\ UNCHANGED attempt)
  <2>1. LateFlagged'
    BY <1>2 DEF cvars, vars, Environment, local, WorkloadExits, LateCall, ConfiguredInv, LateFlagged, Configured
  <2>2. \A e \in Effects : SameEffect(e)
    BY <1>2 DEF cvars, vars, Environment, local, SameEffect
  <2> QED BY <1>1, <2>1, <2>2, OthersKeep DEF ConfiguredInv
<1>3. CASE \E e \in Effects : (Step(e) /\ UNCHANGED attempt) \/ ConfiguredStep(e)
  <2>1. PICK e \in Effects : (Step(e) /\ UNCHANGED attempt) \/ ConfiguredStep(e)
    BY <1>3
  <2>2. LateFlagged'
    BY <1>1, <2>1, LateFlaggedStep DEF ConfiguredInv
  <2>3. EffectInv(e)'
    <3>1. CASE ConfiguredStep(e)
      BY <1>1, <3>1, ConfiguredKeeps DEF ConfiguredInv
    <3>2. CASE Step(e) /\ UNCHANGED attempt /\ Configured(e)
      BY <1>1, <3>2, OrdinaryKeeps DEF ConfiguredInv
    <3>3. CASE Step(e) /\ UNCHANGED attempt /\ ~Configured(e)
      BY <3>3, StepPlaced DEF ConfiguredInv, EffectInv
    <3> QED BY <2>1, <3>1, <3>2, <3>3
  <2>4. \A f \in Effects \ {e} : SameEffect(f)
    BY <2>1, StepFrameTyped, ConfiguredFrame DEF ConfiguredInv, ConfiguredTypeOK, SameEffect
  <2> QED BY <1>1, <2>2, <2>3, <2>4, OthersKeep DEF ConfiguredInv
<1> QED BY <1>2, <1>3 DEF ConfiguredNext, Next

(* ConfiguredInv holds initially.                                          *)
LEMMA ConfiguredInvInit == ConfiguredInit => ConfiguredInv
<1> SUFFICES ASSUME ConfiguredInit PROVE ConfiguredInv
  OBVIOUS
<1>1. TypeOK
  BY InitType DEF ConfiguredInit
<1>2. LocalTyped(AllRequests, AllLabels) /\ DaemonTypeOK
  BY <1>1 DEF TypeOK, LocalTypeOK, LocalTyped, AllRequests, AllLabels
<1>3. attempt \in [Effects -> Attempt] /\ \A e \in Effects : Placed(e) /\ ~Configured(e)
  BY DEF ConfiguredInit, Init, LocalInit, Placed, Configured, NewAttempt, Attempt, Labels
<1>4. SlotFresh
  BY DaemonAssumption DEF ConfiguredInit, Init, DaemonInit, SlotFresh
<1>5. LateFlagged
  BY DEF ConfiguredInit, Init, DaemonInit, LateFlagged
<1> QED BY <1>2, <1>3, <1>4, <1>5 DEF ConfiguredInv, ConfiguredTypeOK, EffectInv

(* ConfiguredInv holds always.                                             *)
LEMMA ConfiguredAlways == ConfiguredSpec => []ConfiguredInv
BY ConfiguredInvInit, ConfiguredInvNext, PTL DEF ConfiguredSpec

-----------------------------------------------------------------------------
(* What the invariant says of a configured effect in any phase.            *)
LEMMA EffectAccounted ==
    ASSUME ConfiguredInv, NEW e \in Effects, Configured(e)
    PROVE  /\ \A h \in hit[e] : h.id \in {attempt[e].old, mine[e]} /\ h.owner = req[e].rt
           /\ mine[e] # 0 => attempt[e].cid = mine[e] \/ attempt[e].unknown
           /\ pc[e] # "done" => attempt[e].receipt = "none"
<1>1. BeforeInstall(e) /\ Installs(e) /\ Ended(e) /\ pc[e] \in ConfiguredLabels
  BY DEF ConfiguredInv, EffectInv, ConfiguredTypeOK, Placed
<1>2. CASE pc[e] = "done"
  BY <1>1, <1>2 DEF Ended
<1>3. CASE pc[e] # "done"
  BY <1>1, <1>3, PhaseAccounted
<1> QED BY <1>2, <1>3

(* A configured effect acts only on the container it inspected or on the   *)
(* one it created, and only on containers of its own runtime, whatever     *)
(* happens to the node name between its calls.                             *)
THEOREM ConfiguredActsOnExactContainer == ConfiguredSpec => []ActsOnExactContainer
<1>1. ConfiguredInv => ActsOnExactContainer
  BY EffectAccounted DEF ActsOnExactContainer
<1> QED BY <1>1, ConfiguredAlways, PTL

(* CREATED, REPLACED and REUSED receipts tell the truth about the          *)
(* container they name, and a replaced container is gone for good.         *)
THEOREM ReceiptsAreHonest == ConfiguredSpec => []ReceiptHonest
<1>1. ASSUME ConfiguredInv, NEW e \in Effects
      PROVE  LET a == attempt[e] IN
             /\ a.receipt = "created" => mine[e] = a.cid /\ "remove" \notin issued[e]
             /\ a.receipt = "replaced" =>
                     /\ mine[e] = a.cid /\ ~Holds(daemon, a.old)
                     /\ [id |-> a.old, owner |-> req[e].rt] \in hit[e]
             /\ a.receipt = "reused" =>
                     seen[e].id = a.cid /\ issued[e] \cap {"create", "remove"} = {}
  <2>1. CASE Configured(e) /\ pc[e] = "done"
    BY <1>1, <2>1 DEF ConfiguredInv, EffectInv, Ended, OwnHit
  <2>2. CASE ~(Configured(e) /\ pc[e] = "done")
    <3>1. attempt[e].receipt = "none"
      BY <1>1, <2>2, EffectAccounted DEF ConfiguredInv, ConfiguredTypeOK, Placed, NewAttempt
    <3> QED BY <3>1
  <2> QED BY <2>1, <2>2
<1>2. ConfiguredInv => ReceiptHonest
  BY <1>1 DEF ReceiptHonest
<1> QED BY <1>2, ConfiguredAlways, PTL

(* A container that exists or may still come to exist because of a         *)
(* configured effect is the one its attempt records, or is flagged.        *)
THEOREM CreationsAreAccounted == ConfiguredSpec => []CreationAccounted
<1>1. ConfiguredInv => CreationAccounted
  BY EffectAccounted DEF CreationAccounted, ConfiguredInv, LateFlagged
<1> QED BY <1>1, ConfiguredAlways, PTL

(* With selected secrets a completed failure created, started and removed  *)
(* no container.                                                           *)
THEOREM SecretFailuresAreClean == ConfiguredSpec => []SecretFailureIsClean
<1>1. ASSUME ConfiguredInv, NEW e \in Effects, Configured(e), req[e].secret, result[e] = "failed"
      PROVE  issued[e] \cap {"create", "start", "remove"} = {}
  <2>1. pc[e] = "done"
    BY <1>1 DEF ConfiguredInv, ConfiguredTypeOK, LocalTyped
  <2> QED BY <1>1, <2>1 DEF ConfiguredInv, EffectInv, Ended
<1>2. ConfiguredInv => SecretFailureIsClean
  BY <1>1 DEF SecretFailureIsClean
<1> QED BY <1>2, ConfiguredAlways, PTL

=============================================================================
