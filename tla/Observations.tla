---------------------------- MODULE Observations ----------------------------
(***************************************************************************)
(* The read-only observers of the Docker Engine: the postcondition         *)
(* observer (docker/observer.py), the recovery metadata of one StartNode   *)
(* (docker/recovery_metadata.py) and the connector connection observer     *)
(* (docker/connector_connection.py).                                       *)
(*                                                                         *)
(* Each is a sequence of separate Engine reads; between two of them the    *)
(* node's container, its network, its configuration volume, the image its  *)
(* reference names and the health sample may change.  What an observer     *)
(* reports is one statement about all of them.                             *)
(***************************************************************************)
EXTENDS Naturals, FiniteSets

CONSTANTS
    None,         \* a resource that does not exist
    InitialWorlds,
    MaxChanges,   \* bound: changes of the Engine during one observation
    MaxClock,     \* bound: the clock
    MaxAge        \* how old a health sample may be (10 s in the code)

VARIABLES
    world,    \* the Engine: container, network, volume and image of the node
    clock,
    changes,  \* number of changes so far
    task,     \* what is observed
    pc,
    sweep,    \* recovery metadata: the first or the second sweep
    rows,     \* recovery metadata: the rows of the current sweep
    first,    \* what the first of two reads returned: rows, or a container
    seen,     \* what the observer has read: network and container
    result,
    past      \* history: the states of the Engine while it was being read

reader == <<task, pc, sweep, rows, first, seen, result>>
vars == <<world, clock, changes, reader, past>>

Owners == {"owned", "prior", "other"}  \* labels: the request's, of an earlier plan, others
Container == [id: Nat, own: Owners, net: Nat, mounts: BOOLEAN, image: Nat, running: BOOLEAN,
              started: Nat, sample: [end: Nat, ok: BOOLEAN]]
Network == [id: Nat, own: Owners]
Volume == [id: Nat, stamp: Nat]  \* stamp is CreatedAt; the id is history, volumes have none
World == [container: Container \cup {None}, network: Network \cup {None},
          volume: Volume \cup {None}, image: Nat, stamp: Nat]

(* The facts of a container that a row of recovery metadata carries.       *)
Facts == [net: Nat, mounts: BOOLEAN, image: Nat, running: BOOLEAN]

(* Nothing in the Engine is from the future, and the network a running     *)
(* container is on exists.                                                 *)
Dated(w, time) ==
    /\ w.container # None =>
          w.container.id <= time /\ w.container.started <= time /\ w.container.sample.end <= time
    /\ w.network # None => w.network.id <= time
    /\ w.volume # None => w.volume.id <= time

Attached(w) ==
    w.container # None /\ w.container.running =>
        w.network # None /\ w.container.net = w.network.id

ASSUME ObservationAssumption ==
    /\ MaxChanges \in Nat /\ MaxClock \in Nat /\ MaxAge \in Nat
    /\ InitialWorlds \subseteq World
    /\ \A w \in InitialWorlds : Dated(w, 1) /\ Attached(w)
    /\ None \notin Container \cup Network \cup Volume \cup Facts

RuntimeReads == {"StartRuntime", "ReconcileRuntime", "RemoveRuntimeResource"}
NodeReads == {"StartNode", "ReconcileNode", "StopNode", "RemoveNodeResource"}
Connectors == {"connector-fresh", "connector-retained"}

Reading == pc \notin {"idle", "decode", "done"}

-----------------------------------------------------------------------------
(* The Engine, changed by anyone.  Every change happens at its own time;   *)
(* ids are times and are never used twice.                                 *)

Now == clock + 1

Change(w) ==
    /\ changes < MaxChanges
    /\ changes' = changes + 1
    /\ clock' = Now
    /\ world' = w
    /\ past' = IF Reading THEN past \cup {w} ELSE past
    /\ UNCHANGED reader

NewContainer(own, mounts) ==
    [id |-> Now, own |-> own, net |-> IF world.network = None THEN 0 ELSE world.network.id,
     mounts |-> mounts, image |-> world.image, running |-> FALSE, started |-> 0,
     sample |-> [end |-> 0, ok |-> FALSE]]

ContainerChanges ==
    LET c == world.container IN
    \/ /\ c = None
       /\ \E own \in Owners, mounts \in BOOLEAN :
            /\ mounts => world.volume # None
            /\ Change([world EXCEPT !.container = NewContainer(own, mounts)])
    \/ c # None /\ Change([world EXCEPT !.container = None])
    \/ /\ c # None /\ ~c.running
       /\ world.network # None /\ world.network.id = c.net
       /\ Change([world EXCEPT !.container.running = TRUE, !.container.started = Now])
    \/ c # None /\ c.running /\ Change([world EXCEPT !.container.running = FALSE])

(* A network a running container is on cannot be removed.                  *)
NetworkChanges ==
    LET n == world.network  c == world.container IN
    \/ /\ n = None
       /\ \E own \in Owners : Change([world EXCEPT !.network = [id |-> Now, own |-> own]])
    \/ /\ n # None
       /\ ~(c # None /\ c.running /\ c.net = n.id)
       /\ Change([world EXCEPT !.network = None])

(* Nor can a volume that is mounted.  Two volumes created within the       *)
(* resolution of CreatedAt have the same stamp.                            *)
VolumeChanges ==
    LET c == world.container IN
    \/ /\ world.volume = None
       /\ \E stamp \in {world.stamp, Now} :
            Change([world EXCEPT !.volume = [id |-> Now, stamp |-> stamp], !.stamp = stamp])
    \/ /\ world.volume # None /\ ~(c # None /\ c.mounts)
       /\ Change([world EXCEPT !.volume = None])

(* The reference is pulled, removed or moved to another image.             *)
ImageChanges == \E image \in {0, 1, 2} \ {world.image} : Change([world EXCEPT !.image = image])

(* The health check of a running container leaves a sample.                *)
SampleChanges ==
    /\ task \in Connectors
    /\ world.container # None /\ world.container.running
    /\ \E ok \in BOOLEAN : Change([world EXCEPT !.container.sample = [end |-> Now, ok |-> ok]])

Tick ==
    /\ task \in Connectors /\ clock < MaxClock
    /\ clock' = Now
    /\ UNCHANGED <<world, changes, reader, past>>

Environment ==
    \/ ContainerChanges \/ NetworkChanges \/ VolumeChanges \/ ImageChanges
    \/ SampleChanges \/ Tick

-----------------------------------------------------------------------------
(* How a step of an observer ends.                                         *)

Unread == UNCHANGED <<world, clock, changes, task>>

Goto(label) == pc' = label /\ UNCHANGED result

Report(kind) == pc' = "done" /\ result' = [kind |-> kind, at |-> clock]

(* An observer starts, or refuses the request before it reads anything.    *)
Admission ==
    /\ pc = "idle"
    /\ past' = {world}
    /\ Unread /\ UNCHANGED <<sweep, rows, first, seen>>

Admit ==
    /\ task \in RuntimeReads \cup NodeReads
    /\ \/ Goto(IF task \in RuntimeReads \cup {"StartNode", "ReconcileNode"}
                THEN "network" ELSE "container")
       \/ \E kind \in {"UNSUPPORTED", "UNESTABLISHED", "raised"} : Report(kind)
    /\ Admission

AdmitMetadata ==
    /\ task = "metadata"
    /\ Goto("binding") \/ Report("UNSUPPORTED")
    /\ Admission

(* Qualification of the connector and, for a retained one, of its          *)
(* installation receipt.                                                   *)
AdmitConnector ==
    /\ task \in Connectors
    /\ Goto("connector") \/ Report("REFUSED")
    /\ Admission

-----------------------------------------------------------------------------
(* The postcondition observer: _inspect.  Closing an acquired client is    *)
(* part of the last step and may turn its result into UNESTABLISHED; an    *)
(* error that is not the provider's is raised.                             *)

Concludes(kind) == \E k \in {kind, "UNESTABLISHED", "raised"} : Report(k)

Observer == task \in RuntimeReads \cup NodeReads

InspectNetwork ==
    /\ pc = "network" /\ Observer
    /\ seen' = [seen EXCEPT !.network = world.network]
    /\ LET n == world.network IN
        IF n # None /\ n.own # "owned" THEN Concludes("CONFLICT")
        ELSE IF task \in NodeReads THEN Goto("container")
        ELSE IF n = None THEN Concludes("ABSENT")
        ELSE Concludes(IF task = "RemoveRuntimeResource" THEN "UNESTABLISHED" ELSE "CONFIRMED")
    /\ Unread /\ UNCHANGED <<sweep, rows, first, past>>

(* Mutant: whether the container runs is not looked at.                    *)
InspectIgnoresRunning ==
    /\ pc = "container" /\ Observer
    /\ seen' = [seen EXCEPT !.container = world.container]
    /\ LET c == world.container IN
        IF c = None THEN Concludes("ABSENT")
        ELSE IF c.own # "owned" THEN Concludes("CONFLICT")
        ELSE IF task \in {"StopNode", "RemoveNodeResource"} THEN Concludes("UNESTABLISHED")
        ELSE IF seen.network = None THEN Concludes("UNESTABLISHED")
        ELSE Goto("image")
    /\ Unread /\ UNCHANGED <<sweep, rows, first, past>>

(* Process authority, read from the container's mounts and groups, is      *)
(* conformant, in conflict or unknown.                                     *)
InspectContainer ==
    /\ pc = "container" /\ Observer
    /\ seen' = [seen EXCEPT !.container = world.container]
    /\ LET c == world.container IN
        IF c = None THEN Concludes("ABSENT")
        ELSE IF c.own = "other" \/ (c.own = "prior" /\ task # "ReconcileNode") THEN Concludes("CONFLICT")
        ELSE CASE task = "RemoveNodeResource" -> Concludes("UNESTABLISHED")
               [] task = "StopNode" -> Concludes(IF c.running THEN "UNESTABLISHED" ELSE "CONFIRMED")
               [] OTHER -> IF seen.network = None \/ ~c.running THEN Concludes("UNESTABLISHED")
                           ELSE Goto("image") \/ Concludes("UNESTABLISHED") \/ Concludes("CONFLICT")
    /\ Unread /\ UNCHANGED <<sweep, rows, first, past>>

(* The container names one network; its name is compared, not its id.      *)
InspectImage ==
    /\ pc = "image" /\ Observer
    /\ LET c == seen.container IN
        IF world.image = 0 THEN Concludes("UNESTABLISHED")
        ELSE IF c.image # world.image \/ c.net = 0 THEN Concludes("CONFLICT")
        ELSE Concludes("CONFIRMED")
    /\ Unread /\ UNCHANGED <<sweep, rows, first, seen, past>>

ObserverReadFails ==
    /\ pc \in {"network", "container", "image"} /\ Observer
    /\ Concludes("UNESTABLISHED")
    /\ Unread /\ UNCHANGED <<sweep, rows, first, seen, past>>

-----------------------------------------------------------------------------
(* Recovery metadata: two sweeps over the same coordinates, compared row   *)
(* by row.                                                                 *)

Roles == {"image", "container", "network", "volume"}

Unknown == [state |-> "unknown", own |-> "unestablished", identity |-> 0, facts |-> None,
            attachment |-> "unknown"]

Row(state, own, identity) ==
    [state |-> state, own |-> own, identity |-> identity, facts |-> None, attachment |-> "unknown"]

Absent == Row("absent", "not-applicable", 0)

Matching(holds) == IF holds THEN "matching" ELSE "conflicting"

(* Reads one coordinate.                                                   *)
ReadRow(label, role, row, next) ==
    /\ pc = label /\ task = "metadata"
    /\ rows' = [rows EXCEPT ![role] = row]
    /\ Goto(next)
    /\ Unread /\ UNCHANGED <<sweep, first, seen, past>>

(* The daemon's id is compared with the expected one before each sweep.    *)
CheckBinding ==
    /\ pc = "binding"
    /\ \/ Goto("image") /\ UNCHANGED rows
       \/ Report("unbound") /\ rows' = [r \in Roles |-> Unknown]
    /\ Unread /\ UNCHANGED <<sweep, first, seen, past>>

ReadImage ==
    ReadRow("image", "image",
        IF world.image = 0 THEN Absent
        ELSE Row("present", IF world.image = 1 THEN "not-applicable" ELSE "conflicting", world.image),
        "container")

(* Without the exact image the mounts to expect are not known and a        *)
(* matching container stays unestablished.                                 *)
ReadContainer ==
    LET c == world.container
        exact == rows["image"].state = "present" /\ rows["image"].own = "not-applicable"
        holds == /\ c.own = "owned" /\ c.net # 0 /\ c.mounts
                 /\ exact => c.image = rows["image"].identity
    IN ReadRow("container", "container",
        IF c = None THEN Absent
        ELSE [Row("present", IF holds /\ ~exact THEN "unestablished" ELSE Matching(holds), c.id)
                EXCEPT !.facts = [net |-> c.net, mounts |-> c.mounts, image |-> c.image,
                                  running |-> c.running]],
        "network")

ReadNetwork ==
    ReadRow("network", "network",
        IF world.network = None THEN Absent
        ELSE Row("present", Matching(world.network.own = "owned"), world.network.id), "volume")

ReadVolume ==
    ReadRow("volume", "volume",
        IF world.volume = None THEN Absent ELSE Row("present", "matching", world.volume.stamp), "holders")

(* At the end of a sweep: the container must be attached to the very       *)
(* network that was read, and must not mount a volume read as absent.      *)
Correlated(rs) ==
    LET facts == rs["container"].facts IN
    [rs EXCEPT
        !["container"].own = IF facts # None /\ rs["network"].state = "present"
                                /\ facts.net # rs["network"].identity
                             THEN "conflicting" ELSE @,
        !["volume"] = IF facts # None /\ facts.mounts /\ rs["volume"].state = "absent"
                      THEN Unknown ELSE @]

(* Whether a container mounts the volume is a read of its own: a volume    *)
(* read as absent that is mounted now has changed under the sweep.         *)
ReadHolders ==
    /\ pc = "holders"
    /\ LET held == world.container # None /\ world.container.mounts
           read == [rows EXCEPT !["volume"].attachment = IF held THEN "observed" ELSE "not-observed"]
       IN \/ /\ held /\ rows["volume"].state = "absent"
             /\ rows' = [rows EXCEPT !["volume"] = [Unknown EXCEPT !.attachment = "observed"]]
             /\ Report("unbound")
             /\ UNCHANGED <<sweep, first>>
          \/ /\ ~(held /\ rows["volume"].state = "absent") /\ sweep = 1
             /\ sweep' = 2 /\ first' = Correlated(read) /\ rows' = [r \in Roles |-> Unknown]
             /\ Goto("binding")
          \/ /\ ~(held /\ rows["volume"].state = "absent") /\ sweep = 2
             /\ rows' = Correlated(read)
             /\ Goto("compare")
             /\ UNCHANGED <<sweep, first>>
    /\ Unread /\ UNCHANGED <<seen, past>>

(* A provider error keeps the rows read so far and schedules nothing more; *)
(* the scheduling budget's end forgets them.                               *)
MetadataReadFails ==
    /\ pc \in {"image", "container", "network", "volume", "holders"} /\ task = "metadata"
    /\ \/ /\ rows' \in {IF pc = "holders" THEN rows ELSE [rows EXCEPT ![pc] = Unknown],
                         [r \in Roles |-> Unknown]}
          /\ Report("unbound")
       \/ UNCHANGED rows /\ Report("raised")
    /\ Unread /\ UNCHANGED <<sweep, first, seen, past>>

Complete(rs) ==
    \A r \in Roles : /\ rs[r].state \in {"present", "absent"} /\ rs[r].own # "unestablished"
                     /\ r = "volume" => rs[r].attachment # "unknown"

(* Mutant: the second sweep replaces the first.                            *)
CompareNothing ==
    /\ pc = "compare"
    /\ Report("bound")
    /\ Unread /\ UNCHANGED <<sweep, rows, first, seen, past>>

(* Rows that differ between the sweeps are unknown.  Coverage is complete  *)
(* when every row is known and the client closes; closing may also raise.  *)
CompareSweeps ==
    /\ pc = "compare"
    /\ rows' = [r \in Roles |-> IF first[r] = rows[r] THEN rows[r] ELSE Unknown]
    /\ Report("bound") \/ Report("raised") \/ (Complete(rows') /\ Report("complete"))
    /\ Unread /\ UNCHANGED <<sweep, first, seen, past>>

-----------------------------------------------------------------------------
(* The connector: its container is read by name, then by id, and both      *)
(* readings must be equal, the latest health sample included.              *)

Installed == 1  \* the container the retained installation receipt names

fresh(c) == c.started <= c.sample.end /\ c.sample.end <= clock /\ clock - c.sample.end <= MaxAge

Bound(c) == c.own = "owned" /\ c.net # 0 /\ (task = "connector-retained" => c.id = Installed)

FirstConnectorRead ==
    /\ pc = "connector"
    /\ LET c == world.container IN
        /\ first' = c
        /\ IF c # None /\ c.running /\ Bound(c) /\ fresh(c)
           THEN Goto("connector-image") ELSE Report("UNKNOWN")
    /\ past' = {world}
    /\ Unread /\ UNCHANGED <<sweep, rows, seen>>

(* The managed profile also reads the configuration.                       *)
ConnectorImage ==
    /\ pc = "connector-image"
    /\ IF fresh(first) /\ world.image # 0 /\ first.image = world.image
       THEN Goto("configuration") \/ Goto("final") ELSE Report("UNKNOWN")
    /\ Unread /\ UNCHANGED <<sweep, rows, first, seen, past>>

(* Read through the container, by its id; the content may be another one.  *)
ConnectorConfiguration ==
    /\ pc = "configuration"
    /\ \/ /\ world.container # None /\ world.container.id = first.id
          /\ world.container.mounts /\ fresh(first)
          /\ Goto("final")
       \/ Report("UNKNOWN")
    /\ Unread /\ UNCHANGED <<sweep, rows, first, seen, past>>

(* Mutant: the second reading is only compared by its id.                  *)
FinalById ==
    /\ pc = "final"
    /\ LET c == world.container IN
        IF c # None /\ c.id = first.id /\ fresh(c)
        THEN Goto("decode") ELSE Report("UNKNOWN")
    /\ Unread /\ UNCHANGED <<sweep, rows, first, seen, past>>

FinalConnectorRead ==
    /\ pc = "final"
    /\ LET c == world.container IN
        IF c # None /\ c.id = first.id /\ fresh(c) /\ c = first
        THEN Goto("decode") ELSE Report("UNKNOWN")
    /\ Unread /\ UNCHANGED <<sweep, rows, first, seen, past>>

DecodeSample ==
    /\ pc = "decode"
    /\ \/ fresh(first) /\ Report(IF first.sample.ok THEN "CONNECTED" ELSE "DISCONNECTED")
       \/ Report("UNKNOWN")
    /\ Unread /\ UNCHANGED <<sweep, rows, first, seen, past>>

(* A read that raises.                                                     *)
ConnectorReadFails ==
    /\ pc \in {"connector", "connector-image", "final"}
    /\ Report("UNKNOWN")
    /\ Unread /\ UNCHANGED <<sweep, rows, first, seen, past>>

-----------------------------------------------------------------------------

Init ==
    /\ world \in InitialWorlds
    /\ clock = 1 /\ changes = 0
    /\ task \in RuntimeReads \cup NodeReads \cup Connectors \cup {"metadata"}
    /\ pc = "idle" /\ sweep = 1
    /\ rows = [r \in Roles |-> Unknown]
    /\ first = None
    /\ seen = [network |-> None, container |-> None]
    /\ result = [kind |-> "none", at |-> 0]
    /\ past = {}

Step ==
    \/ Admit \/ AdmitMetadata \/ AdmitConnector
    \/ InspectNetwork \/ InspectContainer \/ InspectImage \/ ObserverReadFails
    \/ CheckBinding \/ ReadImage \/ ReadContainer \/ ReadNetwork \/ ReadVolume \/ ReadHolders
    \/ MetadataReadFails \/ CompareSweeps
    \/ FirstConnectorRead \/ ConnectorImage \/ ConnectorConfiguration \/ FinalConnectorRead
    \/ DecodeSample \/ ConnectorReadFails

Next == Step \/ (pc # "done" /\ Environment)

Spec == Init /\ [][Next]_vars

-----------------------------------------------------------------------------
(* Properties.                                                             *)

(* StartNode and ReconcileNode are confirmed only when the node's own      *)
(* container was running, at one instant of the observation, on an         *)
(* existing network of the name; the reference named that container's      *)
(* image at one, and an owned network existed at one.  The three reads     *)
(* follow each other and nothing ties the instants together: network and   *)
(* image are only known to be the container's when neither changed.        *)
ConfirmedHeld ==
    task \in {"StartNode", "ReconcileNode"} /\ result.kind = "CONFIRMED" =>
        /\ \E w, v \in past :
            /\ w.container # None /\ w.network # None
            /\ w.container.own # "other" /\ w.container.running
            /\ w.container.net = w.network.id
            /\ v.image # 0 /\ v.image = w.container.image
        /\ \E w \in past : w.network # None /\ w.network.own = "owned"

Recreated == \E v, w \in past : v.volume # None /\ w.volume # None
                /\ v.volume.id # w.volume.id /\ v.volume.stamp = w.volume.stamp

(* Once both sweeps are compared, the container, network and volume that   *)
(* are reported present existed together, with the reported identities, at *)
(* one instant, and a matching container was then attached to that very    *)
(* network.  A volume recreated within the resolution of CreatedAt is the  *)
(* one exception: the metadata cannot tell it from its predecessor.        *)
RowsHeldTogether ==
    result.kind \in {"bound", "complete"} =>
        \E w \in past :
            /\ rows["container"].state = "present" =>
                    w.container # None /\ w.container.id = rows["container"].identity
            /\ rows["network"].state = "present" =>
                    w.network # None /\ w.network.id = rows["network"].identity
            /\ rows["volume"].state = "present" =>
                    Recreated \/ (w.volume # None /\ w.volume.stamp = rows["volume"].identity)
            /\ rows["container"].own = "matching" /\ rows["network"].state = "present" =>
                    w.container.net = w.network.id

(* A connection is reported from one snapshot: from the first reading of   *)
(* the container to the last, the same container ran without a restart and *)
(* without a newer health sample, and that sample is recent when the       *)
(* result is given.                                                        *)
SnapshotStable ==
    result.kind \in {"CONNECTED", "DISCONNECTED"} =>
        /\ \A w \in past :
            /\ w.container # None /\ w.container.id = first.id /\ w.container.running
            /\ w.container.started = first.started /\ w.container.sample = first.sample
        /\ result.at - first.sample.end <= MaxAge
=============================================================================
