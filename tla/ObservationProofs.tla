-------------------------- MODULE ObservationProofs --------------------------
(***************************************************************************)
(* Proofs about Observations, for any initial Engine and any number of     *)
(* changes between the reads: what an observer reports held at one instant *)
(* of the observation.                                                     *)
(***************************************************************************)
EXTENDS Observations, TLAPS

Observers == RuntimeReads \cup NodeReads
Tasks == Observers \cup Connectors \cup {"metadata"}

RowType == [state: {"unknown", "absent", "present"},
            own: {"unestablished", "not-applicable", "matching", "conflicting"},
            identity: Nat, facts: Facts \cup {None},
            attachment: {"unknown", "observed", "not-observed"}]

ObserverPc == {"idle", "network", "container", "image", "done"}
MetadataPc == {"idle", "binding", "image", "container", "network", "volume", "holders", "compare", "done"}
Compared == {"connector-image", "configuration", "final"}
ConnectorPc == {"idle", "connector", "decode", "done"} \cup Compared

(* The type invariant of Observations.  first is a container or the rows   *)
(* of a sweep.                                                             *)
TypeOK ==
    /\ world \in World /\ clock \in Nat /\ past \subseteq World
    /\ task \in Tasks
    /\ task \in Observers => pc \in ObserverPc
    /\ task = "metadata" => pc \in MetadataPc
    /\ task \in Connectors => pc \in ConnectorPc
    /\ sweep \in {1, 2}
    /\ rows \in [Roles -> RowType]
    /\ task = "metadata" /\ sweep = 2 => first \in [Roles -> RowType]
    /\ task \in Connectors /\ pc \in Compared \cup {"decode"} => first \in Container
    /\ pc # "done" => result.kind = "none"
    /\ result.kind \in {"bound", "complete"} => task = "metadata"
    /\ result.kind \in {"CONNECTED", "DISCONNECTED"} => task \in Connectors

(* The Engine, now and while it was read.                                  *)
EngineInv ==
    /\ Dated(world, clock) /\ Attached(world)
    /\ \A w \in past : Dated(w, clock)
    /\ Reading => world \in past

(* The postcondition observer: what it has read was so once.               *)
HeldOnce ==
    \E w \in past :
        /\ w.container = seen.container
        /\ w.container # None /\ w.network # None
        /\ w.container.own # "other" /\ w.container.running
        /\ w.container.net = w.network.id

OwnedOnce == \E w \in past : w.network # None /\ w.network.own = "owned"

ObserverInv ==
    /\ seen \in [network: Network \cup {None}, container: Container \cup {None}]
    /\ pc = "idle" => seen.network = None
    /\ task \in Observers /\ pc # "done" /\ seen.network # None => OwnedOnce
    /\ task \in Observers /\ pc = "image" => seen.network # None /\ HeldOnce
    /\ ConfirmedHeld

(* The connector observer: the container has been as it was first read, or *)
(* it can never be so again.                                               *)
Steady == \A w \in past : w.container = first

Broken ==
    \/ world.container = None \/ world.container.id # first.id \/ ~world.container.running
    \/ world.container.started # first.started \/ world.container.sample # first.sample

ConnectorInv ==
    /\ task \in Connectors /\ pc \in Compared =>
          /\ first.running /\ first.id <= clock /\ first.started <= clock /\ first.sample.end <= clock
          /\ Steady \/ Broken
    /\ task \in Connectors /\ pc = "decode" => first.running /\ Steady
    /\ SnapshotStable

(* Recovery metadata: a row of a sweep describes a resource that is in w,  *)
(* or that has gone since and will not come back.                          *)
ContainerIn(w, row) ==
    w.container # None /\ w.container.id = row.identity /\ w.container.net = row.facts.net

ContainerRow(w, row) ==
    /\ row.own = "matching" => row.state = "present"
    /\ row.state = "present" =>
          /\ row.facts # None /\ row.identity <= clock
          /\ ContainerIn(w, row) \/ world.container = None \/ world.container.id # row.identity

NetworkIn(w, row) == w.network # None /\ w.network.id = row.identity

NetworkRow(w, row) ==
    row.state = "present" =>
        /\ row.identity <= clock
        /\ NetworkIn(w, row) \/ world.network = None \/ world.network.id # row.identity

VolumeRow(w, row) ==
    row.state = "present" =>
        \E v \in past : /\ v.volume # None /\ v.volume.stamp = row.identity
                        /\ w.volume = v.volume \/ world.volume = None \/ world.volume.id # v.volume.id

SweepRows(w, rs) ==
    /\ ContainerRow(w, rs["container"])
    /\ NetworkRow(w, rs["network"])
    /\ VolumeRow(w, rs["volume"])

(* What the second sweep found again was there at w, between the sweeps.   *)
Again(one, two) == one.state = "present" /\ two.state = "present" /\ one.identity = two.identity

FoundAgain(w) ==
    /\ Again(first["container"], rows["container"]) => ContainerIn(w, first["container"])
    /\ Again(first["network"], rows["network"]) => NetworkIn(w, first["network"])
    /\ Again(first["volume"], rows["volume"]) =>
          Recreated \/ (w.volume # None /\ w.volume.stamp = first["volume"].identity)

Attaches(rs) ==
    rs["container"].own = "matching" /\ rs["network"].state = "present" =>
        rs["container"].facts.net = rs["network"].identity

MetadataInv ==
    /\ task = "metadata" /\ pc = "idle" => sweep = 1 /\ \A r \in Roles : rows[r] = Unknown
    /\ task = "metadata" /\ pc = "compare" => sweep = 2
    /\ task = "metadata" /\ pc \notin {"idle", "done"} /\ sweep = 1 => SweepRows(world, rows)
    /\ task = "metadata" /\ pc \notin {"idle", "done"} /\ sweep = 2 =>
          /\ Attaches(first)
          /\ \E w \in past : SweepRows(w, first) /\ FoundAgain(w)
    /\ RowsHeldTogether

ObservationInv ==
    /\ TypeOK /\ EngineInv
    /\ ObserverInv /\ ConnectorInv /\ MetadataInv

-----------------------------------------------------------------------------
(* The Engine changes.                                                     *)

(* The Engine changes from world to w: what is older than the change was   *)
(* there before, and a container that is still as it was did not change.   *)
Evolves(w) ==
    /\ w \in World /\ Dated(w, clock + 1) /\ Attached(w)
    /\ w.container # None /\ w.container.id <= clock =>
          /\ world.container # None /\ w.container.id = world.container.id
          /\ w.container.net = world.container.net
          /\ \/ w.container = world.container \/ ~w.container.running
             \/ w.container.started = clock + 1 \/ w.container.sample.end = clock + 1
    /\ w.network # None /\ w.network.id <= clock => w.network = world.network
    /\ w.volume # None /\ w.volume.id <= clock => w.volume = world.volume

(* A change of one part of the Engine evolves it if the part does.         *)
LEMMA EvolvesContainer ==
    ASSUME TypeOK, EngineInv, NEW c \in Container \cup {None},
           c # None => /\ c.id <= clock + 1 /\ c.started <= clock + 1 /\ c.sample.end <= clock + 1
                       /\ c.running => world.network # None /\ c.net = world.network.id,
           c # None /\ c.id <= clock =>
                       /\ world.container # None /\ c.id = world.container.id
                       /\ c.net = world.container.net
                       /\ \/ ~c.running \/ c.started = clock + 1 \/ c.sample.end = clock + 1
    PROVE  Evolves([world EXCEPT !.container = c])
<1> DEFINE w == [world EXCEPT !.container = c]
<1>1. /\ w \in World /\ w.container = c /\ w.network = world.network /\ w.volume = world.volume
  BY DEF TypeOK, World
<1>2. clock \in Nat /\ Dated(world, clock) BY DEF TypeOK, EngineInv
<1> HIDE DEF w
<1>3. (w.network # None => w.network.id \in Nat) /\ (w.volume # None => w.volume.id \in Nat)
  BY <1>1 DEF World, Network, Volume
<1>4. Dated(w, clock + 1) BY <1>1, <1>2, <1>3 DEF Dated
<1>5. Attached(w) BY <1>1 DEF Attached
<1>6. Evolves(w) BY <1>1, <1>4, <1>5 DEF Evolves
<1>7. QED BY <1>6 DEF w

LEMMA EvolvesRest ==
    ASSUME TypeOK, EngineInv, NEW w \in World, w.container = world.container,
           w.network # world.network => w.network = None \/ w.network.id = clock + 1,
           w.volume # world.volume => w.volume = None \/ w.volume.id = clock + 1,
           Attached(w)
    PROVE  Evolves(w)
<1>1. clock \in Nat /\ Dated(world, clock) BY DEF TypeOK, EngineInv
<1>2. /\ w.container # None => /\ w.container.id \in Nat /\ w.container.started \in Nat
                               /\ w.container.sample.end \in Nat
      /\ w.network # None => w.network.id \in Nat
      /\ w.volume # None => w.volume.id \in Nat
  BY DEF World, Network, Volume, Container
<1>3. Dated(w, clock + 1) BY <1>1, <1>2 DEF Dated
<1>4. QED BY <1>1, <1>2, <1>3 DEF Evolves

(* Every change of the Engine lets it evolve.                              *)
LEMMA ChangeEvolves ==
    ASSUME TypeOK, EngineInv,
           ContainerChanges \/ NetworkChanges \/ VolumeChanges \/ ImageChanges \/ SampleChanges
    PROVE  \E w : Evolves(w) /\ Change(w)
<1> DEFINE c == world.container
<1>t. /\ c \in Container \cup {None} /\ None \notin Container /\ clock \in Nat
      /\ world.network \in Network \cup {None} /\ None \notin Network
      /\ world.volume \in Volume \cup {None} /\ None \notin Volume
      /\ world.image \in Nat /\ world.stamp \in Nat /\ world \in World
  BY ObservationAssumption DEF TypeOK, World
<1>d. /\ Attached(world)
      /\ c # None => c.id <= clock /\ c.started <= clock /\ c.sample.end <= clock
  BY DEF EngineInv, Dated
<1>c. c # None => /\ c.id \in Nat /\ c.started \in Nat /\ c.sample.end \in Nat
                  /\ c.net \in Nat /\ c.sample \in [end: Nat, ok: BOOLEAN]
  BY <1>t DEF Container
(* The parts of the new Engine.                                            *)
<1>w. ASSUME NEW v, Evolves(v), Change(v) PROVE \E w : Evolves(w) /\ Change(w)
  BY <1>w
<1>1. CASE ContainerChanges
  <2>1. ASSUME c = None, NEW own \in Owners, NEW mounts \in BOOLEAN,
               Change([world EXCEPT !.container = NewContainer(own, mounts)])
        PROVE  \E w : Evolves(w) /\ Change(w)
    <3> DEFINE n == NewContainer(own, mounts)
    <3>1. (IF world.network = None THEN 0 ELSE world.network.id) \in Nat
      BY <1>t DEF Network
    <3>2. /\ n \in Container /\ n.id = clock + 1 /\ n.started = 0 /\ n.sample.end = 0 /\ ~n.running
      BY <3>1, <1>t DEF NewContainer, Container, Now
    <3> HIDE DEF n
    <3>3. Evolves([world EXCEPT !.container = n])
      BY <3>2, <1>t, EvolvesContainer
    <3>4. QED BY <2>1, <3>3 DEF n
  <2>2. ASSUME Change([world EXCEPT !.container = None])
        PROVE  \E w : Evolves(w) /\ Change(w)
    <3>1. Evolves([world EXCEPT !.container = None]) BY EvolvesContainer
    <3>2. QED BY <2>2, <3>1
  <2>3. ASSUME c # None, world.network # None, world.network.id = c.net,
               Change([world EXCEPT !.container.running = TRUE, !.container.started = Now])
        PROVE  \E w : Evolves(w) /\ Change(w)
    <3> DEFINE n == [c EXCEPT !.running = TRUE, !.started = Now]
    <3>1. /\ n \in Container /\ n.id = c.id /\ n.started = clock + 1 /\ n.sample = c.sample
          /\ n.net = c.net
      <4>1. c \in Container /\ Now \in Nat /\ Now = clock + 1 BY <2>3, <1>t DEF Now
      <4> HIDE DEF c
      <4>2. n \in Container BY <4>1 DEF Container
      <4>3. n.id = c.id /\ n.started = Now /\ n.sample = c.sample /\ n.net = c.net
        BY <4>1 DEF Container
      <4>4. QED BY <4>1, <4>2, <4>3
    <3>2. [world EXCEPT !.container.running = TRUE, !.container.started = Now]
            = [world EXCEPT !.container = n]
      BY <1>t DEF World
    <3> HIDE DEF n
    <3>3. Evolves([world EXCEPT !.container = n])
      BY <2>3, <3>1, <1>t, <1>d, <1>c, EvolvesContainer
    <3>4. QED BY <2>3, <3>2, <3>3
  <2>4. ASSUME c # None, Change([world EXCEPT !.container.running = FALSE])
        PROVE  \E w : Evolves(w) /\ Change(w)
    <3> DEFINE n == [c EXCEPT !.running = FALSE]
    <3>1. /\ n \in Container /\ n.id = c.id /\ n.started = c.started /\ n.sample = c.sample
          /\ n.net = c.net /\ ~n.running
      BY <2>4, <1>t DEF Container
    <3>2. [world EXCEPT !.container.running = FALSE] = [world EXCEPT !.container = n]
      BY <1>t DEF World
    <3> HIDE DEF n
    <3>3. Evolves([world EXCEPT !.container = n])
      BY <2>4, <3>1, <1>t, <1>d, <1>c, EvolvesContainer
    <3>4. QED BY <2>4, <3>2, <3>3
  <2>5. QED BY <1>1, <2>1, <2>2, <2>3, <2>4 DEF ContainerChanges
<1>2. CASE SampleChanges
  <2>1. PICK ok \in BOOLEAN :
              /\ c # None /\ c.running
              /\ Change([world EXCEPT !.container.sample = [end |-> Now, ok |-> ok]])
    BY <1>2 DEF SampleChanges
  <2> DEFINE n == [c EXCEPT !.sample = [end |-> Now, ok |-> ok]]
  <2>2. /\ n \in Container /\ n.id = c.id /\ n.started = c.started /\ n.sample.end = clock + 1
        /\ n.net = c.net /\ n.running = c.running
    <3>1. c \in Container /\ Now \in Nat /\ Now = clock + 1 BY <2>1, <1>t DEF Now
    <3> DEFINE sample == [end |-> Now, ok |-> ok]
    <3>2. sample \in [end: Nat, ok: BOOLEAN] /\ sample.end = Now BY <3>1
    <3> HIDE DEF c, sample
    <3>3. n = [c EXCEPT !.sample = sample] BY DEF sample
    <3> HIDE DEF n
    <3>4. n \in Container BY <3>1, <3>2, <3>3 DEF Container
    <3>5. /\ n.id = c.id /\ n.started = c.started /\ n.sample = sample
          /\ n.net = c.net /\ n.running = c.running
      BY <3>1, <3>3 DEF Container
    <3>6. QED BY <3>1, <3>2, <3>4, <3>5
  <2>3. [world EXCEPT !.container.sample = [end |-> Now, ok |-> ok]] = [world EXCEPT !.container = n]
    BY <1>t DEF World
  <2>4. world.network # None /\ c.net = world.network.id BY <2>1, <1>d DEF Attached
  <2> HIDE DEF n
  <2>5. Evolves([world EXCEPT !.container = n])
    BY <2>1, <2>2, <2>4, <1>t, <1>d, <1>c, EvolvesContainer
  <2>6. QED BY <2>1, <2>3, <2>5
<1>3. CASE NetworkChanges
  <2>1. ASSUME world.network = None, NEW own \in Owners,
               Change([world EXCEPT !.network = [id |-> Now, own |-> own]])
        PROVE  \E w : Evolves(w) /\ Change(w)
    <3> DEFINE n == [id |-> Now, own |-> own]
               w == [world EXCEPT !.network = n]
    <3>1. n \in Network /\ n.id = clock + 1 BY <1>t DEF Network, Now
    <3> HIDE DEF n
    <3>2. w \in World /\ w.container = c /\ w.network = n /\ w.volume = world.volume
      BY <3>1, <1>t DEF World
    <3> HIDE DEF w
    <3>3. Attached(w) BY <2>1, <3>2, <1>d DEF Attached
    <3>4. Evolves(w) BY <3>1, <3>2, <3>3, EvolvesRest
    <3>5. QED BY <2>1, <3>4 DEF w, n
  <2>2. ASSUME world.network # None, ~(c # None /\ c.running /\ c.net = world.network.id),
               Change([world EXCEPT !.network = None])
        PROVE  \E w : Evolves(w) /\ Change(w)
    <3> DEFINE w == [world EXCEPT !.network = None]
    <3>1. w \in World /\ w.container = c /\ w.network = None /\ w.volume = world.volume
      BY <1>t DEF World
    <3> HIDE DEF w
    <3>2. Attached(w) BY <2>2, <3>1, <1>d DEF Attached
    <3>3. Evolves(w) BY <3>1, <3>2, EvolvesRest
    <3>4. QED BY <2>2, <3>3 DEF w
  <2>3. QED BY <1>3, <2>1, <2>2 DEF NetworkChanges
<1>4. CASE VolumeChanges \/ ImageChanges
  <2>1. PICK w : /\ Change(w) /\ w \in World
                 /\ w.container = c /\ w.network = world.network
                 /\ w.volume = world.volume \/ w.volume = None \/ w.volume.id = clock + 1
    <3>1. ASSUME NEW stamp \in {world.stamp, Now},
                 Change([world EXCEPT !.volume = [id |-> Now, stamp |-> stamp], !.stamp = stamp])
          PROVE  \E w : /\ Change(w) /\ w \in World
                        /\ w.container = c /\ w.network = world.network
                        /\ w.volume = world.volume \/ w.volume = None \/ w.volume.id = clock + 1
      <4> DEFINE n == [id |-> Now, stamp |-> stamp]
                 w == [world EXCEPT !.volume = n, !.stamp = stamp]
      <4>1. n \in Volume /\ n.id = clock + 1 /\ stamp \in Nat BY <1>t DEF Volume, Now
      <4> HIDE DEF n
      <4>2. w \in World /\ w.container = c /\ w.network = world.network /\ w.volume = n
        BY <4>1, <1>t DEF World
      <4>3. Change(w) BY <3>1 DEF n
      <4> HIDE DEF w
      <4>4. QED BY <4>1, <4>2, <4>3
    <3>2. ASSUME Change([world EXCEPT !.volume = None])
          PROVE  \E w : /\ Change(w) /\ w \in World
                        /\ w.container = c /\ w.network = world.network
                        /\ w.volume = world.volume \/ w.volume = None \/ w.volume.id = clock + 1
      <4> DEFINE w == [world EXCEPT !.volume = None]
      <4>1. w \in World /\ w.container = c /\ w.network = world.network /\ w.volume = None
        BY <1>t DEF World
      <4>2. Change(w) BY <3>2
      <4> HIDE DEF w
      <4>3. QED BY <4>1, <4>2
    <3>3. ASSUME NEW image \in {0, 1, 2}, Change([world EXCEPT !.image = image])
          PROVE  \E w : /\ Change(w) /\ w \in World
                        /\ w.container = c /\ w.network = world.network
                        /\ w.volume = world.volume \/ w.volume = None \/ w.volume.id = clock + 1
      <4> DEFINE w == [world EXCEPT !.image = image]
      <4>1. w \in World /\ w.container = c /\ w.network = world.network /\ w.volume = world.volume
        BY <1>t DEF World
      <4>2. Change(w) BY <3>3
      <4> HIDE DEF w
      <4>3. QED BY <4>1, <4>2
    <3>4. QED BY <1>4, <3>1, <3>2, <3>3 DEF VolumeChanges, ImageChanges
  <2>2. Attached(w) BY <2>1, <1>d DEF Attached
  <2>3. Evolves(w) BY <2>1, <2>2, EvolvesRest
  <2>4. QED BY <2>1, <2>3
<1>5. QED BY <1>1, <1>2, <1>3, <1>4

(* A step of the Engine or the clock: what readers know of it.             *)
LEMMA EnvironmentStep ==
    ASSUME TypeOK, EngineInv, Environment
    PROVE  /\ UNCHANGED reader
           /\ clock' = clock + 1 /\ Evolves(world')
           /\ past \subseteq past' /\ past' \subseteq past \cup {world'}
           /\ Reading => world' \in past'
           /\ ~Reading => past' = past
<1>1. CASE Tick
  <2>1. /\ UNCHANGED reader /\ clock' = clock + 1 /\ world' = world /\ past' = past
    BY <1>1 DEF Tick, Now
  <2>2. Evolves(world) BY EvolvesRest DEF EngineInv, TypeOK
  <2>3. QED BY <2>1, <2>2 DEF EngineInv
<1>2. CASE ~Tick
  <2>1. PICK w : Evolves(w) /\ Change(w) BY <1>2, ChangeEvolves DEF Environment
  <2>2. /\ UNCHANGED reader /\ clock' = clock + 1 /\ world' = w
        /\ past' = IF Reading THEN past \cup {w} ELSE past
    BY <2>1 DEF Change, Now
  <2>3. QED BY <2>1, <2>2
<1>3. QED BY <1>1, <1>2

-----------------------------------------------------------------------------
(* Rows.                                                                   *)

LEMMA RowTypes ==
    /\ Unknown \in RowType /\ Unknown.state = "unknown" /\ Unknown.own = "unestablished"
    /\ \A state \in {"absent", "present"}, identity \in Nat,
          own \in {"unestablished", "not-applicable", "matching", "conflicting"} :
            /\ Row(state, own, identity) \in RowType
            /\ Row(state, own, identity).state = state /\ Row(state, own, identity).own = own
            /\ Row(state, own, identity).identity = identity
    /\ Absent \in RowType /\ Absent.state = "absent" /\ Absent.own = "not-applicable"
<1>1. Unknown \in RowType /\ Unknown.state = "unknown" /\ Unknown.own = "unestablished"
  BY DEF Unknown, RowType
<1>2. ASSUME NEW state \in {"absent", "present"}, NEW identity \in Nat,
             NEW own \in {"unestablished", "not-applicable", "matching", "conflicting"}
      PROVE  /\ Row(state, own, identity) \in RowType
             /\ Row(state, own, identity).state = state /\ Row(state, own, identity).own = own
             /\ Row(state, own, identity).identity = identity
  BY DEF Row, RowType
<1>3. Absent \in RowType /\ Absent.state = "absent" /\ Absent.own = "not-applicable"
  BY DEF Absent, Row, RowType
<1>4. QED BY <1>1, <1>2, <1>3

(* Correlation keeps what was read of container and network, and makes a   *)
(* container on another network conflicting.                               *)
LEMMA CorrelatedRows ==
    ASSUME NEW rs \in [Roles -> RowType]
    PROVE  LET k == Correlated(rs)
               c == k["container"]
           IN  /\ k \in [Roles -> RowType]
               /\ c.state = rs["container"].state /\ c.identity = rs["container"].identity
               /\ c.facts = rs["container"].facts
               /\ c.own = rs["container"].own \/ c.own = "conflicting"
               /\ c.own = "matching" /\ c.facts # None /\ k["network"].state = "present" =>
                     c.facts.net = k["network"].identity
               /\ k["network"] = rs["network"]
               /\ k["volume"] = Unknown \/ k["volume"] = rs["volume"]
<1> DEFINE old == rs["container"]
           facts == old.facts
           apart == facts # None /\ rs["network"].state = "present" /\ facts.net # rs["network"].identity
           lost == facts # None /\ facts.mounts /\ rs["volume"].state = "absent"
           c == [old EXCEPT !.own = IF apart THEN "conflicting" ELSE @]
           v == IF lost THEN Unknown ELSE rs["volume"]
           k == [rs EXCEPT !["container"] = c, !["volume"] = v]
<1>1. /\ "container" \in Roles /\ "network" \in Roles /\ "volume" \in Roles
      /\ old \in RowType /\ rs["volume"] \in RowType /\ rs["network"] \in RowType
  BY DEF Roles
<1>2. Correlated(rs) = k
  BY <1>1 DEF Correlated
<1>3. /\ c \in RowType /\ c.state = old.state /\ c.identity = old.identity /\ c.facts = old.facts
      /\ c.own = IF apart THEN "conflicting" ELSE old.own
  <2> HIDE DEF apart, old
  <2>1. QED BY <1>1 DEF RowType
<1>4. v \in RowType BY <1>1, RowTypes
<1> HIDE DEF c, v
<1>5. /\ k \in [Roles -> RowType] /\ k["container"] = c /\ k["network"] = rs["network"]
      /\ k["volume"] = v
  BY <1>1, <1>3, <1>4
<1> HIDE DEF k
<1>6. QED BY <1>2, <1>3, <1>5 DEF v

-----------------------------------------------------------------------------
(* Steps of the observers: frame and types.                                *)

Admits == Admit \/ AdmitMetadata \/ AdmitConnector
ObserverSteps == InspectNetwork \/ InspectContainer \/ InspectImage \/ ObserverReadFails
MetadataSteps ==
    \/ CheckBinding \/ ReadImage \/ ReadContainer \/ ReadNetwork \/ ReadVolume \/ ReadHolders
    \/ MetadataReadFails \/ CompareSweeps
ConnectorSteps ==
    \/ FirstConnectorRead \/ ConnectorImage \/ ConnectorConfiguration \/ FinalConnectorRead
    \/ DecodeSample \/ ConnectorReadFails

(* An admission reads nothing and is one of three; it begins the history.  *)
LEMMA AdmitFrame ==
    ASSUME TypeOK, Admits
    PROVE  /\ pc = "idle" /\ past' = {world} /\ Unread /\ UNCHANGED <<sweep, rows, first, seen>>
           /\ \/ pc' = "done" /\ result'.kind \in {"UNSUPPORTED", "UNESTABLISHED", "raised", "REFUSED"}
              \/ /\ UNCHANGED result
                 /\ \/ task \in Observers /\ pc' \in {"network", "container"}
                    \/ task = "metadata" /\ pc' = "binding"
                    \/ task \in Connectors /\ pc' = "connector"
BY DEF Admits, Admit, AdmitMetadata, AdmitConnector, Admission, Goto, Report, Observers

LEMMA ObserverFrame ==
    ASSUME TypeOK, ObserverSteps
    PROVE  /\ pc \in {"network", "container", "image"} /\ task \in Observers
           /\ past' = past /\ Unread /\ UNCHANGED <<sweep, rows, first>>
           /\ \/ /\ pc' = "done"
                 /\ result'.kind \in {"CONFLICT", "ABSENT", "UNESTABLISHED", "CONFIRMED", "raised"}
              \/ UNCHANGED result /\ pc' \in {"container", "image"}
<1>1. CASE InspectNetwork
  BY <1>1 DEF InspectNetwork, Goto, Concludes, Report, Observer, Observers
<1>2. CASE InspectContainer
  <2>1. /\ pc \in {"network", "container", "image"} /\ task \in Observers
        /\ past' = past /\ Unread /\ UNCHANGED <<sweep, rows, first>>
    BY <1>2 DEF InspectContainer, Observer, Observers
  <2>2. \/ Goto("image")
        \/ \E k \in {"CONFLICT", "ABSENT", "UNESTABLISHED", "CONFIRMED", "raised"} : Report(k)
    BY <1>2, Zenon DEF InspectContainer, Concludes
  <2>3. QED BY <2>1, <2>2 DEF Goto, Report
<1>3. CASE InspectImage
  BY <1>3 DEF InspectImage, Goto, Concludes, Report, Observer, Observers
<1>4. CASE ObserverReadFails
  BY <1>4 DEF ObserverReadFails, Goto, Concludes, Report, Observer, Observers
<1>5. QED BY <1>1, <1>2, <1>3, <1>4 DEF ObserverSteps

LEMMA MetadataFrame ==
    ASSUME TypeOK, MetadataSteps
    PROVE  /\ pc \notin {"idle", "done"} /\ task = "metadata"
           /\ past' = past /\ Unread
           /\ \/ pc' = "done" /\ result'.kind \in {"unbound", "bound", "complete", "raised"}
              \/ UNCHANGED result /\ pc' \in MetadataPc \ {"idle", "done"}
<1>1. /\ pc \in MetadataPc \ {"idle", "done"} /\ past' = past /\ Unread
      /\ pc \in {"binding", "holders", "compare"} \/ task = "metadata"
      /\ \/ pc' = "done" /\ result'.kind \in {"unbound", "bound", "complete", "raised"}
         \/ UNCHANGED result /\ pc' \in MetadataPc \ {"idle", "done"}
  <2>1. CASE CheckBinding BY <2>1 DEF CheckBinding, Goto, Report, MetadataPc
  <2>2. CASE ReadImage BY <2>2 DEF ReadImage, ReadRow, Goto, MetadataPc
  <2>3. CASE ReadContainer BY <2>3 DEF ReadContainer, ReadRow, Goto, MetadataPc
  <2>4. CASE ReadNetwork BY <2>4 DEF ReadNetwork, ReadRow, Goto, MetadataPc
  <2>5. CASE ReadVolume BY <2>5 DEF ReadVolume, ReadRow, Goto, MetadataPc
  <2>6. CASE ReadHolders BY <2>6 DEF ReadHolders, Goto, Report, MetadataPc
  <2>7. CASE MetadataReadFails BY <2>7 DEF MetadataReadFails, Report, MetadataPc
  <2>8. CASE CompareSweeps BY <2>8 DEF CompareSweeps, Report, MetadataPc
  <2>9. QED BY <2>1, <2>2, <2>3, <2>4, <2>5, <2>6, <2>7, <2>8 DEF MetadataSteps
<1>2. task = "metadata"
  BY <1>1 DEF TypeOK, Tasks, ObserverPc, ConnectorPc, Compared
<1>3. QED BY <1>1, <1>2 DEF MetadataPc

LEMMA ConnectorFrame ==
    ASSUME TypeOK, ConnectorSteps
    PROVE  /\ pc \in ConnectorPc \ {"idle", "done"} /\ task \in Connectors
           /\ Unread /\ UNCHANGED <<sweep, rows, seen>>
           /\ (pc = "connector" /\ past' = {world}) \/ past' = past
           /\ pc = "connector" \/ first' = first
           /\ \/ pc' = "done" /\ result'.kind \in {"UNKNOWN", "CONNECTED", "DISCONNECTED"}
              \/ UNCHANGED result /\ pc' \in Compared \cup {"decode"}
           /\ pc = "decode" => pc' = "done"
<1>1. /\ pc \in ConnectorPc \ {"idle", "done"}
      /\ Unread /\ UNCHANGED <<sweep, rows, seen>>
      /\ (pc = "connector" /\ past' = {world}) \/ past' = past
      /\ pc = "connector" \/ first' = first
      /\ \/ pc' = "done" /\ result'.kind \in {"UNKNOWN", "CONNECTED", "DISCONNECTED"}
         \/ UNCHANGED result /\ pc' \in Compared \cup {"decode"}
      /\ pc = "decode" => pc' = "done"
  <2>1. CASE FirstConnectorRead
    BY <2>1 DEF FirstConnectorRead, Goto, Report, ConnectorPc, Compared
  <2>2. CASE ConnectorImage
    BY <2>2 DEF ConnectorImage, Goto, Report, ConnectorPc, Compared
  <2>3. CASE ConnectorConfiguration
    BY <2>3 DEF ConnectorConfiguration, Goto, Report, ConnectorPc, Compared
  <2>4. CASE FinalConnectorRead
    BY <2>4 DEF FinalConnectorRead, Goto, Report, ConnectorPc, Compared
  <2>5. CASE DecodeSample
    BY <2>5 DEF DecodeSample, Goto, Report, ConnectorPc, Compared
  <2>6. CASE ConnectorReadFails
    BY <2>6 DEF ConnectorReadFails, Goto, Report, ConnectorPc, Compared
  <2>7. QED BY <2>1, <2>2, <2>3, <2>4, <2>5, <2>6 DEF ConnectorSteps
<1>2. task \in Connectors
  BY <1>1 DEF TypeOK, Tasks, ObserverPc, MetadataPc, ConnectorPc, Compared
<1>3. QED BY <1>1, <1>2

(* The rows a sweep reads, and what its end makes of them.                 *)
LEMMA RowsTyped ==
    ASSUME TypeOK, MetadataSteps
    PROVE  /\ rows' \in [Roles -> RowType] /\ sweep' \in {1, 2}
           /\ sweep' = 2 => first' \in [Roles -> RowType]
<1>r. rows \in [Roles -> RowType] /\ sweep \in {1, 2} /\ (sweep = 2 => first \in [Roles -> RowType])
  BY MetadataFrame DEF TypeOK
<1>u. [r \in Roles |-> Unknown] \in [Roles -> RowType] BY RowTypes
<1>w. /\ world.image \in Nat /\ world.container \in Container \cup {None}
      /\ world.network \in Network \cup {None} /\ world.volume \in Volume \cup {None}
  BY DEF TypeOK, World
<1>s. "image" \in Roles /\ "container" \in Roles /\ "network" \in Roles /\ "volume" \in Roles
  BY DEF Roles
<1>1. CASE CheckBinding
  BY <1>1, <1>r, <1>u DEF CheckBinding
<1>2. ASSUME NEW label, NEW role \in Roles, NEW row \in RowType, NEW next,
             ReadRow(label, role, row, next)
      PROVE  /\ rows' \in [Roles -> RowType] /\ UNCHANGED <<sweep, first>>
  <2>1. rows' = [rows EXCEPT ![role] = row] /\ UNCHANGED <<sweep, first>>
    BY <1>2, Zenon DEF ReadRow
  <2>2. QED BY <2>1, <1>2, <1>r
<1>3. CASE ReadImage
  <2>1. (IF world.image = 0 THEN Absent
         ELSE Row("present", IF world.image = 1 THEN "not-applicable" ELSE "conflicting", world.image))
            \in RowType
    BY <1>w, RowTypes
  <2>2. QED BY <1>3, <2>1, <1>2, <1>r, <1>s DEF ReadImage
<1>4. CASE ReadContainer
  <2> DEFINE c == world.container
             exact == rows["image"].state = "present" /\ rows["image"].own = "not-applicable"
             holds == /\ c.own = "owned" /\ c.net # 0 /\ c.mounts
                      /\ exact => c.image = rows["image"].identity
             own == IF holds /\ ~exact THEN "unestablished" ELSE Matching(holds)
             facts == [net |-> c.net, mounts |-> c.mounts, image |-> c.image, running |-> c.running]
             row == [Row("present", own, c.id) EXCEPT !.facts = facts]
  <2>1. own \in {"unestablished", "matching", "conflicting"} BY DEF Matching
  <2>2. c # None => facts \in Facts /\ c.id \in Nat BY <1>w DEF Facts, Container
  <2> HIDE DEF own, facts
  <2>3. c # None => row \in RowType BY <2>1, <2>2 DEF Row, RowType
  <2>4. ReadRow("container", "container", IF c = None THEN Absent ELSE row, "network")
    BY <1>4 DEF ReadContainer, own, facts
  <2> HIDE DEF row, c
  <2>5. (IF c = None THEN Absent ELSE row) \in RowType BY <2>3, RowTypes
  <2>6. QED BY <2>4, <2>5, <1>2, <1>r, <1>s
<1>5. CASE ReadNetwork
  <2>1. Matching(world.network.own = "owned") \in {"matching", "conflicting"} BY DEF Matching
  <2>2. world.network # None => world.network.id \in Nat BY <1>w DEF Network
  <2>3. (IF world.network = None THEN Absent
         ELSE Row("present", Matching(world.network.own = "owned"), world.network.id)) \in RowType
    BY <2>1, <2>2, RowTypes
  <2>4. QED BY <1>5, <2>3, <1>2, <1>r, <1>s DEF ReadNetwork
<1>6. CASE ReadVolume
  <2>1. world.volume # None => world.volume.stamp \in Nat BY <1>w DEF Volume
  <2>2. (IF world.volume = None THEN Absent ELSE Row("present", "matching", world.volume.stamp))
            \in RowType
    BY <2>1, RowTypes
  <2>3. QED BY <1>6, <2>2, <1>2, <1>r, <1>s DEF ReadVolume
<1>7. CASE ReadHolders
  <2> DEFINE held == world.container # None /\ world.container.mounts
             mark == IF held THEN "observed" ELSE "not-observed"
             read == [rows EXCEPT !["volume"].attachment = mark]
             lost == [Unknown EXCEPT !.attachment = "observed"]
  <2>1. lost \in RowType BY DEF Unknown, RowType
  <2>2. read \in [Roles -> RowType]
    <3>1. mark \in {"observed", "not-observed"} /\ rows["volume"] \in RowType BY <1>r, <1>s
    <3> HIDE DEF mark
    <3>2. [rows["volume"] EXCEPT !.attachment = mark] \in RowType BY <3>1 DEF RowType
    <3>3. QED BY <3>2, <1>r, <1>s
  <2>3. Correlated(read) \in [Roles -> RowType] BY <2>2, CorrelatedRows
  <2>4. \/ rows' = [rows EXCEPT !["volume"] = lost] /\ UNCHANGED <<sweep, first>>
        \/ sweep' = 2 /\ first' = Correlated(read) /\ rows' = [r \in Roles |-> Unknown]
        \/ rows' = Correlated(read) /\ UNCHANGED <<sweep, first>>
    BY <1>7 DEF ReadHolders
  <2> HIDE DEF read, lost
  <2>5. QED BY <2>1, <2>3, <2>4, <1>r, <1>s, <1>u
<1>8. CASE MetadataReadFails
  <2>1. /\ pc \in Roles \cup {"holders"} /\ UNCHANGED <<sweep, first>>
        /\ \/ rows' = rows \/ rows' = [rows EXCEPT ![pc] = Unknown] \/ rows' = [r \in Roles |-> Unknown]
    BY <1>8 DEF MetadataReadFails, Roles
  <2>2. QED BY <2>1, <1>r, <1>u, RowTypes
<1>9. CASE CompareSweeps
  <2>1. /\ rows' = [r \in Roles |-> IF first[r] = rows[r] THEN rows[r] ELSE Unknown]
        /\ UNCHANGED <<sweep, first>>
    BY <1>9 DEF CompareSweeps
  <2>2. QED BY <2>1, <1>r, RowTypes
<1>10. QED
  BY <1>1, <1>3, <1>4, <1>5, <1>6, <1>7, <1>8, <1>9 DEF MetadataSteps

LEMMA StepTyped ==
    ASSUME TypeOK, Step
    PROVE  TypeOK'
<1>u. ASSUME Unread PROVE /\ world' \in World /\ clock' \in Nat /\ task' = task /\ task' \in Tasks
                          /\ world' = world
  BY <1>u DEF Unread, TypeOK
<1>d. /\ \A t \in Observers : t # "metadata" /\ t \notin Connectors
      /\ "metadata" \notin Connectors
  BY DEF Observers, RuntimeReads, NodeReads, Connectors
<1>1. CASE Admits
  BY <1>1, <1>u, <1>d, AdmitFrame
  DEF TypeOK, ObserverPc, MetadataPc, ConnectorPc, Compared
<1>2. CASE ObserverSteps
  BY <1>2, <1>u, <1>d, ObserverFrame
  DEF TypeOK, ObserverPc, MetadataPc, ConnectorPc, Compared
<1>3. CASE MetadataSteps
  BY <1>3, <1>u, <1>d, MetadataFrame, RowsTyped
  DEF TypeOK, ObserverPc, MetadataPc, ConnectorPc, Compared
<1>4. CASE ConnectorSteps
  <2>1. pc' \in Compared \cup {"decode"} => first' \in Container
    <3>1. CASE FirstConnectorRead
      BY <3>1 DEF FirstConnectorRead, Report, Compared, TypeOK, World
    <3>2. CASE ~FirstConnectorRead /\ pc # "connector"
      BY <3>2, <1>4, ConnectorFrame DEF TypeOK, ConnectorPc
    <3>3. CASE ~FirstConnectorRead /\ pc = "connector"
      BY <3>3, <1>4 DEF ConnectorSteps, ConnectorImage, ConnectorConfiguration, FinalConnectorRead,
                        DecodeSample, ConnectorReadFails, Report, Compared
    <3>4. QED BY <3>1, <3>2, <3>3
  <2>2. QED
    BY <1>4, <2>1, <1>u, <1>d, ConnectorFrame
    DEF TypeOK, ObserverPc, MetadataPc, ConnectorPc, Compared
<1>5. QED
  BY <1>1, <1>2, <1>3, <1>4 DEF Step, Admits, ObserverSteps, MetadataSteps, ConnectorSteps

(* What a step of an observer leaves of the Engine and its history.        *)
LEMMA StepEngine ==
    ASSUME TypeOK, EngineInv, Step
    PROVE  EngineInv'
<1>1. /\ world' = world /\ clock' = clock
      /\ past' = {world} \/ (past' = past /\ (Reading \/ pc' = "done"))
  <2>1. CASE Admits BY <2>1, AdmitFrame DEF Unread
  <2>2. CASE ObserverSteps BY <2>2, ObserverFrame DEF Unread, Reading
  <2>3. CASE MetadataSteps BY <2>3, MetadataFrame DEF Unread, Reading, TypeOK, MetadataPc
  <2>4. CASE ConnectorSteps BY <2>4, ConnectorFrame DEF Unread, Reading
  <2>5. QED
    BY <2>1, <2>2, <2>3, <2>4 DEF Step, Admits, ObserverSteps, MetadataSteps, ConnectorSteps
<1>2. QED BY <1>1 DEF EngineInv, Reading, Dated, Attached

(* The Engine's changes and the clock keep types and history.              *)
LEMMA EnvironmentEngine ==
    ASSUME TypeOK, EngineInv, Environment
    PROVE  TypeOK' /\ EngineInv'
<1>1. /\ UNCHANGED reader
      /\ clock' = clock + 1 /\ Evolves(world')
      /\ past \subseteq past' /\ past' \subseteq past \cup {world'}
      /\ Reading => world' \in past'
  BY EnvironmentStep
<1>2. TypeOK' BY <1>1 DEF TypeOK, reader, Evolves
<1>3. ASSUME NEW w \in World, Dated(w, clock) PROVE Dated(w, clock + 1)
  BY <1>3 DEF Dated, World, Container, Network, Volume, TypeOK
<1>4. \A w \in past' : Dated(w, clock') BY <1>1, <1>3 DEF Evolves, EngineInv, TypeOK
<1>5. QED BY <1>1, <1>2, <1>4 DEF EngineInv, Evolves, Reading, reader, Dated, Attached

-----------------------------------------------------------------------------
(* The postcondition observer.                                             *)

(* Its container is read while the Engine is in one state of the history.  *)
LEMMA StepObserver ==
    ASSUME TypeOK, EngineInv, ObserverInv, Step
    PROVE  ObserverInv'
<1>d. /\ \A t \in Observers : t # "metadata" /\ t \notin Connectors
      /\ "StartNode" \in Observers /\ "ReconcileNode" \in Observers
  BY DEF Observers, RuntimeReads, NodeReads, Connectors
<1> DEFINE Seen == [network: Network \cup {None}, container: Container \cup {None}]
<1>t. seen \in Seen /\ world.network \in Network \cup {None} /\ world.container \in Container \cup {None}
  BY DEF ObserverInv, TypeOK, World
<1>1. CASE task \notin Observers
  <2>0. MetadataSteps => seen' = seen
    BY DEF MetadataSteps, CheckBinding, ReadImage, ReadContainer, ReadNetwork, ReadVolume, ReadRow,
           ReadHolders, MetadataReadFails, CompareSweeps
  <2>1. task' = task /\ seen' = seen /\ pc' # "idle"
    <3>1. CASE Admits BY <3>1, AdmitFrame DEF Unread
    <3>2. CASE ObserverSteps BY <1>1, <3>2, ObserverFrame
    <3>3. CASE MetadataSteps BY <2>0, <3>3, MetadataFrame DEF Unread
    <3>4. CASE ConnectorSteps
      BY <3>4, ConnectorFrame DEF Unread, ConnectorPc, Compared
    <3>5. QED BY <3>1, <3>2, <3>3, <3>4 DEF Step, Admits, ObserverSteps, MetadataSteps, ConnectorSteps
  <2>2. QED BY <1>1, <2>1, <1>d DEF ObserverInv, ConfirmedHeld
<1>2. CASE Admits
  BY <1>2, AdmitFrame DEF ObserverInv, ConfirmedHeld, TypeOK
<1>3. CASE InspectNetwork
  <2>1. \/ pc' = "container" /\ result' = result
        \/ pc' = "done" /\ (result'.kind # "CONFIRMED" \/ task \notin NodeReads)
    BY <1>3 DEF InspectNetwork, Concludes, Goto, Report
  <2>2. task' = task /\ result.kind = "none" /\ past' = past /\ world \in past
    BY <1>3 DEF InspectNetwork, Unread, TypeOK, EngineInv, Reading
  <2>3. seen' \in Seen /\ seen'.network = world.network
    BY <1>3, <1>t DEF InspectNetwork
  <2>4. pc' = "container" => world.network = None \/ world.network.own = "owned"
    BY <1>3 DEF InspectNetwork, Concludes, Report
  <2>5. pc' # "done" /\ seen'.network # None => OwnedOnce'
    BY <2>1, <2>2, <2>3, <2>4 DEF OwnedOnce
  <2>6. QED BY <2>1, <2>2, <2>3, <2>5 DEF ObserverInv, ConfirmedHeld, NodeReads
<1>4. CASE InspectContainer
  <2> DEFINE c == world.container
  <2>1. /\ pc = "container" /\ task' = task /\ past' = past /\ world \in past /\ task \in Observers
    BY <1>4 DEF InspectContainer, Unread, EngineInv, Reading, Observer, Observers
  <2>2. \/ task \notin {"StartNode", "ReconcileNode"} /\ pc' = "done"
        \/ pc' = "done" /\ result'.kind # "CONFIRMED"
        \/ /\ pc' = "image" /\ result' = result /\ seen.network # None
           /\ c # None /\ c.own # "other" /\ c.running
    <3>1. \/ /\ task \notin {"StartNode", "ReconcileNode"}
             /\ \E k \in {"CONFIRMED", "UNESTABLISHED", "ABSENT", "CONFLICT", "raised"} : Report(k)
          \/ \E k \in {"UNESTABLISHED", "ABSENT", "CONFLICT", "raised"} : Report(k)
          \/ Goto("image") /\ c # None /\ c.own # "other" /\ c.running /\ seen.network # None
      BY <1>4, Zenon DEF InspectContainer, Concludes
    <3>2. QED BY <3>1 DEF Report, Goto
  <2>3. seen' \in Seen /\ seen'.network = seen.network /\ seen'.container = c
    BY <1>4, <1>t DEF InspectContainer
  <2>4. c # None /\ c.own # "other" /\ c.running => HeldOnce'
    BY <2>1, <2>3 DEF HeldOnce, EngineInv, Attached
  <2>5. result.kind = "none" BY <2>1 DEF TypeOK
  <2>6. seen'.network # None => OwnedOnce' BY <2>1, <2>3 DEF ObserverInv, OwnedOnce
  <2>7. QED BY <2>1, <2>2, <2>3, <2>4, <2>5, <2>6 DEF ObserverInv, ConfirmedHeld
<1>5. CASE InspectImage \/ ObserverReadFails
  <2>1. /\ task' = task /\ past' = past /\ pc' = "done" /\ seen' = seen
        /\ \/ result'.kind # "CONFIRMED"
           \/ pc = "image" /\ world.image # 0 /\ world.image = seen.container.image
    BY <1>5 DEF InspectImage, ObserverReadFails, Concludes, Report, Unread
  <2>2. task \in Observers BY <1>5 DEF InspectImage, ObserverReadFails, Observer, Observers
  <2>3. CASE result'.kind # "CONFIRMED" BY <2>1, <2>3, <1>t DEF ObserverInv, ConfirmedHeld
  <2>4. CASE pc = "image" /\ world.image # 0 /\ world.image = seen.container.image
    <3>1. HeldOnce /\ OwnedOnce /\ world \in past
      BY <2>2, <2>4 DEF ObserverInv, EngineInv, Reading
    <3>2. ConfirmedHeld' BY <2>1, <2>4, <3>1 DEF HeldOnce, OwnedOnce, ConfirmedHeld
    <3>3. QED BY <2>1, <3>2, <1>t DEF ObserverInv
  <2>5. QED BY <2>1, <2>3, <2>4
<1>6. CASE MetadataSteps \/ ConnectorSteps
  BY <1>6, <1>1, <1>d, MetadataFrame, ConnectorFrame
<1>7. QED
  BY <1>1, <1>2, <1>3, <1>4, <1>5, <1>6 DEF Step, Admits, MetadataSteps, ConnectorSteps

LEMMA EnvironmentObserver ==
    ASSUME TypeOK, EngineInv, ObserverInv, Environment
    PROVE  ObserverInv'
<1>1. UNCHANGED reader /\ past \subseteq past' BY EnvironmentStep
<1>2. QED BY <1>1 DEF ObserverInv, HeldOnce, OwnedOnce, ConfirmedHeld, reader

-----------------------------------------------------------------------------
(* The connector observer.                                                 *)

(* A container that has changed since it was first read does not change    *)
(* back: a restart and a health sample are newer than all that is known.   *)
LEMMA EnvironmentConnector ==
    ASSUME TypeOK, EngineInv, ConnectorInv, pc # "done", Environment
    PROVE  ConnectorInv'
<1>1. /\ UNCHANGED reader
      /\ clock' = clock + 1 /\ Evolves(world')
      /\ past \subseteq past' /\ past' \subseteq past \cup {world'}
      /\ Reading => world' \in past'
      /\ ~Reading => past' = past
  BY EnvironmentStep
<1>2. /\ task' = task /\ pc' = pc /\ first' = first /\ result' = result /\ result.kind = "none"
  BY <1>1 DEF reader, TypeOK
<1>3. CASE task \in Connectors /\ pc \in Compared
  <2>1. /\ first \in Container /\ first.running
        /\ first.id <= clock /\ first.started <= clock /\ first.sample.end <= clock
        /\ Steady \/ Broken
    BY <1>3 DEF TypeOK, ConnectorInv
  <2>2. /\ clock \in Nat /\ first.id \in Nat /\ first.started \in Nat /\ first.sample.end \in Nat
    BY <2>1 DEF TypeOK, Container
  <2>3. /\ first'.running
        /\ first'.id <= clock' /\ first'.started <= clock' /\ first'.sample.end <= clock'
    BY <1>1, <1>2, <2>1, <2>2
  <2>4. world \in past BY <1>3 DEF EngineInv, Reading, Compared
  <2>5. Steady' \/ Broken'
    <3> DEFINE new == world'.container
    <3>1. SUFFICES ASSUME ~Broken' PROVE Steady' OBVIOUS
    <3>2. /\ new # None /\ new.id = first.id /\ new.running
          /\ new.started = first.started /\ new.sample = first.sample
      BY <3>1, <1>2 DEF Broken
    <3>3. new = world.container
      BY <3>2, <2>1, <2>2, <1>1 DEF Evolves
    <3>4. ~Broken BY <3>2, <3>3 DEF Broken
    <3>5. Steady BY <3>4, <2>1
    <3>6. QED BY <3>3, <3>5, <2>4, <1>1, <1>2 DEF Steady
  <2>6. QED BY <2>3, <2>5, <1>2, <1>3 DEF ConnectorInv, SnapshotStable, Compared
<1>4. CASE ~(task \in Connectors /\ pc \in Compared)
  <2>1. pc = "decode" => past' = past BY <1>1 DEF Reading
  <2>2. QED BY <1>2, <1>4, <2>1 DEF ConnectorInv, Steady, SnapshotStable
<1>5. QED BY <1>3, <1>4

(* The last reading equals the first only if nothing happened in between.  *)
LEMMA StepConnector ==
    ASSUME TypeOK, EngineInv, ConnectorInv, Step
    PROVE  ConnectorInv'
<1>d. \A t \in Observers \cup {"metadata"} : t \notin Connectors
  BY DEF Observers, RuntimeReads, NodeReads, Connectors
<1>1. CASE ~ConnectorSteps
  <2>1. /\ task' = task /\ pc' \notin Compared \cup {"decode"}
        /\ result'.kind \notin {"CONNECTED", "DISCONNECTED"}
    <3>1. CASE Admits
      BY <3>1, AdmitFrame DEF Unread, Compared, TypeOK
    <3>2. CASE ObserverSteps
      BY <3>2, ObserverFrame DEF Unread, Compared, TypeOK
    <3>3. CASE MetadataSteps
      BY <3>3, MetadataFrame DEF Unread, Compared, MetadataPc, TypeOK
    <3>4. QED
      BY <1>1, <3>1, <3>2, <3>3 DEF Step, Admits, ObserverSteps, MetadataSteps, ConnectorSteps
  <2>2. QED BY <2>1 DEF ConnectorInv, SnapshotStable
<1>2. CASE FirstConnectorRead
  <2> DEFINE c == world.container
  <2>1. /\ past' = {world} /\ first' = c /\ world' = world /\ clock' = clock /\ pc' # "decode"
        /\ pc' \in Compared => c # None /\ c.running
        /\ result'.kind \notin {"CONNECTED", "DISCONNECTED"}
    BY <1>2 DEF FirstConnectorRead, Goto, Report, Unread, Compared, TypeOK
  <2>2. c # None => c.id <= clock /\ c.started <= clock /\ c.sample.end <= clock
    BY DEF EngineInv, Dated
  <2>3. Steady' BY <2>1 DEF Steady
  <2>4. QED BY <2>1, <2>2, <2>3 DEF ConnectorInv, SnapshotStable
<1>3. CASE ConnectorImage \/ ConnectorConfiguration \/ ConnectorReadFails
  <2>1. /\ UNCHANGED <<world, clock, task, first, past>>
        /\ pc' \in Compared => pc \in Compared
        /\ pc' # "decode" /\ result'.kind \notin {"CONNECTED", "DISCONNECTED"}
    BY <1>3 DEF ConnectorImage, ConnectorConfiguration, ConnectorReadFails, Goto, Report, Unread,
                Compared, TypeOK
  <2>2. QED BY <2>1 DEF ConnectorInv, SnapshotStable, Steady, Broken
<1>4. CASE FinalConnectorRead
  <2>1. /\ UNCHANGED <<world, clock, task, first, past>> /\ pc \in Compared
        /\ task \in Connectors
        /\ \/ pc' = "decode" /\ world.container # None /\ world.container = first
           \/ pc' = "done"
        /\ result'.kind \notin {"CONNECTED", "DISCONNECTED"}
    BY <1>4, ConnectorFrame DEF ConnectorSteps, FinalConnectorRead, Goto, Report, Unread, Compared, TypeOK
  <2>2. first.running /\ (Steady \/ Broken) BY <2>1 DEF ConnectorInv
  <2>3. pc' = "decode" => Steady BY <2>1, <2>2 DEF Broken
  <2>4. QED BY <2>1, <2>2, <2>3 DEF ConnectorInv, SnapshotStable, Steady, Compared
<1>5. CASE DecodeSample
  <2>1. /\ UNCHANGED <<world, clock, task, first, past>> /\ pc = "decode" /\ task \in Connectors
        /\ pc' = "done"
        /\ result'.kind \in {"CONNECTED", "DISCONNECTED"} => fresh(first) /\ result'.at = clock
    BY <1>5, ConnectorFrame DEF ConnectorSteps, DecodeSample, Report, Unread
  <2>2. first.running /\ Steady /\ first \in Container BY <2>1 DEF ConnectorInv, TypeOK
  <2>3. SnapshotStable'
    <3>1. SUFFICES ASSUME result'.kind \in {"CONNECTED", "DISCONNECTED"}
                   PROVE  /\ \A w \in past' :
                                /\ w.container # None /\ w.container.id = first'.id /\ w.container.running
                                /\ w.container.started = first'.started
                                /\ w.container.sample = first'.sample
                          /\ result'.at - first'.sample.end <= MaxAge
      BY DEF SnapshotStable
    <3>2. first # None BY <2>2, ObservationAssumption
    <3>3. QED BY <3>1, <3>2, <2>1, <2>2 DEF Steady, fresh
  <2>4. QED BY <2>1, <2>3 DEF ConnectorInv, Compared
<1>6. QED BY <1>1, <1>2, <1>3, <1>4, <1>5 DEF ConnectorSteps

-----------------------------------------------------------------------------
(* Recovery metadata.                                                      *)

(* What has gone does not come back: ids are never used twice.             *)
LEMMA EnvironmentMetadata ==
    ASSUME TypeOK, EngineInv, MetadataInv, pc # "done", Environment
    PROVE  MetadataInv'
<1>1. /\ UNCHANGED reader
      /\ clock' = clock + 1 /\ Evolves(world')
      /\ past \subseteq past' /\ past' \subseteq past \cup {world'}
  BY EnvironmentStep
<1>2. /\ task' = task /\ pc' = pc /\ sweep' = sweep /\ rows' = rows /\ first' = first
      /\ result' = result /\ result.kind = "none"
  BY <1>1 DEF reader, TypeOK
<1>t. clock \in Nat /\ \A v \in past : Dated(v, clock) /\ v \in World BY DEF TypeOK, EngineInv
(* Each kind of row, seen from a fixed instant and from the present.       *)
<1>3. ASSUME NEW row \in RowType, NEW w, ContainerRow(w, row)
      PROVE  /\ ContainerRow(w, row)'
             /\ w = world => ContainerRow(world, row)'
  <2>1. row.identity \in Nat BY DEF RowType
  <2>2. QED BY <1>1, <1>3, <1>t, <2>1 DEF ContainerRow, ContainerIn, Evolves
<1>4. ASSUME NEW row \in RowType, NEW w, NetworkRow(w, row)
      PROVE  /\ NetworkRow(w, row)'
             /\ w = world => NetworkRow(world, row)'
  <2>1. row.identity \in Nat BY DEF RowType
  <2>2. QED BY <1>1, <1>4, <1>t, <2>1 DEF NetworkRow, NetworkIn, Evolves
<1>5. ASSUME NEW row \in RowType, NEW w, VolumeRow(w, row)
      PROVE  /\ VolumeRow(w, row)'
             /\ w = world => VolumeRow(world, row)'
  <2>1. CASE row.state # "present" BY <2>1 DEF VolumeRow
  <2>2. CASE row.state = "present"
    <3>1. PICK v \in past : /\ v.volume # None /\ v.volume.stamp = row.identity
                            /\ w.volume = v.volume \/ world.volume = None \/ world.volume.id # v.volume.id
      BY <1>5, <2>2 DEF VolumeRow
    <3>2. v \in past' /\ v.volume.id <= clock BY <1>1, <3>1, <1>t DEF Dated
    <3>3. /\ w.volume = v.volume \/ world'.volume = None \/ world'.volume.id # v.volume.id
          /\ w = world => \/ world'.volume = v.volume \/ world'.volume = None
                          \/ world'.volume.id # v.volume.id
      BY <1>1, <3>1, <3>2 DEF Evolves
    <3>4. QED BY <3>1, <3>2, <3>3 DEF VolumeRow
  <2>3. QED BY <2>1, <2>2
<1>6. CASE task = "metadata" /\ pc # "idle" /\ sweep = 1
  <2>1. SweepRows(world, rows) BY <1>6 DEF MetadataInv
  <2>2. rows["container"] \in RowType /\ rows["network"] \in RowType /\ rows["volume"] \in RowType
    BY DEF TypeOK, Roles
  <2>3. /\ ContainerRow(world, rows["container"])'
        /\ NetworkRow(world, rows["network"])'
        /\ VolumeRow(world, rows["volume"])'
    BY <2>1, <2>2, <1>2, <1>3, <1>4, <1>5 DEF SweepRows, ContainerRow, NetworkRow, VolumeRow,
          ContainerIn, NetworkIn
  <2>4. SweepRows(world, rows)' BY <2>3, <1>2 DEF SweepRows
  <2>5. QED BY <2>4, <1>2, <1>6 DEF MetadataInv, RowsHeldTogether
<1>7. CASE task = "metadata" /\ pc # "idle" /\ sweep = 2
  <2>1. Attaches(first) BY <1>7 DEF MetadataInv
  <2>2. PICK w \in past : SweepRows(w, first) /\ FoundAgain(w) BY <1>7 DEF MetadataInv
  <2>3. first["container"] \in RowType /\ first["network"] \in RowType /\ first["volume"] \in RowType
    BY <1>7 DEF TypeOK, Roles
  <2>4. SweepRows(w, first)'
    BY <2>2, <2>3, <1>2, <1>3, <1>4, <1>5 DEF SweepRows, ContainerRow, NetworkRow, VolumeRow,
          ContainerIn, NetworkIn
  <2>5. Recreated => Recreated' BY <1>1 DEF Recreated
  <2>6. FoundAgain(w)'
    BY <2>2, <2>5, <1>2 DEF FoundAgain, Again, ContainerIn, NetworkIn
  <2>7. Attaches(first)' BY <2>1, <1>2 DEF Attaches
  <2>8. w \in past' BY <1>1
  <2>9. QED BY <2>4, <2>6, <2>7, <2>8, <1>2, <1>7 DEF MetadataInv, RowsHeldTogether
<1>8. CASE task # "metadata" \/ pc = "idle"
  BY <1>2, <1>8 DEF MetadataInv, RowsHeldTogether
<1>9. QED BY <1>6, <1>7, <1>8 DEF TypeOK

(* One row of the current sweep is read: in the first sweep it describes   *)
(* the present; in the second it is compared with the first sweep's.       *)
ReadsRow(role, row) ==
    /\ pc \notin {"idle", "done"} /\ pc' \notin {"idle", "compare", "done"}
    /\ rows' = [rows EXCEPT ![role] = row]
    /\ UNCHANGED <<world, clock, task, sweep, first, result, past>>

LEMMA StepReads ==
    ASSUME TypeOK, EngineInv, MetadataInv, task = "metadata",
           NEW role \in Roles, NEW row \in RowType, ReadsRow(role, row),
           role = "container" => ContainerRow(world, row),
           role = "network" => NetworkRow(world, row),
           role = "volume" => VolumeRow(world, row),
           role = "container" /\ row.state = "present" =>
               world.container # None /\ world.container.id = row.identity,
           role = "network" /\ row.state = "present" =>
               world.network # None /\ world.network.id = row.identity,
           role = "volume" /\ row.state = "present" =>
               world.volume # None /\ world.volume.stamp = row.identity,
           Reading
    PROVE  MetadataInv'
<1>1. /\ pc \notin {"idle", "done"} /\ pc' \notin {"idle", "compare", "done"}
      /\ world' = world /\ clock' = clock /\ past' = past /\ task' = task
      /\ sweep' = sweep /\ first' = first /\ result' = result /\ result.kind = "none"
      /\ rows' = [rows EXCEPT ![role] = row]
  BY DEF ReadsRow, TypeOK
<1>2. /\ \A r \in Roles : rows'[r] = IF r = role THEN row ELSE rows[r]
      /\ "container" \in Roles /\ "network" \in Roles /\ "volume" \in Roles
  BY <1>1 DEF TypeOK, Roles
<1>3. CASE sweep = 1
  <2>1. SweepRows(world, rows) BY <1>1, <1>3 DEF MetadataInv
  <2>2. /\ ContainerRow(world, rows'["container"]) /\ NetworkRow(world, rows'["network"])
        /\ VolumeRow(world, rows'["volume"])
    BY <2>1, <1>2 DEF SweepRows
  <2>3. SweepRows(world, rows)'
    BY <2>2, <1>1 DEF SweepRows, ContainerRow, NetworkRow, VolumeRow, ContainerIn, NetworkIn
  <2>4. QED BY <2>3, <1>1, <1>3 DEF MetadataInv, RowsHeldTogether
<1>4. CASE sweep = 2
  <2>1. Attaches(first) BY <1>1, <1>4 DEF MetadataInv
  <2>2. PICK w \in past : SweepRows(w, first) /\ FoundAgain(w) BY <1>1, <1>4 DEF MetadataInv
  <2>3. world \in past BY DEF EngineInv
  <2>4. Again(first["container"], rows'["container"]) => ContainerIn(w, first["container"])
    BY <2>2, <1>2 DEF SweepRows, ContainerRow, FoundAgain, Again
  <2>5. Again(first["network"], rows'["network"]) => NetworkIn(w, first["network"])
    BY <2>2, <1>2 DEF SweepRows, NetworkRow, FoundAgain, Again
  <2>6. Again(first["volume"], rows'["volume"]) =>
          Recreated \/ (w.volume # None /\ w.volume.stamp = first["volume"].identity)
    <3>1. CASE role # "volume" BY <3>1, <2>2, <1>2 DEF FoundAgain
    <3>2. CASE role = "volume" /\ Again(first["volume"], row)
      <4>1. PICK v \in past :
              /\ v.volume # None /\ v.volume.stamp = first["volume"].identity
              /\ w.volume = v.volume \/ world.volume = None \/ world.volume.id # v.volume.id
        BY <2>2, <3>2 DEF SweepRows, VolumeRow, Again
      <4>2. world.volume # None /\ world.volume.stamp = v.volume.stamp
        BY <4>1, <3>2 DEF Again
      <4>3. CASE w.volume = v.volume BY <4>1, <4>3
      <4>4. CASE world.volume.id # v.volume.id
        BY <4>1, <4>2, <4>4, <2>3 DEF Recreated
      <4>5. QED BY <4>1, <4>2, <4>3, <4>4
    <3>3. QED BY <3>1, <3>2, <1>2
  <2>7. FoundAgain(w)'
    BY <2>4, <2>5, <2>6, <1>1 DEF FoundAgain, Recreated, Again, ContainerIn, NetworkIn
  <2>8. SweepRows(w, first)'
    BY <2>2, <1>1 DEF SweepRows, ContainerRow, NetworkRow, VolumeRow, ContainerIn, NetworkIn
  <2>9. Attaches(first)' BY <2>1, <1>1 DEF Attaches
  <2>10. QED BY <2>7, <2>8, <2>9, <1>1, <1>4 DEF MetadataInv, RowsHeldTogether
<1>5. QED BY <1>3, <1>4 DEF TypeOK

(* The end of a sweep: the first is kept with the present as its instant,  *)
(* the second is compared.                                                 *)
LEMMA StepHolders ==
    ASSUME TypeOK, EngineInv, MetadataInv, task = "metadata", ReadHolders
    PROVE  MetadataInv'
<1> DEFINE held == world.container # None /\ world.container.mounts
           mark == IF held THEN "observed" ELSE "not-observed"
           read == [rows EXCEPT !["volume"].attachment = mark]
           k == Correlated(read)
<1>1. /\ pc = "holders" /\ UNCHANGED <<world, clock, task, past>>
      /\ world \in past /\ result.kind = "none"
  BY DEF ReadHolders, Unread, EngineInv, Reading, TypeOK
<1>2. \/ pc' = "done" /\ result'.kind = "unbound"
      \/ /\ sweep = 1 /\ sweep' = 2 /\ first' = k /\ rows' = [r \in Roles |-> Unknown]
         /\ pc' = "binding" /\ result' = result
      \/ /\ sweep = 2 /\ sweep' = 2 /\ first' = first /\ rows' = k
         /\ pc' = "compare" /\ result' = result
  BY DEF ReadHolders, Goto, Report
<1>3. /\ "container" \in Roles /\ "network" \in Roles /\ "volume" \in Roles
      /\ rows \in [Roles -> RowType]
  BY DEF TypeOK, Roles
<1>4. /\ read \in [Roles -> RowType]
      /\ read["container"] = rows["container"] /\ read["network"] = rows["network"]
      /\ read["volume"].state = rows["volume"].state
      /\ read["volume"].identity = rows["volume"].identity
  <2>1. mark \in {"observed", "not-observed"} /\ rows["volume"] \in RowType BY <1>3
  <2> HIDE DEF mark
  <2> DEFINE row == [rows["volume"] EXCEPT !.attachment = mark]
  <2>2. /\ row \in RowType /\ row.state = rows["volume"].state
        /\ row.identity = rows["volume"].identity
    BY <2>1 DEF RowType
  <2>3. read = [rows EXCEPT !["volume"] = row] BY <1>3
  <2> HIDE DEF row
  <2>4. QED BY <2>2, <2>3, <1>3
<1> HIDE DEF read
<1>5. /\ k \in [Roles -> RowType]
      /\ k["container"].state = rows["container"].state
      /\ k["container"].identity = rows["container"].identity
      /\ k["container"].facts = rows["container"].facts
      /\ k["container"].own = rows["container"].own \/ k["container"].own = "conflicting"
      /\ k["container"].own = "matching" /\ k["container"].facts # None
            /\ k["network"].state = "present" =>
                k["container"].facts.net = k["network"].identity
      /\ k["network"] = rows["network"]
      /\ k["volume"].state = "present" => /\ rows["volume"].state = "present"
                                          /\ k["volume"].identity = rows["volume"].identity
  <2>1. /\ k["volume"] = Unknown \/ k["volume"] = read["volume"] BY <1>4, CorrelatedRows
  <2>2. k["volume"].state = "present" => /\ rows["volume"].state = "present"
                                         /\ k["volume"].identity = rows["volume"].identity
    BY <2>1, <1>4, RowTypes
  <2>3. QED BY <1>4, <2>2, CorrelatedRows
<1> HIDE DEF k
<1>6. CASE pc' = "done" /\ result'.kind = "unbound"
  BY <1>6 DEF MetadataInv, RowsHeldTogether
<1>7. CASE /\ sweep = 1 /\ sweep' = 2 /\ first' = k /\ rows' = [r \in Roles |-> Unknown]
           /\ pc' = "binding" /\ result' = result
  <2>1. SweepRows(world, rows) BY <1>1, <1>7 DEF MetadataInv
  <2>2. ContainerRow(world, k["container"])
    BY <2>1, <1>5 DEF SweepRows, ContainerRow, ContainerIn
  <2>3. NetworkRow(world, k["network"]) /\ VolumeRow(world, k["volume"])
    BY <2>1, <1>5 DEF SweepRows, NetworkRow, VolumeRow
  <2>4. SweepRows(world, first)'
    BY <2>2, <2>3, <1>1, <1>7
    DEF SweepRows, ContainerRow, NetworkRow, VolumeRow, ContainerIn, NetworkIn
  <2>5. Attaches(k) BY <2>2, <1>5 DEF Attaches, ContainerRow
  <2>6. Attaches(first)' BY <2>5, <1>7 DEF Attaches
  <2>7. \A r \in Roles : rows'[r].state = "unknown" BY <1>7, RowTypes
  <2>8. FoundAgain(world)' BY <2>7, <1>3 DEF FoundAgain, Again
  <2>9. QED BY <2>4, <2>6, <2>8, <1>1, <1>7 DEF MetadataInv, RowsHeldTogether
<1>8. CASE /\ sweep = 2 /\ sweep' = 2 /\ first' = first /\ rows' = k
           /\ pc' = "compare" /\ result' = result
  <2>1. Attaches(first) BY <1>1, <1>8 DEF MetadataInv
  <2>2. PICK w \in past : SweepRows(w, first) /\ FoundAgain(w) BY <1>1, <1>8 DEF MetadataInv
  <2>3. SweepRows(w, first)'
    BY <2>2, <1>1, <1>8 DEF SweepRows, ContainerRow, NetworkRow, VolumeRow, ContainerIn, NetworkIn
  <2>4. FoundAgain(w)'
    BY <2>2, <1>1, <1>5, <1>8 DEF FoundAgain, Again, Recreated, ContainerIn, NetworkIn
  <2>5. Attaches(first)' BY <2>1, <1>8 DEF Attaches
  <2>6. QED BY <2>3, <2>4, <2>5, <1>1, <1>8 DEF MetadataInv, RowsHeldTogether
<1>9. QED BY <1>2, <1>6, <1>7, <1>8

(* The comparison keeps only what both sweeps report: what is present was  *)
(* found again and so was there between them.                              *)
LEMMA StepCompares ==
    ASSUME TypeOK, MetadataInv, task = "metadata", CompareSweeps
    PROVE  MetadataInv'
<1>1. /\ pc = "compare" /\ sweep = 2 /\ pc' = "done" /\ UNCHANGED <<past, first>>
      /\ rows' = [r \in Roles |-> IF first[r] = rows[r] THEN rows[r] ELSE Unknown]
  BY DEF CompareSweeps, Report, MetadataInv
<1>2. PICK w \in past : SweepRows(w, first) /\ FoundAgain(w) BY <1>1 DEF MetadataInv
<1>3. Attaches(first) BY <1>1 DEF MetadataInv
<1>4. "container" \in Roles /\ "network" \in Roles /\ "volume" \in Roles BY DEF Roles
<1>5. ASSUME NEW r \in Roles, rows'[r].state = "present" \/ rows'[r].own = "matching"
      PROVE  rows'[r] = first[r] /\ rows[r] = first[r]
  BY <1>1, <1>5, RowTypes
<1>6. rows'["container"].state = "present" => ContainerIn(w, rows'["container"])
  BY <1>2, <1>4, <1>5 DEF FoundAgain, Again
<1>7. rows'["network"].state = "present" => NetworkIn(w, rows'["network"])
  BY <1>2, <1>4, <1>5 DEF FoundAgain, Again
<1>8. rows'["volume"].state = "present" =>
        Recreated \/ (w.volume # None /\ w.volume.stamp = rows'["volume"].identity)
  BY <1>2, <1>4, <1>5 DEF FoundAgain, Again
<1>9. rows'["container"].own = "matching" /\ rows'["network"].state = "present" =>
        w.container.net = w.network.id
  <2>1. SUFFICES ASSUME rows'["container"].own = "matching", rows'["network"].state = "present"
                 PROVE  w.container.net = w.network.id
    OBVIOUS
  <2>2. /\ rows'["container"] = first["container"] /\ rows'["network"] = first["network"]
    BY <2>1, <1>4, <1>5
  <2>3. rows'["container"].state = "present"
    BY <2>1, <2>2, <1>2 DEF SweepRows, ContainerRow
  <2>4. first["container"].facts.net = first["network"].identity
    BY <2>1, <2>2, <1>3 DEF Attaches
  <2>5. QED BY <2>1, <2>2, <2>3, <2>4, <1>6, <1>7 DEF ContainerIn, NetworkIn
<1>10. RowsHeldTogether'
  BY <1>1, <1>6, <1>7, <1>8, <1>9 DEF RowsHeldTogether, Recreated, ContainerIn, NetworkIn
<1>11. QED BY <1>1, <1>10 DEF MetadataInv

LEMMA StepMetadata ==
    ASSUME TypeOK, EngineInv, MetadataInv, Step
    PROVE  MetadataInv'
<1>d. /\ \A t \in Observers \cup Connectors : t # "metadata"
      /\ "image" \in Roles /\ "container" \in Roles /\ "network" \in Roles /\ "volume" \in Roles
  BY DEF Observers, RuntimeReads, NodeReads, Connectors, Roles
<1>w. /\ world.image \in Nat /\ world.container \in Container \cup {None}
      /\ world.network \in Network \cup {None} /\ world.volume \in Volume \cup {None}
      /\ Dated(world, clock)
  BY DEF TypeOK, World, EngineInv
<1>1. CASE Admits
  <2>1. /\ UNCHANGED <<sweep, rows, first>> /\ pc = "idle" /\ pc' \notin {"idle", "compare"}
        /\ task' = task /\ result'.kind \notin {"bound", "complete"}
    BY <1>1, AdmitFrame DEF Unread, TypeOK
  <2>2. task = "metadata" => sweep = 1 /\ \A r \in Roles : rows[r] = Unknown
    BY <2>1 DEF MetadataInv
  <2>3. task = "metadata" => SweepRows(world, rows)'
    BY <2>1, <2>2, <1>d, RowTypes DEF SweepRows, ContainerRow, NetworkRow, VolumeRow
  <2>4. QED BY <2>1, <2>2, <2>3 DEF MetadataInv, RowsHeldTogether
<1>2. CASE ObserverSteps \/ ConnectorSteps
  BY <1>2, <1>d, ObserverFrame, ConnectorFrame DEF MetadataInv, RowsHeldTogether, Unread, TypeOK
<1>3. CASE CheckBinding
  <2>1. /\ pc = "binding" /\ UNCHANGED <<world, clock, task, sweep, first, past>>
        /\ \/ pc' = "image" /\ UNCHANGED <<rows, result>>
           \/ pc' = "done" /\ result'.kind = "unbound"
    BY <1>3 DEF CheckBinding, Goto, Report, Unread
  <2>2. task = "metadata" /\ result.kind = "none"
    BY <1>3, <2>1, MetadataFrame DEF MetadataSteps, TypeOK
  <2>3. CASE pc' = "done" BY <2>1, <2>2, <2>3 DEF MetadataInv, RowsHeldTogether
  <2>4. CASE pc' = "image"
    <3>1. UNCHANGED <<rows, result>> BY <2>1, <2>4
    <3>2. sweep = 1 => SweepRows(world, rows)'
      BY <2>1, <2>2, <3>1 DEF MetadataInv, SweepRows, ContainerRow, NetworkRow, VolumeRow,
            ContainerIn, NetworkIn
    <3>3. sweep = 2 => /\ Attaches(first)'
                       /\ \E w \in past' : SweepRows(w, first)' /\ FoundAgain(w)'
      BY <2>1, <2>2, <3>1 DEF MetadataInv, Attaches, SweepRows, ContainerRow, NetworkRow, VolumeRow,
            ContainerIn, NetworkIn, FoundAgain, Again, Recreated
    <3>4. QED BY <2>1, <2>2, <2>4, <3>1, <3>2, <3>3 DEF MetadataInv, RowsHeldTogether
  <2>5. QED BY <2>1, <2>3, <2>4
<1>r. ASSUME NEW label, NEW role \in Roles, NEW row \in RowType, NEW next,
             ReadRow(label, role, row, next), label \notin {"idle", "decode", "done"},
             next \notin {"idle", "compare", "done"}
      PROVE  ReadsRow(role, row) /\ Reading /\ task = "metadata"
  BY <1>r DEF ReadRow, ReadsRow, Goto, Unread, Reading
<1>4. CASE ReadImage
  <2> DEFINE row == IF world.image = 0 THEN Absent
                    ELSE Row("present", IF world.image = 1 THEN "not-applicable" ELSE "conflicting",
                             world.image)
  <2>1. row \in RowType BY <1>w, RowTypes
  <2>2. ReadRow("image", "image", row, "container") BY <1>4 DEF ReadImage
  <2> HIDE DEF row
  <2>3. ReadsRow("image", row) /\ Reading /\ task = "metadata" BY <2>1, <2>2, <1>d, <1>r
  <2>4. QED BY <2>1, <2>3, <1>d, StepReads
<1>5. CASE ReadContainer
  <2> DEFINE c == world.container
             exact == rows["image"].state = "present" /\ rows["image"].own = "not-applicable"
             holds == /\ c.own = "owned" /\ c.net # 0 /\ c.mounts
                      /\ exact => c.image = rows["image"].identity
             own == IF holds /\ ~exact THEN "unestablished" ELSE Matching(holds)
             facts == [net |-> c.net, mounts |-> c.mounts, image |-> c.image, running |-> c.running]
             present == [Row("present", own, c.id) EXCEPT !.facts = facts]
             row == IF c = None THEN Absent ELSE present
  <2>1. own \in {"unestablished", "matching", "conflicting"} BY DEF Matching
  <2>2. c # None => facts \in Facts /\ c.id \in Nat /\ facts.net = c.net BY <1>w DEF Facts, Container
  <2>3. c # None => c.id <= clock BY <1>w DEF Dated
  <2>4. ReadRow("container", "container", row, "network") BY <1>5 DEF ReadContainer
  <2> HIDE DEF own, facts
  <2>5. c # None => /\ present \in RowType /\ present.state = "present" /\ present.identity = c.id
                    /\ present.facts = facts
    BY <2>1, <2>2 DEF Row, RowType
  <2> HIDE DEF present, c
  <2>6. facts \in Facts => facts # None BY ObservationAssumption
  <2>7. /\ row \in RowType
        /\ row.state = "present" => c # None /\ c.id = row.identity
        /\ row.own = "matching" => row.state = "present"
        /\ row.state = "present" => row.facts # None /\ row.facts.net = c.net /\ row.identity <= clock
    BY <2>2, <2>3, <2>5, <2>6, RowTypes
  <2> HIDE DEF row
  <2>8. ReadsRow("container", row) /\ Reading /\ task = "metadata" BY <2>4, <2>7, <1>d, <1>r
  <2>9. ContainerRow(world, row) BY <2>7 DEF ContainerRow, ContainerIn, c
  <2>10. row.state = "present" => world.container # None /\ world.container.id = row.identity
    BY <2>7 DEF c
  <2>11. QED BY <2>7, <2>8, <2>9, <2>10, <1>d, StepReads
<1>6. CASE ReadNetwork
  <2> DEFINE n == world.network
             row == IF n = None THEN Absent ELSE Row("present", Matching(n.own = "owned"), n.id)
  <2>1. Matching(n.own = "owned") \in {"matching", "conflicting"} BY DEF Matching
  <2>2. n # None => n.id \in Nat /\ n.id <= clock BY <1>w DEF Network, Dated
  <2>3. ReadRow("network", "network", row, "volume") BY <1>6 DEF ReadNetwork
  <2>4. row \in RowType /\ (row.state = "present" => n # None /\ n.id = row.identity)
    BY <2>1, <2>2, RowTypes
  <2> HIDE DEF row
  <2>5. ReadsRow("network", row) /\ Reading /\ task = "metadata" BY <2>3, <2>4, <1>d, <1>r
  <2>6. NetworkRow(world, row) BY <2>2, <2>4 DEF NetworkRow, NetworkIn
  <2>7. QED BY <2>4, <2>5, <2>6, <1>d, StepReads
<1>7. CASE ReadVolume
  <2> DEFINE v == world.volume
             row == IF v = None THEN Absent ELSE Row("present", "matching", v.stamp)
  <2>1. v # None => v.stamp \in Nat BY <1>w DEF Volume
  <2>2. ReadRow("volume", "volume", row, "holders") BY <1>7 DEF ReadVolume
  <2>3. row \in RowType /\ (row.state = "present" => v # None /\ v.stamp = row.identity)
    BY <2>1, RowTypes
  <2> HIDE DEF row
  <2>4. ReadsRow("volume", row) /\ Reading /\ task = "metadata" BY <2>2, <2>3, <1>d, <1>r
  <2>5. world \in past BY <2>4 DEF EngineInv
  <2>6. VolumeRow(world, row) BY <2>3, <2>5 DEF VolumeRow
  <2>7. QED BY <2>3, <2>4, <2>6, <1>d, StepReads
<1>8. CASE ReadHolders
  BY <1>8, StepHolders, MetadataFrame DEF MetadataSteps
<1>9. CASE MetadataReadFails
  <2>1. pc' = "done" /\ result'.kind \in {"unbound", "raised"}
    BY <1>9 DEF MetadataReadFails, Report
  <2>2. QED BY <2>1 DEF MetadataInv, RowsHeldTogether
<1>10. CASE CompareSweeps
  BY <1>10, StepCompares, MetadataFrame DEF MetadataSteps
<1>11. QED
  BY <1>1, <1>2, <1>3, <1>4, <1>5, <1>6, <1>7, <1>8, <1>9, <1>10
  DEF Step, Admits, ObserverSteps, ConnectorSteps

-----------------------------------------------------------------------------
(* The invariant, and what it says.                                        *)

LEMMA InitObservation ==
    ASSUME Init
    PROVE  ObservationInv
<1>1. /\ world \in World /\ Dated(world, 1) /\ Attached(world)
  BY ObservationAssumption DEF Init
<1>2. TypeOK BY <1>1, RowTypes DEF Init, TypeOK, Tasks, Observers, ObserverPc, MetadataPc, ConnectorPc,
        Compared
<1>3. EngineInv BY <1>1 DEF Init, EngineInv, Reading
<1>4. ObserverInv /\ ConnectorInv
  BY DEF Init, ObserverInv, ConfirmedHeld, ConnectorInv, SnapshotStable, Compared
<1>5. MetadataInv BY DEF Init, MetadataInv, RowsHeldTogether
<1>6. QED BY <1>2, <1>3, <1>4, <1>5 DEF ObservationInv

LEMMA NextObservation ==
    ASSUME ObservationInv, [Next]_vars
    PROVE  ObservationInv'
<1>1. TypeOK /\ EngineInv /\ ObserverInv /\ ConnectorInv /\ MetadataInv BY DEF ObservationInv
<1>2. CASE Step
  BY <1>1, <1>2, StepTyped, StepEngine, StepObserver, StepConnector, StepMetadata DEF ObservationInv
<1>3. CASE pc # "done" /\ Environment
  BY <1>1, <1>3, EnvironmentEngine, EnvironmentObserver, EnvironmentConnector, EnvironmentMetadata
  DEF ObservationInv
<1>4. CASE UNCHANGED vars
  <2>1. TypeOK' /\ EngineInv'
    BY <1>1, <1>4 DEF vars, reader, TypeOK, EngineInv, Dated, Attached, Reading
  <2>2. ObserverInv' /\ ConnectorInv'
    BY <1>1, <1>4 DEF vars, reader, ObserverInv, HeldOnce, OwnedOnce, ConfirmedHeld, ConnectorInv, Steady, Broken,
          SnapshotStable
  <2>3. MetadataInv'
    BY <1>1, <1>4 DEF vars, reader, MetadataInv, SweepRows, ContainerRow, NetworkRow, VolumeRow,
          ContainerIn, NetworkIn, FoundAgain, Again, Recreated, Attaches, RowsHeldTogether
  <2>4. QED BY <2>1, <2>2, <2>3 DEF ObservationInv
<1>5. QED BY <1>2, <1>3, <1>4 DEF Next

LEMMA ObservationInvariant == Spec => []ObservationInv
BY InitObservation, NextObservation, PTL DEF Spec

(* A start or reconcile that the postcondition observer (_inspect in       *)
(* docker/observer.py) confirms: the node's own container once ran on an   *)
(* existing network, with the image the reference named, and an owned      *)
(* network existed, however often the Engine changed between the reads.    *)
THEOREM ConfirmedWasHeld == Spec => []ConfirmedHeld
<1>1. ObservationInv => ConfirmedHeld BY DEF ObservationInv, ObserverInv
<1>2. QED BY <1>1, ObservationInvariant, PTL

(* The rows recovery metadata reports present after its two sweeps         *)
(* (docker/recovery_metadata.py) were in the Engine together, a matching   *)
(* container attached to the reported network, unless a volume was         *)
(* recreated within the resolution of CreatedAt.                           *)
THEOREM RowsWereTogether == Spec => []RowsHeldTogether
<1>1. ObservationInv => RowsHeldTogether BY DEF ObservationInv, MetadataInv
<1>2. QED BY <1>1, ObservationInvariant, PTL

(* A connection the connector observer reports                             *)
(* (docker/connector_connection.py) is of a container that neither         *)
(* stopped, restarted nor left a newer health sample between the readings, *)
(* with a sample no older than the limit.                                  *)
THEOREM SnapshotIsStable == Spec => []SnapshotStable
<1>1. ObservationInv => SnapshotStable BY DEF ObservationInv, ConnectorInv
<1>2. QED BY <1>1, ObservationInvariant, PTL

=============================================================================
