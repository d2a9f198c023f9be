# A TLA+ model of control-plane-kit-interpreters

The package turns prepared effect requests of *Operations* into calls to
providers: a Docker Engine, the Cloudflare API, DNS, HTTP, Redis and PostgreSQL
services, and a secret provider. It keeps no durable state. What makes it hard
is that every effect is a sequence of provider calls, that nothing inside it
serialises effects, and that its result is the only thing Operations ever learns:
a *succeeded* or *failed* that is not true cannot be repaired later.

All source paths below are relative to `src/src/control_plane_kit_interpreters/`.

## Inventory

| Part | State | Operations | Hard behaviour | Correct when |
|---|---|---|---|---|
| Docker Engine behind `docker/sdk.py` | containers, networks, images, volumes | create, connect, start, stop, remove, inspect, pull | names are reused, ids are not; an answer can be lost and the call executed late | external; modelled as used |
| Ordinary effects, `docker/runtime.py` | none between calls | Start/Reconcile/Stop/Remove for node and runtime | inspect by name, then act by name; remove before create | acts on its own resources only; final results are final |
| Configured effects, `docker/runtime.py` 400-790 | one `ConfigurationAttempt` | configured Start and Reconcile, selected secrets | long staging between reading a container and replacing it | replaces the exact container; receipts and leftovers are true |
| Configuration instances, `docker/configuration.py`, `configuration_cleanup.py` | named volumes | stage, install, verify, clean up | volumes have no id; the Engine creates missing ones silently | installed material stays; rows tell what was deleted |
| Invocation boundary, `invocations.py`, `secrets.py`, `docker/runtime.py` 230-500, `docker/sdk.py` 640-800 | permits, prepared secrets, a client, TLS files | `execute`, `execute_with_authority` | failures and cancellations in every bracket | permits precede I/O; clients and files are released |
| Verification, `verification.py`, `timing.py`, `probes/security.py`, `probes/public_dns.py` | pinned address, attempt | HTTP, Redis, PostgreSQL, managed health | DNS changes between queries and attempts | only vetted addresses; verdict follows from attempts |
| Named ingress, `cloudflare/client.py` | tunnel, DNS record, token in custody | create, rebind, deactivate, release, teardown | compensation that can fail; lost answers; other owners | failures name what is left; success serves |
| Observers, `docker/observer.py`, `recovery_metadata.py`, `connector_connection.py` | none | observe a postcondition, a node's recovery metadata, a connector's connection | one statement from several Engine reads, with the Engine changing between them | what is reported held at one instant |
| Secret provider, `secret_provider/*` | none; versions and policy are the provider's | write, generate, resolve, read metadata, revoke, policy commands | one request, never retried, that may be executed after the client gave up; answers that are lost, garbled or about another version | a definite failure changed nothing; receipts are true |
| Signed health reads, `docker/managed_health.py`, `management_health.py`, `probes/health_*.py`, `local_health.py`, `gateway.py` | permits, connections | one signed read through a gateway | two clocks, a deadline and a cancellation at every await | credentials leave once and in time; codes are true; everything is released |

The parts meet in four ways. `execute` (InvokedDispatch) brackets one effect,
which is a run of calls of NodeEffects, ConfigurationNode or
ConfigurationVolumes, or a list of checks of VerificationChecks. ConfigurationNode
runs over the same Engine and among the same ordinary effects as NodeEffects, and
uses what ConfigurationVolumes stages. CloudflareIngress shares only the
invocation port with the rest; the custodian it calls, and the resolver
InvokedDispatch and HealthRead call, are adapters of SecretCustody, which models
them with the provider behind them. The observers of Observations read the Engine
that effects change.

## Modules

**DockerDaemon** is the Engine as the SDK adapter sees it, for one node name:
the container under the name, the network of each runtime, the images, and the
set `late` of calls the client gave up on and that may still be executed.
`Accepts` says whether the Engine executes a call, `Apply` what it then does. The
adapter looks a name up and mutates through the object it got, so a call carries
the container's id.

**NodeEffects** EXTENDS DockerDaemon. One action per provider call of the eight
ordinary operations, `pc[e]` naming the next call. `Mutate` is the one place where
a call may be answered, rejected, lost before or after it took effect, or left
late; `ReadFails` is the same for inspections. `seen` is what the code keeps in
`inspection`, `action` the evidence of that name, `result` the kind of the
`RuntimeEffectResult`. `issued`, `hit`, `mine` and `witness` are history variables
that only properties read. `Contract` instantiates EffectContract with the
Engine's durable state, the results and the effects with a late call. Labels are abstracted to the coordinates the code
compares (runtime, plan, graph, material fingerprint, well-formedness).

**ConfigurationNode** EXTENDS NodeEffects with the configured operations and the
`ConfigurationAttempt` record. Its steps interleave with the ordinary ones.

**ConfigurationVolumes** is about the volumes below it: stagers create, fill and
mount them, cleaners delete them, and every helper container makes the Engine
create a missing volume without labels. A removal whose answer is lost was
executed, was not, or waits in `late` and deletes whatever has the name when the
Engine comes to it. `workload`, chosen in Init, says what Operations dispatches and
whether it keeps effects that share an allocation apart. Such a reservation lasts
while the effect is active or a removal it lost is outstanding (`Holds`), which is
how the model reads that Operations owns "reservation, prior-invocation completion
and current-membership exclusion" (`docs/implementation/docker-configuration-cleanup.md`).

**InvokedDispatch** is one call of the interpreter, with the effect as an
answer. `todo` is the list of sections still ahead (secret grants, dispatch, or
acquisition and checks), each one admitted, called and acknowledged. `permits` is
the port's durable record. It assumes what `invocations.py` asks of a port: that
its failures raise its `control_error`. The one cancellation modelled is
`CancelledError`. The TLS directory is `present` from the moment it is made, so a
failing acquisition (`ConnectTls`) has to remove it too; `stuck` is a removal the
file system refused. The sealed resolver refuses a grant that was not prepared;
since preparation covers every grant the dispatch asks for, no run takes that branch.

**VerificationChecks** is one check: authorization, the A and AAAA queries, the
pin, and the attempts. `WaitForHealthy` builds only runtime-private endpoints, so
the public branch of `_execute_http_health_check` (`docker/runtime.py` 1140-1183)
cannot be reached from it and is left out.

**CloudflareIngress** has the five operations as sequences of API and custodian
calls. `Request` is the one place where an answer is lost; `Stages` are the steps
of compensation, `failed` the ones the error names. `dispatch` is what Operations
asks of the effects, chosen in Init. Records of other owners come and go, under one
hypothesis: none points to a tunnel of an effect, whose id nobody else knows.
Adopting such a record after an ambiguous creation is what
`docs/implementation/ingress-invocations.md` accepts as proof of ownership.

**EffectContract** is the abstract specification of an effect as the layer that
dispatches it sees it: it works on the world while it is pending, reports once,
and afterwards changes nothing, unless it reported an uncertain outcome, in which
case one call may still land, once. Its three variables are the provider's state,
the reported outcomes and which effects owe a call.

**SecretCustody** is the secret provider client on one reference, with two
concurrent uses. An operation is one HTTP request: `Send` puts it on the `wire`,
`Serve` is the provider, which executes it whether or not anybody still waits,
`Receive` and `Disturbed` are the two ways the client goes on. `Decoded` and
`Disturbances` follow `_request_json` and `_raise_provider_error`,
`MetadataMatches` the checks each operation makes of the answer. `Adapted` is what
custodian, resolver, metadata reader and policy client make of the outcome, and
`Conclude` includes the compensating revocation of the legacy custody path in
`cloudflare/client.py`. The provider is external: it may refuse anything, keeps
revocations, replays a correlation, and may describe a wrong version.

**Observations** is one observation, of any of the ten kinds, and an Engine that
anyone changes between its reads. Every read is an action; `past` remembers the
states of the Engine while it was read. The postcondition observer reads network,
container and image; recovery metadata makes two sweeps over image, container,
network, volume and the volume's holders and compares them; the connector
observer reads the container by name, then image and configuration, then the
container by id. Container and network ids are times and are not reused; volumes
have only CreatedAt, and two may share it.

**HealthRead** is one signed read. `pc` stands at an await or at a step between
two; `Expire` and `Cancel` strike at every await, `Break` wherever the peer is
involved, closing included; `CloseConnection` leaves one context manager and `Exit`
records the transport permit. `Send` checks window and deadline and hands the
request to httpx, which connects (`Connected`) before anything is written. httpx's
timeout is of one socket operation: it is due only while the socket is `silent`, and
`Trickle` is any byte that restarts it without being part of an answer. `wall` is the clock the grants' window is compared with and may
be set to any value; `elapsed` is the event loop's, which only advances.
`SignedGatewayProbeClient` runs through the same steps without permits, deadline
and window, after it has had its address authorised (`AuthorizeProbe`).

Eight modules hold the theorems: **NodeEffectsProofs** those of NodeEffects, its
refinement, and ConfigurationNode; **IngressProofs** those of CloudflareIngress;
**ConfigurationVolumesProofs**, **InvokedDispatchProofs**, **VerificationProofs**,
**SecretCustodyProofs**, **ObservationProofs** and **HealthReadProofs** each those
of the module it names. The `MC*` modules give the constants for TLC. A definition marked *Mutant* is a deliberate bug that shows that a property
can fail; no specification uses it.

## Runs

| Run | Question | Bounds |
|---|---|---|
| `node_effects` | Do two effects of one owner act only on what they own, succeed only over what agrees with them, keep the contract, and always report? | all eight operations, two materials and plans, a privileged one, eight initial containers, three initial networks; no default network, so that ReconcileNode can succeed |
| `node_two_owners` | The first for two runtimes that name one node: violated | three effects are needed: one removes, one recreates, one acts on a stale check |
| `node_bridge` | Does a created container pass its own check on an Engine with a default bridge: violated | two effects; one suffices |
| `configuration_node` | Does replacement act on the exact container, and do receipt and attempt tell the truth? | two effects, ordinary or configured, two runtimes, two selections, with and without secrets |
| `volumes` | Does installed configuration survive cleanup under reservations, and which promises of cleanup hold without them? | two stagers, two cleaners, two references, ten initial volume states; workloads with reservations dispatch all four, the one without two stagers and a cleaner; any removal may be executed late |
| `invoked_dispatch` | Is every I/O under a permit, and is everything acquired released, whatever fails? | every operation, authority, policy, port and set of grants; up to two checks |
| `verification` | Do requests go to vetted addresses and verdicts follow from them? | three attempts: a first, a middle and a last one; two addresses per family, one not global |
| `ingress` | Does a failed creation leave nothing and others alone, do permits cover it, is what rebind, deactivation, release and teardown report true of the zone, and does a success serve? | two creations, beside others that create records while fewer than five ids were given out; a creation and two teardowns; two rebinds; deactivation, rebind and release |
| `secrets` | Is a failure called definite only when nothing was or will be changed, and is what is handed out or receipted so at the provider? | two concurrent uses, each of any operation; one reference with no version, an active one, or a revoked and an active one; two intents, three correlations |
| `observations` | Did what an observation reports hold at one instant? | every kind of observation; a complete node, running or stopped, or nothing at first; up to three changes of the Engine during it; a clock of six steps; a sample may be two steps old |
| `health` | Do credentials leave once and in time, are the codes true, is everything released, and does every read end? | a clock of four values with a window of two, a deadline of two steps, a body limit of two chunks and chunks that exceed it |
| `health_cancel` | Does a cancelled read end cancelled: violated | as `health` |

The bounds are in the `.cfg` files and MC modules. Deadlock checking is off in
each of them because effects and checks end. Effects are interchangeable in the
node and configuration runs without liveness, so those use symmetry.

### What the three violations show

`node_two_owners`: the README of the repository says "StopNode -> stop only the
owned container". The container name is made of workspace and node, and
`_stop_node` and `_remove_node` (`docker/runtime.py:1565`, `1587`) check one
container and then call by name. Effect 1 inspects its container, effect 2 of the
same runtime removes it, effect 3 of another runtime creates the node, and effect
1 stops or removes that. Configured effects do not have this: they act by id.

`node_bridge`: `run_container` (`docker/sdk.py:995`) creates without a network and
connects afterwards. The Engine's default bridge stays attached, and
`_reconcile_node` then asks for exactly the runtime network. The test suite's fake
client attaches no default network.

`health_cancel`: `docs/implementation/health-transport.md:61` says "Cancellation
propagates without an invented observation". The response is closed in a `finally`
(`probes/health_transport.py:177`) and the client by its context manager. A close
that raises while `CancelledError` is on its way out replaces it, `except Exception`
takes it for a transport failure, and the cancelled task returns `TRANSPORT_FAILED`
with its permit recorded as returned. `local_health.py` has the same form.

## Fairness

NodeEffects, ConfigurationVolumes, InvokedDispatch and VerificationChecks have a
`FairSpec`: weak fairness of each effect, cleanup, call or check that has begun.
It is what the code's timeouts give: every client, resolver, DNS, HTTP and port
call returns or raises, so a live process takes its next step. Nothing is assumed
of dispatching, of late calls, of workloads, or of a process that died: a crash
is an effect that stops, and every invariant is about the states it can stop in.

HealthRead's `Spec` includes its fairness: weak fairness of the reader's own
steps, of the deadline's expiry, of the event loop's time, and of httpx's timeout
on a socket that is and stays silent; a byte that arrives takes it away. The
synchronous resolvers a reader is given, of secrets and of the probe's address, are
assumed to return or raise (`Callee`): no code here interrupts them, as
`docs/implementation/managed-health-reader.md` says of signing. Nothing is assumed of
the gateway or of the health client's DNS resolver. `EveryReadEnds` then says that
every managed read ends by its deadline whatever arrives, and that the probe, which
has none, ends unless the gateway for ever sends bytes that neither the timeout nor
the size limit sees, such as compressed blocks that decode to nothing. SecretCustody, Observations, ConfigurationNode and
CloudflareIngress state safety only.

## Proofs

NodeEffects is proved for every set of effects, requests, materials and initial
states, from the named assumptions `DaemonAssumption` and `RequestAssumption`
(the constants have the right types and the none-values are distinct):

- `TypeCorrect`: `Spec => []TypeOK`. TypeOK is inductive. `StepCalls` shows that
  a step changes the Engine only by `Apply` of a well-typed call, `ApplyType` that
  this keeps its type, `StepLocalType` does the local variables action by action.
- `TerminalResultsSettled`: `Spec => []TerminalMeansSettled`. The strengthening
  `Settled` says that every late call belongs to an effect that ended uncertain; `StepFrame`
  gives it, since a call is left behind only by ending uncertain.
- `UnsupportedIsInert`: an effect refused for its authority has issued no call;
  strengthened (`Untouched`) by: an effect at the step that can refuse has issued none.
  This is the ordering ReconcileNode needs: it removes before it prepares, but the
  authority is looked at before both.
- `RemovedIsGone`: `Spec => []RemovedStaysGone`. Needs that ids are never reused
  (`FreshIds`) and that an effect about to report removal has made the name free
  of the container it saw (`Removing`).
- `OwnerActsAlone`: if all requests come from one runtime, then
  `Spec => []OwnedOnly`, whatever the initial container. `OwnershipInv` says that
  while an effect is poised to act (`Poised`) the name is free or held by a
  container of that runtime, and that late calls create such containers only. The
  single-runtime hypothesis is what `node_two_owners` breaks.
- `WitnessesAgree`: `Spec => []WitnessAgreement`. `WitnessInv` adds that as long as
  a witness is there it still matches the request that succeeded over it. That
  needs that ids are fresh (`FreshIds`) and that nothing relabels a container
  (`SameLabels`, of every call of the Engine).
- `CreatedIsAccepted`: `Spec => []CreatedConforms` if `DefaultNetworks = {}`.
  `MineInv` says whose a created container is and that late connect calls name the
  caller's own; `ConformInv` that it carries its request's labels and, once
  connected, exactly the runtime's network. Its hypothesis is what `node_bridge`
  breaks.
- `ContractKept`: `Spec => KeepsContract`, the refinement of EffectContract. Every
  step is one of `Act`, `Settle`, `GiveUp` or `Land`, or a stutter. Two facts are
  needed besides TypeOK: `Settled`, so that a step of a late call is a `Land` of an
  effect that reported uncertain, and `OneLateEach`, an effect leaves at most one call,
  so that landing clears what it owes. The abstract world is the Engine's state
  without whether the container runs, because a workload may exit at any time,
  dispatched effects or not. The theorem implies `TerminalResultsSettled`, which
  it is built on; the runs check only the refinement.

ConfigurationNode is proved in the same module, for any ordinary and configured
requests, from those assumptions and `ConfiguredAssumption` (a configured request
selects a configuration or secrets). The lemmas about the steps of NodeEffects take
the sets of requests and labels as parameters, so they also hold of the ordinary
effects that run beside configured ones. `ConfiguredSpec => []P` for four
properties: `ConfiguredActsOnExactContainer` (`ActsOnExactContainer`),
`ReceiptsAreHonest` (`ReceiptHonest`), `CreationsAreAccounted` (`CreationAccounted`)
and `SecretFailuresAreClean` (`SecretFailureIsClean`). They follow from one
invariant, `ConfiguredInv`:

- `ConfiguredTypeOK`, with `Placed`: an effect stands at labels of its own kind.
- `SlotFresh`: an id under the name, in a late call or remembered by an effect has
  been given out. With it, `Remembers` makes "gone" final: a container that was
  removed does not come back under the name another effect fills.
- `EffectInv`, per configured effect and phase: `BeforeInstall` says what was issued
  and hit before a container is installed, `Installs` which container is being
  installed (the inspected one, a new one, or a new one instead of the inspected
  one), `Ended` what the attempt and its receipt then say.
- `LateFlagged`: a creation that may still be executed is flagged in its attempt.

A step of one effect must keep the invariant of all others. `SlotMoves` is all that
anyone's call can do to the container under the name (leave it, change whether it
runs or where it is attached, remove it, or create one with a new id), and
`HeldBefore` and `OthersKeep` derive from it that what another effect knows of its
container stays true.

HealthRead is proved for every window, deadline, size limit and clock bound, from
`HealthAssumption` (all are natural numbers, deadline and chunk bound positive):

- `HealthTypeCorrect`, `SendsInWindow` (`SentOnceInWindow`), `CodesAreTrue`
  (`CodesTrue`) and `ReadsSettle` (`ReadSettled`), all from the invariant
  `HealthInv`. `Positions` says what a step knows of where it stands in the
  signing program, without which its permit has no name. `SendsLast` says that
  nothing is sent, opened or decided before the request goes out: it makes a
  second sending impossible, and gives the codes that promise that nothing was
  sent. `AnswerKept` carries the size of the answer and the time it was complete
  from the body to the result, past the closing of the connections. `PermitsInOrder`
  says which permit may be open at which step, so that leaving that step, however
  it happens, is where it must be recorded.

ConfigurationVolumes is proved for any references, stagers, cleaners, workloads and
initial volumes, from `VolumesAssumption`. Besides the types it says that no
candidate is named twice to one cleanup, as Core's candidates are a set.

- `RowsTellDeletions`: `Spec => []CleanupRowsTrue`, with and without reservations.
  `RowsInOrder` gives the form of the rows (definite ones up to the candidate the
  cleanup is at, and nothing attempted after an unknown one), `RowsOfDeletions`
  relates them to what was deleted both ways, with the candidate being confirmed as
  the only one without a row yet, and `Incarnations` says that what was deleted
  does not come back. `LateUnknown` puts every removal still outstanding in a row
  that says UNKNOWN, so that its late execution contradicts none.
- `InstalledStays`: `Spec => []InstalledIntact`, and `DeletesOnlyOwned`:
  `Spec => OnlyOwnedDeleted`, an action property; both are about reserved workloads.
  `Apart` says that effects that hold references share none, which lets each keep what it
  has read: `StagerKnows` the volumes it has been through, `MountsKept` those its
  container mounts, `CleanerKnows` that its candidate is the owned volume it saw
  and that a removal it lost would delete no other.

InvokedDispatch is proved for every set of requests, from `CallAssumption` (requests
are typed, and secrets, checks and a childless port come only with the operations
that have them): `ReleasesClient`
(`ClientReleased`), `AcknowledgesOutcome` (`OutcomeAcknowledged`) and
`CoversProviderCalls` (`PermitsCoverIo`). `InPlan` says which section the call is
in and what can follow it, `Custody` what is held at each step and that whoever
could not release it says so, `EvidenceOfEffect` that only an effect that ran left
evidence, `Ledger` that each permit but the last is acknowledged before the next,
and `Covered` counts provider calls made and still ahead against permits.

VerificationChecks is proved for any addresses, endpoints and number of attempts,
from `VerificationAssumption` and `CheckAssumption`: `AddressesVetted`
(`RequestsVetted`) and `VerdictsExplained` (`VerdictExplained`). `TargetVetted`
carries the vetting from the DNS answer past the pin to the request, `LoopBegun`
says what a check inside the attempts has behind it, and `NothingSentYet` that the
current attempt has sent nothing before its request.

SecretCustody is proved for any number of concurrent uses and versions, from
`CustodyAssumption`: `DefiniteIsUnaffected`, `ReceiptsStayTrue`,
`RevokedNotResolved` and `CleanupExplained` (`DefiniteMeansUnaffected`,
`ReceiptsTrue`, `ResolvedWasActive`, `CompensationExplained`). `SentOnce` says that
each request of a use is on the wire or served at most once, so that an answer
settles it; `AnswerTrue` what an answer being waited for says of the provider,
`Since` that versions are not forgotten and revocations last, and `ReportTrue`
that what was reported stays true.

Observations is proved for any number of changes of the Engine and any age limit,
from `ObservationAssumption`: the Engine the observation starts with holds nothing
from the future and a running container's network exists.

- `ConfirmedWasHeld`: `Spec => []ConfirmedHeld`. The instant of container and
  network is that of the container's reading; that its network then exists is the
  Engine's (`Attached`), not something the observer read, since it compares the
  network's name only. The network seen to be owned, and the image seen to exist,
  each have an instant of their own: the network may have been replaced before the
  container was read and the image removed after it, and no reading excludes that.
- `SnapshotIsStable`: `Spec => []SnapshotStable`. `ConnectorInv`: between the
  readings the container has been `Steady`, or it is `Broken`, and a broken one does
  not mend: restarts and samples are newer than everything read (`Evolves`, of every
  change of the Engine).
- `RowsWereTogether`: `Spec => []RowsHeldTogether`. The instant is the end of the
  first sweep. `SweepRows` says that what a row describes is there then or has gone
  for good, `FoundAgain` that what the second sweep finds again was there then.
  Volumes have no id, so for them it holds up to `Recreated`.

CloudflareIngress is proved for any number of effects, any mixture of operations
with and without a port, and any number of records of other owners, from
`IngressAssumption`: dispatches are typed, only create and teardown have a port, the
grant that exists initially is nobody's effect, and a grant is not an id of
Cloudflare. `IngressInvariant` is `Spec => []IngressInv`, and from it follow
`FailedCreatesAreClean` (`CleanFailure`), `RaisedRebindsAreRestored`
(`RaisedRebindRestored`), `RemovalsAreTrue` (`RemovalTrue`), `PermitsAlwaysCover`
(`PermitsCover`), `DanglingIsExplained` (`DanglingExplained`) and the action
properties `ForeignRecordsAreUntouched` (`ForeignUntouched`) and `SuccessServes`
(`ServesAtSuccess`). None of the properties is inductive; IngressInv has three parts:

- `WorldInv`, of Cloudflare: ids are given out once and are of one maker
  (`FreshIds`, `SeparateIds`); a record is foreign and nobody's, or it points to a
  tunnel of an effect and is the record that effect may point there
  (`RecordsKnown`); a tunnel that is gone has an effect that may have deleted it
  (`TunnelsAccounted`); allocations come from an effect that succeeded.
- `EffectInv`, of an effect: `CreateInv`, `RebindInv` and `RemoverInv` say for each
  label what exists of what the effect made or took over and, during compensation,
  that it is gone or its stage is ahead or named as failed. `PermitInv` relates this
  to what the port recorded.
- `LateInv`, of a call under way: which effect can have lost it, in which state, and
  that what it names is still that effect's.

The argument about interference is that a call, issued or late, names only what its
effect made or took over (`Legit`), and that a finished allocation shares nothing
with an effect still at work (`Apart`). So a call brings no id or token back
(`NoReuse`) and takes nothing from another effect (`Harmless`), and an effect that
takes no step keeps its invariant (`StillEffect`, `StillLate`). The effect that acts
is handled action by action (`PreObserveKeeps` to `ReleaseAbsenceKeeps`). A late
creation is the one call that can surprise its own effect; it is possible only for
an effect that reports, or will report, that its outcome is uncertain, or for a
rebind that never received its tunnel's id (`LateCreatesTunnel`,
`LateCreatesDns`), which is why `RaisedRebindRestored` makes that exception.

Each of these inductive invariants also holds in TLC on the constants of the
module's run.

Only model-checked: liveness, since the provers do not handle fairness
(`EveryEffectReports`, `CleanupReports`, `TlsMaterialRemoved`, `CheckEnds` and
`EveryReadEnds`). Every invariant and every
action property of the passing runs is proved. No RECURSIVE operator is used.

## Not modelled

Data conversions: Engine payload parsing in `docker/sdk.py` and Cloudflare payload
parsing, tar archives, DNS, Redis and PostgreSQL wire formats, the token and JSON
formats of health reads, name and fingerprint hashing, error wording. The
transport probes of `probes/clients.py`, single requests without state. The
read-only Cloudflare readiness assessment. The listing of policy grants. Secret volumes and their contents (the steps around them are), so that a volume
left half written is seen by no property, also where recovery metadata reads
them. The static qualification of a connector's plan. Process-authority group
numbers. `test_support` and packaging. PROJECT.json lists the status of each part.

## Plan

1. Secret volumes in ConfigurationNode: partial materialisation and retry.
2. CloudflareIngress against a contract like EffectContract, in which an effect
   may owe a call at the zone and one at the custodian.
