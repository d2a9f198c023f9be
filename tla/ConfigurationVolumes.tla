------------------------ MODULE ConfigurationVolumes ------------------------
(***************************************************************************)
(* Configuration instances as named Docker volumes: the staging half of a  *)
(* configured Start/Reconcile (docker/configuration.py), the container     *)
(* that mounts what was staged, and cleanup (configuration_cleanup.py).    *)
(*                                                                         *)
(* A volume has a name and no immutable id, so every call is by name.      *)
(* Creating a container, the short-lived reading and writing helpers       *)
(* included, makes the Engine create a missing volume without labels.      *)
(*                                                                         *)
(* The interpreter has no locks.  Operations reserves allocations; whether *)
(* it does, and which effects it dispatches, is chosen once in workload,   *)
(* so that the properties separate what the code guarantees alone from     *)
(* what it guarantees under reservations.                                  *)
(***************************************************************************)
EXTENDS Naturals, Sequences, FiniteSets

CONSTANTS
    Refs,          \* configuration instance references
    Stagers,       \* configured Start/Reconcile effects
    Cleaners,      \* CleanupConfigurationInstances effects
    Selection,     \* the references a stager selects, in canonical order
    Candidates,    \* the references a cleaner is given, in canonical order
    InitialVolumes,
    NoVolume,
    Workloads      \* what Operations dispatches, with or without reservations

VARIABLES
    workload,   \* one of Workloads
    vol,        \* the volume under each reference's name
    nextInc,    \* the next volume incarnation
    mounts,     \* the volumes a stager's container references
    pc, idx,    \* per effect: next provider call and index into its references
    staged,     \* indices staged by a stager
    outcome,    \* how a stager ended
    snap,       \* a cleaner's admitted snapshot
    rows,       \* a cleaner's outcome rows
    late,       \* removals lost in transport that may still be executed
    deleted     \* history: <<reference, incarnation>> a cleaner's calls deleted

vars == <<workload, vol, nextInc, mounts, pc, idx, staged, outcome, snap, rows, late, deleted>>

Volume == [inc: Nat, owner: {"exact", "other"}, local: BOOLEAN,
           content: {"none", "match", "other"}]

(* Core's candidates are a set: no reference is given to a cleanup twice.  *)
ASSUME VolumesAssumption ==
    /\ Selection \in [Stagers -> Seq(Refs)]
    /\ Candidates \in [Cleaners -> Seq(Refs)]
    /\ \A s \in Stagers : Len(Selection[s]) > 0
    /\ \A c \in Cleaners : Len(Candidates[c]) > 0
    /\ \A c \in Cleaners : \A i, j \in 1..Len(Candidates[c]) :
            Candidates[c][i] = Candidates[c][j] => i = j
    /\ Stagers \cap Cleaners = {}
    /\ NoVolume \notin Volume
    /\ InitialVolumes \subseteq [Refs -> Volume \cup {NoVolume}]
    /\ \A v \in InitialVolumes : \A r \in Refs : v[r] # NoVolume => v[r].inc = 0
    /\ Workloads \subseteq [effects: SUBSET (Stagers \cup Cleaners), reserved: BOOLEAN]

Members(s) == {s[i] : i \in 1..Len(s)}
InUse(r) == \E s \in Stagers : r \in mounts[s]
Active(e) == pc[e] \notin {"idle", "done", "dead"}

(* Operations' reservation: no two effects hold the same reference.  It    *)
(* wants prior invocations complete, and a cleanup is not while a removal  *)
(* it lost is outstanding.                                                 *)
RefsOf(e) == Members(IF e \in Stagers THEN Selection[e] ELSE Candidates[e])
Holds(e) == Active(e) \/ (e \in Cleaners /\ late[e] # {})
Available(e) ==
    /\ e \in workload.effects
    /\ workload.reserved => \A f \in Stagers \cup Cleaners : Holds(f) => RefsOf(f) \cap RefsOf(e) = {}

(* The Engine creates the missing volumes of a container without labels.   *)
AutoCreated(v, missing) ==
    [r \in Refs |-> IF r \in missing /\ v[r] = NoVolume
                    THEN [inc |-> nextInc, owner |-> "other", local |-> TRUE, content |-> "none"]
                    ELSE v[r]]

CountIncarnations ==
    nextInc' = IF \E r \in Refs : vol[r] = NoVolume /\ vol'[r] # NoVolume
               THEN nextInc + 1 ELSE nextInc

Goto(e, label) == pc' = [pc EXCEPT ![e] = label]

-----------------------------------------------------------------------------
(* stage_configuration, one reference after the other.                     *)

StagerOnly == UNCHANGED <<snap, rows, late, deleted>>
Ref(s) == Selection[s][idx[s]]

End(s, kind) ==
    /\ Goto(s, "done")
    /\ outcome' = [outcome EXCEPT ![s] = kind]

OwnedByName(v) == v # NoVolume  \* Mutant: the labels are not compared.

require_configuration_owner(v) == v # NoVolume /\ v.owner = "exact"

BeginStaging(s) ==
    /\ pc[s] = "idle" /\ Available(s)
    /\ Goto(s, "inspect")
    /\ UNCHANGED <<vol, nextInc, mounts, idx, staged, outcome>> /\ StagerOnly

InspectVolume(s) ==
    /\ pc[s] = "inspect"
    /\ IF vol[Ref(s)] = NoVolume THEN Goto(s, "create_volume") /\ UNCHANGED outcome
       ELSE IF require_configuration_owner(vol[Ref(s)]) THEN Goto(s, "file") /\ UNCHANGED outcome
       ELSE End(s, "failed")
    /\ UNCHANGED <<vol, nextInc, mounts, idx, staged>> /\ StagerOnly

(* Creation under a name that exists returns the existing volume.  The     *)
(* answer may be lost with or without the effect.                          *)
CreateVolume(s) ==
    /\ pc[s] = "create_volume"
    /\ \/ /\ vol' = [vol EXCEPT ![Ref(s)] =
                        IF @ = NoVolume
                        THEN [inc |-> nextInc, owner |-> "exact", local |-> TRUE, content |-> "none"]
                        ELSE @]
          /\ (Goto(s, "owner") /\ UNCHANGED outcome) \/ End(s, "uncertain")
       \/ UNCHANGED vol /\ End(s, "uncertain")
    /\ CountIncarnations
    /\ UNCHANGED <<mounts, idx, staged>> /\ StagerOnly

CreatedIsOwned(s) ==
    /\ pc[s] = "owner"
    /\ IF require_configuration_owner(vol[Ref(s)]) THEN Goto(s, "file") /\ UNCHANGED outcome
                                                   ELSE End(s, "failed")
    /\ UNCHANGED <<vol, nextInc, mounts, idx, staged>> /\ StagerOnly

(* inspect_configuration_file through a reading helper.                    *)
InspectFile(s) ==
    /\ pc[s] \in {"file", "reread"}
    /\ LET v == AutoCreated(vol, {Ref(s)}) IN
        /\ vol' = v
        /\ CASE v[Ref(s)].content = "match" -> Goto(s, "still-owned") /\ UNCHANGED outcome
             [] v[Ref(s)].content = "none" /\ pc[s] = "file" -> Goto(s, "fill") /\ UNCHANGED outcome
             [] OTHER -> End(s, "failed")
    /\ CountIncarnations
    /\ UNCHANGED <<mounts, idx, staged>> /\ StagerOnly

(* materialize_configuration_artifact through a writing helper; it may     *)
(* raise having written nothing, a part, or everything.                    *)
Materialize(s) ==
    /\ pc[s] = "fill"
    /\ LET v == AutoCreated(vol, {Ref(s)}) IN
        \/ /\ vol' = [v EXCEPT ![Ref(s)].content = "match"]
           /\ Goto(s, "reread") /\ UNCHANGED outcome
        \/ \E written \in {v[Ref(s)].content, "other", "match"} :
              /\ vol' = [v EXCEPT ![Ref(s)].content = written]
              /\ End(s, "uncertain")
    /\ CountIncarnations
    /\ UNCHANGED <<mounts, idx, staged>> /\ StagerOnly

StagedIsStillOwned(s) ==
    /\ pc[s] = "still-owned"
    /\ IF require_configuration_owner(vol[Ref(s)])
       THEN /\ staged' = [staged EXCEPT ![s] = @ \cup {idx[s]}]
            /\ IF idx[s] = Len(Selection[s])
               THEN Goto(s, "container") /\ UNCHANGED idx
               ELSE Goto(s, "inspect") /\ idx' = [idx EXCEPT ![s] = @ + 1]
            /\ UNCHANGED outcome
       ELSE End(s, "failed") /\ UNCHANGED <<idx, staged>>
    /\ UNCHANGED <<vol, nextInc, mounts>> /\ StagerOnly

(* create_container and start of the workload: a subpath mount of an empty *)
(* volume does not start.                                                  *)
CreateWorkload(s) ==
    /\ pc[s] = "container"
    /\ \/ /\ mounts' = [mounts EXCEPT ![s] = Members(Selection[s])]
          /\ vol' = AutoCreated(vol, Members(Selection[s]))
          /\ (Goto(s, "start") /\ UNCHANGED outcome) \/ End(s, "uncertain")
       \/ UNCHANGED <<mounts, vol>> /\ End(s, "uncertain")
    /\ CountIncarnations
    /\ UNCHANGED <<idx, staged>> /\ StagerOnly

StartWorkload(s) ==
    /\ pc[s] = "start"
    /\ \/ /\ \A r \in mounts[s] : vol[r].content # "none"
          /\ mounts[s] # {}
          /\ Goto(s, "installed") /\ UNCHANGED outcome
       \/ End(s, "uncertain")
    /\ UNCHANGED <<vol, nextInc, mounts, idx, staged>> /\ StagerOnly

(* installed_configuration_matches on the exact container.                 *)
installed_configuration_matches(s) ==
    /\ pc[s] = "installed"
    /\ IF mounts[s] = {} THEN End(s, "uncertain")
       ELSE IF \A r \in mounts[s] : vol[r].content = "match" THEN End(s, "succeeded")
       ELSE End(s, "failed")
    /\ UNCHANGED <<vol, nextInc, mounts, idx, staged>> /\ StagerOnly

StagerReadFails(s) ==
    /\ pc[s] \in {"inspect", "owner", "file", "reread", "still-owned", "installed"}
    /\ End(s, "uncertain")
    /\ UNCHANGED <<vol, nextInc, mounts, idx, staged>> /\ StagerOnly

(* The process dies; what it staged stays.                                 *)
StagerDies(s) ==
    /\ s \in Stagers /\ Active(s)
    /\ Goto(s, "dead")
    /\ UNCHANGED <<vol, nextInc, mounts, idx, staged, outcome>> /\ StagerOnly

(* Another effect removes the workload container; its volumes stay.        *)
WorkloadRemoved(s) ==
    /\ mounts[s] # {}
    /\ mounts' = [mounts EXCEPT ![s] = {}]
    /\ UNCHANGED <<vol, nextInc, pc, idx, staged, outcome>> /\ StagerOnly

-----------------------------------------------------------------------------
(* cleanup_configuration, one candidate after the other.                   *)

CleanerOnly == UNCHANGED <<nextInc, mounts, staged, outcome>>
Candidate(c) == Candidates[c][idx[c]]

(* Append a row; the first UNKNOWN row ends the attempts and marks every   *)
(* remaining candidate NOT_ATTEMPTED (reported as UNKNOWN).                *)
Rest(c) == [i \in 1..(Len(Candidates[c]) - idx[c]) |-> "NOT_ATTEMPTED"]

RowContinues(c, status) ==  \* Mutant: UNKNOWN does not end the attempts.
    /\ rows' = [rows EXCEPT ![c] = Append(@, status)]
    /\ IF idx[c] = Len(Candidates[c])
       THEN Goto(c, "done") /\ UNCHANGED idx
       ELSE Goto(c, "observe") /\ idx' = [idx EXCEPT ![c] = @ + 1]

Row(c, status) ==
    IF status = "UNKNOWN"
    THEN /\ rows' = [rows EXCEPT ![c] = Append(@, status) \o Rest(c)]
         /\ Goto(c, "done") /\ UNCHANGED idx
    ELSE /\ rows' = [rows EXCEPT ![c] = Append(@, status)]
         /\ IF idx[c] = Len(Candidates[c])
            THEN Goto(c, "done") /\ UNCHANGED idx
            ELSE Goto(c, "observe") /\ idx' = [idx EXCEPT ![c] = @ + 1]

BeginCleanup(c) ==
    /\ pc[c] = "idle" /\ Available(c)
    /\ Goto(c, "observe")
    /\ UNCHANGED <<vol, idx, snap, rows, late, deleted>> /\ CleanerOnly

(* An authority other than the local socket is refused before any client.  *)
refused_cleanup_authority(c) ==
    /\ pc[c] = "idle" /\ c \in workload.effects
    /\ rows' = [rows EXCEPT ![c] = [i \in 1..Len(Candidates[c]) |-> "REFUSED"]]
    /\ Goto(c, "done")
    /\ UNCHANGED <<vol, idx, snap, late, deleted>> /\ CleanerOnly

ObserveAnyStorage(c) ==  \* Mutant: driver, scope and options are not checked.
    /\ pc[c] = "observe"
    /\ LET v == vol[Candidate(c)] IN
        /\ snap' = [snap EXCEPT ![c] = v]
        /\ IF v = NoVolume THEN Row(c, "ALREADY_ABSENT")
           ELSE IF ~require_configuration_owner(v) THEN Row(c, "REFUSED")
           ELSE Goto(c, "in-use") /\ UNCHANGED <<idx, rows>>
    /\ UNCHANGED <<vol, late, deleted>> /\ CleanerOnly

ObserveCandidate(c) ==
    /\ pc[c] = "observe"
    /\ LET v == vol[Candidate(c)] IN
        /\ snap' = [snap EXCEPT ![c] = v]
        /\ IF v = NoVolume THEN Row(c, "ALREADY_ABSENT")
           ELSE IF ~require_configuration_owner(v) \/ ~v.local THEN Row(c, "REFUSED")
           ELSE Goto(c, "in-use") /\ UNCHANGED <<idx, rows>>
    /\ UNCHANGED <<vol, late, deleted>> /\ CleanerOnly

configuration_volume_in_use(c) ==
    /\ pc[c] = "in-use"
    /\ IF InUse(Candidate(c)) THEN Row(c, "RETAINED_IN_USE")
                              ELSE Goto(c, "recheck") /\ UNCHANGED <<idx, rows>>
    /\ UNCHANGED <<vol, snap, late, deleted>> /\ CleanerOnly

(* The SDK fetches the volume again and compares name, CreatedAt, labels   *)
(* and storage; two incarnations created within CreatedAt's resolution     *)
(* with equal labels compare equal.                                        *)
SameSnapshot(v, admitted) ==
    v # NoVolume /\ v.owner = admitted.owner /\ v.local = admitted.local

Recheck(c) ==
    /\ pc[c] = "recheck"
    /\ LET v == vol[Candidate(c)] IN
        \/ /\ SameSnapshot(v, snap[c])
           /\ Goto(c, "remove") /\ UNCHANGED <<idx, rows>>
        \/ /\ ~(SameSnapshot(v, snap[c]) /\ v.inc = snap[c].inc)
           /\ Row(c, "UNKNOWN")
    /\ UNCHANGED <<vol, snap, late, deleted>> /\ CleanerOnly

Delete(c, r) ==
    /\ vol[r] # NoVolume /\ ~InUse(r)
    /\ vol' = [vol EXCEPT ![r] = NoVolume]
    /\ deleted' = [deleted EXCEPT ![c] = @ \cup {<<r, vol[r].inc>>}]

RemovePresent(c) ==  \* Mutant: a volume that has disappeared is not handled.
    /\ pc[c] = "remove"
    /\ Delete(c, Candidate(c))
    /\ Goto(c, "confirm") /\ UNCHANGED <<idx, rows>>
    /\ UNCHANGED <<snap, late>> /\ CleanerOnly

(* remove(force=False) by name.  A removal whose answer is lost was        *)
(* executed, was not, or will be later.                                    *)
RemoveVolume(c) ==
    /\ pc[c] = "remove"
    /\ LET r == Candidate(c) IN
        \/ /\ InUse(r)
           /\ Row(c, "RETAINED_IN_USE") /\ UNCHANGED <<vol, late, deleted>>
        \/ /\ Delete(c, r) /\ UNCHANGED late
           /\ (Goto(c, "confirm") /\ UNCHANGED <<idx, rows>>) \/ Row(c, "UNKNOWN")
        \/ /\ Row(c, "UNKNOWN") /\ UNCHANGED <<vol, deleted>>
           /\ late' \in {late, [late EXCEPT ![c] = @ \cup {r}]}
    /\ UNCHANGED snap /\ CleanerOnly

(* The Engine comes to a lost removal, whatever has the name by then.      *)
LateRemoval(c) ==
    /\ \E r \in late[c] :
        /\ late' = [late EXCEPT ![c] = @ \ {r}]
        /\ IF vol[r] # NoVolume /\ ~InUse(r) THEN Delete(c, r) ELSE UNCHANGED <<vol, deleted>>
    /\ UNCHANGED <<pc, idx, snap, rows>> /\ CleanerOnly

ConfirmRemoved(c) ==
    /\ pc[c] = "confirm"
    /\ Row(c, IF vol[Candidate(c)] = NoVolume THEN "REMOVED" ELSE "UNKNOWN")
    /\ UNCHANGED <<vol, snap, late, deleted>> /\ CleanerOnly

CleanerReadFails(c) ==
    /\ pc[c] \in {"observe", "in-use", "recheck", "confirm"}
    /\ Row(c, "UNKNOWN")
    /\ UNCHANGED <<vol, snap, late, deleted>> /\ CleanerOnly

-----------------------------------------------------------------------------

Init ==
    /\ workload \in Workloads
    /\ vol \in InitialVolumes
    /\ nextInc = 1
    /\ mounts = [s \in Stagers |-> {}]
    /\ pc = [e \in Stagers \cup Cleaners |-> "idle"]
    /\ idx = [e \in Stagers \cup Cleaners |-> 1]
    /\ staged = [s \in Stagers |-> {}]
    /\ outcome = [s \in Stagers |-> "none"]
    /\ snap = [c \in Cleaners |-> NoVolume]
    /\ rows = [c \in Cleaners |-> <<>>]
    /\ late = [c \in Cleaners |-> {}]
    /\ deleted = [c \in Cleaners |-> {}]

StagerStep(s) ==
    \/ BeginStaging(s) \/ InspectVolume(s) \/ CreateVolume(s) \/ CreatedIsOwned(s)
    \/ InspectFile(s) \/ Materialize(s) \/ StagedIsStillOwned(s) \/ CreateWorkload(s)
    \/ StartWorkload(s) \/ installed_configuration_matches(s) \/ StagerReadFails(s)

CleanerStep(c) ==
    \/ BeginCleanup(c) \/ refused_cleanup_authority(c) \/ ObserveCandidate(c)
    \/ configuration_volume_in_use(c) \/ Recheck(c) \/ RemoveVolume(c)
    \/ ConfirmRemoved(c) \/ CleanerReadFails(c)

Next ==
    /\ \/ \E s \in Stagers : StagerStep(s) \/ StagerDies(s) \/ WorkloadRemoved(s)
       \/ \E c \in Cleaners : CleanerStep(c) \/ LateRemoval(c)
    /\ UNCHANGED workload

Spec == Init /\ [][Next]_vars

(* A cleanup that was dispatched keeps taking steps: every provider call   *)
(* returns or raises.                                                      *)
FairSpec == Spec /\ \A c \in Cleaners : WF_vars(CleanerStep(c) /\ Active(c) /\ UNCHANGED workload)

-----------------------------------------------------------------------------
(* Properties.                                                             *)

(* A finished cleanup has one row per candidate, and each deletion its     *)
(* calls performed is in a row that says REMOVED or UNKNOWN: never one     *)
(* that reports the volume absent, refused, retained or not attempted.     *)
DeletionsReported(c) ==
    pc[c] = "done" =>
        /\ Len(rows[c]) = Len(Candidates[c])
        /\ \A i \in 1..Len(rows[c]) :
              rows[c][i] \in {"ALREADY_ABSENT", "REFUSED", "RETAINED_IN_USE", "NOT_ATTEMPTED"} =>
                ~ \E d \in deleted[c] : d[1] = Candidates[c][i]

(* The first uncertain candidate stops every later destructive call.       *)
UnknownStopsCleanup(c) ==
    \A i, j \in 1..Len(rows[c]) :
        i < j /\ rows[c][i] = "UNKNOWN" => rows[c][j] = "NOT_ATTEMPTED"

(* A volume reported REMOVED was removed: the row's candidate was deleted  *)
(* by this cleanup, and the deleted incarnation never comes back, even if  *)
(* a new one has been staged under its name since.                         *)
RemovedRowTrue(c) ==
    /\ \A i \in 1..Len(rows[c]) : rows[c][i] = "REMOVED" =>
            \E d \in deleted[c] : d[1] = Candidates[c][i]
    /\ \A d \in deleted[c] : vol[d[1]] = NoVolume \/ vol[d[1]].inc # d[2]

(* The rows of a cleanup tell what it did, although answers are lost and   *)
(* volumes are staged again under it: no deletion is hidden, no removal is *)
(* claimed that did not happen, and nothing is attempted after an unknown  *)
(* outcome.                                                                *)
CleanupRowsTrue ==
    \A c \in Cleaners : DeletionsReported(c) /\ RemovedRowTrue(c) /\ UnknownStopsCleanup(c)

(* Under reservations an installed configuration stays installed: while    *)
(* the container of a succeeded effect exists, each volume it selected is  *)
(* exactly owned, so it can be cleaned up one day, and holds the selected  *)
(* content, whatever cleanups and retries of other effects do.             *)
InstalledIntact ==
    workload.reserved => \A s \in Stagers : outcome[s] = "succeeded" /\ mounts[s] # {} =>
        \A r \in Members(Selection[s]) :
            vol[r] # NoVolume /\ vol[r].owner = "exact" /\ vol[r].content = "match"

(* Under reservations cleanup deletes only volumes that carry the exact    *)
(* reference's labels on ordinary local storage, also when the Engine      *)
(* executes a removal long after its answer was lost.                      *)
OnlyOwnedDeleted ==
    [][workload.reserved => \A r \in Refs : vol[r] # NoVolume /\ vol'[r] = NoVolume =>
            vol[r].owner = "exact" /\ vol[r].local]_vars

(* Every dispatched cleanup reports.                                       *)
CleanupReports ==
    \A c \in Cleaners : Active(c) ~> pc[c] = "done"

=============================================================================
