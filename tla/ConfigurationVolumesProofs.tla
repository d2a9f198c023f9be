--------------------- MODULE ConfigurationVolumesProofs ---------------------
(***************************************************************************)
(* Proofs about ConfigurationVolumes, for any number of references,        *)
(* stagers and cleaners and any workload Operations dispatches: a cleanup  *)
(* reports what it did, and under reservations an installed configuration  *)
(* stays installed and cleanup deletes only what is exactly owned.         *)
(***************************************************************************)
EXTENDS ConfigurationVolumes, SequenceTheorems, TLAPS

Effects == Stagers \cup Cleaners
Slot == Volume \cup {NoVolume}
Definite == {"ALREADY_ABSENT", "REFUSED", "RETAINED_IN_USE", "REMOVED"}
Status == Definite \cup {"UNKNOWN", "NOT_ATTEMPTED"}

StagerPc == {"idle", "inspect", "create_volume", "owner", "file", "fill", "reread",
             "still-owned", "container", "start", "installed", "done", "dead"}
CleanerPc == {"idle", "observe", "in-use", "recheck", "remove", "confirm", "done"}

(* The type invariant of ConfigurationVolumes.                             *)
TypeOK ==
    /\ workload \in [effects: SUBSET Effects, reserved: BOOLEAN]
    /\ vol \in [Refs -> Slot]
    /\ nextInc \in Nat
    /\ mounts \in [Stagers -> SUBSET Refs]
    /\ pc \in [Effects -> StagerPc \cup CleanerPc]
    /\ \A c \in Cleaners : pc[c] \in CleanerPc
    /\ idx \in [Effects -> Nat]
    /\ \A s \in Stagers : idx[s] \in 1..Len(Selection[s])
    /\ \A c \in Cleaners : idx[c] \in 1..Len(Candidates[c])
    /\ outcome \in [Stagers -> {"none", "failed", "uncertain", "succeeded"}]
    /\ snap \in [Cleaners -> Slot]
    /\ rows \in [Cleaners -> Seq(Status)]
    /\ late \in [Cleaners -> SUBSET Refs]
    /\ \A c \in Cleaners : late[c] \subseteq RefsOf(c)
    /\ deleted \in [Cleaners -> SUBSET (Refs \X Nat)]

(* A deleted incarnation is older than the next one and never returns.     *)
Incarnations ==
    /\ \A r \in Refs : vol[r] # NoVolume => vol[r].inc < nextInc
    /\ \A c \in Cleaners : \A d \in deleted[c] :
          /\ d[2] < nextInc
          /\ vol[d[1]] # NoVolume => vol[d[1]].inc # d[2]

(* A cleanup under way has one definite row for every candidate before the *)
(* current one; the first UNKNOWN row of a finished one has only           *)
(* NOT_ATTEMPTED after it.                                                 *)
RowsInOrder(c) ==
    /\ pc[c] = "idle" => Len(rows[c]) = 0
    /\ pc[c] # "done" =>
          /\ Len(rows[c]) = idx[c] - 1
          /\ \A i \in 1..Len(rows[c]) : rows[c][i] \in Definite
    /\ pc[c] = "done" =>
          /\ Len(rows[c]) = Len(Candidates[c])
          /\ \A i, j \in 1..Len(rows[c]) :
                i < j /\ rows[c][i] \notin Definite => rows[c][j] = "NOT_ATTEMPTED"

(* Each deletion is of a candidate whose row is REMOVED or UNKNOWN, or of  *)
(* the one whose absence is about to be confirmed, and conversely.         *)
RowsOfDeletions(c) ==
    /\ \A d \in deleted[c] :
          \/ \E i \in 1..Len(rows[c]) :
                d[1] = Candidates[c][i] /\ rows[c][i] \in {"REMOVED", "UNKNOWN"}
          \/ pc[c] = "confirm" /\ d[1] = Candidate(c)
    /\ \A i \in 1..Len(rows[c]) : rows[c][i] = "REMOVED" =>
          \E d \in deleted[c] : d[1] = Candidates[c][i]
    /\ pc[c] = "confirm" => \E d \in deleted[c] : d[1] = Candidate(c)

(* A removal that may still be executed is in a row that says UNKNOWN.     *)
LateUnknown(c) ==
    \A r \in late[c] :
        /\ pc[c] = "done"
        /\ \E i \in 1..Len(rows[c]) : r = Candidates[c][i] /\ rows[c][i] = "UNKNOWN"

CleanupInv ==
    /\ TypeOK
    /\ Incarnations
    /\ \A c \in Cleaners : RowsInOrder(c) /\ RowsOfDeletions(c) /\ LateUnknown(c)

-----------------------------------------------------------------------------
(* What reservations add.                                                  *)

Exact(r) == vol[r] # NoVolume /\ vol[r].owner = "exact"
Installed(r) == Exact(r) /\ vol[r].content = "match"

Apart == \A e, f \in Effects : Holds(e) /\ Holds(f) /\ e # f => RefsOf(e) \cap RefsOf(f) = {}

(* What a stager knows of the volumes it has been through and of the one   *)
(* it is at: nobody else changes them while it is active.                  *)
StagerKnows(s) ==
    /\ pc[s] = "idle" => idx[s] = 1
    /\ pc[s] \notin {"idle", "done", "dead"} =>
          \A i \in 1..(idx[s] - 1) : Installed(Selection[s][i])
    /\ pc[s] = "file" => Exact(Ref(s))
    /\ pc[s] = "fill" => Exact(Ref(s)) /\ vol[Ref(s)].content = "none"
    /\ pc[s] \in {"reread", "still-owned"} => Installed(Ref(s))
    /\ pc[s] \in {"container", "start", "installed"} =>
          \A r \in Members(Selection[s]) : Installed(r)

(* The container of a stager mounts all it selected; a succeeded one has   *)
(* stayed installed.                                                       *)
MountsKept(s) ==
    /\ mounts[s] = {} \/ mounts[s] = Members(Selection[s])
    /\ outcome[s] = "succeeded" => pc[s] = "done"
    /\ outcome[s] = "succeeded" /\ mounts[s] # {} =>
          \A r \in Members(Selection[s]) : Installed(r)

(* What a cleaner is about to remove is exactly owned and local, and so is *)
(* what a removal it lost would delete.                                    *)
CleanerSaw(c) ==
    /\ pc[c] \in {"in-use", "recheck", "remove"} =>
          snap[c] # NoVolume /\ snap[c].owner = "exact" /\ snap[c].local
    /\ pc[c] = "remove" /\ vol[Candidate(c)] # NoVolume =>
          vol[Candidate(c)].owner = "exact" /\ vol[Candidate(c)].local

LateOwned(c) ==
    \A r \in late[c] : vol[r] # NoVolume => vol[r].owner = "exact" /\ vol[r].local

CleanerKnows(c) == CleanerSaw(c) /\ LateOwned(c)

ReservedInv ==
    /\ TypeOK
    /\ workload.reserved =>
          /\ Apart
          /\ \A s \in Stagers : StagerKnows(s) /\ MountsKept(s)
          /\ \A c \in Cleaners : CleanerKnows(c)

-----------------------------------------------------------------------------
(* Types, and what a step of one effect leaves to the others.              *)

(* The next state of the one effect that moves; the rest is as it was.     *)
Others(e) == \A f \in Effects \ {e} : pc'[f] = pc[f] /\ idx'[f] = idx[f]

(* A stager adds missing volumes among its references and writes only to   *)
(* the one it fills; it deletes none.                                      *)
StagerMove(s) ==
    /\ Others(s)
    /\ \A t \in Stagers \ {s} : mounts'[t] = mounts[t] /\ outcome'[t] = outcome[t]
    /\ UNCHANGED <<snap, rows, late, deleted>>
    /\ \A r \in Refs :
          \/ vol'[r] = vol[r]
          \/ /\ r \in RefsOf(s) /\ vol[r] = NoVolume
             /\ vol'[r] # NoVolume /\ vol'[r].inc = nextInc /\ nextInc' = nextInc + 1
          \/ /\ pc[s] = "fill" /\ r = Ref(s) /\ vol[r] # NoVolume
             /\ vol'[r] # NoVolume /\ vol'[r].inc = vol[r].inc
             /\ vol'[r].owner = vol[r].owner /\ vol'[r].local = vol[r].local
    /\ nextInc' \in {nextInc, nextInc + 1}

(* A cleaner changes no volume, or deletes its current candidate or one    *)
(* whose removal was lost.                                                 *)
Deletes(c, r) ==
    /\ (pc[c] = "remove" /\ r = Candidate(c)) \/ r \in late[c]
    /\ Delete(c, r)

AnyCleanerStep(c) == CleanerStep(c) \/ LateRemoval(c)

CleanerMove(c) ==
    /\ Others(c)
    /\ \A b \in Cleaners \ {c} : rows'[b] = rows[b] /\ snap'[b] = snap[b] /\ deleted'[b] = deleted[b]
    /\ \A b \in Cleaners \ {c} : late'[b] = late[b]
    /\ UNCHANGED <<nextInc, mounts, outcome>>
    /\ UNCHANGED <<vol, deleted>> \/ \E r \in Refs : Deletes(c, r)

(* The current reference is one of the effect's references.                *)
LEMMA CurrentRef ==
    ASSUME TypeOK
    PROVE  /\ \A s \in Stagers : /\ Ref(s) \in Refs /\ Ref(s) \in RefsOf(s)
                                 /\ RefsOf(s) = Members(Selection[s])
                                 /\ Members(Selection[s]) \subseteq Refs
           /\ \A c \in Cleaners : Candidate(c) \in Refs /\ Candidate(c) \in RefsOf(c)
<1>1. ASSUME NEW s \in Stagers
      PROVE  /\ Ref(s) \in Refs /\ Ref(s) \in RefsOf(s)
             /\ RefsOf(s) = Members(Selection[s])
             /\ Members(Selection[s]) \subseteq Refs
  <2>1. Selection[s] \in Seq(Refs) /\ idx[s] \in 1..Len(Selection[s])
    BY VolumesAssumption DEF TypeOK
  <2>2. \A i \in 1..Len(Selection[s]) : Selection[s][i] \in Refs
    BY <2>1
  <2>3. QED BY <2>1, <2>2 DEF Ref, RefsOf, Members
<1>2. ASSUME NEW c \in Cleaners
      PROVE  Candidate(c) \in Refs /\ Candidate(c) \in RefsOf(c)
  <2>1. Candidates[c] \in Seq(Refs) /\ idx[c] \in 1..Len(Candidates[c])
    BY VolumesAssumption DEF TypeOK
  <2>2. \A i \in 1..Len(Candidates[c]) : Candidates[c][i] \in Refs
    BY <2>1
  <2>3. c \notin Stagers BY VolumesAssumption
  <2>4. QED BY <2>1, <2>2, <2>3 DEF Candidate, RefsOf, Members
<1>3. QED BY <1>1, <1>2

(* A container makes the Engine add missing volumes and no more.           *)
LEMMA AutoCreatedAdds ==
    ASSUME vol \in [Refs -> Slot], nextInc \in Nat, NEW missing
    PROVE  LET v == AutoCreated(vol, missing) IN
           /\ v \in [Refs -> Slot]
           /\ \A r \in Refs : r \in missing => v[r] \in Volume
           /\ \A r \in Refs : \/ v[r] = vol[r]
                              \/ /\ r \in missing /\ vol[r] = NoVolume
                                 /\ v[r] \in Volume /\ v[r].inc = nextInc
<1> DEFINE new == [inc |-> nextInc, owner |-> "other", local |-> TRUE, content |-> "none"]
<1>1. new \in Volume /\ new.inc = nextInc BY DEF Volume
<1> HIDE DEF new
<1>2. AutoCreated(vol, missing) = [r \in Refs |-> IF r \in missing /\ vol[r] = NoVolume THEN new ELSE vol[r]]
  BY DEF AutoCreated, new
<1>3. QED BY <1>1, <1>2 DEF Slot

AnyStagerStep(s) == StagerStep(s) \/ StagerDies(s) \/ WorkloadRemoved(s)

(* Where a stager goes: its own program counter, index, result and mounts. *)
LEMMA StagerLocal ==
    ASSUME TypeOK, NEW s \in Stagers, AnyStagerStep(s)
    PROVE  /\ pc' \in [Effects -> StagerPc \cup CleanerPc]
           /\ idx' \in [Effects -> Nat] /\ idx'[s] \in 1..Len(Selection[s])
           /\ mounts' \in [Stagers -> SUBSET Refs]
           /\ outcome' \in [Stagers -> {"none", "failed", "uncertain", "succeeded"}]
           /\ Others(s)
           /\ \A t \in Stagers \ {s} : mounts'[t] = mounts[t] /\ outcome'[t] = outcome[t]
           /\ UNCHANGED <<snap, rows, late, deleted>>
<1> DEFINE Moved == /\ pc' = pc \/ \E label \in StagerPc : Goto(s, label)
                    /\ idx' = idx \/ (idx[s] # Len(Selection[s]) /\ idx' = [idx EXCEPT ![s] = @ + 1])
                    /\ outcome' = outcome \/ \E kind \in {"failed", "uncertain", "succeeded"} :
                                               outcome' = [outcome EXCEPT ![s] = kind]
                    /\ mounts' = mounts \/ \E m \in SUBSET Refs : mounts' = [mounts EXCEPT ![s] = m]
                    /\ UNCHANGED <<snap, rows, late, deleted>>
<1> SUFFICES Moved
  <2>1. /\ pc' \in [Effects -> StagerPc \cup CleanerPc]
        /\ \A f \in Effects \ {s} : pc'[f] = pc[f]
    <3> DEFINE Labels == StagerPc \cup CleanerPc
    <3>1. pc \in [Effects -> Labels] /\ s \in Effects BY DEF TypeOK, Effects
    <3>2. pc' = pc \/ \E label \in Labels : pc' = [pc EXCEPT ![s] = label] BY DEF Goto
    <3> HIDE DEF Labels
    <3>3. pc' \in [Effects -> Labels] /\ \A f \in Effects \ {s} : pc'[f] = pc[f]
      BY ONLY <3>1, <3>2
    <3>4. QED BY <3>3 DEF Labels
  <2>2. /\ idx' \in [Effects -> Nat] /\ idx'[s] \in 1..Len(Selection[s])
        /\ \A f \in Effects \ {s} : idx'[f] = idx[f]
    <3>1. idx \in [Effects -> Nat] /\ s \in Effects /\ idx[s] \in 1..Len(Selection[s])
      BY DEF TypeOK, Effects
    <3>2. Len(Selection[s]) \in Nat BY VolumesAssumption
    <3>3. QED BY <3>1, <3>2
  <2>3. /\ outcome' \in [Stagers -> {"none", "failed", "uncertain", "succeeded"}]
        /\ \A t \in Stagers \ {s} : outcome'[t] = outcome[t]
    BY DEF TypeOK
  <2>4. /\ mounts' \in [Stagers -> SUBSET Refs]
        /\ \A t \in Stagers \ {s} : mounts'[t] = mounts[t]
    <3>1. mounts \in [Stagers -> SUBSET Refs] BY DEF TypeOK
    <3>2. mounts' = mounts \/ \E m \in SUBSET Refs : mounts' = [mounts EXCEPT ![s] = m] OBVIOUS
    <3>3. QED BY ONLY <3>1, <3>2
  <2>5. QED BY <2>1, <2>2, <2>3, <2>4 DEF Others
<1>1. CASE BeginStaging(s) \/ InspectVolume(s) \/ CreatedIsOwned(s) \/ StartWorkload(s)
           \/ installed_configuration_matches(s) \/ StagerReadFails(s)
  BY <1>1 DEF BeginStaging, InspectVolume, CreatedIsOwned, StartWorkload,
       installed_configuration_matches, StagerReadFails, StagerOnly, End, Goto, StagerPc
<1>2. CASE CreateVolume(s)
  BY <1>2 DEF CreateVolume, StagerOnly, End, Goto, StagerPc
<1>3. CASE InspectFile(s)
  <2> DEFINE content == AutoCreated(vol, {Ref(s)})[Ref(s)].content
  <2>1. CASE content = "match"
    BY <1>3, <2>1 DEF InspectFile, StagerOnly, End, Goto, StagerPc
  <2>2. CASE content # "match" /\ content = "none" /\ pc[s] = "file"
    BY <1>3, <2>2 DEF InspectFile, StagerOnly, End, Goto, StagerPc
  <2>3. CASE content # "match" /\ ~(content = "none" /\ pc[s] = "file")
    BY <1>3, <2>3 DEF InspectFile, StagerOnly, End, Goto, StagerPc
  <2>4. QED BY <2>1, <2>2, <2>3
<1>4. CASE Materialize(s)
  BY <1>4 DEF Materialize, StagerOnly, End, Goto, StagerPc
<1>5. CASE StagedIsStillOwned(s)
  BY <1>5 DEF StagedIsStillOwned, StagerOnly, End, Goto, StagerPc
<1>6. CASE CreateWorkload(s)
  <2>1. Members(Selection[s]) \subseteq Refs BY CurrentRef
  <2>2. QED BY <1>6, <2>1 DEF CreateWorkload, StagerOnly, End, Goto, StagerPc
<1>7. CASE StagerDies(s) \/ WorkloadRemoved(s)
  BY <1>7 DEF StagerDies, WorkloadRemoved, StagerOnly, Goto, StagerPc
<1> HIDE DEF Moved
<1>8. QED
  BY <1>1, <1>2, <1>3, <1>4, <1>5, <1>6, <1>7 DEF AnyStagerStep, StagerStep

(* What a stager does to the volumes.                                      *)
LEMMA StagerVolumes ==
    ASSUME TypeOK, NEW s \in Stagers, AnyStagerStep(s)
    PROVE  /\ vol' \in [Refs -> Slot]
           /\ nextInc' \in {nextInc, nextInc + 1}
           /\ \A r \in Refs :
                \/ vol'[r] = vol[r]
                \/ /\ r \in RefsOf(s) /\ vol[r] = NoVolume
                   /\ vol'[r] # NoVolume /\ vol'[r].inc = nextInc /\ nextInc' = nextInc + 1
                \/ /\ pc[s] = "fill" /\ r = Ref(s) /\ vol[r] # NoVolume
                   /\ vol'[r] # NoVolume /\ vol'[r].inc = vol[r].inc
                   /\ vol'[r].owner = vol[r].owner /\ vol'[r].local = vol[r].local
<1> DEFINE Kept(r) == vol'[r] = vol[r]
           Added(r) == /\ r \in RefsOf(s) /\ vol[r] = NoVolume
                       /\ vol'[r] # NoVolume /\ vol'[r].inc = nextInc
           Written(r) == /\ pc[s] = "fill" /\ r = Ref(s) /\ vol[r] # NoVolume
                         /\ vol'[r] # NoVolume /\ vol'[r].inc = vol[r].inc
                         /\ vol'[r].owner = vol[r].owner /\ vol'[r].local = vol[r].local
           Changed == /\ vol' \in [Refs -> Slot]
                      /\ CountIncarnations
                      /\ \A r \in Refs : Kept(r) \/ Added(r) \/ Written(r)
           x == Ref(s)
<1>t. /\ vol \in [Refs -> Slot] /\ nextInc \in Nat /\ x \in Refs /\ x \in RefsOf(s)
      /\ RefsOf(s) = Members(Selection[s]) /\ NoVolume \notin Volume
  BY CurrentRef, VolumesAssumption DEF TypeOK
<1> SUFFICES UNCHANGED <<vol, nextInc>> \/ Changed
  <2>1. CASE UNCHANGED <<vol, nextInc>>
    BY <2>1, <1>t
  <2>2. CASE Changed
    <3>1. \A r \in Refs : Added(r) => nextInc' = nextInc + 1
      BY <2>2 DEF CountIncarnations
    <3>2. nextInc' \in {nextInc, nextInc + 1}
      BY <2>2 DEF CountIncarnations
    <3>3. QED BY <2>2, <3>1, <3>2
  <2>3. QED BY <2>1, <2>2
<1> DEFINE auto == AutoCreated(vol, {x})
<1>a. /\ auto \in [Refs -> Slot] /\ auto[x] \in Volume
      /\ \A r \in Refs : \/ auto[r] = vol[r]
                         \/ r = x /\ vol[r] = NoVolume /\ auto[r].inc = nextInc
  <2>1. /\ auto \in [Refs -> Slot]
        /\ \A r \in Refs : r \in {x} => auto[r] \in Volume
        /\ \A r \in Refs : \/ auto[r] = vol[r]
                           \/ /\ r \in {x} /\ vol[r] = NoVolume
                              /\ auto[r] \in Volume /\ auto[r].inc = nextInc
    <3>1. vol \in [Refs -> Slot] /\ nextInc \in Nat BY <1>t
    <3>2. QED BY ONLY <3>1, AutoCreatedAdds
  <2> HIDE DEF auto, x
  <2>2. QED BY <2>1, <1>t
<1> HIDE DEF auto, x
<1>1. CASE BeginStaging(s) \/ InspectVolume(s) \/ CreatedIsOwned(s) \/ StartWorkload(s)
           \/ installed_configuration_matches(s) \/ StagerReadFails(s)
           \/ StagedIsStillOwned(s) \/ StagerDies(s) \/ WorkloadRemoved(s)
  BY <1>1 DEF BeginStaging, InspectVolume, CreatedIsOwned, StartWorkload,
       installed_configuration_matches, StagerReadFails, StagedIsStillOwned,
       StagerDies, WorkloadRemoved
<1>2. CASE CreateVolume(s)
  <2> DEFINE new == [inc |-> nextInc, owner |-> "exact", local |-> TRUE, content |-> "none"]
  <2>1. new \in Volume /\ new.inc = nextInc BY <1>t DEF Volume
  <2>2. /\ vol' = vol \/ vol' = [vol EXCEPT ![x] = IF @ = NoVolume THEN new ELSE @]
        /\ CountIncarnations
    BY <1>2 DEF CreateVolume, x
  <2> HIDE DEF new
  <2>3. QED BY <1>t, <2>1, <2>2 DEF Slot
<1>3. CASE InspectFile(s)
  <2>1. vol' = auto /\ CountIncarnations BY <1>3 DEF InspectFile, auto, x
  <2>2. QED BY <2>1, <1>a, <1>t
<1>4. CASE Materialize(s)
  <2>1. /\ pc[s] = "fill" /\ CountIncarnations
        /\ \E written \in {auto[x].content, "other", "match"} :
              vol' = [auto EXCEPT ![x].content = written]
    BY <1>4 DEF Materialize, auto, x
  <2>2. PICK written \in {auto[x].content, "other", "match"} :
              vol' = [auto EXCEPT ![x].content = written]
    BY <2>1
  <2>3. \A r \in Refs : r # x => vol'[r] = auto[r]
    BY <2>2, <1>a
  <2>4. vol'[x] = [auto[x] EXCEPT !.content = written]
    BY <2>2, <1>a, <1>t
  <2>5. /\ vol'[x] \in Volume /\ vol'[x].inc = auto[x].inc
        /\ vol'[x].owner = auto[x].owner /\ vol'[x].local = auto[x].local
    BY <2>4, <1>a DEF Volume
  <2>6. vol' \in [Refs -> Slot]
    BY <2>2, <2>3, <2>5, <1>a DEF Slot
  <2>7. \A r \in Refs : r # x => Kept(r)
    BY <2>3, <1>a
  <2>8. Added(x) \/ Written(x)
    BY <2>5, <2>1, <1>a, <1>t DEF x
  <2>9. QED BY <2>1, <2>6, <2>7, <2>8
<1>5. CASE CreateWorkload(s)
  <2> DEFINE all == AutoCreated(vol, Members(Selection[s]))
  <2>1. (vol' = vol \/ vol' = all) /\ CountIncarnations
    BY <1>5 DEF CreateWorkload
  <2>2. /\ all \in [Refs -> Slot]
        /\ \A r \in Refs : \/ all[r] = vol[r]
                           \/ /\ r \in Members(Selection[s]) /\ vol[r] = NoVolume
                              /\ all[r] \in Volume /\ all[r].inc = nextInc
    BY <1>t, AutoCreatedAdds
  <2> HIDE DEF all
  <2>3. QED BY <2>1, <2>2, <1>t
<1> HIDE DEF Changed
<1>6. QED
  BY <1>1, <1>2, <1>3, <1>4, <1>5 DEF AnyStagerStep, StagerStep

(* The steps of a stager keep the types and are moves.                     *)
LEMMA StagerType ==
    ASSUME TypeOK, NEW s \in Stagers, AnyStagerStep(s), UNCHANGED workload
    PROVE  TypeOK' /\ StagerMove(s)
<1>1. StagerMove(s)
  BY StagerLocal, StagerVolumes DEF StagerMove
<1>2. \A c \in Cleaners : c \in Effects /\ c # s
  BY VolumesAssumption DEF Effects
<1>3. \A t \in Stagers : t # s => idx'[t] = idx[t]
  BY <1>1 DEF StagerMove, Others, Effects
<1>4. \A t \in Stagers : idx'[t] \in 1..Len(Selection[t])
  BY <1>3, StagerLocal DEF TypeOK
<1>5. \A c \in Cleaners : pc'[c] = pc[c] /\ idx'[c] = idx[c]
  BY <1>1, <1>2 DEF StagerMove, Others
<1>6. /\ snap' = snap /\ rows' = rows /\ late' = late /\ deleted' = deleted
  BY StagerLocal
<1>7. nextInc' \in Nat
  <2>1. nextInc' \in {nextInc, nextInc + 1} BY StagerVolumes
  <2>2. nextInc \in Nat BY DEF TypeOK
  <2>3. QED BY ONLY <2>1, <2>2
<1>8. QED
  BY <1>1, <1>4, <1>5, <1>6, <1>7, StagerLocal, StagerVolumes DEF TypeOK, RefsOf

-----------------------------------------------------------------------------
(* The rows of a cleanup.                                                  *)

Reported == Definite \cup {"UNKNOWN"}

(* Row appends one row, and after an UNKNOWN one the remaining candidates. *)
LEMMA RowShape ==
    ASSUME TypeOK, NEW c \in Cleaners, NEW status \in Reported, Row(c, status)
    PROVE  /\ pc' \in [Effects -> StagerPc \cup CleanerPc] /\ pc'[c] \in {"observe", "done"}
           /\ idx' \in [Effects -> Nat] /\ idx'[c] \in 1..Len(Candidates[c])
           /\ rows' \in [Cleaners -> Seq(Status)]
           /\ Others(c)
           /\ \A b \in Cleaners \ {c} : rows'[b] = rows[b]
           /\ \A i \in 1..Len(rows[c]) : rows'[c][i] = rows[c][i]
           /\ rows'[c][Len(rows[c]) + 1] = status
           /\ Len(rows'[c]) \in Nat
           /\ status = "UNKNOWN" =>
                /\ Len(rows'[c]) = Len(rows[c]) + 1 + (Len(Candidates[c]) - idx[c])
                /\ \A i \in (Len(rows[c]) + 2)..Len(rows'[c]) : rows'[c][i] = "NOT_ATTEMPTED"
                /\ pc'[c] = "done"
           /\ status # "UNKNOWN" => Len(rows'[c]) = Len(rows[c]) + 1
           /\ status # "UNKNOWN" /\ pc'[c] = "done" => idx[c] = Len(Candidates[c])
           /\ pc'[c] # "done" => idx'[c] = idx[c] + 1
<1> DEFINE n == Len(Candidates[c])
           old == rows[c]
           one == Append(old, status)
           rest == Rest(c)
           Labels == StagerPc \cup CleanerPc
<1>t. /\ n \in Nat /\ idx[c] \in 1..n /\ idx \in [Effects -> Nat] /\ c \in Effects
      /\ rows \in [Cleaners -> Seq(Status)] /\ old \in Seq(Status) /\ status \in Status
      /\ pc \in [Effects -> Labels] /\ "observe" \in Labels /\ "done" \in Labels
      /\ "NOT_ATTEMPTED" \in Status
  BY VolumesAssumption DEF TypeOK, Effects, Reported, Status, StagerPc, CleanerPc
<1> HIDE DEF n
<1>1. /\ one \in Seq(Status) /\ Len(one) = Len(old) + 1 /\ Len(old) \in Nat
      /\ \A i \in 1..Len(old) : one[i] = old[i]
      /\ one[Len(old) + 1] = status
  BY <1>t, AppendProperties
<1>2. /\ rest \in Seq(Status) /\ Len(rest) = n - idx[c]
      /\ \A i \in 1..Len(rest) : rest[i] = "NOT_ATTEMPTED"
  <2>1. n - idx[c] \in Nat /\ rest = [i \in 1..(n - idx[c]) |-> "NOT_ATTEMPTED"]
    BY <1>t DEF Rest, n
  <2> DEFINE m == n - idx[c]
  <2> HIDE DEF rest, m
  <2>2. m \in Nat /\ rest = [i \in 1..m |-> "NOT_ATTEMPTED"] BY <2>1 DEF m
  <2>3. rest \in [1..m -> Status] BY <2>2, <1>t
  <2>4. rest \in Seq(Status) BY <2>2, <2>3, SeqDef
  <2>5. Len(rest) = m BY <2>2, <2>3, <2>4, LenProperties
  <2>6. QED BY <2>2, <2>4, <2>5 DEF m
<1> HIDE DEF one, rest, old, Labels
<1>3. /\ one \o rest \in Seq(Status) /\ Len(one \o rest) = Len(one) + Len(rest)
      /\ \A i \in 1..Len(one) : (one \o rest)[i] = one[i]
      /\ \A i \in (Len(one) + 1)..(Len(one) + Len(rest)) : (one \o rest)[i] = rest[i - Len(one)]
  <2>1. one \in Seq(Status) /\ rest \in Seq(Status) BY <1>1, <1>2
  <2>2. /\ one \o rest \in Seq(Status) /\ Len(one \o rest) = Len(one) + Len(rest)
        /\ \A i \in 1..(Len(one) + Len(rest)) : (one \o rest)[i] =
                 IF i <= Len(one) THEN one[i] ELSE rest[i - Len(one)]
    BY ONLY <2>1, ConcatProperties
  <2>3. Len(one) \in Nat /\ Len(rest) \in Nat BY <2>1
  <2>4. QED BY ONLY <2>2, <2>3
<1>4. CASE status = "UNKNOWN"
  <2>1. /\ rows' = [rows EXCEPT ![c] = one \o rest]
        /\ pc' = [pc EXCEPT ![c] = "done"] /\ idx' = idx
    BY <1>4 DEF Row, Goto, one, rest, old
  <2>2. /\ rows' \in [Cleaners -> Seq(Status)] /\ rows'[c] = one \o rest
        /\ \A b \in Cleaners \ {c} : rows'[b] = rows[b]
    BY <2>1, <1>t, <1>3
  <2>3. /\ pc' \in [Effects -> Labels] /\ pc'[c] = "done"
        /\ \A f \in Effects \ {c} : pc'[f] = pc[f]
    BY <2>1, <1>t
  <2>4. Len(rows'[c]) = Len(old) + 1 + (n - idx[c]) /\ Len(rows'[c]) \in Nat
    BY <2>2, <1>1, <1>2, <1>3, <1>t
  <2>5. \A i \in 1..Len(old) : rows'[c][i] = old[i]
    BY <2>2, <1>1, <1>3
  <2>6. rows'[c][Len(old) + 1] = status
    BY <2>2, <1>1, <1>3
  <2>7. \A i \in (Len(old) + 2)..Len(rows'[c]) : rows'[c][i] = "NOT_ATTEMPTED"
    <3> TAKE i \in (Len(old) + 2)..Len(rows'[c])
    <3>1. i \in (Len(one) + 1)..(Len(one) + Len(rest)) /\ i - Len(one) \in 1..Len(rest)
      BY <2>2, <1>1, <1>2, <1>3, <1>t
    <3>2. QED BY <3>1, <2>2, <1>2, <1>3
  <2>8. QED
    BY <1>4, <2>1, <2>2, <2>3, <2>4, <2>5, <2>6, <2>7, <1>t DEF Others, old, n, Labels
<1>5. CASE status # "UNKNOWN"
  <2>1. /\ rows' = [rows EXCEPT ![c] = one]
        /\ \/ idx[c] = n /\ pc' = [pc EXCEPT ![c] = "done"] /\ idx' = idx
           \/ idx[c] # n /\ pc' = [pc EXCEPT ![c] = "observe"] /\ idx' = [idx EXCEPT ![c] = idx[c] + 1]
    BY <1>5 DEF Row, Goto, one, old, n
  <2>2. /\ rows' \in [Cleaners -> Seq(Status)] /\ rows'[c] = one
        /\ \A b \in Cleaners \ {c} : rows'[b] = rows[b]
    BY <2>1, <1>t, <1>1
  <2>3. /\ pc' \in [Effects -> Labels] /\ pc'[c] \in {"observe", "done"}
        /\ \A f \in Effects \ {c} : pc'[f] = pc[f]
    BY <2>1, <1>t
  <2>4. /\ idx' \in [Effects -> Nat] /\ idx'[c] \in 1..n
        /\ \A f \in Effects \ {c} : idx'[f] = idx[f]
    BY <2>1, <1>t
  <2>5. /\ pc'[c] = "done" => idx[c] = n
        /\ pc'[c] # "done" => idx'[c] = idx[c] + 1
    BY <2>1, <1>t
  <2>6. QED
    BY <1>5, <2>2, <2>3, <2>4, <2>5, <1>1, <1>t DEF Others, old, n, Labels
<1>6. QED BY <1>4, <1>5

(* Row keeps the rows in order and true of the deletions, when its status  *)
(* is REMOVED or UNKNOWN wherever the current candidate was deleted.       *)
LEMMA RowTrue ==
    ASSUME TypeOK, NEW c \in Cleaners, NEW status \in Reported, Row(c, status),
           pc[c] # "done", RowsInOrder(c), RowsOfDeletions(c),
           deleted[c] \subseteq deleted'[c],
           status = "REMOVED" => \E d \in deleted'[c] : d[1] = Candidate(c),
           \A d \in deleted'[c] :
              \/ d \in deleted[c] /\ pc[c] # "confirm"
              \/ d \in deleted[c] /\ status \in {"REMOVED", "UNKNOWN"}
              \/ d[1] = Candidate(c) /\ status \in {"REMOVED", "UNKNOWN"}
    PROVE  RowsInOrder(c)' /\ RowsOfDeletions(c)'
<1> DEFINE n == Len(Candidates[c])
           k == Len(rows[c])
           R == rows'[c]
<1>t. k \in Nat /\ n \in Nat /\ idx[c] \in 1..n /\ k + 1 = idx[c]
  <2>1. rows[c] \in Seq(Status) /\ idx[c] \in 1..n /\ n \in Nat
    BY VolumesAssumption DEF TypeOK
  <2>2. k \in Nat BY <2>1
  <2>3. k = idx[c] - 1 BY DEF RowsInOrder
  <2>4. QED BY <2>1, <2>2, <2>3
<1>1. /\ \A i \in 1..k : R[i] = rows[c][i] /\ rows[c][i] \in Definite
      /\ R[k + 1] = status /\ Len(R) \in Nat
      /\ status = "UNKNOWN" => /\ Len(R) = n /\ pc'[c] = "done"
                               /\ \A i \in (k + 2)..Len(R) : R[i] = "NOT_ATTEMPTED"
      /\ status # "UNKNOWN" => Len(R) = k + 1 /\ status \in Definite
      /\ status # "UNKNOWN" /\ pc'[c] = "done" => Len(R) = n
      /\ pc'[c] # "done" => status # "UNKNOWN" /\ idx'[c] = k + 2
      /\ pc'[c] \in {"observe", "done"}
  <2>1. \A i \in 1..k : rows[c][i] \in Definite BY DEF RowsInOrder
  <2>2. status # "UNKNOWN" => status \in Definite BY DEF Reported
  <2>3. /\ \A i \in 1..k : R[i] = rows[c][i]
        /\ R[k + 1] = status /\ Len(R) \in Nat
        /\ status = "UNKNOWN" => /\ Len(R) = k + 1 + (n - idx[c]) /\ pc'[c] = "done"
                                 /\ \A i \in (k + 2)..Len(R) : R[i] = "NOT_ATTEMPTED"
        /\ status # "UNKNOWN" => Len(R) = k + 1
        /\ status # "UNKNOWN" /\ pc'[c] = "done" => idx[c] = n
        /\ pc'[c] # "done" => idx'[c] = idx[c] + 1
        /\ pc'[c] \in {"observe", "done"}
    BY RowShape
  <2> HIDE DEF n, k, R
  <2>4. k + 1 + (n - idx[c]) = n /\ idx[c] + 1 = k + 2 /\ (idx[c] = n => k + 1 = n)
    BY ONLY <1>t
  <2>5. QED BY ONLY <2>1, <2>2, <2>3, <2>4
<1>2. Candidate(c) = Candidates[c][k + 1] BY <1>t DEF Candidate
<1> HIDE DEF n, k, R
<1>3. k + 1 \in 1..Len(R) /\ 1..k \subseteq 1..Len(R)
  BY <1>1, <1>t
<1>4. \A i \in 1..Len(R) : i \in 1..k \/ i = k + 1 \/ (i \in (k + 2)..Len(R) /\ status = "UNKNOWN")
  BY <1>1, <1>t
<1>5. RowsInOrder(c)'
  <2>1. ASSUME pc'[c] # "done"
        PROVE  Len(R) = idx'[c] - 1 /\ \A i \in 1..Len(R) : R[i] \in Definite
    BY <2>1, <1>1, <1>4, <1>t
  <2>2. ASSUME pc'[c] = "done"
        PROVE  Len(R) = n
    BY <2>2, <1>1
  <2>3. ASSUME NEW i \in 1..Len(R), NEW j \in 1..Len(R), i < j, R[i] \notin Definite
        PROVE  R[j] = "NOT_ATTEMPTED"
    <3>1. i \notin 1..k BY <2>3, <1>1
    <3>2. status = "UNKNOWN" BY <2>3, <3>1, <1>1, <1>4, <1>t
    <3>3. j \in (k + 2)..Len(R) BY <2>3, <3>1, <1>t, <1>1
    <3>4. QED BY <3>2, <3>3, <1>1
  <2>4. pc'[c] # "idle" BY <1>1
  <2>5. QED BY <2>1, <2>2, <2>3, <2>4 DEF RowsInOrder, R, n
<1>6. RowsOfDeletions(c)'
  <2>1. ASSUME NEW d \in deleted'[c]
        PROVE  \E i \in 1..Len(R) : d[1] = Candidates[c][i] /\ R[i] \in {"REMOVED", "UNKNOWN"}
    <3>1. CASE d[1] = Candidate(c) /\ status \in {"REMOVED", "UNKNOWN"}
      BY <3>1, <1>1, <1>2, <1>3
    <3>2. CASE ~(d[1] = Candidate(c) /\ status \in {"REMOVED", "UNKNOWN"})
      <4>1. d \in deleted[c] /\ (pc[c] # "confirm" \/ status \in {"REMOVED", "UNKNOWN"})
        BY <3>2
      <4>2. \E i \in 1..k : d[1] = Candidates[c][i] /\ rows[c][i] \in {"REMOVED", "UNKNOWN"}
        BY <3>2, <4>1 DEF RowsOfDeletions, k
      <4>3. QED BY <4>2, <1>1, <1>3
    <3>3. QED BY <3>1, <3>2
  <2>2. ASSUME NEW i \in 1..Len(R), R[i] = "REMOVED"
        PROVE  \E d \in deleted'[c] : d[1] = Candidates[c][i]
    <3>1. CASE i \in 1..k
      BY <3>1, <2>2, <1>1 DEF RowsOfDeletions, k
    <3>2. CASE i = k + 1
      BY <3>2, <2>2, <1>1, <1>2
    <3>3. CASE i \in (k + 2)..Len(R) /\ status = "UNKNOWN"
      BY <3>3, <2>2, <1>1
    <3>4. QED BY <3>1, <3>2, <3>3, <1>4
  <2>3. QED BY <2>1, <2>2, <1>1 DEF RowsOfDeletions, R
<1>7. QED BY <1>5, <1>6

(* The ways a cleaner's step ends: it goes on with the candidate, deletes  *)
(* it, writes a row about it, or refuses all candidates before the first.  *)
GoesOn(c) ==
    /\ pc[c] \in {"idle", "observe", "in-use", "recheck"}
    /\ \E label \in {"observe", "in-use", "recheck", "remove"} : Goto(c, label)
    /\ UNCHANGED <<idx, rows, vol, deleted>>

DeletesCandidate(c) == pc[c] = "remove" /\ Delete(c, Candidate(c))

Confirms(c) == DeletesCandidate(c) /\ Goto(c, "confirm") /\ UNCHANGED <<idx, rows>>

LosesAnswer(c) == DeletesCandidate(c) /\ Row(c, "UNKNOWN")

Reports(c) ==
    /\ pc[c] \in {"observe", "in-use", "recheck", "remove", "confirm"}
    /\ \E status \in Reported :
          /\ Row(c, status)
          /\ status = "REMOVED" => pc[c] = "confirm"
          /\ pc[c] = "confirm" => status \in {"REMOVED", "UNKNOWN"}
    /\ UNCHANGED <<vol, deleted>>

Refuses(c) ==
    /\ pc[c] = "idle" /\ Goto(c, "done")
    /\ rows' = [rows EXCEPT ![c] = [i \in 1..Len(Candidates[c]) |-> "REFUSED"]]
    /\ UNCHANGED <<idx, vol, deleted>>

LEMMA CleanerShape ==
    ASSUME TypeOK, NEW c \in Cleaners, CleanerStep(c)
    PROVE  /\ GoesOn(c) \/ Confirms(c) \/ LosesAnswer(c) \/ Reports(c) \/ Refuses(c)
           /\ snap' = snap \/ snap' = [snap EXCEPT ![c] = vol[Candidate(c)]]
           /\ UNCHANGED <<nextInc, mounts, outcome>>
           /\ \/ late' = late
              \/ /\ pc[c] = "remove" /\ Row(c, "UNKNOWN")
                 /\ late' = [late EXCEPT ![c] = @ \cup {Candidate(c)}]
<1> USE DEF CleanerOnly
<1>r. {"ALREADY_ABSENT", "REFUSED", "RETAINED_IN_USE", "REMOVED", "UNKNOWN"} \subseteq Reported
  BY DEF Reported, Definite
<1>1. CASE BeginCleanup(c)
  BY <1>1 DEF BeginCleanup, GoesOn
<1>2. CASE refused_cleanup_authority(c)
  BY <1>2 DEF refused_cleanup_authority, Refuses
<1>3. CASE ObserveCandidate(c)
  BY <1>3, <1>r DEF ObserveCandidate, GoesOn, Reports
<1>4. CASE configuration_volume_in_use(c)
  BY <1>4, <1>r DEF configuration_volume_in_use, GoesOn, Reports
<1>5. CASE Recheck(c)
  BY <1>5, <1>r DEF Recheck, GoesOn, Reports
<1>6. CASE RemoveVolume(c)
  BY <1>6, <1>r DEF RemoveVolume, Confirms, LosesAnswer, DeletesCandidate, Reports
<1>7. CASE ConfirmRemoved(c)
  BY <1>7, <1>r DEF ConfirmRemoved, Reports
<1>8. CASE CleanerReadFails(c)
  BY <1>8, <1>r DEF CleanerReadFails, Reports
<1>9. QED
  BY <1>1, <1>2, <1>3, <1>4, <1>5, <1>6, <1>7, <1>8 DEF CleanerStep

LEMMA DeleteType ==
    ASSUME vol \in [Refs -> Slot], deleted \in [Cleaners -> SUBSET (Refs \X Nat)],
           NEW c \in Cleaners, NEW r \in Refs, Delete(c, r)
    PROVE  /\ vol' \in [Refs -> Slot] /\ deleted' \in [Cleaners -> SUBSET (Refs \X Nat)]
           /\ \A b \in Cleaners \ {c} : deleted'[b] = deleted[b]
<1>1. vol[r] \in Volume BY DEF Delete, Slot
<1>2. <<r, vol[r].inc>> \in Refs \X Nat BY <1>1 DEF Volume
<1>3. vol' = [vol EXCEPT ![r] = NoVolume] /\ NoVolume \in Slot BY DEF Delete, Slot
<1>4. deleted' = [deleted EXCEPT ![c] = @ \cup {<<r, vol[r].inc>>}] BY DEF Delete
<1>5. QED BY <1>2, <1>3, <1>4

(* The steps of a cleaner keep the types and are moves.                    *)
LEMMA CleanerType ==
    ASSUME TypeOK, NEW c \in Cleaners, CleanerStep(c), UNCHANGED workload
    PROVE  TypeOK' /\ CleanerMove(c)
<1> DEFINE Labels == StagerPc \cup CleanerPc
           Moved == /\ pc' \in [Effects -> Labels] /\ pc'[c] \in CleanerPc
                    /\ idx' \in [Effects -> Nat] /\ idx'[c] \in 1..Len(Candidates[c])
                    /\ rows' \in [Cleaners -> Seq(Status)]
                    /\ Others(c)
                    /\ \A b \in Cleaners \ {c} : rows'[b] = rows[b]
<1>t. /\ c \in Effects /\ Candidate(c) \in Refs
      /\ vol \in [Refs -> Slot] /\ NoVolume \in Slot /\ NoVolume \notin Volume
      /\ pc \in [Effects -> Labels] /\ CleanerPc \subseteq Labels
      /\ idx \in [Effects -> Nat] /\ idx[c] \in 1..Len(Candidates[c])
      /\ rows \in [Cleaners -> Seq(Status)]
  BY CurrentRef, VolumesAssumption DEF TypeOK, Effects, Slot
<1> HIDE DEF Labels
<1>1. Moved
  <2>1. CASE \E label \in CleanerPc : Goto(c, label) /\ UNCHANGED <<idx, rows>>
    BY <2>1, <1>t DEF Goto, Others
  <2>2. CASE \E status \in Reported : Row(c, status)
    <3>1. "observe" \in CleanerPc /\ "done" \in CleanerPc BY DEF CleanerPc
    <3>2. QED BY <2>2, <3>1, RowShape DEF Labels
  <2>3. CASE Refuses(c)
    <3> DEFINE n == Len(Candidates[c])
               all == [i \in 1..n |-> "REFUSED"]
    <3>1. n \in Nat /\ "REFUSED" \in Status BY VolumesAssumption DEF Status, Definite
    <3> HIDE DEF n
    <3>2. all \in [1..n -> Status] BY <3>1
    <3>3. all \in Seq(Status) BY <3>1, <3>2, SeqDef
    <3>4. rows' = [rows EXCEPT ![c] = all] /\ pc' = [pc EXCEPT ![c] = "done"] /\ idx' = idx
      BY <2>3 DEF Refuses, Goto, n
    <3>5. "done" \in CleanerPc BY DEF CleanerPc
    <3> HIDE DEF all
    <3>6. QED BY <1>t, <3>3, <3>4, <3>5 DEF Others
  <2>4. "UNKNOWN" \in Reported BY DEF Reported
  <2>5. {"observe", "in-use", "recheck", "remove", "confirm"} \subseteq CleanerPc BY DEF CleanerPc
  <2> HIDE DEF Moved
  <2>6. QED BY <2>1, <2>2, <2>3, <2>4, <2>5, CleanerShape
              DEF GoesOn, Confirms, LosesAnswer, Reports
<1>2. /\ UNCHANGED <<vol, deleted>> \/ Deletes(c, Candidate(c))
      /\ snap' \in [Cleaners -> Slot] /\ \A b \in Cleaners \ {c} : snap'[b] = snap[b]
      /\ UNCHANGED <<nextInc, mounts, outcome>>
  <2>1. snap' = snap \/ snap' = [snap EXCEPT ![c] = vol[Candidate(c)]]
    BY CleanerShape
  <2>2. snap \in [Cleaners -> Slot] /\ vol[Candidate(c)] \in Slot BY <1>t DEF TypeOK
  <2>3. UNCHANGED <<vol, deleted>> \/ Deletes(c, Candidate(c))
    BY CleanerShape DEF GoesOn, Confirms, LosesAnswer, Reports, Refuses, DeletesCandidate, Deletes
  <2>4. QED BY <2>1, <2>2, <2>3, CleanerShape
<1>3. /\ vol' \in [Refs -> Slot] /\ deleted' \in [Cleaners -> SUBSET (Refs \X Nat)]
      /\ \A b \in Cleaners \ {c} : deleted'[b] = deleted[b]
  BY <1>2, <1>t, DeleteType DEF Deletes, TypeOK
<1>l. /\ late' \in [Cleaners -> SUBSET Refs] /\ \A b \in Cleaners : late'[b] \subseteq RefsOf(b)
      /\ \A b \in Cleaners \ {c} : late'[b] = late[b]
  <2>1. late' = late \/ late' = [late EXCEPT ![c] = @ \cup {Candidate(c)}]
    BY CleanerShape
  <2>2. Candidate(c) \in RefsOf(c) BY CurrentRef
  <2>3. late \in [Cleaners -> SUBSET Refs] /\ \A b \in Cleaners : late[b] \subseteq RefsOf(b)
    BY DEF TypeOK
  <2>4. QED BY ONLY <2>1, <2>2, <2>3, <1>t, c \in Cleaners
<1>4. CleanerMove(c)
  BY <1>1, <1>2, <1>3, <1>l, <1>t DEF CleanerMove
<1>5. \A f \in Effects : f # c => pc'[f] = pc[f] /\ idx'[f] = idx[f]
  BY <1>1 DEF Others
<1>6. c \notin Stagers /\ Stagers \subseteq Effects /\ Cleaners \subseteq Effects
  BY VolumesAssumption DEF Effects
<1>7. /\ \A s \in Stagers : idx'[s] \in 1..Len(Selection[s])
      /\ \A b \in Cleaners : pc'[b] \in CleanerPc /\ idx'[b] \in 1..Len(Candidates[b])
  BY <1>1, <1>5, <1>6 DEF TypeOK
<1>8. \A b \in Cleaners : late'[b] \subseteq RefsOf(b)'
  BY <1>l DEF RefsOf
<1>9. QED
  BY <1>1, <1>2, <1>3, <1>l, <1>4, <1>7, <1>8 DEF TypeOK, Labels

(* So does the late execution of a lost removal.                           *)
LEMMA LateType ==
    ASSUME TypeOK, NEW c \in Cleaners, LateRemoval(c), UNCHANGED workload
    PROVE  TypeOK' /\ CleanerMove(c)
<1>1. PICK r \in late[c] : /\ late' = [late EXCEPT ![c] = @ \ {r}]
                           /\ Delete(c, r) \/ UNCHANGED <<vol, deleted>>
  BY DEF LateRemoval
<1>2. UNCHANGED <<pc, idx, snap, rows, nextInc, mounts, outcome>>
  BY DEF LateRemoval, CleanerOnly
<1>t. /\ late \in [Cleaners -> SUBSET Refs] /\ \A b \in Cleaners : late[b] \subseteq RefsOf(b)
      /\ vol \in [Refs -> Slot] /\ deleted \in [Cleaners -> SUBSET (Refs \X Nat)] /\ r \in Refs
  BY <1>1 DEF TypeOK
<1>3. /\ vol' \in [Refs -> Slot] /\ deleted' \in [Cleaners -> SUBSET (Refs \X Nat)]
      /\ \A b \in Cleaners \ {c} : deleted'[b] = deleted[b]
  BY <1>1, <1>t, DeleteType
<1>4. /\ late' \in [Cleaners -> SUBSET Refs] /\ \A b \in Cleaners : late'[b] \subseteq RefsOf(b)
      /\ \A b \in Cleaners \ {c} : late'[b] = late[b]
  BY ONLY <1>1, <1>t, c \in Cleaners
<1>5. CleanerMove(c)
  <2>1. UNCHANGED <<vol, deleted>> \/ \E x \in Refs : Deletes(c, x) BY <1>1, <1>t DEF Deletes
  <2>2. QED BY <2>1, <1>2, <1>3, <1>4 DEF CleanerMove, Others
<1>6. \A b \in Cleaners : late'[b] \subseteq RefsOf(b)'
  BY <1>4 DEF RefsOf
<1>7. QED BY <1>2, <1>3, <1>4, <1>5, <1>6 DEF TypeOK

-----------------------------------------------------------------------------
(* A cleanup reports what it did.                                          *)

LEMMA TypeInit ==
    ASSUME Init PROVE TypeOK
<1>1. workload \in [effects: SUBSET Effects, reserved: BOOLEAN]
  BY VolumesAssumption DEF Init, Effects
<1>2. vol \in [Refs -> Slot]
  BY VolumesAssumption DEF Init, Slot
<1>3. /\ \A s \in Stagers : Len(Selection[s]) \in Nat /\ Len(Selection[s]) > 0
      /\ \A c \in Cleaners : Len(Candidates[c]) \in Nat /\ Len(Candidates[c]) > 0
  BY VolumesAssumption
<1>4. /\ idx = [e \in Effects |-> 1] /\ pc = [e \in Effects |-> "idle"]
      /\ Stagers \subseteq Effects /\ Cleaners \subseteq Effects
  BY DEF Init, Effects
<1>5. /\ \A s \in Stagers : idx[s] \in 1..Len(Selection[s])
      /\ \A c \in Cleaners : idx[c] \in 1..Len(Candidates[c])
  BY <1>3, <1>4
<1>6. /\ rows = [c \in Cleaners |-> <<>>] /\ <<>> \in Seq(Status)
      /\ deleted = [c \in Cleaners |-> {}] /\ late = [c \in Cleaners |-> {}]
  BY DEF Init
<1>7. /\ snap = [c \in Cleaners |-> NoVolume] /\ NoVolume \in Slot
      /\ mounts = [s \in Stagers |-> {}] /\ outcome = [s \in Stagers |-> "none"]
      /\ nextInc \in Nat
  BY DEF Init, Slot
<1>8. "idle" \in CleanerPc BY DEF CleanerPc
<1>9. QED BY <1>1, <1>2, <1>4, <1>5, <1>6, <1>7, <1>8 DEF TypeOK

LEMMA CleanupInit ==
    ASSUME Init PROVE CleanupInv
<1>1. TypeOK BY TypeInit
<1>2. Incarnations
  BY VolumesAssumption DEF Init, Incarnations
<1>3. ASSUME NEW c \in Cleaners PROVE RowsInOrder(c) /\ RowsOfDeletions(c) /\ LateUnknown(c)
  <2>1. /\ pc[c] = "idle" /\ idx[c] = 1 /\ rows[c] = <<>> /\ deleted[c] = {} /\ late[c] = {}
    BY DEF Init
  <2>2. Len(rows[c]) = 0 BY <2>1
  <2>3. 1..Len(rows[c]) = {} BY <2>2
  <2>4. QED BY <2>1, <2>2, <2>3 DEF RowsInOrder, RowsOfDeletions, LateUnknown
<1>4. QED BY <1>1, <1>2, <1>3 DEF CleanupInv

(* New incarnations are numbered upwards, so a deleted one stays deleted.  *)
LEMMA IncarnationsNext ==
    ASSUME TypeOK, Incarnations,
           (\E s \in Stagers : StagerMove(s)) \/ (\E c \in Cleaners : CleanerMove(c))
    PROVE  Incarnations'
<1>t. /\ \A r \in Refs : vol[r] # NoVolume => vol[r].inc \in Nat
      /\ nextInc \in Nat
      /\ \A c \in Cleaners : \A d \in deleted[c] : d[1] \in Refs /\ d[2] \in Nat
  BY DEF TypeOK, Slot, Volume
<1>1. ASSUME NEW s \in Stagers, StagerMove(s)
      PROVE  Incarnations'
  <2>1. ASSUME NEW r \in Refs
        PROVE  /\ vol'[r] # NoVolume => vol'[r].inc < nextInc'
               /\ vol'[r] # NoVolume => (vol[r] # NoVolume /\ vol'[r].inc = vol[r].inc) \/ vol'[r].inc = nextInc
    BY <1>1, <1>t DEF StagerMove, Incarnations
  <2>2. ASSUME NEW c \in Cleaners, NEW d \in deleted'[c]
        PROVE  d[2] < nextInc' /\ (vol'[d[1]] # NoVolume => vol'[d[1]].inc # d[2])
    <3>1. d \in deleted[c] BY <1>1 DEF StagerMove
    <3>2. d[2] < nextInc /\ (vol[d[1]] # NoVolume => vol[d[1]].inc # d[2]) BY <3>1 DEF Incarnations
    <3>3. nextInc' \in {nextInc, nextInc + 1} BY <1>1 DEF StagerMove
    <3>4. d[1] \in Refs /\ d[2] \in Nat BY <3>1, <1>t
    <3>5. QED BY <2>1, <3>2, <3>3, <3>4, <1>t
  <2>3. QED BY <2>1, <2>2 DEF Incarnations
<1>2. ASSUME NEW c \in Cleaners, CleanerMove(c)
      PROVE  Incarnations'
  <2>u. nextInc' = nextInc BY <1>2 DEF CleanerMove
  <2>1. CASE UNCHANGED <<vol, deleted>>
    BY <2>u, <2>1 DEF Incarnations
  <2>2. ASSUME NEW x \in Refs, Deletes(c, x) PROVE Incarnations'
    <3> DEFINE gone == <<x, vol[x].inc>>
    <3>1. x \in Refs OBVIOUS
    <3>2. /\ vol' \in [Refs -> Slot] /\ vol'[x] = NoVolume
          /\ \A r \in Refs : r # x => vol'[r] = vol[r]
      <4>1. vol \in [Refs -> Slot] /\ NoVolume \in Slot BY DEF TypeOK, Slot
      <4>2. vol' = [vol EXCEPT ![x] = NoVolume] BY <2>2 DEF Deletes, Delete
      <4>3. QED BY <3>1, <4>1, <4>2
    <3>3. vol[x] # NoVolume BY <2>2 DEF Deletes, Delete
    <3>4. /\ \A b \in Cleaners : b # c => deleted'[b] = deleted[b]
          /\ deleted'[c] = deleted[c] \cup {gone}
      <4>1. deleted' = [deleted EXCEPT ![c] = @ \cup {gone}] BY <2>2 DEF Deletes, Delete
      <4>2. deleted \in [Cleaners -> SUBSET (Refs \X Nat)] BY DEF TypeOK
      <4> HIDE DEF gone
      <4>3. QED BY <4>1, <4>2
    <3>5. gone[1] = x /\ gone[2] < nextInc BY <3>1, <3>3 DEF Incarnations
    <3> HIDE DEF gone
    <3>6. ASSUME NEW b \in Cleaners, NEW d \in deleted'[b]
          PROVE  d[2] < nextInc /\ (vol'[d[1]] # NoVolume => vol'[d[1]].inc # d[2])
      <4>1. CASE d = gone BY <4>1, <3>2, <3>5
      <4>2. CASE d # gone
        <5>1. d \in deleted[b] BY <4>2, <3>4
        <5>2. d[2] < nextInc /\ (vol[d[1]] # NoVolume => vol[d[1]].inc # d[2]) BY <5>1 DEF Incarnations
        <5>3. d[1] \in Refs BY <5>1, <1>t
        <5>4. QED BY <5>2, <5>3, <3>2
      <4>3. QED BY <4>1, <4>2
    <3>7. \A r \in Refs : vol'[r] # NoVolume => vol'[r].inc < nextInc
      BY <3>2 DEF Incarnations
    <3>8. QED BY <3>6, <3>7, <2>u DEF Incarnations
  <2>3. QED BY <1>2, <2>1, <2>2 DEF CleanerMove
<1>3. QED BY <1>1, <1>2

(* A cleaner's own step keeps its rows in order and true.                  *)
LEMMA RowsOwn ==
    ASSUME TypeOK, NEW c \in Cleaners, CleanerStep(c), RowsInOrder(c), RowsOfDeletions(c)
    PROVE  RowsInOrder(c)' /\ RowsOfDeletions(c)'
<1>t. c \in Effects /\ pc \in [Effects -> StagerPc \cup CleanerPc]
  BY DEF TypeOK, Effects
<1>1. CASE GoesOn(c)
  <2>1. pc'[c] \in {"observe", "in-use", "recheck", "remove"} BY <1>1, <1>t DEF GoesOn, Goto
  <2>2. idx' = idx /\ rows' = rows /\ deleted' = deleted /\ pc[c] \notin {"done", "confirm"}
    BY <1>1 DEF GoesOn
  <2>3. QED BY <2>1, <2>2 DEF RowsInOrder, RowsOfDeletions, Candidate
<1>d. ASSUME DeletesCandidate(c)
      PROVE  /\ pc[c] = "remove"
             /\ deleted'[c] = deleted[c] \cup {<<Candidate(c), vol[Candidate(c)].inc>>}
  BY <1>d DEF DeletesCandidate, Delete, TypeOK
<1>2. CASE Confirms(c)
  <2>1. /\ pc'[c] = "confirm" /\ idx' = idx /\ rows' = rows /\ Candidate(c)' = Candidate(c)
    BY <1>2, <1>t DEF Confirms, Goto, Candidate
  <2>2. /\ pc[c] = "remove"
        /\ deleted'[c] = deleted[c] \cup {<<Candidate(c), vol[Candidate(c)].inc>>}
    BY <1>2, <1>d DEF Confirms
  <2>3. RowsInOrder(c)' BY <2>1, <2>2 DEF RowsInOrder
  <2>4. \A d \in deleted'[c] : d \in deleted[c] \/ d[1] = Candidate(c) BY <2>2
  <2>5. \E d \in deleted'[c] : d[1] = Candidate(c)
    <3> DEFINE gone == <<Candidate(c), vol[Candidate(c)].inc>>
    <3>1. gone[1] = Candidate(c) /\ gone \in deleted'[c] BY <2>2
    <3> HIDE DEF gone
    <3>2. QED BY <3>1
  <2>6. RowsOfDeletions(c)' BY <2>1, <2>2, <2>4, <2>5 DEF RowsOfDeletions
  <2>7. QED BY <2>3, <2>6
<1>3. CASE LosesAnswer(c)
  <2>1. /\ pc[c] = "remove" /\ Row(c, "UNKNOWN") /\ "UNKNOWN" \in Reported
        /\ deleted'[c] = deleted[c] \cup {<<Candidate(c), vol[Candidate(c)].inc>>}
    BY <1>3, <1>d DEF LosesAnswer, Reported
  <2>2. QED BY <2>1, RowTrue
<1>4. CASE Reports(c)
  <2>1. PICK status \in Reported :
              /\ Row(c, status)
              /\ status = "REMOVED" => pc[c] = "confirm"
              /\ pc[c] = "confirm" => status \in {"REMOVED", "UNKNOWN"}
    BY <1>4 DEF Reports
  <2>2. deleted' = deleted /\ pc[c] # "done" BY <1>4 DEF Reports
  <2>3. pc[c] = "confirm" => \E d \in deleted[c] : d[1] = Candidate(c) BY DEF RowsOfDeletions
  <2>4. /\ deleted[c] \subseteq deleted'[c]
        /\ status = "REMOVED" => \E d \in deleted'[c] : d[1] = Candidate(c)
    BY <2>1, <2>2, <2>3
  <2>5. \A d \in deleted'[c] :
              \/ d \in deleted[c] /\ pc[c] # "confirm"
              \/ d \in deleted[c] /\ status \in {"REMOVED", "UNKNOWN"}
              \/ d[1] = Candidate(c) /\ status \in {"REMOVED", "UNKNOWN"}
    BY <2>1, <2>2
  <2>6. QED BY <2>1, <2>2, <2>4, <2>5, RowTrue
<1>5. CASE Refuses(c)
  <2> DEFINE n == Len(Candidates[c])
             all == [i \in 1..n |-> "REFUSED"]
  <2>1. n \in Nat /\ pc[c] = "idle" /\ pc'[c] = "done" /\ deleted' = deleted
    BY <1>5, <1>t, VolumesAssumption DEF Refuses, Goto
  <2>2. rows'[c] = all BY <1>5 DEF Refuses, TypeOK
  <2> HIDE DEF n
  <2>3. all \in [1..n -> Status] BY DEF Status, Definite
  <2>4. all \in Seq(Status) BY <2>1, <2>3, SeqDef
  <2>5. Len(all) = n /\ \A i \in 1..n : all[i] = "REFUSED" BY <2>1, <2>3, <2>4, LenProperties
  <2> HIDE DEF all
  <2>6. rows[c] \in Seq(Status) /\ idx[c] \in Nat BY <1>t DEF TypeOK
  <2>7. deleted[c] = {}
    BY <2>1, <2>6 DEF RowsInOrder, RowsOfDeletions, Definite
  <2>8. QED BY <2>1, <2>2, <2>5, <2>7 DEF RowsInOrder, RowsOfDeletions, Definite, n
<1>6. QED BY <1>1, <1>2, <1>3, <1>4, <1>5, CleanerShape

(* A cleaner that lost a removal is done, so it is in the row just written. *)
LEMMA LateOwn ==
    ASSUME TypeOK, NEW c \in Cleaners, CleanerStep(c), RowsInOrder(c), LateUnknown(c)
    PROVE  LateUnknown(c)'
<1>1. pc[c] # "done"
  BY CleanerShape DEF GoesOn, Confirms, LosesAnswer, DeletesCandidate, Reports, Refuses
<1>2. late[c] = {} BY <1>1 DEF LateUnknown
<1>3. CASE late' = late BY <1>2, <1>3 DEF LateUnknown
<1>4. CASE /\ pc[c] = "remove" /\ Row(c, "UNKNOWN")
           /\ late' = [late EXCEPT ![c] = @ \cup {Candidate(c)}]
  <2> DEFINE k == Len(rows[c])
  <2>1. late'[c] = {Candidate(c)} BY <1>2, <1>4 DEF TypeOK
  <2>2. k = idx[c] - 1 /\ k \in Nat /\ idx[c] \in 1..Len(Candidates[c]) /\ Len(Candidates[c]) \in Nat
    BY <1>1, VolumesAssumption DEF RowsInOrder, TypeOK
  <2>3. "UNKNOWN" \in Reported BY DEF Reported
  <2>4. /\ rows'[c][k + 1] = "UNKNOWN" /\ pc'[c] = "done"
        /\ Len(rows'[c]) = k + 1 + (Len(Candidates[c]) - idx[c])
    BY <1>4, <2>3, RowShape
  <2> HIDE DEF k
  <2>5. k + 1 \in 1..Len(rows'[c]) /\ k + 1 = idx[c] BY <2>2, <2>4
  <2>6. Candidate(c) = Candidates[c][k + 1] BY <2>5 DEF Candidate
  <2>7. QED BY <2>1, <2>4, <2>5, <2>6 DEF LateUnknown
<1>5. QED BY <1>3, <1>4, CleanerShape

(* A late deletion is in the UNKNOWN row of its candidate.                 *)
LEMMA LateRows ==
    ASSUME TypeOK, NEW c \in Cleaners, LateRemoval(c),
           RowsInOrder(c), RowsOfDeletions(c), LateUnknown(c)
    PROVE  RowsInOrder(c)' /\ RowsOfDeletions(c)' /\ LateUnknown(c)'
<1>1. PICK r \in late[c] : /\ late' = [late EXCEPT ![c] = @ \ {r}]
                           /\ Delete(c, r) \/ UNCHANGED <<vol, deleted>>
  BY DEF LateRemoval
<1>2. pc' = pc /\ idx' = idx /\ rows' = rows BY DEF LateRemoval
<1>3. /\ pc[c] = "done"
      /\ \E i \in 1..Len(rows[c]) : r = Candidates[c][i] /\ rows[c][i] = "UNKNOWN"
  BY <1>1 DEF LateUnknown
<1>4. RowsInOrder(c)' BY <1>2 DEF RowsInOrder
<1>5. late'[c] \subseteq late[c] BY <1>1 DEF TypeOK
<1>6. LateUnknown(c)' BY <1>2, <1>5 DEF LateUnknown
<1>7. deleted[c] \subseteq deleted'[c] /\ \A d \in deleted'[c] : d \in deleted[c] \/ d[1] = r
  BY <1>1 DEF Delete, TypeOK
<1>8. RowsOfDeletions(c)' BY <1>2, <1>3, <1>7 DEF RowsOfDeletions
<1>9. QED BY <1>4, <1>6, <1>8

LEMMA CleanupNext ==
    ASSUME CleanupInv, [Next]_vars PROVE CleanupInv'
<1>t. TypeOK /\ Incarnations BY DEF CleanupInv
<1>1. CASE UNCHANGED vars
  BY <1>1 DEF vars, CleanupInv, TypeOK, Incarnations, RowsInOrder, RowsOfDeletions, LateUnknown,
       Candidate, RefsOf
<1>2. ASSUME NEW s \in Stagers, AnyStagerStep(s), UNCHANGED workload
      PROVE  CleanupInv'
  <2>1. TypeOK' /\ StagerMove(s) BY <1>t, <1>2, StagerType
  <2>2. Incarnations' BY <1>t, <2>1, IncarnationsNext
  <2>3. ASSUME NEW c \in Cleaners PROVE RowsInOrder(c)' /\ RowsOfDeletions(c)' /\ LateUnknown(c)'
    <3>1. c \in Effects \ {s} BY VolumesAssumption DEF Effects
    <3>2. /\ pc'[c] = pc[c] /\ idx'[c] = idx[c] /\ rows' = rows
          /\ late' = late /\ deleted' = deleted
      BY <2>1, <3>1 DEF StagerMove, Others
    <3>3. RowsInOrder(c) /\ RowsOfDeletions(c) /\ LateUnknown(c) BY DEF CleanupInv
    <3>4. QED BY <3>2, <3>3 DEF RowsInOrder, RowsOfDeletions, LateUnknown, Candidate
  <2>4. QED BY <2>1, <2>2, <2>3 DEF CleanupInv
<1>3. ASSUME NEW c \in Cleaners, AnyCleanerStep(c), UNCHANGED workload
      PROVE  CleanupInv'
  <2>1. TypeOK' /\ CleanerMove(c) BY <1>t, <1>3, CleanerType, LateType DEF AnyCleanerStep
  <2>2. Incarnations' BY <1>t, <2>1, IncarnationsNext
  <2>3. ASSUME NEW b \in Cleaners PROVE RowsInOrder(b)' /\ RowsOfDeletions(b)' /\ LateUnknown(b)'
    <3>1. RowsInOrder(b) /\ RowsOfDeletions(b) /\ LateUnknown(b) BY DEF CleanupInv
    <3>2. CASE b = c BY <3>1, <3>2, <1>t, <1>3, RowsOwn, LateOwn, LateRows DEF AnyCleanerStep
    <3>3. CASE b # c
      <4>1. b \in Effects \ {c} BY <3>3 DEF Effects
      <4>2. /\ pc'[b] = pc[b] /\ idx'[b] = idx[b]
            /\ rows'[b] = rows[b] /\ late'[b] = late[b] /\ deleted'[b] = deleted[b]
        BY <2>1, <3>3, <4>1 DEF CleanerMove, Others
      <4>3. QED BY <3>1, <4>2 DEF RowsInOrder, RowsOfDeletions, LateUnknown, Candidate
    <3>4. QED BY <3>2, <3>3
  <2>4. QED BY <2>1, <2>2, <2>3 DEF CleanupInv
<1>4. QED BY <1>1, <1>2, <1>3 DEF Next, AnyStagerStep, AnyCleanerStep

(* What CleanupInv says of a candidate that was not reported deleted needs *)
(* that no candidate is given twice.                                       *)
LEMMA CleanupTrue ==
    ASSUME CleanupInv PROVE CleanupRowsTrue
<1> SUFFICES ASSUME NEW c \in Cleaners
             PROVE  DeletionsReported(c) /\ RemovedRowTrue(c) /\ UnknownStopsCleanup(c)
  BY DEF CleanupRowsTrue
<1>t. TypeOK /\ Incarnations /\ RowsInOrder(c) /\ RowsOfDeletions(c)
  BY DEF CleanupInv
<1>1. DeletionsReported(c)
  <2> SUFFICES ASSUME pc[c] = "done"
               PROVE  /\ Len(rows[c]) = Len(Candidates[c])
                      /\ \A i \in 1..Len(rows[c]) :
                            rows[c][i] \in {"ALREADY_ABSENT", "REFUSED", "RETAINED_IN_USE", "NOT_ATTEMPTED"} =>
                              ~ \E d \in deleted[c] : d[1] = Candidates[c][i]
    BY DEF DeletionsReported
  <2>1. Len(rows[c]) = Len(Candidates[c]) BY <1>t DEF RowsInOrder
  <2>2. ASSUME NEW i \in 1..Len(rows[c]), NEW d \in deleted[c], d[1] = Candidates[c][i]
        PROVE  rows[c][i] \in {"REMOVED", "UNKNOWN"}
    <3>1. PICK j \in 1..Len(rows[c]) : d[1] = Candidates[c][j] /\ rows[c][j] \in {"REMOVED", "UNKNOWN"}
      BY <1>t DEF RowsOfDeletions
    <3>2. i = j BY <2>1, <2>2, <3>1, VolumesAssumption
    <3>3. QED BY <3>1, <3>2
  <2>3. QED BY <2>1, <2>2
<1>2. RemovedRowTrue(c)
  BY <1>t DEF RemovedRowTrue, RowsOfDeletions, Incarnations
<1>3. UnknownStopsCleanup(c)
  BY <1>t DEF UnknownStopsCleanup, RowsInOrder, Definite
<1>4. QED BY <1>1, <1>2, <1>3

(* The rows of every cleanup are true of what it deleted, whatever stagers *)
(* and other cleanups do, with or without reservations: cleanup_configura- *)
(* tion hides no deletion, claims none and stops at the first UNKNOWN.     *)
THEOREM RowsTellDeletions == Spec => []CleanupRowsTrue
<1>1. Init => CleanupInv BY CleanupInit
<1>2. CleanupInv /\ [Next]_vars => CleanupInv' BY CleanupNext
<1>3. CleanupInv => CleanupRowsTrue BY CleanupTrue
<1>4. QED BY <1>1, <1>2, <1>3, PTL DEF Spec

-----------------------------------------------------------------------------
(* Under reservations, what an effect works on is its own.                 *)

(* An effect changes volumes only while it holds its references, and comes *)
(* to hold them only when Operations lets it.                              *)
Orderly(e) ==
    /\ ~Holds(e) => vol' = vol
    /\ Holds(e)' => Holds(e) \/ Available(e)

LateOfOthers(e) == \A c \in Cleaners \ {e} : late'[c] = late[c]

LEMMA StagerOrderly ==
    ASSUME TypeOK, NEW s \in Stagers, AnyStagerStep(s) PROVE Orderly(s)
<1> USE DEF Orderly, Holds, Active
<1>s. s \notin Cleaners BY VolumesAssumption
<1>1. CASE BeginStaging(s)
  BY <1>1, <1>s DEF BeginStaging
<1>2. CASE WorkloadRemoved(s)
  BY <1>2, <1>s DEF WorkloadRemoved
<1>3. CASE InspectVolume(s) \/ CreateVolume(s) \/ CreatedIsOwned(s) \/ InspectFile(s)
           \/ Materialize(s) \/ StagedIsStillOwned(s) \/ CreateWorkload(s) \/ StartWorkload(s)
           \/ installed_configuration_matches(s) \/ StagerReadFails(s) \/ StagerDies(s)
  BY <1>3, <1>s DEF InspectVolume, CreateVolume, CreatedIsOwned, InspectFile, Materialize,
       StagedIsStillOwned, CreateWorkload, StartWorkload, installed_configuration_matches,
       StagerReadFails, StagerDies
<1>4. QED BY <1>1, <1>2, <1>3 DEF AnyStagerStep, StagerStep

LEMMA CleanerOrderly ==
    ASSUME TypeOK, NEW c \in Cleaners, AnyCleanerStep(c) PROVE Orderly(c)
<1>t. c \in Effects /\ pc \in [Effects -> StagerPc \cup CleanerPc] BY DEF TypeOK, Effects
<1>1. CASE BeginCleanup(c)
  BY <1>1 DEF BeginCleanup, Orderly
<1>2. CASE refused_cleanup_authority(c)
  <2>1. pc'[c] = "done" /\ UNCHANGED <<vol, late>> BY <1>2, <1>t DEF refused_cleanup_authority, Goto
  <2>2. QED BY <2>1 DEF Orderly, Holds, Active
<1>3. CASE ObserveCandidate(c) \/ configuration_volume_in_use(c) \/ Recheck(c)
           \/ RemoveVolume(c) \/ ConfirmRemoved(c) \/ CleanerReadFails(c)
  <2>1. Holds(c)
    BY <1>3 DEF ObserveCandidate, configuration_volume_in_use, Recheck, RemoveVolume,
         ConfirmRemoved, CleanerReadFails, Holds, Active
  <2>2. QED BY <2>1 DEF Orderly
<1>4. CASE LateRemoval(c)
  <2>1. Holds(c) BY <1>4 DEF LateRemoval, Holds
  <2>2. QED BY <2>1 DEF Orderly
<1>5. QED BY <1>1, <1>2, <1>3, <1>4 DEF AnyCleanerStep, CleanerStep

LEMMA ApartNext ==
    ASSUME Apart, workload.reserved, NEW e \in Effects, Others(e), LateOfOthers(e), Orderly(e)
    PROVE  Apart'
<1>1. ASSUME NEW h \in Effects, h # e, Holds(h)' PROVE Holds(h)
  BY <1>1 DEF Others, LateOfOthers, Holds, Active
<1>2. ASSUME NEW h \in Effects, h # e, Holds(h)', Holds(e)' PROVE RefsOf(h) \cap RefsOf(e) = {}
  <2>1. Holds(h) BY <1>1, <1>2
  <2>2. QED BY <1>2, <2>1 DEF Orderly, Available, Apart, Effects
<1>3. ASSUME NEW f \in Effects, NEW g \in Effects, Holds(f)', Holds(g)', f # g
      PROVE  RefsOf(f) \cap RefsOf(g) = {}
  <2>1. CASE f # e /\ g # e BY <1>1, <1>3, <2>1 DEF Apart
  <2>2. CASE f = e \/ g = e BY <1>2, <1>3, <2>2
  <2>3. QED BY <2>1, <2>2
<1>4. QED BY <1>3 DEF Apart, RefsOf

(* The references of an effect are left alone by the steps of another.     *)
LEMMA Isolated ==
    ASSUME TypeOK, Apart, NEW e \in Effects, NEW f \in Effects, e # f, Holds(f), Orderly(e),
           (e \in Stagers /\ StagerMove(e)) \/ (e \in Cleaners /\ CleanerMove(e))
    PROVE  \A r \in Refs : r \in RefsOf(f) => vol'[r] = vol[r]
<1> SUFFICES ASSUME NEW r \in Refs, r \in RefsOf(f) PROVE vol'[r] = vol[r]
  OBVIOUS
<1>1. CASE ~Holds(e) BY <1>1 DEF Orderly
<1>2. CASE Holds(e)
  <2>1. r \notin RefsOf(e) BY <1>2 DEF Apart
  <2>2. CASE e \in Stagers /\ StagerMove(e)
    <3>1. Ref(e) \in RefsOf(e) BY <2>2, CurrentRef
    <3>2. QED BY <2>1, <2>2, <3>1 DEF StagerMove
  <2>3. CASE e \in Cleaners /\ CleanerMove(e)
    <3>1. Candidate(e) \in RefsOf(e) /\ late[e] \subseteq RefsOf(e) BY <2>3, CurrentRef DEF TypeOK
    <3>2. vol' = vol \/ \E x \in RefsOf(e) : vol' = [vol EXCEPT ![x] = NoVolume]
      BY <2>3, <3>1 DEF CleanerMove, Deletes, Delete
    <3>3. vol \in [Refs -> Slot] BY DEF TypeOK
    <3>4. QED BY <2>1, <3>2, <3>3
  <2>4. QED BY <2>2, <2>3
<1>3. QED BY <1>1, <1>2

(* Nor does any step touch what a succeeded effect's container mounts: a   *)
(* cleaner leaves a mounted volume, a stager fills only an empty one.      *)
LEMMA MountedKept ==
    ASSUME TypeOK, NEW s \in Stagers, MountsKept(s), outcome[s] = "succeeded", mounts[s] # {},
           NEW e \in Effects,
           (e \in Stagers /\ StagerKnows(e) /\ StagerMove(e)) \/ (e \in Cleaners /\ CleanerMove(e))
    PROVE  \A r \in Members(Selection[s]) : vol'[r] = vol[r]
<1> SUFFICES ASSUME NEW r \in Members(Selection[s]) PROVE vol'[r] = vol[r]
  OBVIOUS
<1>1. r \in Refs /\ r \in mounts[s] /\ Installed(r)
  BY CurrentRef DEF MountsKept
<1>2. CASE e \in Stagers /\ StagerKnows(e) /\ StagerMove(e)
  <2>1. ~(pc[e] = "fill" /\ r = Ref(e))
    BY <1>1, <1>2 DEF StagerKnows, Installed
  <2>2. QED BY <1>1, <1>2, <2>1 DEF StagerMove, Installed, Exact
<1>3. CASE e \in Cleaners /\ CleanerMove(e)
  <2>1. InUse(r) BY <1>1 DEF InUse
  <2>2. ASSUME NEW x \in Refs, Deletes(e, x) PROVE vol'[r] = vol[r]
    <3>1. r # x BY <2>1, <2>2 DEF Deletes, Delete
    <3>2. vol' = [vol EXCEPT ![x] = NoVolume] BY <2>2 DEF Deletes, Delete
    <3>3. vol \in [Refs -> Slot] BY DEF TypeOK
    <3>4. QED BY <1>1, <3>1, <3>2, <3>3
  <2>3. QED BY <1>3, <2>2 DEF CleanerMove
<1>4. QED BY <1>2, <1>3

(* What a stager knows holds as long as its references are left alone.     *)
LEMMA KnowsKept ==
    ASSUME TypeOK, NEW s \in Stagers, StagerKnows(s), pc'[s] = pc[s], idx'[s] = idx[s],
           Active(s) => \A r \in Refs : r \in RefsOf(s) => vol'[r] = vol[r]
    PROVE  StagerKnows(s)'
<1>1. CASE ~Active(s)
  BY <1>1 DEF StagerKnows, Active
<1>2. CASE Active(s)
  <2>1. \A r \in Members(Selection[s]) : vol'[r] = vol[r]
    BY <1>2, CurrentRef
  <2>2. Ref(s) \in Members(Selection[s]) /\ Ref(s)' = Ref(s)
    BY CurrentRef DEF Ref
  <2>3. \A i \in 1..(idx[s] - 1) : Selection[s][i] \in Members(Selection[s])
    <3>1. idx[s] \in 1..Len(Selection[s]) /\ Len(Selection[s]) \in Nat
      BY VolumesAssumption DEF TypeOK
    <3>2. \A i \in 1..(idx[s] - 1) : i \in 1..Len(Selection[s]) BY <3>1
    <3>3. QED BY <3>2 DEF Members
  <2>4. \A r \in Members(Selection[s]) : (Installed(r) => Installed(r)') /\ (Exact(r) => Exact(r)')
    BY <2>1 DEF Installed, Exact
  <2>5. QED BY <2>1, <2>2, <2>3, <2>4 DEF StagerKnows
<1>3. QED BY <1>1, <1>2

(* A stager's own steps do not disturb what is installed.                  *)
LEMMA InstalledKept ==
    ASSUME TypeOK, NEW s \in Stagers, StagerKnows(s), StagerMove(s), NEW r \in Refs, Installed(r)
    PROVE  vol'[r] = vol[r] /\ Installed(r)'
<1>1. ~(pc[s] = "fill" /\ r = Ref(s)) BY DEF StagerKnows, Installed
<1>2. vol'[r] = vol[r] BY <1>1 DEF StagerMove, Installed, Exact
<1>3. QED BY <1>2 DEF Installed, Exact

(* A stager's own steps keep what it knows.                                *)
LEMMA KnowsOwn ==
    ASSUME TypeOK, NEW s \in Stagers, StagerKnows(s), StagerMove(s), AnyStagerStep(s)
    PROVE  StagerKnows(s)'
<1> DEFINE n == Len(Selection[s])
           x == Ref(s)
           Done(k) == \A i \in 1..k : Installed(Selection[s][i])
           DoneNext(k) == \A i \in 1..k : Installed(Selection[s][i])'
<1>t. /\ s \in Effects /\ pc \in [Effects -> StagerPc \cup CleanerPc] /\ x \in Refs
      /\ n \in Nat /\ idx[s] \in 1..n /\ idx \in [Effects -> Nat]
      /\ \A i \in 1..n : Selection[s][i] \in Refs
      /\ vol \in [Refs -> Slot] /\ nextInc \in Nat
  BY CurrentRef, VolumesAssumption DEF TypeOK, Effects
<1>g. ASSUME NEW label, pc' = [pc EXCEPT ![s] = label] PROVE pc'[s] = label
  BY <1>g, <1>t
<1>k. \A r \in Refs : Installed(r) => vol'[r] = vol[r] /\ Installed(r)'
  BY InstalledKept
<1>d. ASSUME Active(s) PROVE DoneNext(idx[s] - 1)
  <2>1. \A i \in 1..(idx[s] - 1) : Installed(Selection[s][i])
    BY <1>d DEF StagerKnows, Active
  <2>2. \A i \in 1..(idx[s] - 1) : Selection[s][i] \in Refs BY <1>t
  <2>3. QED BY <2>1, <2>2, <1>k
<1>m. \A r \in Members(Selection[s]) : Installed(r) => Installed(r)'
  BY <1>k, CurrentRef
(* Ending needs nothing.                                                   *)
<1>e. ASSUME pc'[s] \in {"done", "dead"} PROVE StagerKnows(s)'
  BY <1>e DEF StagerKnows
<1>f. ASSUME NEW kind, End(s, kind) PROVE StagerKnows(s)'
  BY <1>f, <1>e, <1>g DEF End, Goto
<1>1. CASE BeginStaging(s)
  <2>1. pc'[s] = "inspect" /\ idx'[s] = 1
    BY <1>1, <1>g DEF BeginStaging, Goto, StagerKnows
  <2>2. QED BY <2>1 DEF StagerKnows
<1>2. CASE InspectVolume(s) \/ CreatedIsOwned(s)
  <2>1. /\ Active(s) /\ idx' = idx /\ vol' = vol
        /\ \/ pc'[s] = "create_volume"
           \/ pc'[s] = "file" /\ Exact(x)
           \/ \E kind \in {"failed"} : End(s, kind)
    BY <1>2, <1>g DEF InspectVolume, CreatedIsOwned, Goto, Active, require_configuration_owner, Exact
  <2>2. CASE pc'[s] = "create_volume"
    BY <2>1, <2>2, <1>d DEF StagerKnows
  <2>3. CASE pc'[s] = "file" /\ Exact(x)
    <3>1. Exact(Ref(s))' BY <2>1, <2>3 DEF Exact, Ref
    <3>2. QED BY <2>1, <2>3, <3>1, <1>d DEF StagerKnows
  <2>4. QED BY <2>1, <2>2, <2>3, <1>f
<1>3. CASE CreateVolume(s)
  <2>1. /\ Active(s) /\ idx' = idx
        /\ pc'[s] = "owner" \/ End(s, "uncertain")
    BY <1>3, <1>g DEF CreateVolume, Goto, Active
  <2>2. CASE pc'[s] = "owner"
    BY <2>1, <2>2, <1>d DEF StagerKnows
  <2>3. QED BY <2>1, <2>2, <1>f
<1>4. CASE InspectFile(s)
  <2> DEFINE v == AutoCreated(vol, {x})
  <2>1. Active(s) /\ idx' = idx /\ vol' = v /\ Exact(x) /\ (pc[s] = "reread" => Installed(x))
    BY <1>4 DEF InspectFile, Active, StagerKnows, Installed
  <2>2. v[x] = vol[x] BY <2>1, <1>t DEF AutoCreated, Exact
  <2>3. Ref(s)' = x BY <2>1 DEF Ref
  <2>4. CASE v[x].content = "match"
    <3>1. pc'[s] = "still-owned" BY <1>4, <2>4, <1>g DEF InspectFile, Goto
    <3>2. Installed(Ref(s))' BY <2>1, <2>2, <2>3, <2>4 DEF Installed, Exact
    <3>3. QED BY <2>1, <3>1, <3>2, <1>d DEF StagerKnows
  <2>5. CASE v[x].content # "match" /\ v[x].content = "none" /\ pc[s] = "file"
    <3>1. pc'[s] = "fill" BY <1>4, <2>5, <1>g DEF InspectFile, Goto
    <3>2. Exact(Ref(s))' /\ vol'[x].content = "none"
      BY <2>1, <2>2, <2>3, <2>5 DEF Exact
    <3>3. QED BY <2>1, <2>3, <3>1, <3>2, <1>d DEF StagerKnows
  <2>6. CASE v[x].content # "match" /\ ~(v[x].content = "none" /\ pc[s] = "file")
    <3>1. End(s, "failed") BY <1>4, <2>6 DEF InspectFile
    <3>2. QED BY <3>1, <1>f
  <2>7. QED BY <2>4, <2>5, <2>6
<1>5. CASE Materialize(s)
  <2> DEFINE v == AutoCreated(vol, {x})
  <2>1. /\ pc[s] = "fill" /\ Active(s) /\ idx' = idx /\ Exact(x)
        /\ (pc'[s] = "reread" /\ vol' = [v EXCEPT ![x].content = "match"]) \/ End(s, "uncertain")
    BY <1>5, <1>g DEF Materialize, Goto, Active, StagerKnows
  <2>2. CASE pc'[s] = "reread" /\ vol' = [v EXCEPT ![x].content = "match"]
    <3>1. v[x] = vol[x] /\ x \in DOMAIN v /\ vol[x] \in Volume
      BY <2>1, <1>t DEF AutoCreated, Exact, Slot
    <3> HIDE DEF v
    <3>2. vol'[x] = [vol[x] EXCEPT !.content = "match"] BY <2>2, <3>1
    <3>3. vol'[x] # NoVolume BY <2>1, <1>t DEF StagerMove, Exact
    <3>4. vol'[x].owner = vol[x].owner /\ vol'[x].content = "match" BY <3>1, <3>2 DEF Volume
    <3>5. Ref(s)' = x BY <2>1 DEF Ref
    <3>6. Installed(Ref(s))' BY <2>1, <3>3, <3>4, <3>5 DEF Installed, Exact
    <3>7. QED BY <2>1, <2>2, <3>6, <1>d DEF StagerKnows
  <2>3. QED BY <2>1, <2>2, <1>f
<1>6. CASE StagedIsStillOwned(s)
  <2>1. pc[s] = "still-owned" /\ Active(s) /\ vol' = vol
    BY <1>6 DEF StagedIsStillOwned, Active
  <2>2. \A i \in 1..n : i = idx[s] => Installed(Selection[s][i])'
    <3>1. \A i \in 1..n : i = idx[s] => Installed(Selection[s][i])
      BY <2>1 DEF StagerKnows, Ref
    <3>2. QED BY <3>1, <1>k, <1>t
  <2>3. DoneNext(idx[s])
    <3>1. \A i \in 1..idx[s] : i \in 1..(idx[s] - 1) \/ (i = idx[s] /\ i \in 1..n) BY <1>t
    <3>2. QED BY <3>1, <2>1, <2>2, <1>d
  <2>4. CASE idx[s] = n /\ pc'[s] = "container" /\ idx' = idx
    <3>1. \A r \in Members(Selection[s]) : Installed(r)' BY <2>3, <2>4 DEF Members
    <3>2. QED BY <2>1, <2>4, <3>1, <1>d DEF StagerKnows
  <2>5. CASE pc'[s] = "inspect" /\ idx'[s] = idx[s] + 1
    <3>1. idx'[s] - 1 = idx[s] BY <2>5, <1>t
    <3>2. QED BY <2>3, <2>5, <3>1 DEF StagerKnows
  <2>6. \/ idx[s] = n /\ pc'[s] = "container" /\ idx' = idx
        \/ pc'[s] = "inspect" /\ idx'[s] = idx[s] + 1
        \/ End(s, "failed")
    BY <1>6, <1>g, <1>t DEF StagedIsStillOwned, Goto
  <2>7. QED BY <2>4, <2>5, <2>6, <1>f
<1>7. CASE CreateWorkload(s) \/ StartWorkload(s)
  <2>1. /\ pc[s] \in {"container", "start"} /\ Active(s) /\ idx' = idx
        /\ pc'[s] \in {"start", "installed"} \/ End(s, "uncertain")
    BY <1>7, <1>g DEF CreateWorkload, StartWorkload, Goto, Active
  <2>2. CASE pc'[s] \in {"start", "installed"}
    <3>1. \A r \in Members(Selection[s]) : Installed(r)' BY <2>1, <1>m DEF StagerKnows
    <3>2. QED BY <2>1, <2>2, <3>1, <1>d DEF StagerKnows
  <2>3. QED BY <2>1, <2>2, <1>f
<1>8. CASE installed_configuration_matches(s) \/ StagerReadFails(s)
  BY <1>8, <1>f DEF installed_configuration_matches, StagerReadFails
<1>9. CASE StagerDies(s)
  BY <1>9, <1>e, <1>g DEF StagerDies, Goto
<1>10. CASE WorkloadRemoved(s)
  <2>1. pc' = pc /\ idx' = idx /\ vol' = vol BY <1>10 DEF WorkloadRemoved
  <2>2. QED BY <2>1, KnowsKept
<1>11. QED
  BY <1>1, <1>2, <1>3, <1>4, <1>5, <1>6, <1>7, <1>8, <1>9, <1>10 DEF AnyStagerStep, StagerStep

(* A stager's own steps keep its mounts; it succeeds with all installed.   *)
LEMMA MountsOwn ==
    ASSUME TypeOK, NEW s \in Stagers, StagerKnows(s), MountsKept(s), StagerMove(s), AnyStagerStep(s)
    PROVE  MountsKept(s)'
<1>t. /\ s \in Effects /\ pc \in [Effects -> StagerPc \cup CleanerPc]
      /\ outcome \in [Stagers -> {"none", "failed", "uncertain", "succeeded"}]
      /\ mounts \in [Stagers -> SUBSET Refs]
  BY DEF TypeOK, Effects
<1>e. ASSUME NEW kind, End(s, kind) PROVE outcome'[s] = kind /\ pc'[s] = "done"
  BY <1>e, <1>t DEF End, Goto
<1>m. \A r \in Members(Selection[s]) : Installed(r) => Installed(r)'
  BY InstalledKept, CurrentRef
<1>a. Active(s) => outcome[s] # "succeeded" BY DEF MountsKept, Active
<1>1. CASE BeginStaging(s) \/ StagerDies(s)
  <2>1. outcome' = outcome /\ mounts' = mounts /\ pc[s] # "done"
    BY <1>1 DEF BeginStaging, StagerDies, Active
  <2>2. QED BY <2>1 DEF MountsKept
<1>2. CASE InspectVolume(s) \/ CreateVolume(s) \/ CreatedIsOwned(s) \/ Materialize(s)
           \/ StagedIsStillOwned(s) \/ StartWorkload(s) \/ StagerReadFails(s)
  <2>1. /\ mounts' = mounts /\ Active(s)
        /\ outcome' = outcome \/ \E kind \in {"failed", "uncertain"} : End(s, kind)
    BY <1>2 DEF InspectVolume, CreateVolume, CreatedIsOwned, Materialize,
         StagedIsStillOwned, StartWorkload, StagerReadFails, Active
  <2>2. outcome'[s] # "succeeded" BY <2>1, <1>a, <1>e
  <2>3. QED BY <2>1, <2>2 DEF MountsKept
<1>3. CASE InspectFile(s)
  <2> DEFINE content == AutoCreated(vol, {Ref(s)})[Ref(s)].content
  <2>1. mounts' = mounts /\ Active(s) BY <1>3 DEF InspectFile, Active
  <2>2. outcome' = outcome \/ End(s, "failed")
    <3>1. CASE content = "match" BY <1>3, <3>1 DEF InspectFile
    <3>2. CASE content # "match" /\ content = "none" /\ pc[s] = "file" BY <1>3, <3>2 DEF InspectFile
    <3>3. CASE content # "match" /\ ~(content = "none" /\ pc[s] = "file") BY <1>3, <3>3 DEF InspectFile
    <3>4. QED BY <3>1, <3>2, <3>3
  <2>3. outcome'[s] # "succeeded" BY <2>1, <2>2, <1>a, <1>e
  <2>4. QED BY <2>1, <2>3 DEF MountsKept
<1>4. CASE CreateWorkload(s)
  <2>1. /\ Active(s)
        /\ mounts' = mounts \/ mounts' = [mounts EXCEPT ![s] = Members(Selection[s])]
        /\ outcome' = outcome \/ End(s, "uncertain")
    BY <1>4 DEF CreateWorkload, Active
  <2>2. outcome'[s] # "succeeded" BY <2>1, <1>a, <1>e
  <2>3. mounts'[s] = mounts[s] \/ mounts'[s] = Members(Selection[s]) BY <2>1, <1>t
  <2>4. QED BY <2>2, <2>3 DEF MountsKept
<1>5. CASE installed_configuration_matches(s)
  <2>1. /\ mounts' = mounts /\ pc[s] = "installed"
        /\ \E kind \in {"failed", "uncertain", "succeeded"} : End(s, kind)
    BY <1>5 DEF installed_configuration_matches
  <2>2. pc'[s] = "done" BY <2>1, <1>e
  <2>3. \A r \in Members(Selection[s]) : Installed(r)' BY <2>1, <1>m DEF StagerKnows
  <2>4. QED BY <2>1, <2>2, <2>3 DEF MountsKept
<1>6. CASE WorkloadRemoved(s)
  <2>1. mounts'[s] = {} /\ outcome' = outcome /\ pc' = pc
    BY <1>6, <1>t DEF WorkloadRemoved
  <2>2. QED BY <2>1 DEF MountsKept
<1>7. QED
  BY <1>1, <1>2, <1>3, <1>4, <1>5, <1>6 DEF AnyStagerStep, StagerStep

(* A cleaner's own steps: it goes on to remove only what it saw to be      *)
(* exactly owned and local.                                                *)
LEMMA CleanerSawOwn ==
    ASSUME TypeOK, NEW c \in Cleaners, CleanerSaw(c), CleanerStep(c)
    PROVE  CleanerSaw(c)'
<1>t. /\ c \in Effects /\ pc \in [Effects -> StagerPc \cup CleanerPc]
      /\ snap \in [Cleaners -> Slot] /\ vol \in [Refs -> Slot] /\ Candidate(c) \in Refs
  BY CurrentRef DEF TypeOK, Effects
<1>g. ASSUME NEW label, Goto(c, label) PROVE pc'[c] = label
  BY <1>g, <1>t DEF Goto
<1>r. ASSUME NEW status \in {"ALREADY_ABSENT", "REFUSED", "RETAINED_IN_USE", "REMOVED", "UNKNOWN"},
             Row(c, status)
      PROVE  CleanerSaw(c)'
  <2>1. status \in Reported BY DEF Reported, Definite
  <2>2. pc'[c] \in {"observe", "done"} BY <1>r, <2>1, RowShape
  <2>3. QED BY <2>2 DEF CleanerSaw
<1>1. CASE BeginCleanup(c) \/ refused_cleanup_authority(c)
  <2>1. pc'[c] \in {"observe", "done"} BY <1>1, <1>g DEF BeginCleanup, refused_cleanup_authority
  <2>2. QED BY <2>1 DEF CleanerSaw
<1>2. CASE ObserveCandidate(c)
  <2> DEFINE v == vol[Candidate(c)]
  <2>1. CASE v # NoVolume /\ require_configuration_owner(v) /\ v.local
    <3>1. Goto(c, "in-use") /\ snap' = [snap EXCEPT ![c] = v]
      BY <1>2, <2>1 DEF ObserveCandidate
    <3>2. pc'[c] = "in-use" /\ snap'[c] = v BY <3>1, <1>g, <1>t
    <3>3. QED BY <2>1, <3>2 DEF CleanerSaw, require_configuration_owner
  <2>2. CASE ~(v # NoVolume /\ require_configuration_owner(v) /\ v.local)
    <3>1. Row(c, "ALREADY_ABSENT") \/ Row(c, "REFUSED")
      BY <1>2, <2>2 DEF ObserveCandidate
    <3>2. QED BY <3>1, <1>r
  <2>3. QED BY <2>1, <2>2
<1>3. CASE configuration_volume_in_use(c)
  <2>1. /\ pc[c] = "in-use" /\ snap' = snap
        /\ Goto(c, "recheck") \/ Row(c, "RETAINED_IN_USE")
    BY <1>3 DEF configuration_volume_in_use
  <2>2. CASE Goto(c, "recheck")
    <3>1. pc'[c] = "recheck" BY <2>2, <1>g
    <3>2. QED BY <2>1, <3>1 DEF CleanerSaw
  <2>3. QED BY <2>1, <2>2, <1>r
<1>4. CASE Recheck(c)
  <2> DEFINE v == vol[Candidate(c)]
  <2>1. /\ pc[c] = "recheck" /\ snap' = snap /\ vol' = vol
        /\ \/ SameSnapshot(v, snap[c]) /\ Goto(c, "remove") /\ idx' = idx
           \/ Row(c, "UNKNOWN")
    BY <1>4 DEF Recheck
  <2>2. CASE SameSnapshot(v, snap[c]) /\ Goto(c, "remove") /\ idx' = idx
    <3>1. pc'[c] = "remove" BY <2>2, <1>g
    <3>2. Candidate(c)' = Candidate(c) BY <2>2 DEF Candidate
    <3>3. snap[c] # NoVolume /\ snap[c].owner = "exact" /\ snap[c].local BY <2>1 DEF CleanerSaw
    <3>4. v.owner = "exact" /\ v.local BY <2>2, <3>3 DEF SameSnapshot
    <3>5. vol'[Candidate(c)'] = v BY <2>1, <3>2
    <3>6. QED BY <2>1, <3>1, <3>2, <3>3, <3>4 DEF CleanerSaw
  <2>3. QED BY <2>1, <2>2, <1>r
<1>5. CASE RemoveVolume(c)
  <2>1. Goto(c, "confirm") \/ Row(c, "RETAINED_IN_USE") \/ Row(c, "UNKNOWN")
    BY <1>5 DEF RemoveVolume
  <2>2. CASE Goto(c, "confirm")
    <3>1. pc'[c] = "confirm" BY <2>2, <1>g
    <3>2. QED BY <3>1 DEF CleanerSaw
  <2>3. QED BY <2>1, <2>2, <1>r
<1>6. CASE ConfirmRemoved(c) \/ CleanerReadFails(c)
  <2>1. Row(c, "REMOVED") \/ Row(c, "UNKNOWN")
    BY <1>6 DEF ConfirmRemoved, CleanerReadFails
  <2>2. QED BY <2>1, <1>r
<1>7. QED
  BY <1>1, <1>2, <1>3, <1>4, <1>5, <1>6 DEF CleanerStep

(* A removal that is lost was about to delete what the cleaner saw.        *)
LEMMA LateOwnedOwn ==
    ASSUME TypeOK, NEW c \in Cleaners, CleanerKnows(c), CleanerMove(c), AnyCleanerStep(c)
    PROVE  LateOwned(c)'
<1>t. vol \in [Refs -> Slot] /\ late \in [Cleaners -> SUBSET Refs] /\ Candidate(c) \in Refs
  BY CurrentRef DEF TypeOK
<1>1. \A r \in Refs : vol'[r] = vol[r] \/ vol'[r] = NoVolume
  BY <1>t DEF CleanerMove, Deletes, Delete
<1>2. ASSUME NEW r \in late'[c]
      PROVE  r \in Refs /\ (vol[r] # NoVolume => vol[r].owner = "exact" /\ vol[r].local)
  <2>1. r \in late[c] \/ (pc[c] = "remove" /\ r = Candidate(c))
    <3>1. CASE CleanerStep(c) BY <3>1, <1>2, <1>t, CleanerShape
    <3>2. CASE LateRemoval(c) BY <3>2, <1>2, <1>t DEF LateRemoval
    <3>3. QED BY <3>1, <3>2 DEF AnyCleanerStep
  <2>2. QED BY <2>1, <1>t DEF CleanerKnows, CleanerSaw, LateOwned
<1>3. QED BY <1>1, <1>2 DEF LateOwned

LEMMA CleanerKnowsOwn ==
    ASSUME TypeOK, NEW c \in Cleaners, CleanerKnows(c), CleanerMove(c), AnyCleanerStep(c)
    PROVE  CleanerKnows(c)'
<1>1. CASE CleanerStep(c)
  BY <1>1, CleanerSawOwn, LateOwnedOwn DEF CleanerKnows
<1>2. CASE LateRemoval(c)
  <2>1. UNCHANGED <<pc, idx, snap>> BY <1>2 DEF LateRemoval
  <2>2. vol'[Candidate(c)] = vol[Candidate(c)] \/ vol'[Candidate(c)] = NoVolume
    BY CurrentRef DEF CleanerMove, Deletes, Delete, TypeOK
  <2>3. CleanerSaw(c)' BY <2>1, <2>2 DEF CleanerKnows, CleanerSaw, Candidate
  <2>4. QED BY <2>3, LateOwnedOwn DEF CleanerKnows
<1>3. QED BY <1>1, <1>2 DEF AnyCleanerStep

LEMMA ReservedInit ==
    ASSUME Init PROVE ReservedInv
<1>1. TypeOK BY TypeInit
<1>2. /\ \A e \in Effects : pc[e] = "idle" /\ idx[e] = 1
      /\ \A s \in Stagers : mounts[s] = {} /\ outcome[s] = "none"
      /\ \A c \in Cleaners : late[c] = {}
      /\ Stagers \subseteq Effects /\ Cleaners \subseteq Effects
  BY DEF Init, Effects
<1>3. Apart BY <1>2 DEF Apart, Holds, Active
<1>4. \A s \in Stagers : StagerKnows(s) /\ MountsKept(s) BY <1>2 DEF StagerKnows, MountsKept
<1>5. \A c \in Cleaners : CleanerKnows(c) BY <1>2 DEF CleanerKnows, CleanerSaw, LateOwned
<1>6. QED BY <1>1, <1>3, <1>4, <1>5 DEF ReservedInv

(* A step of e keeps what the other effects know.                          *)
LEMMA OthersKnow ==
    ASSUME TypeOK, Apart, \A s \in Stagers : StagerKnows(s) /\ MountsKept(s),
           \A c \in Cleaners : CleanerKnows(c),
           NEW e \in Effects, Orderly(e),
           (e \in Stagers /\ StagerMove(e)) \/ (e \in Cleaners /\ CleanerMove(e))
    PROVE  /\ \A s \in Stagers \ {e} : StagerKnows(s)' /\ MountsKept(s)'
           /\ \A c \in Cleaners \ {e} : CleanerKnows(c)'
<1>1. Stagers \subseteq Effects /\ Cleaners \subseteq Effects /\ Others(e)
  BY DEF Effects, StagerMove, CleanerMove
<1>2. \A f \in Effects : f # e /\ Holds(f) => \A r \in Refs : r \in RefsOf(f) => vol'[r] = vol[r]
  BY Isolated
<1>3. ASSUME NEW s \in Stagers, s # e PROVE StagerKnows(s)' /\ MountsKept(s)'
  <2>1. pc'[s] = pc[s] /\ idx'[s] = idx[s] BY <1>1, <1>3 DEF Others
  <2>2. StagerKnows(s)' BY <1>1, <1>2, <1>3, <2>1, KnowsKept DEF Holds
  <2>3. mounts'[s] = mounts[s] /\ outcome'[s] = outcome[s]
    BY <1>3 DEF StagerMove, CleanerMove
  <2>4. ASSUME outcome[s] = "succeeded", mounts[s] # {}, NEW r \in Members(Selection[s])
        PROVE  Installed(r)'
    <3>1. vol'[r] = vol[r] BY <2>4, MountedKept
    <3>2. Installed(r) BY <2>4 DEF MountsKept
    <3>3. QED BY <3>1, <3>2 DEF Installed, Exact
  <2>5. MountsKept(s)' BY <2>1, <2>3, <2>4 DEF MountsKept
  <2>6. QED BY <2>2, <2>5
<1>4. ASSUME NEW c \in Cleaners, c # e PROVE CleanerKnows(c)'
  <2>1. pc'[c] = pc[c] /\ idx'[c] = idx[c] BY <1>1, <1>4 DEF Others
  <2>2. Candidate(c)' = Candidate(c) /\ Candidate(c) \in Refs /\ Candidate(c) \in RefsOf(c)
    BY <2>1, CurrentRef DEF Candidate
  <2>3. snap'[c] = snap[c] /\ late'[c] = late[c] BY <1>4 DEF StagerMove, CleanerMove
  <2>4. pc[c] = "remove" => vol'[Candidate(c)] = vol[Candidate(c)]
    <3>1. pc[c] = "remove" => Holds(c) BY DEF Holds, Active
    <3>2. QED BY <1>1, <1>2, <1>4, <2>2, <3>1
  <2>5. \A r \in late[c] : vol'[r] = vol[r]
    <3>1. late[c] \subseteq RefsOf(c) /\ late[c] \subseteq Refs BY DEF TypeOK
    <3>2. late[c] # {} => Holds(c) BY DEF Holds
    <3>3. QED BY <1>1, <1>2, <1>4, <3>1, <3>2
  <2>6. CleanerKnows(c) BY <1>4
  <2>7. CleanerSaw(c)' BY <2>1, <2>2, <2>3, <2>4, <2>6 DEF CleanerKnows, CleanerSaw
  <2>8. LateOwned(c)' BY <2>3, <2>5, <2>6 DEF CleanerKnows, LateOwned
  <2>9. QED BY <2>7, <2>8 DEF CleanerKnows
<1>5. QED BY <1>3, <1>4

LEMMA ReservedNext ==
    ASSUME ReservedInv, [Next]_vars PROVE ReservedInv'
<1>t. TypeOK BY DEF ReservedInv
<1>1. CASE UNCHANGED vars
  <2> USE <1>1 DEF vars
  <2>1. TypeOK' BY <1>t DEF TypeOK, RefsOf
  <2>2. Apart => Apart' BY DEF Apart, Holds, Active, RefsOf
  <2>3. \A s \in Stagers : StagerKnows(s) => StagerKnows(s)'
    BY DEF StagerKnows, Installed, Exact, Ref
  <2>4. \A s \in Stagers : MountsKept(s) => MountsKept(s)'
    BY DEF MountsKept, Installed, Exact
  <2>5. \A c \in Cleaners : CleanerKnows(c) => CleanerKnows(c)'
    BY DEF CleanerKnows, CleanerSaw, LateOwned, Candidate
  <2>6. QED BY <2>1, <2>2, <2>3, <2>4, <2>5 DEF ReservedInv
<1>2. ASSUME NEW s \in Stagers, AnyStagerStep(s), UNCHANGED workload
      PROVE  ReservedInv'
  <2>1. TypeOK' /\ StagerMove(s) /\ Orderly(s) BY <1>t, <1>2, StagerType, StagerOrderly
  <2>2. s \in Effects /\ Others(s) /\ LateOfOthers(s) /\ s \notin Cleaners
    BY <2>1, VolumesAssumption DEF Effects, StagerMove, LateOfOthers
  <2>3. ASSUME workload.reserved
        PROVE  /\ Apart' /\ \A u \in Stagers : StagerKnows(u)' /\ MountsKept(u)'
               /\ \A c \in Cleaners : CleanerKnows(c)'
    <3>1. /\ Apart /\ \A u \in Stagers : StagerKnows(u) /\ MountsKept(u)
          /\ \A c \in Cleaners : CleanerKnows(c)
      BY <2>3 DEF ReservedInv
    <3>2. Apart' BY <2>1, <2>2, <2>3, <3>1, ApartNext
    <3>3. StagerKnows(s)' /\ MountsKept(s)' BY <1>t, <1>2, <2>1, <3>1, KnowsOwn, MountsOwn
    <3>4. /\ \A u \in Stagers \ {s} : StagerKnows(u)' /\ MountsKept(u)'
          /\ \A c \in Cleaners \ {s} : CleanerKnows(c)'
      BY <1>t, <2>1, <2>2, <3>1, OthersKnow
    <3>5. QED BY <2>2, <3>2, <3>3, <3>4
  <2>4. QED BY <1>2, <2>1, <2>3 DEF ReservedInv
<1>3. ASSUME NEW c \in Cleaners, AnyCleanerStep(c), UNCHANGED workload
      PROVE  ReservedInv'
  <2>1. TypeOK' /\ CleanerMove(c) /\ Orderly(c) BY <1>t, <1>3, CleanerType, LateType, CleanerOrderly DEF AnyCleanerStep
  <2>2. c \in Effects /\ Others(c) /\ LateOfOthers(c) /\ c \notin Stagers
    BY <2>1, VolumesAssumption DEF Effects, CleanerMove, LateOfOthers
  <2>3. ASSUME workload.reserved
        PROVE  /\ Apart' /\ \A u \in Stagers : StagerKnows(u)' /\ MountsKept(u)'
               /\ \A b \in Cleaners : CleanerKnows(b)'
    <3>1. /\ Apart /\ \A u \in Stagers : StagerKnows(u) /\ MountsKept(u)
          /\ \A b \in Cleaners : CleanerKnows(b)
      BY <2>3 DEF ReservedInv
    <3>2. Apart' BY <2>1, <2>2, <2>3, <3>1, ApartNext
    <3>3. CleanerKnows(c)' BY <1>t, <1>3, <2>1, <3>1, CleanerKnowsOwn
    <3>4. /\ \A u \in Stagers \ {c} : StagerKnows(u)' /\ MountsKept(u)'
          /\ \A b \in Cleaners \ {c} : CleanerKnows(b)'
      BY <1>t, <2>1, <2>2, <3>1, OthersKnow
    <3>5. QED BY <2>2, <3>2, <3>3, <3>4
  <2>4. QED BY <1>3, <2>1, <2>3 DEF ReservedInv
<1>4. QED BY <1>1, <1>2, <1>3 DEF Next, AnyStagerStep, AnyCleanerStep

(* Under reservations a configuration that was installed stays installed   *)
(* while its container exists, for any number of stagings and cleanups.    *)
THEOREM InstalledStays == Spec => []InstalledIntact
<1>1. Init => ReservedInv BY ReservedInit
<1>2. ReservedInv /\ [Next]_vars => ReservedInv' BY ReservedNext
<1>3. ReservedInv => InstalledIntact
  BY DEF ReservedInv, InstalledIntact, MountsKept, Installed, Exact
<1>4. QED BY <1>1, <1>2, <1>3, PTL DEF Spec

(* Under reservations the only volumes that disappear are ones a cleanup   *)
(* found exactly owned on ordinary local storage; no stager deletes any.   *)
THEOREM DeletesOnlyOwned == Spec => OnlyOwnedDeleted
<1> DEFINE Step == workload.reserved => \A r \in Refs : vol[r] # NoVolume /\ vol'[r] = NoVolume =>
                       vol[r].owner = "exact" /\ vol[r].local
<1>1. Init => ReservedInv BY ReservedInit
<1>2. ReservedInv /\ [Next]_vars => ReservedInv' BY ReservedNext
<1>3. ReservedInv /\ [Next]_vars => [Step]_vars
  <2> SUFFICES ASSUME ReservedInv, Next, workload.reserved,
                      NEW r \in Refs, vol[r] # NoVolume, vol'[r] = NoVolume
               PROVE  vol[r].owner = "exact" /\ vol[r].local
    OBVIOUS
  <2>t. TypeOK /\ UNCHANGED workload BY DEF ReservedInv, Next
  <2>1. ASSUME NEW s \in Stagers, AnyStagerStep(s) PROVE FALSE
    <3>1. StagerMove(s) BY <2>t, <2>1, StagerType
    <3>2. QED BY <3>1 DEF StagerMove
  <2>2. ASSUME NEW c \in Cleaners, AnyCleanerStep(c) PROVE vol[r].owner = "exact" /\ vol[r].local
    <3>1. CleanerMove(c) BY <2>t, <2>2, CleanerType, LateType DEF AnyCleanerStep
    <3>2. PICK x \in Refs : Deletes(c, x) BY <3>1 DEF CleanerMove
    <3>3. vol' = [vol EXCEPT ![x] = NoVolume] /\ vol \in [Refs -> Slot]
      BY <2>t, <3>2 DEF Deletes, Delete, TypeOK
    <3>4. r = x BY <3>3
    <3>5. CleanerKnows(c) BY DEF ReservedInv
    <3>6. QED BY <3>2, <3>4, <3>5 DEF Deletes, Delete, CleanerKnows, CleanerSaw, LateOwned
  <2>3. QED BY <2>1, <2>2 DEF Next, AnyStagerStep, AnyCleanerStep
<1>4. QED BY <1>1, <1>2, <1>3, PTL DEF Spec, OnlyOwnedDeleted

=============================================================================
