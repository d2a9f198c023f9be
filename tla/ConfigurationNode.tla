-------------------------- MODULE ConfigurationNode -------------------------
(***************************************************************************)
(* StartNode and ReconcileNode with a selected configuration or selected   *)
(* secrets (runtime.py, _configuration_node), interleaved with the         *)
(* ordinary effects of NodeEffects on the same node name.                  *)
(*                                                                         *)
(* Unlike the ordinary path this one addresses the container by the id it  *)
(* inspected or created, keeps a ConfigurationAttempt and ends a success   *)
(* with a receipt that says which container the node is now.  The volumes  *)
(* it stages are the subject of ConfigurationVolumes; here staging and     *)
(* read-back only match, conflict or cannot be observed.                   *)
(***************************************************************************)
EXTENDS NodeEffects

CONSTANT ConfiguredRequests

VARIABLE attempt   \* the ConfigurationAttempt of an effect

cvars == <<vars, attempt>>

ConfiguredRequest ==
    [op: {"StartConfigured", "ReconcileConfigured"}, rt: Runtimes, plan: Plans,
     graph: Graphs, mat: Materials, sel: Selections \cup {NoSelection}, secret: BOOLEAN]

ASSUME ConfiguredAssumption ==
    /\ ConfiguredRequests \subseteq ConfiguredRequest
    /\ NoRequest \notin ConfiguredRequest
    /\ \A r \in ConfiguredRequests : r.sel # NoSelection \/ r.secret

ConfiguredOps == {"StartConfigured", "ReconcileConfigured"}

(* Id 0 stands for None.                                                   *)
NewAttempt == [old |-> 0, cid |-> 0, removed |-> FALSE, unknown |-> FALSE, receipt |-> "none"]

Note(e, a) == attempt' = [attempt EXCEPT ![e] = a]

Configured(e) == req[e] # NoRequest /\ req[e].op \in ConfiguredOps

-----------------------------------------------------------------------------
(* _execute_configuration_node: how a conflict becomes a result.  With     *)
(* selected secrets a conflict met while a created resource or a           *)
(* materialisation is unaccounted for, or during the installed             *)
(* verification, is uncertain; otherwise it is a completed failure.        *)
ConflictFails(e, unaccounted) == Finish(e, "failed")  \* Mutant: never uncertain.

Conflict(e, unaccounted) ==
    Finish(e, IF req[e].secret /\ unaccounted THEN "uncertain" ELSE "failed")

(* _incarnation_fields: the disposition the recorded attempt supports.     *)
IncarnationWithoutReplacement(a) ==  \* Mutant: every new container is CREATED.
    IF a.unknown \/ a.cid = 0 THEN "unknown"
    ELSE IF a.old = a.cid THEN "reused" ELSE "created"

incarnation_fields(a) ==
    IF a.unknown \/ a.cid = 0 THEN "unknown"
    ELSE IF a.old = 0 /\ ~a.removed THEN "created"
    ELSE IF a.old = a.cid /\ ~a.removed THEN "reused"
    ELSE IF a.old # 0 /\ a.old # a.cid /\ a.removed THEN "replaced"
    ELSE "unknown"

same_installation(c, r) ==
    fingerprint_matches(c, r) /\ (r.sel = NoSelection \/ c.sel = r.sel)

Prior(e) == req[e].op = "ReconcileConfigured"

(* A mutating call on an exact container id.                               *)
MutateById(e, op, id, Continue) ==
    /\ Mutate(e, [op |-> op, id |-> id], Continue)
    /\ hit' = [hit EXCEPT ![e] = IF Holds(daemon, id)
                                 THEN @ \cup {[id |-> id, owner |-> daemon.container.rt]} ELSE @]
    /\ UNCHANGED mine

-----------------------------------------------------------------------------

executeConfigured(e) ==
    /\ pc[e] = "idle"
    /\ \E r \in ConfiguredRequests : req' = [req EXCEPT ![e] = r]
    /\ Goto(e, "preflight")
    /\ UNCHANGED <<daemon, late, seen, action, issued, hit, mine, witness, attempt>>

(* Any read of the attempt may raise: the outcome is then uncertain.       *)
ConfiguredReadFails(e) ==
    /\ pc[e] \in {"preflight", "stage", "reused-check", "prepare", "recheck",
                  "removed-check", "installed", "verify"}
    /\ Configured(e)
    /\ Finish(e, "uncertain")
    /\ Reads /\ UNCHANGED <<seen, action, witness, attempt>>

(* Inspection by name, result-capacity reservation and authority preflight.*)
ResultCapacityRefused(e) ==
    /\ pc[e] = "preflight"
    /\ seen' = [seen EXCEPT ![e] = daemon.container]
    /\ Finish(e, "failed")
    /\ Reads /\ UNCHANGED <<action, witness, attempt>>

Preflight(e) ==
    /\ pc[e] = "preflight"
    /\ LET c == daemon.container  r == req[e] IN
        /\ seen' = [seen EXCEPT ![e] = c]
        /\ IF r.mat \in Privileged /\ ~LocalTransport
           THEN Finish(e, "unsupported") /\ UNCHANGED attempt
           ELSE IF c = NoContainer THEN Goto(e, "image") /\ UNCHANGED attempt
           ELSE /\ Note(e, [attempt[e] EXCEPT !.old = c.id])
                /\ IF ~ReconcileNodeAdmits(c, r) THEN Finish(e, "failed")
                   ELSE CASE docker_authority_conformance(c, r) = "UNKNOWN" -> Finish(e, "uncertain")
                          [] docker_authority_conformance(c, r) = "CONFLICT" -> Finish(e, "unsupported")
                          [] OTHER ->
                                IF ~Prior(e) /\ ~require_node_container_correlation(c, r, FALSE)
                                THEN Finish(e, "failed")
                                ELSE IF Prior(e) /\ r.mat \in Privileged /\ ~same_installation(c, r)
                                THEN Finish(e, "unsupported") ELSE Goto(e, "image")
    /\ Reads /\ UNCHANGED <<action, witness>>

ConfiguredPreflightRefused(e) ==
    /\ pc[e] = "network" /\ Configured(e)
    /\ Finish(e, "failed")
    /\ Reads /\ UNCHANGED <<seen, action, witness, attempt>>

ConfiguredNetwork(e) ==
    /\ pc[e] = "network" /\ Configured(e)
    /\ LET n == daemon.network[req[e].rt] IN
        IF n = NoNetwork THEN Goto(e, "create_network")
        ELSE IF require_runtime_owner(n, req[e]) THEN Goto(e, "stage") ELSE Finish(e, "failed")
    /\ Reads /\ UNCHANGED <<seen, action, witness, attempt>>

ConfiguredCreateNetwork(e) ==
    /\ pc[e] = "create_network" /\ Configured(e)
    /\ Mutate(e, CreateNetworkCall(req[e]), Then(e, "stage"))
    /\ UNCHANGED <<hit, mine, attempt>>

(* stage_configuration conflicts, or the configuration is staged and the   *)
(* attempt continues with the container it inspected or with a new one.    *)
StageConfiguration(e) ==
    /\ pc[e] = "stage"
    /\ LET c == seen[e] IN
        \/ /\ req[e].sel # NoSelection
           /\ Conflict(e, FALSE) /\ UNCHANGED attempt
        \/ IF c # NoContainer /\ same_installation(c, req[e])
           THEN /\ Note(e, [attempt[e] EXCEPT !.cid = c.id])
                /\ IF require_start_node_container(c, req[e], Prior(e))
                   THEN Goto(e, "reused-check") ELSE Conflict(e, FALSE)
           ELSE Goto(e, "prepare") /\ UNCHANGED attempt
    /\ Reads /\ UNCHANGED <<seen, action, witness>>

(* installed_configuration_matches on the container to be reused.          *)
ReusedMatches(e) ==
    /\ pc[e] = "reused-check"
    /\ \/ Conflict(e, TRUE) /\ UNCHANGED action
       \/ IF seen[e].running THEN Goto(e, "installed") /\ Acted(e, "reused")
                             ELSE Goto(e, "start-id") /\ UNCHANGED action
    /\ Reads /\ UNCHANGED <<seen, witness, attempt>>

(* _prepare_node_container with this attempt: unaccounted is set while a   *)
(* secret volume has been created but not yet proved.                      *)
Prepare(e) ==
    /\ pc[e] = "prepare"
    /\ issued' = [issued EXCEPT ![e] = @ \cup {"create_volume"}]
    /\ \/ Goto(e, IF seen[e] = NoContainer THEN "create-id" ELSE "recheck") /\ UNCHANGED attempt
       \/ Conflict(e, FALSE) /\ UNCHANGED attempt
       \/ /\ Conflict(e, TRUE)
          /\ \E u \in BOOLEAN : Note(e, [attempt[e] EXCEPT !.unknown = u])
    /\ UNCHANGED <<daemon, late, req, seen, action, hit, mine, witness>>

(* Fresh evidence by exact id must equal the admitted inspection.          *)
RecheckOld(e) ==
    /\ pc[e] = "recheck"
    /\ IF daemon.container = seen[e] THEN Goto(e, "remove-id") ELSE Finish(e, "uncertain")
    /\ Reads /\ UNCHANGED <<seen, action, witness, attempt>>

(* Mutant: removal by name.                                                *)
RemoveOldByName(e) ==
    /\ pc[e] = "remove-id"
    /\ MutateByName(e, "remove", Then(e, "removed-check"))
    /\ UNCHANGED attempt

RemoveOld(e) ==
    /\ pc[e] = "remove-id"
    /\ MutateById(e, "remove", attempt[e].old, Then(e, "removed-check"))
    /\ UNCHANGED attempt

OldIsGone(e) ==
    /\ pc[e] = "removed-check"
    /\ IF Holds(daemon, attempt[e].old)
       THEN Finish(e, "uncertain") /\ UNCHANGED attempt
       ELSE Goto(e, "create-id") /\ Note(e, [attempt[e] EXCEPT !.removed = TRUE])
    /\ Reads /\ UNCHANGED <<seen, action, witness>>

(* Mutant: the attempt is not marked before the call.                      *)
CreateUnmarked(e) ==
    /\ pc[e] = "create-id"
    /\ Mutate(e, [op |-> "create", as |-> Created(req[e], {req[e].rt})], Then(e, "start-id"))
    /\ mine' = [mine EXCEPT ![e] = IF daemon' # daemon THEN daemon.nextId ELSE 0]
    /\ Note(e, IF pc'[e] = "start-id" THEN [attempt[e] EXCEPT !.cid = daemon.nextId] ELSE attempt[e])
    /\ UNCHANGED hit

(* Creation returns the new id, or no usable identity.                     *)
CreateConfigured(e) ==
    /\ pc[e] = "create-id"
    /\ Mutate(e, [op |-> "create", as |-> Created(req[e], {req[e].rt})],
              Then(e, "start-id") \/ (Finish(e, "uncertain") /\ UNCHANGED action))
    /\ mine' = [mine EXCEPT ![e] = IF daemon' # daemon THEN daemon.nextId ELSE 0]
    /\ Note(e, IF pc'[e] = "start-id"
               THEN [attempt[e] EXCEPT !.cid = daemon.nextId, !.unknown = FALSE]
               ELSE [attempt[e] EXCEPT !.unknown = TRUE])
    /\ UNCHANGED hit

StartById(e) ==
    /\ pc[e] = "start-id"
    /\ MutateById(e, "start", attempt[e].cid,
                  /\ Goto(e, "installed")
                  /\ Acted(e, IF attempt[e].cid = attempt[e].old THEN "started"
                              ELSE IF seen[e] = NoContainer THEN "created" ELSE "recreated"))
    /\ UNCHANGED attempt

(* The final inspection by id and its checks.                              *)
InspectInstalled(e) ==
    /\ pc[e] = "installed"
    /\ LET c == daemon.container  r == req[e] IN
        IF ~Holds(daemon, attempt[e].cid) THEN Finish(e, "uncertain")
        ELSE IF ~(require_start_node_container(c, r, Prior(e)) /\ c.running) THEN Conflict(e, TRUE)
        ELSE CASE docker_authority_conformance(c, r) = "UNKNOWN" -> Finish(e, "uncertain")
               [] docker_authority_conformance(c, r) = "CONFLICT" -> Conflict(e, TRUE)
               [] OTHER -> Goto(e, "verify")
    /\ Reads /\ UNCHANGED <<seen, action, witness, attempt>>

(* Read-back of the mounted configuration and of the secret recipient,     *)
(* then the receipt.                                                       *)
VerifyInstalled(e) ==
    /\ pc[e] = "verify"
    /\ \/ Conflict(e, TRUE) /\ UNCHANGED <<attempt, witness>>
       \/ /\ ~Holds(daemon, attempt[e].cid)
          /\ Finish(e, "uncertain") /\ UNCHANGED <<attempt, witness>>
       \/ /\ Holds(daemon, attempt[e].cid)
          /\ LET disposition == incarnation_fields(attempt[e]) IN
                IF disposition = "unknown"
                THEN Finish(e, "uncertain") /\ UNCHANGED <<attempt, witness>>
                ELSE /\ Finish(e, "succeeded")
                     /\ Note(e, [attempt[e] EXCEPT !.receipt = disposition])
                     /\ witness' = [witness EXCEPT ![e] = attempt[e].cid]
    /\ Reads /\ UNCHANGED <<seen, action>>

ConfiguredStep(e) ==
    \/ executeConfigured(e) \/ ConfiguredReadFails(e) \/ ResultCapacityRefused(e)
    \/ Preflight(e) \/ ConfiguredPreflightRefused(e) \/ ConfiguredNetwork(e)
    \/ ConfiguredCreateNetwork(e) \/ StageConfiguration(e) \/ ReusedMatches(e)
    \/ Prepare(e) \/ RecheckOld(e) \/ RemoveOld(e) \/ OldIsGone(e)
    \/ CreateConfigured(e) \/ StartById(e) \/ InspectInstalled(e) \/ VerifyInstalled(e)

ConfiguredInit == Init /\ attempt = [e \in Effects |-> NewAttempt]

ConfiguredNext ==
    \/ Next /\ UNCHANGED attempt
    \/ \E e \in Effects : ConfiguredStep(e)

ConfiguredSpec == ConfiguredInit /\ [][ConfiguredNext]_cvars

-----------------------------------------------------------------------------
(* Properties.                                                             *)

(* "Never remove by name": whatever shares the node name, a configured     *)
(* effect acts only on the container it inspected or on the one it         *)
(* created itself, and so only on containers of its own runtime.           *)
ActsOnExactContainer ==
    \A e \in Effects : Configured(e) =>
        \A h \in hit[e] : h.id \in {attempt[e].old, mine[e]} /\ h.owner = req[e].rt

(* A receipt tells the truth about the incarnation: CREATED and REPLACED   *)
(* name the container this effect created, REPLACED only after this effect *)
(* removed exactly the one it inspected, REUSED the one it inspected, with *)
(* nothing created or removed.                                             *)
ReceiptHonest ==
    \A e \in Effects :
        LET a == attempt[e] IN
        /\ a.receipt = "created" => mine[e] = a.cid /\ "remove" \notin issued[e]
        /\ a.receipt = "replaced" =>
                /\ mine[e] = a.cid /\ ~Holds(daemon, a.old)
                /\ [id |-> a.old, owner |-> req[e].rt] \in hit[e]
        /\ a.receipt = "reused" =>
                seen[e].id = a.cid /\ issued[e] \cap {"create", "remove"} = {}

(* A container that exists or may still come to exist because of this      *)
(* attempt is either the recorded container_id or flagged as an unknown    *)
(* created resource.                                                       *)
CreationAccounted ==
    \A e \in Effects : Configured(e) =>
        /\ mine[e] # 0 => attempt[e].cid = mine[e] \/ attempt[e].unknown
        /\ (\E l \in late : l.by = e /\ l.call.op = "create") => attempt[e].unknown

(* With selected secrets a completed failure is clean: no container was    *)
(* created, started or removed.  Everything later is reported uncertain.   *)
SecretFailureIsClean ==
    \A e \in Effects :
        Configured(e) /\ req[e].secret /\ result[e] = "failed" =>
            issued[e] \cap {"create", "start", "remove"} = {}

=============================================================================
