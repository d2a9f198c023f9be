-------------------------- MODULE CloudflareIngress -------------------------
(***************************************************************************)
(* CloudflareNamedIngressInterpreter (cloudflare/client.py): create,       *)
(* rebind, deactivate_preserving_reservation, release_reservation and      *)
(* teardown of one public hostname, as sequences of Cloudflare API and     *)
(* custodian calls with their compensation.                                *)
(*                                                                         *)
(* Any call may be answered, answered with an error although it took       *)
(* effect, or lost in transport, in which case it took effect, did not, or *)
(* will later.  Effects interleave with each other and with other owners   *)
(* of DNS records in the zone; a process that dies takes no further step.  *)
(* create and teardown run with or without an invocation port, which       *)
(* records what each unit of work did.                                     *)
(***************************************************************************)
EXTENDS Naturals, Sequences, FiniteSets

CONSTANTS
    Effects,        \* effect identities; also the custody grants they carry
    Dispatches,     \* what operations may ask of them
    OldGrant,       \* the grant of the allocation that exists initially
    NoAllocation

VARIABLES
    dispatch, \* what operations ask of the effects
    cf,       \* tunnels, DNS records of the hostname, stored tokens, next id
    late,     \* calls lost in transport that may still be executed
    pc, st,   \* per effect: next call and local variables
    outcome,  \* how an effect ended
    permit,   \* what the invocation port recorded for its two units
    owned,    \* allocations known to the caller, past ones included
    made      \* history: the tunnels, records and tokens its calls created

vars == <<dispatch, cf, late, pc, st, outcome, permit, owned, made>>

Ops == {"create", "rebind", "deactivate", "release", "teardown"}
Grants == Effects \cup {OldGrant}

Allocation == [tunnel: Nat, dns: Nat, grant: Grants]

(* op: the operation of each effect, "none" if it is never dispatched.     *)
(* invoked: the effects with an invocation port.  existing: an allocation  *)
(* exists before.  maxId bounds the records other owners create: they do   *)
(* so while fewer ids were given out.                                      *)
Dispatch == [op: [Effects -> Ops \cup {"none"}], invoked: SUBSET Effects,
             existing: BOOLEAN, maxId: Nat]

ASSUME IngressAssumption ==
    /\ Dispatches \subseteq Dispatch
    /\ \A d \in Dispatches : \A e \in d.invoked : d.op[e] \in {"create", "teardown"}
    /\ OldGrant \notin Effects
    /\ NoAllocation \notin Allocation
    /\ \A g \in Grants : g \notin Nat  \* a grant is not an id of Cloudflare

Op == dispatch.op
Invoked == dispatch.invoked

-----------------------------------------------------------------------------
(* Cloudflare and the custodian.                                           *)

RecordsWith(id) == {r \in cf.records : r.id = id}

Accepts(call) ==
    CASE call.op \in {"configure", "connections", "delete_tunnel"} -> call.id \in cf.tunnels
      [] call.op = "create_dns" -> cf.records = {}
      [] call.op \in {"update_dns", "delete_dns"} -> RecordsWith(call.id) # {}
      [] OTHER -> TRUE

Apply(call) ==
    CASE call.op = "create_tunnel" ->
            [cf EXCEPT !.tunnels = @ \cup {cf.next}, !.next = @ + 1]
      [] call.op = "delete_tunnel" -> [cf EXCEPT !.tunnels = @ \ {call.id}]
      [] call.op = "create_dns" ->
            [cf EXCEPT !.records = {[id |-> cf.next, target |-> call.target,
                                     cname |-> TRUE, foreign |-> FALSE]},
                       !.next = @ + 1]
      [] call.op = "update_dns" ->
            [cf EXCEPT !.records = {IF r.id = call.id THEN [r EXCEPT !.target = call.target] ELSE r :
                                        r \in cf.records}]
      [] call.op = "delete_dns" -> [cf EXCEPT !.records = @ \ RecordsWith(call.id)]
      [] call.op = "store"  -> [cf EXCEPT !.tokens = @ \cup {call.grant}]
      [] call.op = "revoke" -> [cf EXCEPT !.tokens = @ \ {call.grant}]
      [] OTHER -> cf

Creates(call) ==
    CASE call.op \in {"create_tunnel", "create_dns"} -> {cf.next}
      [] call.op = "store" -> {call.grant}
      [] OTHER -> {}

Execute(e, call) ==
    /\ Accepts(call)
    /\ cf' = Apply(call)
    /\ made' = [made EXCEPT ![e] = @ \cup Creates(call)]

(* How a call ends for the caller: answered; an error status or a body     *)
(* that cannot be used; CloudflareApiTransportError; an exception outside  *)
(* the CloudflareApiError family.                                          *)
Replies == {"ok", "status", "transport", "unexpected"}

(* Configuring a tunnel or cutting its connections late changes nothing    *)
(* here, so such calls are not kept.                                       *)
Request(e, call, Then(_)) ==
    \E reply \in Replies :
        /\ \/ Execute(e, call) /\ UNCHANGED late
           \/ reply # "ok" /\ UNCHANGED <<cf, made, late>>
           \/ /\ reply = "transport" /\ call.op \notin {"configure", "connections"}
              /\ late' = late \cup {[by |-> e, call |-> call]}
              /\ UNCHANGED <<cf, made>>
        /\ Then(reply)

Reads == UNCHANGED <<cf, late, made>>

LateCall ==
    \E l \in late :
        /\ late' = late \ {l}
        /\ IF Accepts(l.call) THEN Execute(l.by, l.call) ELSE UNCHANGED <<cf, made>>
        /\ UNCHANGED <<pc, st, outcome, permit, owned>>

(* Hypothesis: another owner's record points somewhere else, since the id  *)
(* of a fresh tunnel was told to its effect alone.  A record of the name   *)
(* that points there is adopted after a lost answer, whoever wrote it.     *)
OtherCreates ==
    /\ cf.next < dispatch.maxId
    /\ \E cname \in BOOLEAN :
        /\ IF cname THEN cf.records = {} ELSE \A r \in cf.records : ~r.cname
        /\ cf' = [cf EXCEPT !.records = @ \cup {[id |-> cf.next, target |-> 0, cname |-> cname,
                                                 foreign |-> TRUE]},
                            !.next = @ + 1]
    /\ UNCHANGED <<late, pc, st, outcome, permit, owned, made>>

OtherDeletes ==
    /\ \E r \in cf.records : r.foreign /\ cf' = [cf EXCEPT !.records = @ \ {r}]
    /\ UNCHANGED <<late, pc, st, outcome, permit, owned, made>>

-----------------------------------------------------------------------------
(* Control flow of an effect.                                              *)

Move(e, label, s) ==
    /\ pc' = [pc EXCEPT ![e] = label]
    /\ st' = [st EXCEPT ![e] = s]
    /\ UNCHANGED <<outcome, permit, owned>>

End(e, kind) ==
    /\ pc' = [pc EXCEPT ![e] = "done"]
    /\ outcome' = [outcome EXCEPT ![e] = kind]

Clean(e, stages, s) == Move(e, "cleanup", [s EXCEPT !.todo = stages])

(* _invoke_ingress: the result of a unit is recorded once, or recording    *)
(* itself fails and the effect ends there, without cleanup.                *)
Record(e, unit, word) == permit' = [permit EXCEPT ![e][unit] = word]

RecordLost(e) ==
    e \in Invoked /\ End(e, "unrecorded") /\ UNCHANGED <<permit, owned>>

Report(e, unit, kind, word) ==
    \/ /\ End(e, kind)
       /\ IF e \in Invoked THEN Record(e, unit, word) ELSE UNCHANGED permit
       /\ UNCHANGED owned
    \/ RecordLost(e)

StopIgnoringCleanup(e, s) ==  \* Mutant: the cleanup result is not looked at.
    LET kind == IF s.certainty = "uncertain" THEN "unknown" ELSE "failed" IN
    st' = [st EXCEPT ![e] = s] /\ Report(e, 1, kind, kind)

(* _ingress_failure on the evidence of _create_provider: unknown exactly   *)
(* when the mutation certainty or the cleanup result is uncertain.         *)
StopCreate(e, s) ==
    LET kind == IF s.certainty = "uncertain" \/ s.failed # {} THEN "unknown" ELSE "failed" IN
    st' = [st EXCEPT ![e] = s] /\ Report(e, 1, kind, kind)

(* An exception outside the family is re-raised and never classified.      *)
Certainty(reply, otherwise) == IF reply = "unexpected" THEN "uncertain" ELSE otherwise

Begin(e) ==
    /\ pc[e] = "idle" /\ Op[e] # "none"
    /\ \E a \in IF Op[e] = "create" THEN {NoAllocation} ELSE owned :
        LET s == IF a = NoAllocation THEN st[e]
                 ELSE [st[e] EXCEPT !.dns = a.dns, !.old = a.tunnel,
                                    !.tun = IF Op[e] = "rebind" THEN 0 ELSE a.tunnel,
                                    !.grant = IF Op[e] = "rebind" THEN e ELSE a.grant]
        IN IF e \in Invoked
           THEN \/ /\ pc' = [pc EXCEPT ![e] = IF Op[e] = "create" THEN "observe" ELSE "revoke"]
                   /\ st' = [st EXCEPT ![e] = s]
                   /\ Record(e, 1, "admitted") /\ UNCHANGED <<outcome, owned>>
                \/ End(e, "refused") /\ UNCHANGED <<st, permit, owned>>
           ELSE CASE Op[e] = "create" -> Move(e, "observe", s)
                  [] Op[e] = "rebind" -> Move(e, "tunnel", s)
                  [] Op[e] = "teardown" ->
                        Clean(e, <<"custody", "dns", "connections", "tunnel">>, s)
                  [] OTHER -> Move(e, "reservation", s)
    /\ Reads

-----------------------------------------------------------------------------
(* create: _create_provider, then custody of the tunnel token.             *)

(* All records of the name; target 0 is a record that points to no tunnel. *)
list_dns_records_for_hostname == cf.records

(* _observe_exact_hostname.                                                *)
HostnameState(tunnel) ==
    LET records == list_dns_records_for_hostname IN
    IF records = {} THEN "ABSENT"
    ELSE IF Cardinality(records) # 1 THEN "DUPLICATE"
    ELSE IF \E r \in records : tunnel # 0 /\ r.cname /\ r.target = tunnel
         THEN "TARGETS_TUNNEL" ELSE "OCCUPIED"

(* _classify_reconciled_dns_records is stricter: another record type is    *)
(* malformed.                                                              *)
ReconciledState(tunnel) ==
    IF HostnameState(tunnel) = "OCCUPIED" /\ \E r \in list_dns_records_for_hostname : ~r.cname
    THEN "MALFORMED" ELSE HostnameState(tunnel)

PreObserve(e) ==
    /\ pc[e] = "observe"
    /\ \/ HostnameState(0) = "ABSENT" /\ Move(e, "tunnel", st[e])
       \/ StopCreate(e, st[e])
       \/ StopCreate(e, [st[e] EXCEPT !.certainty = "uncertain"])
    /\ Reads

CreateTunnel(e) ==
    /\ pc[e] = "tunnel"
    /\ Request(e, [op |-> "create_tunnel"], LAMBDA reply :
        IF reply = "ok" THEN Move(e, "configure", [st[e] EXCEPT !.tun = cf.next])
        ELSE IF Op[e] = "create" THEN StopCreate(e, [st[e] EXCEPT !.certainty = "uncertain"])
        ELSE Clean(e, <<>>, [st[e] EXCEPT !.err = reply]))

ConfigureTunnel(e) ==
    /\ pc[e] = "configure"
    /\ Request(e, [op |-> "configure", id |-> st[e].tun], LAMBDA reply :
        IF reply = "ok"
        THEN Move(e, IF Op[e] = "create" THEN "observe-again" ELSE "reservation", st[e])
        ELSE Clean(e, <<"tunnel">>,
                   [st[e] EXCEPT !.err = reply,
                                 !.certainty = IF reply = "transport" THEN "uncertain"
                                               ELSE Certainty(reply, "tunnel-created")]))

ObserveAgain(e) ==
    /\ pc[e] = "observe-again"
    /\ \/ \E reply \in {"status", "unexpected"} :
            Clean(e, <<"tunnel">>, [st[e] EXCEPT !.certainty = Certainty(reply, "tunnel-created")])
       \/ CASE HostnameState(st[e].tun) = "ABSENT" -> Move(e, "dns", st[e])
            [] HostnameState(st[e].tun) = "OCCUPIED" ->
                    Clean(e, <<"tunnel">>, [st[e] EXCEPT !.certainty = "tunnel-created"])
            [] OTHER -> StopCreate(e, [st[e] EXCEPT !.certainty = "uncertain"])
       \/ StopCreate(e, [st[e] EXCEPT !.certainty = "uncertain"])
    /\ Reads

CreateDns(e) ==
    /\ pc[e] = "dns"
    /\ Request(e, [op |-> "create_dns", target |-> st[e].tun], LAMBDA reply :
        IF reply = "ok" THEN Move(e, "token", [st[e] EXCEPT !.dns = cf.next])
        ELSE Move(e, "reconcile", [st[e] EXCEPT !.err = reply, !.certainty = "uncertain"]))

ReconcileAdoptsAny(e) ==  \* Mutant: the target of the one record is not compared.
    /\ pc[e] = "reconcile"
    /\ \/ StopCreate(e, st[e])
       \/ \E r \in cf.records : Move(e, "token", [st[e] EXCEPT !.dns = r.id, !.certainty = "none"])
       \/ ReconciledState(st[e].tun) = "ABSENT" /\ Clean(e, <<"tunnel">>, st[e])
    /\ Reads

(* After a failed creation: adopt only after a transport error, and only a *)
(* single record that points to this tunnel.                               *)
Reconcile(e) ==
    /\ pc[e] = "reconcile"
    /\ LET state == ReconciledState(st[e].tun) IN
        \/ StopCreate(e, st[e])
        \/ /\ st[e].err = "transport" /\ state = "TARGETS_TUNNEL"
           /\ \E r \in cf.records :
                Move(e, "token", [st[e] EXCEPT !.dns = r.id, !.certainty = "none"])
        \/ state \in {"ABSENT", "OCCUPIED"} /\ Clean(e, <<"tunnel">>, st[e])
    /\ Reads

TokenUnacknowledged(e) ==  \* Mutant: custody starts before the result is recorded.
    /\ pc[e] = "token" /\ Op[e] = "create" /\ st[e].tun \in cf.tunnels
    /\ pc' = [pc EXCEPT ![e] = "store"]
    /\ IF e \in Invoked THEN Record(e, 2, "admitted") ELSE UNCHANGED permit
    /\ UNCHANGED <<st, outcome, owned>> /\ Reads

TunnelToken(e) ==
    /\ pc[e] = "token" /\ Op[e] = "create"
    /\ \/ /\ st[e].tun \in cf.tunnels
          /\ \/ /\ pc' = [pc EXCEPT ![e] = "store"]
                /\ IF e \in Invoked
                   THEN permit' = [permit EXCEPT ![e] = <<"returned", "admitted">>]
                   ELSE UNCHANGED permit
                /\ UNCHANGED <<st, outcome, owned>>
             \/ RecordLost(e) /\ UNCHANGED st
             \/ /\ e \in Invoked  \* the custody write is not admitted
                /\ Record(e, 1, "returned") /\ End(e, "refused") /\ UNCHANGED <<st, owned>>
       \/ \E reply \in {"status", "unexpected"} :
            Clean(e, <<"dns", "tunnel">>,
                  [st[e] EXCEPT !.certainty = Certainty(reply, "dns-and-tunnel-created")])
    /\ Reads

Allocated(e) == [tunnel |-> st[e].tun, dns |-> st[e].dns, grant |-> e]

(* Without a port a failed custody write is compensated; with one it is    *)
(* only recorded.                                                          *)
StoreToken(e) ==
    /\ pc[e] = "store" /\ Op[e] = "create"
    /\ Request(e, [op |-> "store", grant |-> e], LAMBDA reply :
        IF reply = "ok"
        THEN /\ UNCHANGED st
             /\ \/ /\ End(e, "succeeded")
                   /\ owned' = owned \cup {Allocated(e)}
                   /\ IF e \in Invoked THEN Record(e, 2, "returned") ELSE UNCHANGED permit
                \/ RecordLost(e)
        ELSE IF e \in Invoked THEN Report(e, 2, "unknown", "unknown") /\ UNCHANGED st
        ELSE Clean(e, <<"custody", "dns", "tunnel">>,
                   [st[e] EXCEPT !.certainty = "dns-and-tunnel-created"]))

-----------------------------------------------------------------------------
(* rebind: a new tunnel for the exact reserved record.                     *)

(* _observe_hostname_reservation: the target of the record with the id, or *)
(* 0; a record of another shape raises.                                    *)
ObservedTunnel(e) ==
    IF \E r \in RecordsWith(st[e].dns) : r.target # 0
    THEN (CHOOSE r \in RecordsWith(st[e].dns) : TRUE).target ELSE 0

FailRebind(e, stages, reply) == Clean(e, stages, [st[e] EXCEPT !.err = reply])

(* A read, and the next label if it shows the wanted target.               *)
RequireObserved(e, tunnel, label, stages) ==
    \/ ObservedTunnel(e) = tunnel /\ Move(e, label, st[e])
    \/ ObservedTunnel(e) # tunnel /\ FailRebind(e, stages, "status")
    \/ \E reply \in {"status", "transport"} : FailRebind(e, stages, reply)

RebindObserves(e) ==
    /\ Op[e] = "rebind"
    /\ \/ pc[e] = "reservation" /\ RequireObserved(e, st[e].old, "update", <<"tunnel">>)
       \/ pc[e] = "verify" /\ RequireObserved(e, st[e].tun, "token", <<"restore", "tunnel">>)
    /\ Reads

UpdateDns(e) ==
    /\ pc[e] = "update"
    /\ Request(e, [op |-> "update_dns", id |-> st[e].dns, target |-> st[e].tun], LAMBDA reply :
        LET s == [st[e] EXCEPT !.upd = TRUE, !.err = reply] IN
        IF reply = "ok" THEN Move(e, "verify", s) ELSE Clean(e, <<"restore", "tunnel">>, s))

RebindToken(e) ==
    /\ pc[e] = "token" /\ Op[e] = "rebind"
    /\ \/ st[e].tun \in cf.tunnels /\ Move(e, "store", st[e])
       \/ \E reply \in {"status", "transport"} : FailRebind(e, <<"restore", "tunnel">>, reply)
    /\ Reads

RebindStores(e) ==
    /\ pc[e] = "store" /\ Op[e] = "rebind"
    /\ Request(e, [op |-> "store", grant |-> e], LAMBDA reply :
        IF reply = "ok" THEN Move(e, "confirm", st[e])
        ELSE FailRebind(e, <<"custody", "restore", "tunnel">>, "status"))

RebindWithoutConfirmation(e) ==  \* Mutant: the record is not read again.
    /\ pc[e] = "confirm"
    /\ End(e, "succeeded") /\ owned' = owned \cup {Allocated(e)}
    /\ UNCHANGED <<st, permit>> /\ Reads

RebindConfirms(e) ==
    /\ pc[e] = "confirm"
    /\ \/ /\ ObservedTunnel(e) = st[e].tun
          /\ End(e, "succeeded") /\ owned' = owned \cup {Allocated(e)}
          /\ UNCHANGED <<st, permit>>
       \/ \E reply \in {"status", "transport"} :
            FailRebind(e, <<"custody", "restore", "tunnel">>, reply)
    /\ Reads

-----------------------------------------------------------------------------
(* _attempt_exact_cleanup: every stage is attempted; failures are named.   *)

StageEndsUnnamed(e, failed) ==  \* Mutant: a failed stage is not reported.
    Move(e, "cleanup", [st[e] EXCEPT !.todo = Tail(@)])

StageEnds(e, failed) ==
    Move(e, "cleanup", [st[e] EXCEPT !.todo = Tail(@),
                                     !.failed = IF failed THEN @ \cup {Head(st[e].todo)} ELSE @])

StageCall(e, stage) ==
    CASE stage = "custody" -> [op |-> "revoke", grant |-> st[e].grant]
      [] stage = "dns" -> [op |-> "delete_dns", id |-> st[e].dns]
      [] stage = "connections" -> [op |-> "connections", id |-> st[e].tun]
      [] OTHER -> [op |-> "delete_tunnel", id |-> st[e].tun]

CleanupStage(e) ==
    /\ pc[e] = "cleanup" /\ st[e].todo # <<>> /\ Head(st[e].todo) # "restore"
    /\ Request(e, StageCall(e, Head(st[e].todo)), LAMBDA reply : StageEnds(e, reply # "ok"))

(* _restore_rebind_reservation: put the expected target back, only over    *)
(* this effect's own tunnel.                                               *)
RestoreObserves(e) ==
    /\ pc[e] = "cleanup" /\ st[e].todo # <<>> /\ Head(st[e].todo) = "restore"
    /\ \/ StageEnds(e, ObservedTunnel(e) # st[e].old)
       \/ StageEnds(e, TRUE)
       \/ ObservedTunnel(e) = st[e].tun /\ Move(e, "restore", st[e])
    /\ Reads

RestoreUpdates(e) ==
    /\ pc[e] = "restore"
    /\ Request(e, [op |-> "update_dns", id |-> st[e].dns, target |-> st[e].old], LAMBDA reply :
        IF reply = "ok" THEN Move(e, "restore-check", st[e]) ELSE StageEnds(e, TRUE))

RestoreChecks(e) ==
    /\ pc[e] = "restore-check"
    /\ StageEnds(e, ObservedTunnel(e) # st[e].old) \/ StageEnds(e, TRUE)
    /\ Reads

CleanupDone(e) ==
    /\ pc[e] = "cleanup" /\ st[e].todo = <<>>
    /\ LET s == st[e] IN
        CASE Op[e] = "create" -> StopCreate(e, s)
          [] Op[e] = "rebind" ->
                /\ End(e, IF s.failed # {} \/ (s.upd /\ s.err = "transport")
                          THEN "unknown" ELSE "raised")
                /\ UNCHANGED <<st, permit, owned>>
          [] Op[e] = "teardown" ->
                /\ IF s.failed = {} THEN Report(e, 2, "succeeded", "returned")
                                    ELSE Report(e, 2, "unknown", "unknown")
                /\ UNCHANGED st
          [] OTHER -> Move(e, "still-reserved", s)
    /\ Reads

-----------------------------------------------------------------------------
(* teardown with a port, deactivate and release.                           *)

RevokeToken(e) ==
    /\ pc[e] = "revoke"
    /\ Request(e, [op |-> "revoke", grant |-> st[e].grant], LAMBDA reply :
        IF reply = "ok"
        THEN \/ /\ pc' = [pc EXCEPT ![e] = "cleanup"]
                /\ st' = [st EXCEPT ![e].todo = <<"dns", "connections", "tunnel">>]
                /\ permit' = [permit EXCEPT ![e] = <<"returned", "admitted">>]
                /\ UNCHANGED <<outcome, owned>>
             \/ RecordLost(e) /\ UNCHANGED st
             \/ Record(e, 1, "returned") /\ End(e, "refused") /\ UNCHANGED <<st, owned>>
        ELSE Report(e, 1, "unknown", "unknown") /\ UNCHANGED st)

(* Deactivation and release first require the reservation as recorded.     *)
RequireReservation(e) ==
    /\ pc[e] = "reservation" /\ Op[e] \in {"deactivate", "release"}
    /\ \/ /\ ObservedTunnel(e) = st[e].old
          /\ IF Op[e] = "deactivate"
             THEN Clean(e, <<"custody", "connections", "tunnel">>, st[e])
             ELSE Move(e, "release", st[e])
       \/ End(e, "refused") /\ UNCHANGED <<st, permit, owned>>
    /\ Reads

StillReserved(e) ==
    /\ pc[e] = "still-reserved"
    /\ \E lost \in {ObservedTunnel(e) # st[e].old, TRUE} :
        Move(e, "tunnel-absent", [st[e] EXCEPT !.failed = IF lost THEN @ \cup {"reservation"} ELSE @])
    /\ Reads

TunnelAbsent(e) ==
    /\ pc[e] = "tunnel-absent"
    /\ \/ /\ st[e].failed = {} /\ st[e].tun \notin cf.tunnels
          /\ End(e, "succeeded")
       \/ End(e, "unknown")
    /\ UNCHANGED <<st, permit, owned>> /\ Reads

ReleaseDns(e) ==
    /\ pc[e] = "release"
    /\ Request(e, [op |-> "delete_dns", id |-> st[e].dns], LAMBDA reply :
        Move(e, "absence", [st[e] EXCEPT !.failed = IF reply = "ok" THEN @ ELSE {"dns"}]))

ReleaseAbsence(e) ==
    /\ pc[e] = "absence"
    /\ \/ st[e].failed = {} /\ RecordsWith(st[e].dns) = {} /\ End(e, "succeeded")
       \/ End(e, "unknown")
    /\ UNCHANGED <<st, permit, owned>> /\ Reads

-----------------------------------------------------------------------------

Step(e) ==
    \/ Begin(e) \/ PreObserve(e) \/ CreateTunnel(e) \/ ConfigureTunnel(e) \/ ObserveAgain(e)
    \/ CreateDns(e) \/ Reconcile(e) \/ TunnelToken(e) \/ StoreToken(e)
    \/ RebindObserves(e) \/ UpdateDns(e) \/ RebindToken(e) \/ RebindStores(e) \/ RebindConfirms(e)
    \/ CleanupStage(e) \/ RestoreObserves(e) \/ RestoreUpdates(e) \/ RestoreChecks(e)
    \/ CleanupDone(e) \/ RevokeToken(e) \/ RequireReservation(e) \/ StillReserved(e)
    \/ TunnelAbsent(e) \/ ReleaseDns(e) \/ ReleaseAbsence(e)

Environment == LateCall \/ OtherCreates \/ OtherDeletes

Init ==
    /\ dispatch \in Dispatches
    /\ IF dispatch.existing
       THEN /\ cf = [tunnels |-> {1}, tokens |-> {OldGrant}, next |-> 3,
                     records |-> {[id |-> 2, target |-> 1, cname |-> TRUE, foreign |-> FALSE]}]
            /\ owned = {[tunnel |-> 1, dns |-> 2, grant |-> OldGrant]}
       ELSE /\ cf = [tunnels |-> {}, records |-> {}, tokens |-> {}, next |-> 3]
            /\ owned = {}
    /\ late = {}
    /\ pc = [e \in Effects |-> "idle"]
    /\ st = [e \in Effects |-> [tun |-> 0, dns |-> 0, old |-> 0, grant |-> e, err |-> "none",
                                upd |-> FALSE, certainty |-> "none", todo |-> <<>>,
                                failed |-> {}]]
    /\ outcome = [e \in Effects |-> "none"]
    /\ permit = [e \in Effects |-> <<"none", "none">>]
    /\ made = [e \in Effects |-> {}]

Next ==
    \/ Environment /\ UNCHANGED dispatch
    \/ \E e \in Effects : Step(e) /\ UNCHANGED dispatch

Spec == Init /\ [][Next]_vars

-----------------------------------------------------------------------------
(* Properties.                                                             *)

RecordIds == {r.id : r \in cf.records}

(* A create that reports failed, as opposed to unknown, leaves nothing at  *)
(* Cloudflare: every tunnel and record its calls created, the ones whose   *)
(* answer was lost included, is deleted, and none of its calls that are    *)
(* still under way can create another.                                     *)
CleanFailure ==
    \A e \in Effects : outcome[e] = "failed" =>
        /\ made[e] \cap (cf.tunnels \cup RecordIds) = {}
        /\ \A l \in late : l.by = e => l.call.op \notin {"create_tunnel", "create_dns"}

(* A rebind that raises without reporting uncertainty has put the record   *)
(* back and deleted its tunnel.  The one thing it may leave is a tunnel    *)
(* whose id it never received.                                             *)
RaisedRebindRestored ==
    \A e \in Effects : outcome[e] = "raised" =>
        /\ \A r \in cf.records : r.target \notin made[e]
        /\ st[e].tun \notin cf.tunnels
        /\ st[e].tun # 0 => made[e] \cap cf.tunnels = {}

(* No step and no late call of an effect deletes or changes a record that  *)
(* somebody else created.                                                  *)
ForeignUntouched ==
    [][\A r \in cf.records : r.foreign /\ r \notin cf'.records => OtherDeletes]_vars

(* At the step that reports success the hostname is served by the         *)
(* effect's own resources: the record points to the tunnel, the tunnel     *)
(* exists, its token is in custody, and its own calls created the tunnel,  *)
(* the token and, for create, the record (answered or adopted after a lost *)
(* answer).  "Matching a target alone never grants ownership."             *)
ServesAtSuccess ==
    [][\A e \in Effects :
        outcome'[e] # outcome[e] /\ outcome'[e] = "succeeded" /\ Op[e] \in {"create", "rebind"} =>
            /\ {st[e].tun, e} \subseteq made'[e] /\ st[e].tun \in cf'.tunnels
            /\ \E r \in cf'.records : r.id = st[e].dns /\ r.target = st[e].tun
            /\ Op[e] = "create" => st[e].dns \in made'[e]
            /\ e \in cf'.tokens]_vars

(* The stages of a removal that leave something behind when they fail.     *)
Removes(e) ==
    CASE Op[e] = "teardown" -> {"custody", "dns", "tunnel"}
      [] Op[e] = "deactivate" -> {"custody", "tunnel"}
      [] OTHER -> {"dns"}

(* Removal reports name exactly what may be left: once teardown,           *)
(* deactivation or release ended, a resource of the allocation whose stage *)
(* is not among the failed ones is gone for good.                          *)
RemovalTrue ==
    \A e \in Effects :
        /\ Op[e] \in {"teardown", "deactivate", "release"}
        /\ outcome[e] \in {"succeeded", "unknown"}
        /\ e \in Invoked => permit[e][2] # "none"
        => \A stage \in Removes(e) \ st[e].failed :
            CASE stage = "custody" -> st[e].grant \notin cf.tokens
              [] stage = "dns" -> RecordsWith(st[e].dns) = {}
              [] OTHER -> st[e].tun \notin cf.tunnels

(* With an invocation port the recorded units cover what happened, also    *)
(* when the process dies: nothing is created or under way before the first *)
(* unit is admitted, custody is written only after an acknowledged         *)
(* provider-created result that names the created resources, and teardown  *)
(* deletes only after an acknowledged revocation.                          *)
PermitsCover ==
    \A e \in Invoked :
        /\ made[e] # {} \/ (\E l \in late : l.by = e) => permit[e][1] # "none"
        /\ permit[e][2] # "none" => permit[e][1] = "returned"
        /\ Op[e] = "create" /\ permit[e][1] = "returned" =>
                {st[e].tun, st[e].dns} \subseteq made[e]
        /\ Op[e] = "create" /\ e \in made[e] => permit[e][2] # "none"
        /\ Op[e] = "teardown" =>
                /\ permit[e][2] # "none" => st[e].grant \notin cf.tokens
                /\ (\E l \in late : l.by = e /\ l.call.op # "revoke") => permit[e][2] # "none"

(* The hostname dangles, that is, the record points to a deleted tunnel,   *)
(* only because of an effect that deletes this very tunnel: one that is    *)
(* cleaning up, one that ended without a definite result, or one that      *)
(* deactivated the tunnel on purpose.                                      *)
DanglingExplained ==
    \A r \in cf.records : ~r.foreign /\ r.target \notin cf.tunnels =>
        \E e \in Effects :
            /\ st[e].tun = r.target /\ Op[e] # "release"
            /\ \/ pc[e] \in {"cleanup", "restore", "restore-check", "still-reserved", "tunnel-absent"}
               \/ outcome[e] \in {"unknown", "unrecorded"}
               \/ Op[e] = "deactivate" /\ outcome[e] = "succeeded"

=============================================================================
