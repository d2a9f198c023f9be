---------------------------- MODULE IngressProofs ----------------------------
(***************************************************************************)
(* The properties of CloudflareIngress for every set of effects and every  *)
(* dispatch.                                                               *)
(***************************************************************************)
EXTENDS CloudflareIngress, TLAPS

-----------------------------------------------------------------------------
(* Types.                                                                  *)

DnsRecord == [id: Nat, target: Nat, cname: BOOLEAN, foreign: BOOLEAN]

Stages == {"custody", "dns", "connections", "restore", "tunnel"}

Errors == Replies \cup {"none"}
Certainties == {"none", "uncertain", "tunnel-created", "dns-and-tunnel-created"}
StageLists == Seq(Stages)
Failures == SUBSET (Stages \cup {"reservation"})

LocalState ==
    [tun: Nat, dns: Nat, old: Nat, grant: Grants, err: Errors, upd: BOOLEAN,
     certainty: Certainties, todo: StageLists, failed: Failures]

TunnelSets == SUBSET Nat
RecordSets == SUBSET DnsRecord
TokenSets == SUBSET Grants

World == [tunnels: TunnelSets, records: RecordSets, tokens: TokenSets, next: Nat]

KeptCall ==
    [op: {"create_tunnel"}]
        \cup [op: {"delete_tunnel", "delete_dns"}, id: Nat]
        \cup [op: {"create_dns"}, target: Nat]
        \cup [op: {"update_dns"}, id: Nat, target: Nat]
        \cup [op: {"store", "revoke"}, grant: Grants]

Call == KeptCall \cup [op: {"configure", "connections"}, id: Nat]

Outcomes == {"none", "succeeded", "failed", "unknown", "unrecorded", "refused", "raised"}
Words == {"none", "admitted", "returned", "failed", "unknown"}

(* The labels of each operation.                                           *)
Labels(op) ==
    CASE op = "create" -> {"idle", "observe", "tunnel", "configure", "observe-again", "dns",
                           "reconcile", "token", "store", "cleanup", "done"}
      [] op = "rebind" -> {"idle", "tunnel", "configure", "reservation", "update", "verify", "token",
                           "store", "confirm", "cleanup", "restore", "restore-check", "done"}
      [] op = "teardown" -> {"idle", "revoke", "cleanup", "done"}
      [] op = "deactivate" -> {"idle", "reservation", "cleanup", "still-reserved", "tunnel-absent", "done"}
      [] op = "release" -> {"idle", "reservation", "release", "absence", "done"}
      [] OTHER -> {"idle"}

AllLabels == UNION {Labels(op) : op \in Ops \cup {"none"}}

(* The stages a cleanup of each operation has.                             *)
StagesOf(op) ==
    CASE op = "create" -> {"custody", "dns", "tunnel"}
      [] op = "rebind" -> {"custody", "restore", "tunnel"}
      [] op = "teardown" -> {"custody", "dns", "connections", "tunnel"}
      [] op = "deactivate" -> {"custody", "connections", "tunnel"}
      [] OTHER -> {}

TypeOK ==
    /\ dispatch \in Dispatches
    /\ cf \in World
    /\ late \subseteq [by: Effects, call: KeptCall]
    /\ pc \in [Effects -> AllLabels]
    /\ st \in [Effects -> LocalState]
    /\ outcome \in [Effects -> Outcomes]
    /\ permit \in [Effects -> [1..2 -> Words]]
    /\ owned \subseteq Allocation
    /\ made \in [Effects -> SUBSET (Nat \cup Effects)]
    /\ \A e \in Effects :
        /\ pc[e] \in Labels(Op[e])
        /\ (pc[e] = "done") = (outcome[e] # "none")
        /\ made[e] \subseteq Nat \cup {e}
        /\ st[e].todo \in Seq(StagesOf(Op[e]))

-----------------------------------------------------------------------------
(* The inductive invariant: the world.                                     *)

Maker(e) == Op[e] \in {"create", "rebind"}
Remover(e) == Op[e] \in {"teardown", "deactivate", "release"}

Ids(e) == made[e] \cap Nat

(* Ids are given out once, in order; 1 and 2 are the allocation that       *)
(* exists initially.                                                       *)
FreshIds ==
    /\ cf.next >= 3
    /\ \A t \in cf.tunnels : 0 < t /\ t < cf.next
    /\ \A r \in cf.records : 0 < r.id /\ r.id < cf.next /\ r.target < cf.next /\ r.id \notin cf.tunnels
    /\ \A e \in Effects : \A x \in Ids(e) : 3 <= x /\ x < cf.next

SeparateIds == \A e, f \in Effects : e # f => Ids(e) \cap Ids(f) = {}

(* An id is of one record, and beside a CNAME a name has no other record.  *)
UniqueRecords == \A r, q \in cf.records : r.id = q.id \/ r.cname => r = q

(* An effect that may have asked for the deletion of what it made or took  *)
(* over.                                                                   *)
Deletes(e) ==
    \/ pc[e] \in {"cleanup", "restore", "restore-check", "still-reserved", "tunnel-absent"}
    \/ outcome[e] \in {"unknown", "unrecorded", "failed", "raised"}
    \/ Remover(e) /\ outcome[e] = "succeeded"

(* Where an allocation known to the caller comes from.                     *)
OwnedFrom(a) ==
    \/ dispatch.existing /\ a = [tunnel |-> 1, dns |-> 2, grant |-> OldGrant]
    \/ \E e \in Effects : Maker(e) /\ outcome[e] = "succeeded" /\ a = Allocated(e)

OwnedDns(a) ==
    \/ dispatch.existing /\ a.dns = 2
    \/ \E e \in Effects : Op[e] = "create" /\ outcome[e] = "succeeded" /\ a.dns = st[e].dns

(* What a record points to, and which record may point there.              *)
TargetOf(r) ==
    \/ dispatch.existing /\ r.target = 1 /\ r.id = 2
    \/ \E e \in Effects :
        /\ r.target = st[e].tun /\ st[e].tun # 0
        /\ \/ Op[e] = "rebind" /\ r.id = st[e].dns
           \/ /\ Op[e] = "create" /\ r.id \in made[e] /\ r.id # r.target
              /\ st[e].dns # 0 => r.id = st[e].dns

RecordsKnown ==
    \A r \in cf.records :
        IF r.foreign THEN r.target = 0 /\ r.id # 2 /\ \A e \in Effects : r.id \notin made[e]
        ELSE r.target # 0 /\ TargetOf(r)

(* A tunnel that is gone was deleted by somebody.                          *)
Deleter(e, t) == st[e].tun = t /\ Op[e] # "release" /\ Deletes(e)

Tunnel(t) ==
    \/ dispatch.existing /\ t = 1
    \/ \E e \in Effects : Maker(e) /\ st[e].tun = t /\ t # 0

TunnelsAccounted ==
    \A t \in Nat : Tunnel(t) => t \in cf.tunnels \/ \E e \in Effects : Deleter(e, t)

WorldInv ==
    /\ FreshIds /\ SeparateIds /\ UniqueRecords /\ RecordsKnown /\ TunnelsAccounted
    /\ \A a \in owned : OwnedFrom(a) /\ OwnedDns(a)

-----------------------------------------------------------------------------
(* The inductive invariant: one effect.                                    *)

Pending(s, stage) == stage \in s.failed \/ \E i \in DOMAIN s.todo : s.todo[i] = stage

Initial(e) ==
    [tun |-> 0, dns |-> 0, old |-> 0, grant |-> e, err |-> "none", upd |-> FALSE,
     certainty |-> "none", todo |-> <<>>, failed |-> {}]

Untouched(e) ==
    pc[e] = "idle" => st[e] = Initial(e) /\ made[e] = {} /\ permit[e][1] = "none" /\ permit[e][2] = "none"

Targeted(t) == \E r \in cf.records : r.target = t

CreateInv(e) ==
    LET s == st[e] IN
    /\ s.grant = e
    /\ s.tun # 0 => s.tun \in made[e] /\ \A x, y \in Ids(e) \ {s.tun} : x = y
    /\ s.tun # 0 /\ s.certainty # "uncertain" => Ids(e) \subseteq {s.tun, s.dns}
    /\ s.dns # 0 => s.dns \in made[e] /\ s.dns # s.tun /\ s.tun # 0 /\ s.dns \notin cf.tunnels
    /\ s.tun # 0 => s.tun \notin RecordIds
    /\ pc[e] \in {"observe", "tunnel"} => s.tun = 0 /\ made[e] = {} /\ s.certainty = "none"
    /\ pc[e] \in {"configure", "observe-again", "dns"} =>
            s.tun # 0 /\ s.dns = 0 /\ s.certainty = "none" /\ ~Targeted(s.tun)
    /\ pc[e] = "reconcile" => s.tun # 0 /\ s.dns = 0 /\ s.certainty = "uncertain"
    /\ pc[e] \in {"token", "store"} =>
            /\ s.tun # 0 /\ s.dns # 0 /\ s.certainty = "none"
            /\ \E r \in cf.records : r.id = s.dns /\ r.target = s.tun
    /\ pc[e] = "cleanup" =>
            /\ s.tun # 0
            /\ s.tun \in cf.tunnels => Pending(s, "tunnel")
            /\ s.dns \in RecordIds => Pending(s, "dns")
    /\ outcome[e] = "failed" =>
            s.certainty # "uncertain" /\ Ids(e) \cap (cf.tunnels \cup RecordIds) = {}
    /\ outcome[e] = "succeeded" => s.tun # 0 /\ s.dns # 0
    /\ outcome[e] # "raised"

RebindInv(e) ==
    LET s == st[e]
        lost == s.upd /\ s.err = "transport"
    IN
    /\ s.grant = e
    /\ pc[e] # "idle" => \E a \in owned : s.dns = a.dns /\ s.old = a.tunnel
    /\ s.tun # 0 => s.tun \in made[e] /\ Ids(e) \subseteq {s.tun} /\ s.tun # s.old
    /\ pc[e] = "tunnel" => s.tun = 0 /\ made[e] = {} /\ ~s.upd
    /\ pc[e] \in {"configure", "reservation", "update"} => s.tun # 0 /\ ~s.upd /\ ~Targeted(s.tun)
    /\ pc[e] \in {"verify", "token", "store", "confirm"} => s.tun # 0
    /\ pc[e] = "confirm" => e \in made[e] /\ e \in cf.tokens
    /\ pc[e] \in {"cleanup", "restore", "restore-check"} =>
            /\ s.tun \in cf.tunnels => Pending(s, "tunnel")
            /\ s.tun # 0 /\ Targeted(s.tun) => Pending(s, "restore") \/ lost
            /\ s.tun = 0 => s.todo = <<>>
    /\ pc[e] \in {"restore", "restore-check"} => s.todo # <<>> /\ Head(s.todo) = "restore"
    /\ outcome[e] = "raised" => s.tun \notin cf.tunnels /\ (s.tun # 0 => ~Targeted(s.tun)) /\ ~lost
    /\ outcome[e] = "succeeded" => s.tun # 0
    /\ outcome[e] # "failed"

Gone(e, stage) ==
    CASE stage = "custody" -> st[e].grant \notin cf.tokens
      [] stage = "dns" -> RecordsWith(st[e].dns) = {}
      [] OTHER -> st[e].tun \notin cf.tunnels

RemoverInv(e) ==
    LET s == st[e] IN
    /\ made[e] = {}
    /\ \/ pc[e] = "idle" \/ (e \in Invoked /\ permit[e][1] = "none")
       \/ \E a \in owned : s.dns = a.dns /\ s.old = a.tunnel /\ s.tun = a.tunnel /\ s.grant = a.grant
    /\ pc[e] \in {"cleanup", "still-reserved", "tunnel-absent"} =>
            \A stage \in Removes(e) : Gone(e, stage) \/ Pending(s, stage)
    /\ pc[e] \in {"still-reserved", "tunnel-absent"} => s.todo = <<>>
    /\ pc[e] = "absence" => "dns" \in s.failed \/ Gone(e, "dns")
    /\ pc[e] \in {"reservation", "release"} => s.failed = {}
    /\ pc[e] = "revoke" => e \in Invoked
    /\ outcome[e] \in {"succeeded", "unknown"} /\ (e \in Invoked => permit[e][2] # "none") =>
            \A stage \in Removes(e) \ s.failed : Gone(e, stage)
    /\ Op[e] = "teardown" /\ outcome[e] = "succeeded" =>
            s.failed = {} /\ (e \in Invoked => permit[e][2] # "none")
    /\ outcome[e] \notin {"failed", "raised"}

PermitInv(e) ==
    e \in Invoked =>
        /\ permit[e][1] = "none" => pc[e] = "idle" \/ (outcome[e] = "refused" /\ made[e] = {})
        /\ permit[e][2] # "none" => permit[e][1] = "returned"
        /\ Op[e] = "create" =>
            /\ permit[e][1] = "returned" => st[e].tun # 0 /\ st[e].dns # 0
            /\ pc[e] = "store" \/ e \in made[e] => permit[e][2] # "none"
            /\ pc[e] \notin {"store", "done"} => permit[e][2] = "none"
        /\ Op[e] = "teardown" =>
            /\ permit[e][2] # "none" => st[e].grant \notin cf.tokens
            /\ pc[e] = "cleanup" => permit[e][2] # "none"
            /\ pc[e] = "revoke" => permit[e][2] = "none"

EffectInv(e) ==
    /\ Untouched(e) /\ PermitInv(e)
    /\ Op[e] = "create" => CreateInv(e)
    /\ Op[e] = "rebind" => RebindInv(e)
    /\ Remover(e) => RemoverInv(e)

-----------------------------------------------------------------------------
(* The inductive invariant: a call that may still be executed.             *)

LateInv(l) ==
    LET e == l.by  c == l.call  s == st[e] IN
    /\ pc[e] # "idle"
    /\ e \in Invoked => permit[e][1] # "none"
    /\ CASE c.op = "create_tunnel" ->
                /\ Maker(e) /\ s.tun = 0 /\ pc[e] \in {"cleanup", "done"}
                /\ outcome[e] # "succeeded"
                /\ Op[e] = "create" => outcome[e] \in {"unknown", "unrecorded"}
         [] c.op = "create_dns" ->
                /\ Op[e] = "create" /\ s.tun # 0 /\ c.target = s.tun /\ s.dns = 0
                /\ s.certainty = "uncertain" /\ Ids(e) \subseteq {s.tun} /\ ~Targeted(s.tun)
                /\ pc[e] \in {"reconcile", "cleanup", "done"} /\ outcome[e] # "succeeded"
         [] c.op = "update_dns" ->
                /\ Op[e] = "rebind" /\ s.tun # 0 /\ c.id = s.dns /\ c.target \in {s.tun, s.old}
                /\ c.target = s.tun => s.upd /\ s.err = "transport"
                /\ Deletes(e)
         [] c.op = "delete_dns" ->
                /\ Op[e] \in {"create", "teardown", "release"} /\ c.id = s.dns
                /\ Op[e] = "create" => Deletes(e)
                /\ Op[e] = "teardown" /\ e \in Invoked => permit[e][2] # "none"
         [] c.op = "delete_tunnel" ->
                /\ c.id = s.tun /\ Op[e] # "release" /\ Deletes(e)
                /\ Op[e] = "teardown" /\ e \in Invoked => permit[e][2] # "none"
         [] c.op = "store" ->
                /\ Maker(e) /\ c.grant = e /\ Deletes(e)
                /\ Op[e] = "create" /\ e \in Invoked => permit[e][2] # "none"
         [] OTHER ->
                c.grant = s.grant /\ Op[e] # "release" /\ (Maker(e) => Deletes(e))

IngressInv ==
    /\ TypeOK /\ WorldInv
    /\ \A e \in Effects : EffectInv(e)
    /\ \A l \in late : LateInv(l)

-----------------------------------------------------------------------------
(* What a step does to the variables of its effect and to those of the     *)
(* others.                                                                 *)

USE DEF Op, Invoked

Others(e) ==
    \A f \in Effects : f # e =>
        pc'[f] = pc[f] /\ st'[f] = st[f] /\ outcome'[f] = outcome[f] /\ permit'[f] = permit[f]

Issues(e, call) ==
    LET s == st[e] IN
    \/ pc[e] = "tunnel" /\ call = [op |-> "create_tunnel"]
    \/ pc[e] = "configure" /\ call = [op |-> "configure", id |-> s.tun]
    \/ pc[e] = "dns" /\ call = [op |-> "create_dns", target |-> s.tun]
    \/ pc[e] = "update" /\ call = [op |-> "update_dns", id |-> s.dns, target |-> s.tun]
    \/ pc[e] = "restore" /\ call = [op |-> "update_dns", id |-> s.dns, target |-> s.old]
    \/ pc[e] = "store" /\ Maker(e) /\ call = [op |-> "store", grant |-> e]
    \/ pc[e] = "cleanup" /\ s.todo # <<>> /\ Head(s.todo) # "restore" /\ call = StageCall(e, Head(s.todo))
    \/ pc[e] = "revoke" /\ call = [op |-> "revoke", grant |-> s.grant]
    \/ pc[e] = "release" /\ call = [op |-> "delete_dns", id |-> s.dns]

Reaches(e) ==
    \/ Reads
    \/ \E call \in Call :
        /\ Issues(e, call)
        /\ \/ Execute(e, call) /\ UNCHANGED late
           \/ /\ call.op \notin {"configure", "connections"}
              /\ late' = late \cup {[by |-> e, call |-> call]}
              /\ UNCHANGED <<cf, made>>

Updated(f, g, e) == g = [f EXCEPT ![e] = g[e]]

(* A step of an effect is taken before it is done, changes the local       *)
(* variables of that effect only, and makes an allocation known only with  *)
(* its success.                                                            *)
LEMMA StepFrame ==
    ASSUME TypeOK, NEW e \in Effects, Step(e)
    PROVE  /\ Others(e)
           /\ Updated(pc, pc', e) /\ Updated(st, st', e) /\ Updated(outcome, outcome', e)
           /\ Updated(permit, permit', e) /\ pc[e] # "done"
           /\ owned' = owned \/ (owned' = owned \cup {Allocated(e)} /\ Maker(e) /\ st'[e] = st[e] /\ pc[e] \in {"store", "confirm"} /\ outcome'[e] = "succeeded")
<1>. USE DEF TypeOK, Others, Updated
<1>1. CASE Begin(e)
  BY <1>1 DEF Begin, Move, Clean, Record, End
<1>2. CASE PreObserve(e)
  BY <1>2 DEF PreObserve, Move, StopCreate, Report, RecordLost, Record, End
<1>3. CASE CreateTunnel(e)
  BY <1>3 DEF CreateTunnel, Request, Move, Clean, StopCreate, Report, RecordLost, Record, End
<1>4. CASE ConfigureTunnel(e)
  BY <1>4 DEF ConfigureTunnel, Request, Move, Clean
<1>5. CASE ObserveAgain(e)
  BY <1>5 DEF ObserveAgain, Move, Clean, StopCreate, Report, RecordLost, Record, End
<1>6. CASE CreateDns(e)
  BY <1>6 DEF CreateDns, Request, Move
<1>7. CASE Reconcile(e)
  <2>1. /\ pc[e] = "reconcile"
        /\ \/ StopCreate(e, st[e]) \/ (\E n : Move(e, "token", n)) \/ Clean(e, <<"tunnel">>, st[e])
    BY <1>7 DEF Reconcile
  <2>. QED  BY <2>1 DEF Move, Clean, StopCreate, Report, RecordLost, Record, End
<1>8. CASE TunnelToken(e)
  BY <1>8 DEF TunnelToken, Move, Clean, RecordLost, Record, End
<1>9. CASE StoreToken(e)
  BY <1>9 DEF StoreToken, Request, Move, Clean, Report, RecordLost, Record, End, Maker
<1>10. CASE RebindObserves(e)
  BY <1>10 DEF RebindObserves, Move, Clean, FailRebind, RequireObserved
<1>11. CASE UpdateDns(e)
  BY <1>11 DEF UpdateDns, Request, Move, Clean
<1>12. CASE RebindToken(e)
  BY <1>12 DEF RebindToken, Move, Clean, FailRebind
<1>13. CASE RebindStores(e)
  BY <1>13 DEF RebindStores, Request, Move, Clean, FailRebind
<1>14. CASE RebindConfirms(e)
  <2>1. Op[e] = "rebind"
    BY <1>14 DEF RebindConfirms, Labels
  <2>. QED  BY <1>14, <2>1 DEF RebindConfirms, Move, Clean, End, FailRebind, Maker, Labels
<1>15. CASE CleanupStage(e)
  BY <1>15 DEF CleanupStage, Request, Move, StageEnds
<1>16. CASE RestoreObserves(e)
  BY <1>16 DEF RestoreObserves, Move, StageEnds
<1>17. CASE RestoreUpdates(e)
  BY <1>17 DEF RestoreUpdates, Request, Move, StageEnds
<1>18. CASE RestoreChecks(e)
  BY <1>18 DEF RestoreChecks, Move, StageEnds
<1>19. CASE CleanupDone(e)
  BY <1>19 DEF CleanupDone, Move, StopCreate, Report, RecordLost, Record, End
<1>20. CASE RevokeToken(e)
  BY <1>20 DEF RevokeToken, Request, Report, RecordLost, Record, End
<1>21. CASE RequireReservation(e)
  BY <1>21 DEF RequireReservation, Move, Clean, End
<1>22. CASE StillReserved(e)
  BY <1>22 DEF StillReserved, Move
<1>23. CASE TunnelAbsent(e)
  BY <1>23 DEF TunnelAbsent, End
<1>24. CASE ReleaseDns(e)
  BY <1>24 DEF ReleaseDns, Request, Move
<1>25. CASE ReleaseAbsence(e)
  BY <1>25 DEF ReleaseAbsence, End
<1>. QED  BY <1>1, <1>2, <1>3, <1>4, <1>5, <1>6, <1>7, <1>8, <1>9, <1>10, <1>11, <1>12, <1>13, <1>14, <1>15, <1>16, <1>17, <1>18, <1>19, <1>20, <1>21, <1>22, <1>23, <1>24, <1>25 DEF Step

(* A step only reads, or issues one call, which is executed or left under  *)
(* way.                                                                    *)
LEMMA StepReaches ==
    ASSUME TypeOK, NEW e \in Effects, Step(e)
    PROVE  Reaches(e)
<1>. DEFINE Sent(call) ==
        /\ call \in Call /\ Issues(e, call)
        /\ \/ Execute(e, call) /\ UNCHANGED late
           \/ UNCHANGED <<cf, made, late>>
           \/ /\ call.op \notin {"configure", "connections"}
              /\ late' = late \cup {[by |-> e, call |-> call]}
              /\ UNCHANGED <<cf, made>>
<1>0. ASSUME NEW call, Sent(call)
      PROVE  Reaches(e)
  BY <1>0 DEF Reaches, Reads
<1>t. st[e] \in LocalState /\ e \in Grants
  BY DEF TypeOK, Grants
<1>. HIDE DEF Sent
<1>1. CASE Begin(e)
  BY <1>1 DEF Begin, Reads, Reaches
<1>2. CASE PreObserve(e)
  BY <1>2 DEF PreObserve, Reads, Reaches
<1>3. CASE CreateTunnel(e)
  <2>1. [op |-> "create_tunnel"] \in Call
    BY <1>3, <1>t DEF CreateTunnel, Call, KeptCall, LocalState, StageCall
  <2>2. Issues(e, [op |-> "create_tunnel"])
    BY <1>3 DEF CreateTunnel, Issues, Maker
  <2>3. Sent([op |-> "create_tunnel"])
    BY <1>3, <2>1, <2>2 DEF CreateTunnel, Request, Sent
  <2>. QED  BY <2>3, <1>0
<1>4. CASE ConfigureTunnel(e)
  <2>1. [op |-> "configure", id |-> st[e].tun] \in Call
    BY <1>4, <1>t DEF ConfigureTunnel, Call, KeptCall, LocalState, StageCall
  <2>2. Issues(e, [op |-> "configure", id |-> st[e].tun])
    BY <1>4 DEF ConfigureTunnel, Issues, Maker
  <2>3. Sent([op |-> "configure", id |-> st[e].tun])
    BY <1>4, <2>1, <2>2 DEF ConfigureTunnel, Request, Sent
  <2>. QED  BY <2>3, <1>0
<1>5. CASE ObserveAgain(e)
  BY <1>5 DEF ObserveAgain, Reads, Reaches
<1>6. CASE CreateDns(e)
  <2>1. [op |-> "create_dns", target |-> st[e].tun] \in Call
    BY <1>6, <1>t DEF CreateDns, Call, KeptCall, LocalState, StageCall
  <2>2. Issues(e, [op |-> "create_dns", target |-> st[e].tun])
    BY <1>6 DEF CreateDns, Issues, Maker
  <2>3. Sent([op |-> "create_dns", target |-> st[e].tun])
    BY <1>6, <2>1, <2>2 DEF CreateDns, Request, Sent
  <2>. QED  BY <2>3, <1>0
<1>7. CASE Reconcile(e)
  BY <1>7 DEF Reconcile, Reads, Reaches
<1>8. CASE TunnelToken(e)
  BY <1>8 DEF TunnelToken, Reads, Reaches
<1>9. CASE StoreToken(e)
  <2>1. [op |-> "store", grant |-> e] \in Call
    BY <1>9, <1>t DEF StoreToken, Call, KeptCall, LocalState, StageCall
  <2>2. Issues(e, [op |-> "store", grant |-> e])
    BY <1>9 DEF StoreToken, Issues, Maker
  <2>3. Sent([op |-> "store", grant |-> e])
    BY <1>9, <2>1, <2>2 DEF StoreToken, Request, Sent
  <2>. QED  BY <2>3, <1>0
<1>10. CASE RebindObserves(e)
  BY <1>10 DEF RebindObserves, Reads, Reaches
<1>11. CASE UpdateDns(e)
  <2>1. [op |-> "update_dns", id |-> st[e].dns, target |-> st[e].tun] \in Call
    BY <1>11, <1>t DEF UpdateDns, Call, KeptCall, LocalState, StageCall
  <2>2. Issues(e, [op |-> "update_dns", id |-> st[e].dns, target |-> st[e].tun])
    BY <1>11 DEF UpdateDns, Issues, Maker
  <2>3. Sent([op |-> "update_dns", id |-> st[e].dns, target |-> st[e].tun])
    BY <1>11, <2>1, <2>2 DEF UpdateDns, Request, Sent
  <2>. QED  BY <2>3, <1>0
<1>12. CASE RebindToken(e)
  BY <1>12 DEF RebindToken, Reads, Reaches
<1>13. CASE RebindStores(e)
  <2>1. [op |-> "store", grant |-> e] \in Call
    BY <1>13, <1>t DEF RebindStores, Call, KeptCall, LocalState, StageCall
  <2>2. Issues(e, [op |-> "store", grant |-> e])
    BY <1>13 DEF RebindStores, Issues, Maker
  <2>3. Sent([op |-> "store", grant |-> e])
    BY <1>13, <2>1, <2>2 DEF RebindStores, Request, Sent
  <2>. QED  BY <2>3, <1>0
<1>14. CASE RebindConfirms(e)
  BY <1>14 DEF RebindConfirms, Reads, Reaches
<1>15. CASE CleanupStage(e)
  <2>1. StageCall(e, Head(st[e].todo)) \in Call
    BY <1>15, <1>t DEF CleanupStage, Call, KeptCall, LocalState, StageCall
  <2>2. Issues(e, StageCall(e, Head(st[e].todo)))
    BY <1>15 DEF CleanupStage, Issues, Maker
  <2>3. Sent(StageCall(e, Head(st[e].todo)))
    BY <1>15, <2>1, <2>2 DEF CleanupStage, Request, Sent
  <2>. QED  BY <2>3, <1>0
<1>16. CASE RestoreObserves(e)
  BY <1>16 DEF RestoreObserves, Reads, Reaches
<1>17. CASE RestoreUpdates(e)
  <2>1. [op |-> "update_dns", id |-> st[e].dns, target |-> st[e].old] \in Call
    BY <1>17, <1>t DEF RestoreUpdates, Call, KeptCall, LocalState, StageCall
  <2>2. Issues(e, [op |-> "update_dns", id |-> st[e].dns, target |-> st[e].old])
    BY <1>17 DEF RestoreUpdates, Issues, Maker
  <2>3. Sent([op |-> "update_dns", id |-> st[e].dns, target |-> st[e].old])
    BY <1>17, <2>1, <2>2 DEF RestoreUpdates, Request, Sent
  <2>. QED  BY <2>3, <1>0
<1>18. CASE RestoreChecks(e)
  BY <1>18 DEF RestoreChecks, Reads, Reaches
<1>19. CASE CleanupDone(e)
  BY <1>19 DEF CleanupDone, Reads, Reaches
<1>20. CASE RevokeToken(e)
  <2>1. [op |-> "revoke", grant |-> st[e].grant] \in Call
    BY <1>20, <1>t DEF RevokeToken, Call, KeptCall, LocalState, StageCall
  <2>2. Issues(e, [op |-> "revoke", grant |-> st[e].grant])
    BY <1>20 DEF RevokeToken, Issues, Maker
  <2>3. Sent([op |-> "revoke", grant |-> st[e].grant])
    BY <1>20, <2>1, <2>2 DEF RevokeToken, Request, Sent
  <2>. QED  BY <2>3, <1>0
<1>21. CASE RequireReservation(e)
  BY <1>21 DEF RequireReservation, Reads, Reaches
<1>22. CASE StillReserved(e)
  BY <1>22 DEF StillReserved, Reads, Reaches
<1>23. CASE TunnelAbsent(e)
  BY <1>23 DEF TunnelAbsent, Reads, Reaches
<1>24. CASE ReleaseDns(e)
  <2>1. [op |-> "delete_dns", id |-> st[e].dns] \in Call
    BY <1>24, <1>t DEF ReleaseDns, Call, KeptCall, LocalState, StageCall
  <2>2. Issues(e, [op |-> "delete_dns", id |-> st[e].dns])
    BY <1>24 DEF ReleaseDns, Issues, Maker
  <2>3. Sent([op |-> "delete_dns", id |-> st[e].dns])
    BY <1>24, <2>1, <2>2 DEF ReleaseDns, Request, Sent
  <2>. QED  BY <2>3, <1>0
<1>25. CASE ReleaseAbsence(e)
  BY <1>25 DEF ReleaseAbsence, Reads, Reaches
<1>. QED  BY <1>1, <1>2, <1>3, <1>4, <1>5, <1>6, <1>7, <1>8, <1>9, <1>10, <1>11, <1>12, <1>13, <1>14, <1>15, <1>16, <1>17, <1>18, <1>19, <1>20, <1>21, <1>22, <1>23, <1>24, <1>25 DEF Step

(* The lists of stages that the operations use.                            *)
LEMMA ListsTyped ==
    /\ <<>> \in StageLists /\ <<"tunnel">> \in StageLists /\ <<"dns", "tunnel">> \in StageLists
    /\ <<"restore", "tunnel">> \in StageLists /\ <<"custody", "dns", "tunnel">> \in StageLists
    /\ <<"custody", "restore", "tunnel">> \in StageLists
    /\ <<"dns", "connections", "tunnel">> \in StageLists
    /\ <<"custody", "connections", "tunnel">> \in StageLists
    /\ <<"custody", "dns", "connections", "tunnel">> \in StageLists
BY DEF StageLists, Stages

(* The rest of a list of stages.                                           *)
LEMMA TailTyped ==
    ASSUME NEW t \in StageLists, t # <<>>
    PROVE  Tail(t) \in StageLists /\ Head(t) \in Stages
BY DEF StageLists

(* Naming a failed stage.                                                  *)
LEMMA FailuresTyped ==
    /\ {} \in Failures /\ {"dns"} \in Failures
    /\ \A F \in Failures : \A stage \in Stages \cup {"reservation"} : F \cup {stage} \in Failures
BY DEF Failures, Stages

-----------------------------------------------------------------------------
(* What each action does to the variables of its effect.                   *)

Goes(e, l) == pc'[e] = l /\ outcome'[e] = outcome[e] /\ permit'[e] = permit[e] /\ owned' = owned

SameIds(e) ==
    /\ st'[e].tun = st[e].tun /\ st'[e].dns = st[e].dns
    /\ st'[e].old = st[e].old /\ st'[e].grant = st[e].grant
SameNotes(e) ==
    st'[e].err = st[e].err /\ st'[e].upd = st[e].upd /\ st'[e].certainty = st[e].certainty
SameWork(e) == st'[e].todo = st[e].todo /\ st'[e].failed = st[e].failed

(* A cleanup starts with these stages.                                     *)
Cleans(e, stages) ==
    /\ Goes(e, "cleanup") /\ st'[e] \in LocalState /\ SameIds(e)
    /\ st'[e].todo = stages /\ st'[e].failed = st[e].failed

(* StopCreate: failed is reported only when nothing is in doubt.           *)
Stopped(e) ==
    /\ pc'[e] = "done" /\ owned' = owned
    /\ outcome'[e] \in {"unknown", "failed", "unrecorded"}
    /\ outcome'[e] = "failed" => st'[e].certainty # "uncertain" /\ st'[e].failed = {}
    /\ permit'[e] \in [1..2 -> Words] /\ permit'[e][2] = permit[e][2]
    /\ permit'[e][1] \in {permit[e][1], "unknown", "failed"}
    /\ permit'[e][1] # "returned" \/ permit'[e][1] = permit[e][1]

LEMMA MoveDoes ==
    ASSUME TypeOK, NEW e \in Effects, NEW l, NEW s, Move(e, l, s)
    PROVE  Goes(e, l) /\ st'[e] = s
BY DEF Move, Goes, TypeOK

LEMMA CleanDoes ==
    ASSUME TypeOK, NEW e \in Effects, NEW stages \in StageLists, NEW s \in LocalState, Clean(e, stages, s)
    PROVE  /\ Goes(e, "cleanup") /\ st'[e] \in LocalState
           /\ st'[e].tun = s.tun /\ st'[e].dns = s.dns /\ st'[e].old = s.old /\ st'[e].grant = s.grant
           /\ st'[e].err = s.err /\ st'[e].upd = s.upd /\ st'[e].certainty = s.certainty
           /\ st'[e].todo = stages /\ st'[e].failed = s.failed
<1>. DEFINE n == [s EXCEPT !.todo = stages]
<1>1. /\ n \in LocalState
      /\ n.tun = s.tun /\ n.dns = s.dns /\ n.old = s.old /\ n.grant = s.grant
      /\ n.err = s.err /\ n.upd = s.upd /\ n.certainty = s.certainty
      /\ n.todo = stages /\ n.failed = s.failed
  BY DEF LocalState
<1>2. Move(e, "cleanup", n)
  BY DEF Clean
<1>. HIDE DEF n
<1>. QED  BY <1>1, <1>2, MoveDoes

LEMMA StopDoes ==
    ASSUME TypeOK, NEW e \in Effects, NEW s \in LocalState, StopCreate(e, s)
    PROVE  Stopped(e) /\ st'[e] = s
<1>1. st'[e] = s
  BY DEF StopCreate, TypeOK
<1>2. permit \in [Effects -> [1..2 -> Words]] /\ outcome \in [Effects -> Outcomes] /\ pc \in [Effects -> AllLabels]
  BY DEF TypeOK
<1>3. PICK kind \in {"unknown", "failed"} :
        /\ kind = "failed" => s.certainty # "uncertain" /\ s.failed = {}
        /\ Report(e, 1, kind, kind)
  BY DEF StopCreate
<1>. QED  BY <1>1, <1>2, <1>3 DEF Stopped, Report, RecordLost, Record, End, Words

LEMMA StageDoes ==
    ASSUME TypeOK, NEW e \in Effects, NEW failed \in BOOLEAN, StageEnds(e, failed), st[e].todo # <<>>
    PROVE  /\ Goes(e, "cleanup") /\ st'[e] \in LocalState /\ SameIds(e) /\ SameNotes(e)
           /\ st'[e].todo = Tail(st[e].todo)
           /\ st'[e].failed = IF failed THEN st[e].failed \cup {Head(st[e].todo)} ELSE st[e].failed
<1>. DEFINE s == st[e]
            F == IF failed THEN s.failed \cup {Head(s.todo)} ELSE s.failed
            t == Tail(s.todo)
            n == [s EXCEPT !.todo = t, !.failed = F]
<1>1. s \in LocalState /\ s.todo \in StageLists /\ s.failed \in Failures
  BY DEF TypeOK, LocalState
<1>2. t \in StageLists /\ F \in Failures
  BY <1>1, TailTyped, FailuresTyped
<1>3. Move(e, "cleanup", n)
  BY DEF StageEnds
<1>. HIDE DEF s, F, t
<1>4. /\ n \in LocalState
      /\ n.tun = s.tun /\ n.dns = s.dns /\ n.old = s.old /\ n.grant = s.grant
      /\ n.err = s.err /\ n.upd = s.upd /\ n.certainty = s.certainty
      /\ n.todo = t /\ n.failed = F
  BY <1>1, <1>2 DEF LocalState
<1>. HIDE DEF n
<1>5. Goes(e, "cleanup") /\ st'[e] = n
  BY <1>3, MoveDoes
<1>. QED  BY <1>4, <1>5 DEF SameIds, SameNotes, s, F, t

(* The call was sent, and the answer is this one.                          *)
Answered(e, call, reply) ==
    \/ Execute(e, call) /\ UNCHANGED late
    \/ reply # "ok" /\ UNCHANGED <<cf, made, late>>
    \/ /\ reply = "transport" /\ call.op \notin {"configure", "connections"}
       /\ late' = late \cup {[by |-> e, call |-> call]}
       /\ UNCHANGED <<cf, made>>

(* A cleanup that starts notes the certainty.                              *)
LEMMA CleanNoted ==
    ASSUME TypeOK, NEW e \in Effects, NEW stages \in StageLists, NEW c \in Certainties,
           Clean(e, stages, [st[e] EXCEPT !.certainty = c])
    PROVE  Cleans(e, stages)
<1>. DEFINE s == st[e]
            n == [s EXCEPT !.certainty = c]
<1>1. s \in LocalState
  BY DEF TypeOK
<1>. HIDE DEF s
<1>2. /\ n \in LocalState /\ n.tun = s.tun /\ n.dns = s.dns /\ n.old = s.old /\ n.grant = s.grant
      /\ n.failed = s.failed
  BY <1>1 DEF LocalState
<1>3. Clean(e, stages, n)
  BY DEF s
<1>. HIDE DEF n
<1>. QED  BY <1>2, <1>3, CleanDoes DEF Cleans, SameIds, s

(* A create that stops without cleanup.                                    *)
LEMMA StopUncertain ==
    ASSUME TypeOK, NEW e \in Effects, StopCreate(e, [st[e] EXCEPT !.certainty = "uncertain"])
    PROVE  /\ Stopped(e) /\ st'[e] \in LocalState /\ SameIds(e) /\ SameWork(e)
           /\ st'[e].certainty = "uncertain"
<1>. DEFINE s == st[e]
            n == [s EXCEPT !.certainty = "uncertain"]
<1>1. s \in LocalState
  BY DEF TypeOK
<1>. HIDE DEF s
<1>2. /\ n \in LocalState /\ n.tun = s.tun /\ n.dns = s.dns /\ n.old = s.old /\ n.grant = s.grant
      /\ n.todo = s.todo /\ n.failed = s.failed /\ n.certainty = "uncertain"
  BY <1>1 DEF LocalState, Certainties
<1>3. StopCreate(e, n)
  BY DEF s
<1>. HIDE DEF n
<1>. QED  BY <1>2, <1>3, StopDoes DEF SameIds, SameWork, s

LEMMA FailDoes ==
    ASSUME TypeOK, NEW e \in Effects, NEW stages \in StageLists, NEW reply \in Replies,
           FailRebind(e, stages, reply)
    PROVE  Cleans(e, stages) /\ st'[e].upd = st[e].upd /\ st'[e].err = reply
<1>. DEFINE s == st[e]
            n == [s EXCEPT !.err = reply]
<1>1. s \in LocalState /\ reply \in Errors
  BY DEF TypeOK, Errors
<1>. HIDE DEF s
<1>2. /\ n \in LocalState /\ n.tun = s.tun /\ n.dns = s.dns /\ n.old = s.old /\ n.grant = s.grant
      /\ n.failed = s.failed /\ n.upd = s.upd /\ n.err = reply
  BY <1>1 DEF LocalState
<1>3. Clean(e, stages, n)
  BY DEF FailRebind, s
<1>. HIDE DEF n
<1>. QED  BY <1>2, <1>3, CleanDoes DEF Cleans, SameIds, s

LEMMA PreObserveDoes ==
    ASSUME TypeOK, NEW e \in Effects, PreObserve(e)
    PROVE  /\ pc[e] = "observe" /\ Reads /\ st'[e] \in LocalState /\ SameIds(e) /\ SameWork(e)
           /\ \/ Goes(e, "tunnel") /\ st'[e] = st[e]
              \/ Stopped(e) /\ SameNotes(e)
              \/ Stopped(e) /\ st'[e].certainty = "uncertain"
<1>1. pc[e] = "observe" /\ Reads /\ st[e] \in LocalState
  BY DEF PreObserve, TypeOK
<1>2. \/ Move(e, "tunnel", st[e]) \/ StopCreate(e, st[e])
      \/ StopCreate(e, [st[e] EXCEPT !.certainty = "uncertain"])
  BY DEF PreObserve
<1>. QED  BY <1>1, <1>2, MoveDoes, StopDoes, StopUncertain DEF SameIds, SameWork, SameNotes

LEMMA CreateTunnelDoes ==
    ASSUME TypeOK, NEW e \in Effects, CreateTunnel(e)
    PROVE  /\ pc[e] = "tunnel" /\ st'[e] \in LocalState
           /\ st'[e].dns = st[e].dns /\ st'[e].old = st[e].old /\ st'[e].grant = st[e].grant
           /\ st'[e].failed = st[e].failed
           /\ \/ /\ Answered(e, [op |-> "create_tunnel"], "ok") /\ Goes(e, "configure")
                 /\ st'[e].tun = cf.next /\ SameNotes(e) /\ SameWork(e)
              \/ \E reply \in Replies \ {"ok"} :
                    /\ Answered(e, [op |-> "create_tunnel"], reply) /\ st'[e].tun = st[e].tun
                    /\ IF Op[e] = "create"
                       THEN Stopped(e) /\ SameWork(e) /\ st'[e].certainty = "uncertain"
                       ELSE Cleans(e, <<>>) /\ st'[e].upd = st[e].upd
<1>. DEFINE s == st[e]
            c == [op |-> "create_tunnel"]
            n == [s EXCEPT !.tun = cf.next]
<1>1. s \in LocalState /\ cf.next \in Nat /\ pc[e] = "tunnel"
  BY DEF TypeOK, World, CreateTunnel
<1>2. PICK reply \in Replies :
        /\ Answered(e, c, reply)
        /\ IF reply = "ok" THEN Move(e, "configure", n)
           ELSE IF Op[e] = "create" THEN StopCreate(e, [s EXCEPT !.certainty = "uncertain"])
           ELSE FailRebind(e, <<>>, reply)
  BY DEF CreateTunnel, Request, Answered, FailRebind
<1>3. CASE reply = "ok"
  <2>1. Answered(e, c, "ok") /\ Move(e, "configure", n)
    BY <1>2, <1>3
  <2>. HIDE DEF s, c
  <2>2. /\ n \in LocalState /\ n.tun = cf.next /\ n.dns = s.dns /\ n.old = s.old /\ n.grant = s.grant
        /\ n.err = s.err /\ n.upd = s.upd /\ n.certainty = s.certainty
        /\ n.todo = s.todo /\ n.failed = s.failed
    BY <1>1 DEF LocalState
  <2>. HIDE DEF n
  <2>. QED  BY <1>1, <2>1, <2>2, MoveDoes DEF s, c, SameNotes, SameWork
<1>4. CASE reply # "ok" /\ Op[e] = "create"
  BY <1>1, <1>2, <1>4, StopUncertain DEF SameIds, SameWork
<1>5. CASE reply # "ok" /\ Op[e] # "create"
  BY <1>1, <1>2, <1>5, FailDoes, ListsTyped DEF Cleans, SameIds
<1>. QED  BY <1>3, <1>4, <1>5

LEMMA ObserveAgainDoes ==
    ASSUME TypeOK, NEW e \in Effects, ObserveAgain(e)
    PROVE  /\ pc[e] = "observe-again" /\ Reads /\ st'[e] \in LocalState
           /\ \/ Goes(e, "dns") /\ st'[e] = st[e]
              \/ Cleans(e, <<"tunnel">>)
              \/ /\ Stopped(e) /\ SameIds(e) /\ SameWork(e) /\ st'[e].certainty = "uncertain"
<1>1. pc[e] = "observe-again" /\ Reads /\ st[e] \in LocalState
  BY DEF ObserveAgain, TypeOK
<1>2. \/ Move(e, "dns", st[e])
      \/ \E c \in Certainties : Clean(e, <<"tunnel">>, [st[e] EXCEPT !.certainty = c])
      \/ StopCreate(e, [st[e] EXCEPT !.certainty = "uncertain"])
  BY DEF ObserveAgain, Certainty, Certainties
<1>. QED  BY <1>1, <1>2, MoveDoes, CleanNoted, StopUncertain, ListsTyped DEF Cleans

LEMMA ConfigureTunnelDoes ==
    ASSUME TypeOK, NEW e \in Effects, ConfigureTunnel(e)
    PROVE  /\ pc[e] = "configure" /\ st'[e] \in LocalState
           /\ \/ /\ Answered(e, [op |-> "configure", id |-> st[e].tun], "ok") /\ st'[e] = st[e]
                 /\ Goes(e, IF Op[e] = "create" THEN "observe-again" ELSE "reservation")
              \/ \E reply \in Replies \ {"ok"} :
                    /\ Answered(e, [op |-> "configure", id |-> st[e].tun], reply)
                    /\ Cleans(e, <<"tunnel">>) /\ st'[e].upd = st[e].upd
<1>. DEFINE s == st[e]
            c == [op |-> "configure", id |-> st[e].tun]
            n(reply) == [s EXCEPT !.err = reply,
                                  !.certainty = IF reply = "transport" THEN "uncertain"
                                                ELSE Certainty(reply, "tunnel-created")]
<1>1. s \in LocalState /\ pc[e] = "configure"
  BY DEF TypeOK, ConfigureTunnel
<1>2. PICK reply \in Replies :
        /\ Answered(e, c, reply)
        /\ IF reply = "ok"
           THEN Move(e, IF Op[e] = "create" THEN "observe-again" ELSE "reservation", s)
           ELSE Clean(e, <<"tunnel">>, n(reply))
  BY DEF ConfigureTunnel, Request, Answered
<1>3. CASE reply = "ok"
  BY <1>1, <1>2, <1>3, MoveDoes
<1>4. CASE reply # "ok"
  <2>1. Answered(e, c, reply) /\ Clean(e, <<"tunnel">>, n(reply))
    BY <1>2, <1>4
  <2>. HIDE DEF s, c
  <2>2. /\ n(reply) \in LocalState /\ n(reply).tun = s.tun /\ n(reply).dns = s.dns
        /\ n(reply).old = s.old /\ n(reply).grant = s.grant
        /\ n(reply).upd = s.upd /\ n(reply).failed = s.failed
    BY <1>1 DEF LocalState, Errors, Certainties, Certainty
  <2>. HIDE DEF n
  <2>3. Cleans(e, <<"tunnel">>) /\ st'[e].upd = s.upd
    BY <2>1, <2>2, CleanDoes, ListsTyped DEF s, Cleans, SameIds
  <2>. QED  BY <1>1, <1>4, <2>1, <2>3 DEF s, c, Cleans
<1>. QED  BY <1>3, <1>4

LEMMA CreateDnsDoes ==
    ASSUME TypeOK, NEW e \in Effects, CreateDns(e)
    PROVE  /\ pc[e] = "dns" /\ st'[e] \in LocalState
           /\ st'[e].tun = st[e].tun /\ st'[e].old = st[e].old /\ st'[e].grant = st[e].grant
           /\ SameWork(e)
           /\ \/ /\ Answered(e, [op |-> "create_dns", target |-> st[e].tun], "ok") /\ Goes(e, "token")
                 /\ st'[e].dns = cf.next /\ SameNotes(e)
              \/ \E reply \in Replies \ {"ok"} :
                    /\ Answered(e, [op |-> "create_dns", target |-> st[e].tun], reply)
                    /\ Goes(e, "reconcile") /\ st'[e].dns = st[e].dns
                    /\ st'[e].err = reply /\ st'[e].certainty = "uncertain"
<1>. DEFINE s == st[e]
            c == [op |-> "create_dns", target |-> st[e].tun]
            n == [s EXCEPT !.dns = cf.next]
            m(reply) == [s EXCEPT !.err = reply, !.certainty = "uncertain"]
<1>1. s \in LocalState /\ cf.next \in Nat /\ pc[e] = "dns"
  BY DEF TypeOK, World, CreateDns
<1>2. PICK reply \in Replies :
        /\ Answered(e, c, reply)
        /\ IF reply = "ok" THEN Move(e, "token", n) ELSE Move(e, "reconcile", m(reply))
  BY DEF CreateDns, Request, Answered
<1>. HIDE DEF s, c
<1>3. /\ n \in LocalState /\ n.tun = s.tun /\ n.dns = cf.next /\ n.old = s.old /\ n.grant = s.grant
      /\ n.err = s.err /\ n.upd = s.upd /\ n.certainty = s.certainty
      /\ n.todo = s.todo /\ n.failed = s.failed
  BY <1>1 DEF LocalState
<1>4. /\ m(reply) \in LocalState /\ m(reply).tun = s.tun /\ m(reply).dns = s.dns
      /\ m(reply).old = s.old /\ m(reply).grant = s.grant /\ m(reply).err = reply
      /\ m(reply).certainty = "uncertain" /\ m(reply).todo = s.todo /\ m(reply).failed = s.failed
  BY <1>1 DEF LocalState, Errors, Certainties
<1>. HIDE DEF n, m
<1>. QED  BY <1>1, <1>2, <1>3, <1>4, MoveDoes DEF s, c, SameNotes, SameWork

LEMMA ReconcileDoes ==
    ASSUME TypeOK, UniqueRecords, NEW e \in Effects, Reconcile(e)
    PROVE  /\ pc[e] = "reconcile" /\ Reads /\ st'[e] \in LocalState
           /\ \/ Stopped(e) /\ st'[e] = st[e]
              \/ /\ Goes(e, "token") /\ SameWork(e) /\ st'[e].certainty = "none"
                 /\ st'[e].tun = st[e].tun /\ st'[e].old = st[e].old /\ st'[e].grant = st[e].grant
                 /\ \E r \in cf.records : /\ cf.records = {r}
                                          /\ r.id = st'[e].dns /\ r.target = st[e].tun
              \/ Cleans(e, <<"tunnel">>) /\ SameNotes(e)
<1>. DEFINE s == st[e]
            n(r) == [s EXCEPT !.dns = r.id, !.certainty = "none"]
<1>1. s \in LocalState /\ pc[e] = "reconcile" /\ Reads /\ \A r \in cf.records : r.id \in Nat
  BY DEF TypeOK, World, RecordSets, Reconcile, DnsRecord
<1>2. \/ StopCreate(e, s)
      \/ ReconciledState(s.tun) = "TARGETS_TUNNEL" /\ \E r \in cf.records : Move(e, "token", n(r))
      \/ Clean(e, <<"tunnel">>, s)
  BY DEF Reconcile
<1>3. CASE StopCreate(e, s)
  BY <1>1, <1>3, StopDoes
<1>4. CASE ReconciledState(s.tun) = "TARGETS_TUNNEL" /\ \E r \in cf.records : Move(e, "token", n(r))
  <2>1. PICK r \in cf.records : Move(e, "token", n(r))
    BY <1>4
  <2>2. HostnameState(s.tun) = "TARGETS_TUNNEL"
    BY <1>4 DEF ReconciledState
  <2>3. \E q \in cf.records : q.cname /\ q.target = s.tun
    BY <2>2 DEF HostnameState, list_dns_records_for_hostname
  <2>4. r.target = s.tun /\ cf.records = {r}
    BY <2>1, <2>3 DEF UniqueRecords
  <2>. HIDE DEF s
  <2>5. /\ n(r) \in LocalState /\ n(r).tun = s.tun /\ n(r).dns = r.id /\ n(r).old = s.old
        /\ n(r).grant = s.grant /\ n(r).certainty = "none" /\ n(r).todo = s.todo /\ n(r).failed = s.failed
    BY <1>1 DEF LocalState, Certainties
  <2>. HIDE DEF n
  <2>. QED  BY <1>1, <2>1, <2>4, <2>5, MoveDoes DEF s, SameWork
<1>5. CASE Clean(e, <<"tunnel">>, s)
  BY <1>1, <1>5, CleanDoes, ListsTyped DEF Cleans, SameIds, SameNotes
<1>. QED  BY <1>2, <1>3, <1>4, <1>5

(* The effect ends with this outcome and its local variables as they are.  *)
Halts(e, kind) == pc'[e] = "done" /\ outcome'[e] = kind /\ st'[e] = st[e]

LEMMA TunnelTokenDoes ==
    ASSUME TypeOK, NEW e \in Effects, TunnelToken(e)
    PROVE  /\ pc[e] = "token" /\ Op[e] = "create" /\ Reads /\ st'[e] \in LocalState /\ owned' = owned
           /\ \/ /\ pc'[e] = "store" /\ outcome'[e] = outcome[e] /\ st'[e] = st[e]
                 /\ permit'[e] = IF e \in Invoked THEN <<"returned", "admitted">> ELSE permit[e]
              \/ Halts(e, "unrecorded") /\ permit'[e] = permit[e]
              \/ /\ Halts(e, "refused") /\ permit'[e] \in [1..2 -> Words]
                 /\ permit'[e][1] = "returned" /\ permit'[e][2] = permit[e][2]
              \/ Cleans(e, <<"dns", "tunnel">>)
<1>1. pc[e] = "token" /\ Op[e] = "create" /\ Reads /\ st[e] \in LocalState
  BY DEF TunnelToken, TypeOK
<1>2. /\ pc \in [Effects -> AllLabels] /\ st \in [Effects -> LocalState] /\ outcome \in [Effects -> Outcomes]
      /\ permit \in [Effects -> [1..2 -> Words]] /\ "returned" \in Words
  BY DEF TypeOK, Words
<1>3. \/ /\ pc' = [pc EXCEPT ![e] = "store"]
         /\ IF e \in Invoked
            THEN permit' = [permit EXCEPT ![e] = <<"returned", "admitted">>]
            ELSE UNCHANGED permit
         /\ UNCHANGED <<st, outcome, owned>>
      \/ RecordLost(e) /\ UNCHANGED st
      \/ Record(e, 1, "returned") /\ End(e, "refused") /\ UNCHANGED <<st, owned>>
      \/ \E c \in Certainties : Clean(e, <<"dns", "tunnel">>, [st[e] EXCEPT !.certainty = c])
  BY DEF TunnelToken, Certainty, Certainties
<1>4. ASSUME NEW c \in Certainties, Clean(e, <<"dns", "tunnel">>, [st[e] EXCEPT !.certainty = c])
      PROVE  Cleans(e, <<"dns", "tunnel">>)
  BY <1>4, CleanNoted, ListsTyped
<1>5. CASE Record(e, 1, "returned") /\ End(e, "refused") /\ UNCHANGED <<st, owned>>
  BY <1>1, <1>2, <1>5 DEF Record, End, Halts
<1>6. CASE RecordLost(e) /\ UNCHANGED st
  BY <1>1, <1>2, <1>6 DEF RecordLost, End, Halts
<1>7. CASE /\ pc' = [pc EXCEPT ![e] = "store"]
           /\ IF e \in Invoked
              THEN permit' = [permit EXCEPT ![e] = <<"returned", "admitted">>]
              ELSE UNCHANGED permit
           /\ UNCHANGED <<st, outcome, owned>>
  BY <1>1, <1>2, <1>7
<1>. QED  BY <1>1, <1>3, <1>4, <1>5, <1>6, <1>7 DEF Cleans, Goes

LEMMA StoreTokenDoes ==
    ASSUME TypeOK, NEW e \in Effects, StoreToken(e)
    PROVE  /\ pc[e] = "store" /\ Op[e] = "create" /\ st'[e] \in LocalState
           /\ permit'[e] \in [1..2 -> Words] /\ permit'[e][1] = permit[e][1]
           /\ \/ /\ Answered(e, [op |-> "store", grant |-> e], "ok") /\ Halts(e, "succeeded")
                 /\ owned' = owned \cup {Allocated(e)}
                 /\ permit'[e][2] = IF e \in Invoked THEN "returned" ELSE permit[e][2]
              \/ /\ Answered(e, [op |-> "store", grant |-> e], "ok") /\ Halts(e, "unrecorded")
                 /\ owned' = owned /\ permit'[e][2] = permit[e][2]
              \/ /\ \E reply \in Replies \ {"ok"} : Answered(e, [op |-> "store", grant |-> e], reply)
                 /\ e \in Invoked /\ owned' = owned
                 /\ \E kind \in {"unknown", "unrecorded"} : Halts(e, kind)
                 /\ permit'[e][2] \in {permit[e][2], "unknown"}
              \/ /\ \E reply \in Replies \ {"ok"} : Answered(e, [op |-> "store", grant |-> e], reply)
                 /\ e \notin Invoked /\ Cleans(e, <<"custody", "dns", "tunnel">>)
<1>. DEFINE c == [op |-> "store", grant |-> e]
<1>1. pc[e] = "store" /\ Op[e] = "create" /\ st[e] \in LocalState
  BY DEF StoreToken, TypeOK
<1>2. /\ pc \in [Effects -> AllLabels] /\ st \in [Effects -> LocalState] /\ outcome \in [Effects -> Outcomes]
      /\ permit \in [Effects -> [1..2 -> Words]] /\ {"returned", "unknown"} \subseteq Words
  BY DEF TypeOK, Words
<1>3. PICK reply \in Replies :
        /\ Answered(e, c, reply)
        /\ IF reply = "ok"
           THEN /\ UNCHANGED st
                /\ \/ /\ End(e, "succeeded")
                      /\ owned' = owned \cup {Allocated(e)}
                      /\ IF e \in Invoked THEN Record(e, 2, "returned") ELSE UNCHANGED permit
                   \/ RecordLost(e)
           ELSE IF e \in Invoked THEN Report(e, 2, "unknown", "unknown") /\ UNCHANGED st
           ELSE Clean(e, <<"custody", "dns", "tunnel">>,
                      [st[e] EXCEPT !.certainty = "dns-and-tunnel-created"])
  BY DEF StoreToken, Request, Answered
<1>. HIDE DEF c
<1>4. CASE reply = "ok"
  BY <1>1, <1>2, <1>3, <1>4 DEF RecordLost, Record, End, Halts, c
<1>5. CASE reply # "ok" /\ e \in Invoked
  BY <1>1, <1>2, <1>3, <1>5 DEF Report, RecordLost, Record, End, Halts, c
<1>6. CASE reply # "ok" /\ e \notin Invoked
  <2>1. Cleans(e, <<"custody", "dns", "tunnel">>)
    BY <1>3, <1>6, CleanNoted, ListsTyped DEF Certainties
  <2>. QED  BY <1>1, <1>2, <1>3, <1>6, <2>1 DEF Cleans, Goes, c
<1>. QED  BY <1>4, <1>5, <1>6

LEMMA RebindObservesDoes ==
    ASSUME TypeOK, NEW e \in Effects, RebindObserves(e)
    PROVE  /\ Op[e] = "rebind" /\ pc[e] \in {"reservation", "verify"} /\ Reads /\ st'[e] \in LocalState
           /\ \/ pc[e] = "reservation" /\ Goes(e, "update") /\ st'[e] = st[e]
              \/ pc[e] = "verify" /\ Goes(e, "token") /\ st'[e] = st[e]
              \/ /\ Cleans(e, IF pc[e] = "reservation" THEN <<"tunnel">> ELSE <<"restore", "tunnel">>)
                 /\ st'[e].upd = st[e].upd
<1>1. /\ Op[e] = "rebind" /\ pc[e] \in {"reservation", "verify"} /\ Reads /\ st[e] \in LocalState
      /\ {"status", "transport"} \subseteq Replies
  BY DEF RebindObserves, TypeOK, Replies
<1>2. \/ pc[e] = "reservation" /\ Move(e, "update", st[e])
      \/ pc[e] = "verify" /\ Move(e, "token", st[e])
      \/ \E reply \in {"status", "transport"} :
            FailRebind(e, IF pc[e] = "reservation" THEN <<"tunnel">> ELSE <<"restore", "tunnel">>, reply)
  BY DEF RebindObserves, RequireObserved
<1>. QED  BY <1>1, <1>2, MoveDoes, FailDoes, ListsTyped DEF Cleans

LEMMA UpdateDnsDoes ==
    ASSUME TypeOK, NEW e \in Effects, UpdateDns(e)
    PROVE  /\ pc[e] = "update" /\ st'[e] \in LocalState /\ SameIds(e) /\ st'[e].upd
           /\ st'[e].failed = st[e].failed
           /\ \E reply \in Replies :
                /\ Answered(e, [op |-> "update_dns", id |-> st[e].dns, target |-> st[e].tun], reply)
                /\ st'[e].err = reply
                /\ IF reply = "ok" THEN Goes(e, "verify") /\ st'[e].todo = st[e].todo
                   ELSE Cleans(e, <<"restore", "tunnel">>)
<1>. DEFINE s == st[e]
            c == [op |-> "update_dns", id |-> st[e].dns, target |-> st[e].tun]
            n(reply) == [s EXCEPT !.upd = TRUE, !.err = reply]
<1>1. s \in LocalState /\ pc[e] = "update"
  BY DEF TypeOK, UpdateDns
<1>2. PICK reply \in Replies :
        /\ Answered(e, c, reply)
        /\ IF reply = "ok" THEN Move(e, "verify", n(reply))
           ELSE Clean(e, <<"restore", "tunnel">>, n(reply))
  BY DEF UpdateDns, Request, Answered
<1>. HIDE DEF s, c
<1>3. /\ n(reply) \in LocalState /\ n(reply).tun = s.tun /\ n(reply).dns = s.dns
      /\ n(reply).old = s.old /\ n(reply).grant = s.grant /\ n(reply).err = reply
      /\ n(reply).upd = TRUE /\ n(reply).failed = s.failed /\ n(reply).todo = s.todo
  BY <1>1 DEF LocalState, Errors
<1>. HIDE DEF n
<1>4. CASE reply = "ok"
  BY <1>1, <1>2, <1>3, <1>4, MoveDoes DEF s, c, SameIds
<1>5. CASE reply # "ok"
  <2>1. Clean(e, <<"restore", "tunnel">>, n(reply))
    BY <1>2, <1>5
  <2>2. Cleans(e, <<"restore", "tunnel">>) /\ st'[e].upd /\ st'[e].err = reply
    BY <1>3, <2>1, CleanDoes, ListsTyped DEF s, Cleans, SameIds
  <2>. QED  BY <1>1, <1>2, <1>5, <2>2 DEF s, c, Cleans
<1>. QED  BY <1>4, <1>5

LEMMA RebindTokenDoes ==
    ASSUME TypeOK, NEW e \in Effects, RebindToken(e)
    PROVE  /\ pc[e] = "token" /\ Op[e] = "rebind" /\ Reads /\ st'[e] \in LocalState
           /\ \/ Goes(e, "store") /\ st'[e] = st[e]
              \/ Cleans(e, <<"restore", "tunnel">>) /\ st'[e].upd = st[e].upd
<1>1. /\ pc[e] = "token" /\ Op[e] = "rebind" /\ Reads /\ st[e] \in LocalState
      /\ {"status", "transport"} \subseteq Replies
  BY DEF RebindToken, TypeOK, Replies
<1>2. \/ Move(e, "store", st[e])
      \/ \E reply \in {"status", "transport"} : FailRebind(e, <<"restore", "tunnel">>, reply)
  BY DEF RebindToken
<1>. QED  BY <1>1, <1>2, MoveDoes, FailDoes, ListsTyped DEF Cleans

LEMMA RebindStoresDoes ==
    ASSUME TypeOK, NEW e \in Effects, RebindStores(e)
    PROVE  /\ pc[e] = "store" /\ Op[e] = "rebind" /\ st'[e] \in LocalState
           /\ \/ /\ Answered(e, [op |-> "store", grant |-> e], "ok")
                 /\ Goes(e, "confirm") /\ st'[e] = st[e]
              \/ /\ \E reply \in Replies \ {"ok"} : Answered(e, [op |-> "store", grant |-> e], reply)
                 /\ Cleans(e, <<"custody", "restore", "tunnel">>) /\ st'[e].upd = st[e].upd
<1>. DEFINE c == [op |-> "store", grant |-> e]
<1>1. pc[e] = "store" /\ Op[e] = "rebind" /\ st[e] \in LocalState /\ "status" \in Replies
  BY DEF RebindStores, TypeOK, Replies
<1>2. PICK reply \in Replies :
        /\ Answered(e, c, reply)
        /\ IF reply = "ok" THEN Move(e, "confirm", st[e])
           ELSE FailRebind(e, <<"custody", "restore", "tunnel">>, "status")
  BY DEF RebindStores, Request, Answered
<1>. HIDE DEF c
<1>3. CASE reply = "ok"
  BY <1>1, <1>2, <1>3, MoveDoes DEF c
<1>4. CASE reply # "ok"
  BY <1>1, <1>2, <1>4, FailDoes, ListsTyped DEF c, Cleans
<1>. QED  BY <1>3, <1>4

LEMMA RebindConfirmsDoes ==
    ASSUME TypeOK, NEW e \in Effects, RebindConfirms(e)
    PROVE  /\ pc[e] = "confirm" /\ Reads /\ st'[e] \in LocalState
           /\ \/ /\ ObservedTunnel(e) = st[e].tun /\ Halts(e, "succeeded") /\ permit'[e] = permit[e]
                 /\ owned' = owned \cup {Allocated(e)}
              \/ Cleans(e, <<"custody", "restore", "tunnel">>) /\ st'[e].upd = st[e].upd
<1>1. /\ pc[e] = "confirm" /\ Reads /\ st[e] \in LocalState /\ {"status", "transport"} \subseteq Replies
      /\ pc \in [Effects -> AllLabels] /\ outcome \in [Effects -> Outcomes]
  BY DEF RebindConfirms, TypeOK, Replies
<1>2. \/ /\ ObservedTunnel(e) = st[e].tun
         /\ End(e, "succeeded") /\ owned' = owned \cup {Allocated(e)}
         /\ UNCHANGED <<st, permit>>
      \/ \E reply \in {"status", "transport"} :
            FailRebind(e, <<"custody", "restore", "tunnel">>, reply)
  BY DEF RebindConfirms
<1>. QED  BY <1>1, <1>2, FailDoes, ListsTyped DEF End, Halts, Cleans

LEMMA CleanupStageDoes ==
    ASSUME TypeOK, NEW e \in Effects, CleanupStage(e)
    PROVE  /\ pc[e] = "cleanup" /\ st[e].todo # <<>> /\ Head(st[e].todo) # "restore"
           /\ st'[e] \in LocalState /\ Goes(e, "cleanup") /\ SameIds(e) /\ SameNotes(e)
           /\ st'[e].todo = Tail(st[e].todo)
           /\ \E reply \in Replies :
                /\ Answered(e, StageCall(e, Head(st[e].todo)), reply)
                /\ st'[e].failed = IF reply # "ok" THEN st[e].failed \cup {Head(st[e].todo)}
                                   ELSE st[e].failed
<1>. DEFINE c == StageCall(e, Head(st[e].todo))
<1>1. pc[e] = "cleanup" /\ st[e].todo # <<>> /\ Head(st[e].todo) # "restore"
  BY DEF CleanupStage
<1>2. PICK reply \in Replies : Answered(e, c, reply) /\ StageEnds(e, reply # "ok")
  BY DEF CleanupStage, Request, Answered
<1>. HIDE DEF c
<1>3. (reply # "ok") \in BOOLEAN
  OBVIOUS
<1>. QED  BY <1>1, <1>2, <1>3, StageDoes DEF c

(* A finished restore stage failed, or the record was read with the old    *)
(* target.                                                                 *)
Restored(e) ==
    /\ Goes(e, "cleanup") /\ st'[e] \in LocalState /\ SameIds(e) /\ SameNotes(e)
    /\ st'[e].todo = Tail(st[e].todo)
    /\ \/ st'[e].failed = st[e].failed \cup {Head(st[e].todo)}
       \/ st'[e].failed = st[e].failed /\ ObservedTunnel(e) = st[e].old

(* How the stage that restores the record ends.                            *)
LEMMA RestoreEnds ==
    ASSUME TypeOK, NEW e \in Effects, st[e].todo # <<>>,
           StageEnds(e, ObservedTunnel(e) # st[e].old) \/ StageEnds(e, TRUE)
    PROVE  Restored(e)
<1>1. (ObservedTunnel(e) # st[e].old) \in BOOLEAN
  OBVIOUS
<1>. QED  BY <1>1, StageDoes DEF Restored

LEMMA RestoreObservesDoes ==
    ASSUME TypeOK, NEW e \in Effects, RestoreObserves(e)
    PROVE  /\ pc[e] = "cleanup" /\ st[e].todo # <<>> /\ Head(st[e].todo) = "restore"
           /\ Reads /\ st'[e] \in LocalState
           /\ Restored(e) \/ (Goes(e, "restore") /\ st'[e] = st[e])
<1>1. /\ pc[e] = "cleanup" /\ st[e].todo # <<>> /\ Head(st[e].todo) = "restore" /\ Reads
      /\ st[e] \in LocalState
  BY DEF RestoreObserves, TypeOK
<1>2. \/ StageEnds(e, ObservedTunnel(e) # st[e].old) \/ StageEnds(e, TRUE)
      \/ Move(e, "restore", st[e])
  BY DEF RestoreObserves
<1>. QED  BY <1>1, <1>2, RestoreEnds, MoveDoes DEF Restored

LEMMA RestoreUpdatesDoes ==
    ASSUME TypeOK, NEW e \in Effects, RestoreUpdates(e), st[e].todo # <<>>
    PROVE  /\ pc[e] = "restore" /\ st'[e] \in LocalState
           /\ \E reply \in Replies :
                /\ Answered(e, [op |-> "update_dns", id |-> st[e].dns, target |-> st[e].old], reply)
                /\ \/ reply = "ok" /\ Goes(e, "restore-check") /\ st'[e] = st[e]
                   \/ /\ reply # "ok" /\ Goes(e, "cleanup") /\ SameIds(e) /\ SameNotes(e)
                      /\ st'[e].todo = Tail(st[e].todo)
                      /\ st'[e].failed = st[e].failed \cup {Head(st[e].todo)}
<1>. DEFINE c == [op |-> "update_dns", id |-> st[e].dns, target |-> st[e].old]
<1>1. pc[e] = "restore" /\ st[e] \in LocalState
  BY DEF RestoreUpdates, TypeOK
<1>2. PICK reply \in Replies :
        /\ Answered(e, c, reply)
        /\ IF reply = "ok" THEN Move(e, "restore-check", st[e]) ELSE StageEnds(e, TRUE)
  BY DEF RestoreUpdates, Request, Answered
<1>. HIDE DEF c
<1>. QED  BY <1>1, <1>2, MoveDoes, StageDoes DEF c

LEMMA RestoreChecksDoes ==
    ASSUME TypeOK, NEW e \in Effects, RestoreChecks(e), st[e].todo # <<>>
    PROVE  pc[e] = "restore-check" /\ Reads /\ Restored(e)
<1>1. /\ pc[e] = "restore-check" /\ Reads
      /\ StageEnds(e, ObservedTunnel(e) # st[e].old) \/ StageEnds(e, TRUE)
  BY DEF RestoreChecks
<1>. QED  BY <1>1, RestoreEnds

LEMMA CleanupDoneDoes ==
    ASSUME TypeOK, NEW e \in Effects, CleanupDone(e)
    PROVE  /\ pc[e] = "cleanup" /\ st[e].todo = <<>> /\ Reads /\ st'[e] = st[e]
           /\ Op[e] = "create" => Stopped(e)
           /\ Op[e] = "rebind" =>
                /\ Halts(e, IF st[e].failed # {} \/ (st[e].upd /\ st[e].err = "transport")
                            THEN "unknown" ELSE "raised")
                /\ permit'[e] = permit[e] /\ owned' = owned
           /\ Op[e] = "teardown" =>
                /\ \/ Halts(e, IF st[e].failed = {} THEN "succeeded" ELSE "unknown")
                   \/ Halts(e, "unrecorded")
                /\ permit'[e] \in [1..2 -> Words] /\ permit'[e][1] = permit[e][1] /\ owned' = owned
                /\ permit'[e][2] \in {permit[e][2], "returned", "unknown"}
                /\ e \in Invoked /\ outcome'[e] # "unrecorded" => permit'[e][2] # "none"
           /\ Op[e] \notin {"create", "rebind", "teardown"} => Goes(e, "still-reserved")
<1>1. /\ pc[e] = "cleanup" /\ st[e].todo = <<>> /\ Reads /\ st[e] \in LocalState
  BY DEF CleanupDone, TypeOK
<1>2. /\ pc \in [Effects -> AllLabels] /\ st \in [Effects -> LocalState] /\ outcome \in [Effects -> Outcomes]
      /\ permit \in [Effects -> [1..2 -> Words]] /\ {"returned", "unknown"} \subseteq Words
  BY DEF TypeOK, Words
<1>3. CASE Op[e] = "create"
  <2>1. StopCreate(e, st[e])
    BY <1>3 DEF CleanupDone
  <2>. QED  BY <1>1, <1>3, <2>1, StopDoes
<1>4. CASE Op[e] = "rebind"
  BY <1>1, <1>2, <1>4 DEF CleanupDone, End, Halts
<1>5. CASE Op[e] = "teardown"
  <2>1. /\ IF st[e].failed = {} THEN Report(e, 2, "succeeded", "returned")
                                ELSE Report(e, 2, "unknown", "unknown")
        /\ UNCHANGED st
    BY <1>5 DEF CleanupDone
  <2>. QED  BY <1>1, <1>2, <1>5, <2>1 DEF Report, RecordLost, Record, End, Halts
<1>6. CASE Op[e] \notin {"create", "rebind", "teardown"}
  <2>1. Move(e, "still-reserved", st[e])
    BY <1>6 DEF CleanupDone
  <2>. QED  BY <1>1, <1>6, <2>1, MoveDoes
<1>. QED  BY <1>3, <1>4, <1>5, <1>6

LEMMA RevokeTokenDoes ==
    ASSUME TypeOK, NEW e \in Effects, RevokeToken(e)
    PROVE  /\ pc[e] = "revoke" /\ st'[e] \in LocalState /\ SameIds(e) /\ SameNotes(e) /\ owned' = owned
           /\ st'[e].failed = st[e].failed
           /\ \/ /\ Answered(e, [op |-> "revoke", grant |-> st[e].grant], "ok")
                 /\ pc'[e] = "cleanup" /\ outcome'[e] = outcome[e]
                 /\ st'[e].todo = <<"dns", "connections", "tunnel">>
                 /\ permit'[e] = <<"returned", "admitted">>
              \/ /\ Answered(e, [op |-> "revoke", grant |-> st[e].grant], "ok")
                 /\ Halts(e, "unrecorded") /\ permit'[e] = permit[e]
              \/ /\ Answered(e, [op |-> "revoke", grant |-> st[e].grant], "ok")
                 /\ Halts(e, "refused") /\ permit'[e] \in [1..2 -> Words]
                 /\ permit'[e][1] = "returned" /\ permit'[e][2] = permit[e][2]
              \/ /\ \E reply \in Replies \ {"ok"} :
                        Answered(e, [op |-> "revoke", grant |-> st[e].grant], reply)
                 /\ \E kind \in {"unknown", "unrecorded"} : Halts(e, kind)
                 /\ permit'[e] \in [1..2 -> Words] /\ permit'[e][2] = permit[e][2]
                 /\ permit'[e][1] \in {permit[e][1], "unknown"}
<1>. DEFINE s == st[e]
            c == [op |-> "revoke", grant |-> st[e].grant]
            n == [s EXCEPT !.todo = <<"dns", "connections", "tunnel">>]
<1>1. s \in LocalState /\ pc[e] = "revoke"
  BY DEF TypeOK, RevokeToken
<1>2. /\ pc \in [Effects -> AllLabels] /\ st \in [Effects -> LocalState] /\ outcome \in [Effects -> Outcomes]
      /\ permit \in [Effects -> [1..2 -> Words]] /\ {"returned", "unknown"} \subseteq Words
  BY DEF TypeOK, Words
<1>3. PICK reply \in Replies :
        /\ Answered(e, c, reply)
        /\ IF reply = "ok"
           THEN \/ /\ pc' = [pc EXCEPT ![e] = "cleanup"]
                   /\ st' = [st EXCEPT ![e].todo = <<"dns", "connections", "tunnel">>]
                   /\ permit' = [permit EXCEPT ![e] = <<"returned", "admitted">>]
                   /\ UNCHANGED <<outcome, owned>>
                \/ RecordLost(e) /\ UNCHANGED st
                \/ Record(e, 1, "returned") /\ End(e, "refused") /\ UNCHANGED <<st, owned>>
           ELSE Report(e, 1, "unknown", "unknown") /\ UNCHANGED st
  BY DEF RevokeToken, Request, Answered
<1>4. CASE reply # "ok"
  BY <1>1, <1>2, <1>3, <1>4 DEF Report, RecordLost, Record, End, Halts, SameIds, SameNotes
<1>5. CASE reply = "ok" /\ RecordLost(e) /\ UNCHANGED st
  BY <1>1, <1>2, <1>3, <1>5 DEF RecordLost, End, Halts, SameIds, SameNotes
<1>6. CASE reply = "ok" /\ Record(e, 1, "returned") /\ End(e, "refused") /\ UNCHANGED <<st, owned>>
  BY <1>1, <1>2, <1>3, <1>6 DEF Record, End, Halts, SameIds, SameNotes
<1>7. CASE /\ reply = "ok"
           /\ pc' = [pc EXCEPT ![e] = "cleanup"]
           /\ st' = [st EXCEPT ![e].todo = <<"dns", "connections", "tunnel">>]
           /\ permit' = [permit EXCEPT ![e] = <<"returned", "admitted">>]
           /\ UNCHANGED <<outcome, owned>>
  <2>1. /\ pc'[e] = "cleanup" /\ outcome'[e] = outcome[e] /\ permit'[e] = <<"returned", "admitted">>
        /\ owned' = owned /\ st'[e] = n
    BY <1>2, <1>7
  <2>. HIDE DEF s, c
  <2>2. /\ n \in LocalState /\ n.tun = s.tun /\ n.dns = s.dns /\ n.old = s.old /\ n.grant = s.grant
        /\ n.err = s.err /\ n.upd = s.upd /\ n.certainty = s.certainty
        /\ n.todo = <<"dns", "connections", "tunnel">> /\ n.failed = s.failed
    BY <1>1, ListsTyped DEF LocalState
  <2>. HIDE DEF n
  <2>. QED  BY <1>1, <1>3, <1>7, <2>1, <2>2 DEF s, c, SameIds, SameNotes
<1>. QED  BY <1>3, <1>4, <1>5, <1>6, <1>7

LEMMA RequireReservationDoes ==
    ASSUME TypeOK, NEW e \in Effects, RequireReservation(e)
    PROVE  /\ pc[e] = "reservation" /\ Op[e] \in {"deactivate", "release"} /\ Reads
           /\ st'[e] \in LocalState /\ owned' = owned
           /\ \/ Op[e] = "deactivate" /\ Cleans(e, <<"custody", "connections", "tunnel">>)
              \/ Op[e] = "release" /\ Goes(e, "release") /\ st'[e] = st[e]
              \/ Halts(e, "refused") /\ permit'[e] = permit[e]
<1>1. /\ pc[e] = "reservation" /\ Op[e] \in {"deactivate", "release"} /\ Reads /\ st[e] \in LocalState
      /\ pc \in [Effects -> AllLabels] /\ outcome \in [Effects -> Outcomes]
  BY DEF RequireReservation, TypeOK
<1>2. \/ Op[e] = "deactivate" /\ Clean(e, <<"custody", "connections", "tunnel">>, st[e])
      \/ Op[e] = "release" /\ Move(e, "release", st[e])
      \/ End(e, "refused") /\ UNCHANGED <<st, permit, owned>>
  BY DEF RequireReservation
<1>3. CASE Op[e] = "deactivate" /\ Clean(e, <<"custody", "connections", "tunnel">>, st[e])
  BY <1>1, <1>3, CleanDoes, ListsTyped DEF Cleans, SameIds, Goes
<1>4. CASE Op[e] = "release" /\ Move(e, "release", st[e])
  BY <1>1, <1>4, MoveDoes DEF Goes
<1>5. CASE End(e, "refused") /\ UNCHANGED <<st, permit, owned>>
  BY <1>1, <1>5 DEF End, Halts
<1>. QED  BY <1>2, <1>3, <1>4, <1>5

LEMMA StillReservedDoes ==
    ASSUME TypeOK, NEW e \in Effects, StillReserved(e)
    PROVE  /\ pc[e] = "still-reserved" /\ Reads /\ st'[e] \in LocalState /\ Goes(e, "tunnel-absent")
           /\ SameIds(e) /\ SameNotes(e) /\ st'[e].todo = st[e].todo
           /\ st'[e].failed \in {st[e].failed, st[e].failed \cup {"reservation"}}
<1>. DEFINE s == st[e]
            n(F) == [s EXCEPT !.failed = F]
<1>1. s \in LocalState /\ s.failed \in Failures /\ pc[e] = "still-reserved" /\ Reads
  BY DEF TypeOK, StillReserved, LocalState
<1>2. PICK F \in {s.failed, s.failed \cup {"reservation"}} : Move(e, "tunnel-absent", n(F))
  BY DEF StillReserved
<1>3. F \in Failures
  BY <1>1, FailuresTyped
<1>. HIDE DEF s
<1>4. /\ n(F) \in LocalState /\ n(F).tun = s.tun /\ n(F).dns = s.dns /\ n(F).old = s.old
      /\ n(F).grant = s.grant /\ n(F).err = s.err /\ n(F).upd = s.upd /\ n(F).certainty = s.certainty
      /\ n(F).todo = s.todo /\ n(F).failed = F
  BY <1>1, <1>3 DEF LocalState
<1>. HIDE DEF n
<1>. QED  BY <1>1, <1>2, <1>4, MoveDoes DEF s, SameIds, SameNotes

LEMMA TunnelAbsentDoes ==
    ASSUME TypeOK, NEW e \in Effects, TunnelAbsent(e)
    PROVE  /\ pc[e] = "tunnel-absent" /\ Reads /\ permit'[e] = permit[e] /\ owned' = owned
           /\ \/ Halts(e, "succeeded") /\ st[e].failed = {} /\ st[e].tun \notin cf.tunnels
              \/ Halts(e, "unknown")
BY DEF TypeOK, TunnelAbsent, End, Halts

LEMMA ReleaseDnsDoes ==
    ASSUME TypeOK, NEW e \in Effects, ReleaseDns(e)
    PROVE  /\ pc[e] = "release" /\ st'[e] \in LocalState /\ Goes(e, "absence")
           /\ SameIds(e) /\ SameNotes(e) /\ st'[e].todo = st[e].todo
           /\ \E reply \in Replies :
                /\ Answered(e, [op |-> "delete_dns", id |-> st[e].dns], reply)
                /\ st'[e].failed = IF reply = "ok" THEN st[e].failed ELSE {"dns"}
<1>. DEFINE s == st[e]
            c == [op |-> "delete_dns", id |-> st[e].dns]
            F(reply) == IF reply = "ok" THEN s.failed ELSE {"dns"}
            n(reply) == [s EXCEPT !.failed = F(reply)]
<1>1. s \in LocalState /\ s.failed \in Failures /\ pc[e] = "release"
  BY DEF TypeOK, ReleaseDns, LocalState
<1>2. PICK reply \in Replies : Answered(e, c, reply) /\ Move(e, "absence", n(reply))
  BY DEF ReleaseDns, Request, Answered
<1>3. F(reply) \in Failures
  BY <1>1, FailuresTyped
<1>. HIDE DEF s, c, F
<1>4. /\ n(reply) \in LocalState /\ n(reply).tun = s.tun /\ n(reply).dns = s.dns
      /\ n(reply).old = s.old /\ n(reply).grant = s.grant /\ n(reply).err = s.err
      /\ n(reply).upd = s.upd /\ n(reply).certainty = s.certainty
      /\ n(reply).todo = s.todo /\ n(reply).failed = F(reply)
  BY <1>1, <1>3 DEF LocalState
<1>. HIDE DEF n
<1>. QED  BY <1>1, <1>2, <1>4, MoveDoes DEF s, c, F, SameIds, SameNotes

LEMMA ReleaseAbsenceDoes ==
    ASSUME TypeOK, NEW e \in Effects, ReleaseAbsence(e)
    PROVE  /\ pc[e] = "absence" /\ Reads /\ permit'[e] = permit[e] /\ owned' = owned
           /\ \/ Halts(e, "succeeded") /\ st[e].failed = {}
              \/ Halts(e, "unknown")
BY DEF TypeOK, ReleaseAbsence, End, Halts

(* What an effect takes over from the allocation it is asked to change.    *)
TakesOver(e, a) ==
    /\ st'[e] \in LocalState /\ SameNotes(e) /\ st'[e].failed = st[e].failed
    /\ st'[e].dns = a.dns /\ st'[e].old = a.tunnel
    /\ st'[e].tun = (IF Op[e] = "rebind" THEN 0 ELSE a.tunnel)
    /\ st'[e].grant = (IF Op[e] = "rebind" THEN e ELSE a.grant)

(* Its first unit is admitted if it has a port.                            *)
Starts(e, l) ==
    /\ pc'[e] = l /\ outcome'[e] = outcome[e] /\ owned' = owned
    /\ permit'[e] \in [1..2 -> Words] /\ permit'[e][2] = permit[e][2]
    /\ permit'[e][1] = IF e \in Invoked THEN "admitted" ELSE permit[e][1]

LEMMA BeginDoes ==
    ASSUME TypeOK, IngressAssumption, NEW e \in Effects, Begin(e)
    PROVE  /\ pc[e] = "idle" /\ Op[e] # "none" /\ Reads /\ owned' = owned /\ st'[e] \in LocalState
           /\ \/ e \in Invoked /\ Halts(e, "refused") /\ permit'[e] = permit[e]
              \/ Op[e] = "create" /\ Starts(e, "observe") /\ st'[e] = st[e]
              \/ /\ Op[e] # "create"
                 /\ \E a \in owned :
                    /\ TakesOver(e, a)
                    /\ \/ e \in Invoked /\ Starts(e, "revoke") /\ st'[e].todo = st[e].todo
                       \/ e \notin Invoked /\ Op[e] = "rebind" /\ Starts(e, "tunnel")
                          /\ st'[e].todo = st[e].todo
                       \/ e \notin Invoked /\ Op[e] = "teardown" /\ Starts(e, "cleanup")
                          /\ st'[e].todo = <<"custody", "dns", "connections", "tunnel">>
                       \/ e \notin Invoked /\ Op[e] \in {"deactivate", "release"}
                          /\ Starts(e, "reservation") /\ st'[e].todo = st[e].todo
<1>. DEFINE s == st[e]
            n(a) == [s EXCEPT !.dns = a.dns, !.old = a.tunnel,
                              !.tun = IF Op[e] = "rebind" THEN 0 ELSE a.tunnel,
                              !.grant = IF Op[e] = "rebind" THEN e ELSE a.grant]
            Port(x, l) ==
                \/ /\ pc' = [pc EXCEPT ![e] = l]
                   /\ st' = [st EXCEPT ![e] = x]
                   /\ Record(e, 1, "admitted") /\ UNCHANGED <<outcome, owned>>
                \/ End(e, "refused") /\ UNCHANGED <<st, permit, owned>>
<1>1. s \in LocalState /\ pc[e] = "idle" /\ Op[e] # "none" /\ Reads
  BY DEF TypeOK, Begin
<1>2. /\ pc \in [Effects -> AllLabels] /\ st \in [Effects -> LocalState] /\ outcome \in [Effects -> Outcomes]
      /\ permit \in [Effects -> [1..2 -> Words]] /\ "admitted" \in Words
      /\ \A a \in owned : a # NoAllocation /\ a.tunnel \in Nat /\ a.dns \in Nat /\ a.grant \in Grants
      /\ e \in Grants /\ Op[e] \in Ops \cup {"none"}
  BY DEF TypeOK, Words, IngressAssumption, Allocation, Grants, Dispatch
<1>3. ASSUME NEW x \in LocalState, NEW l, Port(x, l), e \in Invoked
      PROVE  \/ Halts(e, "refused") /\ permit'[e] = permit[e] /\ owned' = owned
             \/ Starts(e, l) /\ st'[e] = x
  BY <1>2, <1>3 DEF Record, End, Halts, Starts
<1>4. ASSUME NEW x, NEW l, Move(e, l, x), e \notin Invoked
      PROVE  Starts(e, l) /\ st'[e] = x
  BY <1>2, <1>4 DEF Move, Starts
<1>5. CASE Op[e] = "create"
  <2>1. IF e \in Invoked THEN Port(s, "observe") ELSE Move(e, "observe", s)
    BY <1>5 DEF Begin
  <2>. HIDE DEF s, n, Port
  <2>. QED  BY <1>1, <1>3, <1>4, <1>5, <2>1 DEF s, Starts, Halts
<1>6. CASE Op[e] # "create"
  <2>1. PICK a \in owned :
            IF e \in Invoked THEN Port(n(a), "revoke")
            ELSE CASE Op[e] = "rebind" -> Move(e, "tunnel", n(a))
                   [] Op[e] = "teardown" ->
                        Clean(e, <<"custody", "dns", "connections", "tunnel">>, n(a))
                   [] OTHER -> Move(e, "reservation", n(a))
    BY <1>2, <1>6 DEF Begin
  <2>. HIDE DEF s
  <2>2. /\ n(a) \in LocalState /\ n(a).dns = a.dns /\ n(a).old = a.tunnel
        /\ n(a).tun = (IF Op[e] = "rebind" THEN 0 ELSE a.tunnel)
        /\ n(a).grant = (IF Op[e] = "rebind" THEN e ELSE a.grant)
        /\ n(a).err = s.err /\ n(a).upd = s.upd /\ n(a).certainty = s.certainty
        /\ n(a).todo = s.todo /\ n(a).failed = s.failed
    BY <1>1, <1>2 DEF LocalState
  <2>. HIDE DEF n, Port
  <2>3. CASE e \in Invoked
    BY <1>1, <1>3, <1>6, <2>1, <2>2, <2>3 DEF s, Starts, Halts, TakesOver, SameNotes
  <2>4. CASE e \notin Invoked /\ Op[e] = "teardown"
    <3>1. Clean(e, <<"custody", "dns", "connections", "tunnel">>, n(a))
      BY <2>1, <2>4
    <3>2. /\ Goes(e, "cleanup") /\ st'[e] \in LocalState
          /\ st'[e].tun = n(a).tun /\ st'[e].dns = n(a).dns /\ st'[e].old = n(a).old
          /\ st'[e].grant = n(a).grant /\ st'[e].err = n(a).err /\ st'[e].upd = n(a).upd
          /\ st'[e].certainty = n(a).certainty /\ st'[e].failed = n(a).failed
          /\ st'[e].todo = <<"custody", "dns", "connections", "tunnel">>
      BY <2>2, <3>1, CleanDoes, ListsTyped
    <3>3. Starts(e, "cleanup") /\ TakesOver(e, a) /\ owned' = owned
      BY <1>2, <2>2, <2>4, <3>2 DEF Goes, Starts, TakesOver, SameNotes, s
    <3>. QED  BY <1>1, <1>6, <2>4, <3>2, <3>3 DEF s
  <2>5. CASE e \notin Invoked /\ Op[e] = "rebind"
    <3>1. Move(e, "tunnel", n(a))
      BY <2>1, <2>5
    <3>2. Starts(e, "tunnel") /\ st'[e] = n(a)
      BY <1>4, <2>5, <3>1
    <3>. QED  BY <1>1, <1>6, <2>2, <2>5, <3>2 DEF s, TakesOver, SameNotes, Starts
  <2>6. CASE e \notin Invoked /\ Op[e] \notin {"rebind", "teardown"}
    <3>1. Move(e, "reservation", n(a)) /\ Op[e] \in {"deactivate", "release"}
      BY <1>1, <1>2, <1>6, <2>1, <2>6 DEF Ops
    <3>2. Starts(e, "reservation") /\ st'[e] = n(a)
      BY <1>4, <2>6, <3>1
    <3>. QED  BY <1>1, <1>6, <2>2, <2>6, <3>1, <3>2 DEF s, TakesOver, SameNotes, Starts
  <2>. QED  BY <2>3, <2>4, <2>5, <2>6
<1>. QED  BY <1>5, <1>6

-----------------------------------------------------------------------------
(* What an executed call does to the world.                                *)

(* The types of what Cloudflare and the custodian keep.                    *)
LEMMA CfType ==
    ASSUME TypeOK
    PROVE  /\ cf \in World /\ cf.next \in Nat /\ cf.next + 1 \in Nat
           /\ cf.tunnels \subseteq Nat /\ cf.records \subseteq DnsRecord /\ cf.tokens \subseteq Grants
           /\ cf.tunnels \in TunnelSets /\ cf.records \in RecordSets /\ cf.tokens \in TokenSets
BY DEF TypeOK, World, TunnelSets, RecordSets, TokenSets

(* The tunnels, the records, the tokens and the next id after a step.      *)
Becomes(T, R, K, n) ==
    /\ cf' \in World /\ cf'.tunnels = T /\ cf'.records = R /\ cf'.tokens = K /\ cf'.next = n

NewRecord(target) == [id |-> cf.next, target |-> target, cname |-> TRUE, foreign |-> FALSE]
Retarget(r, call) == IF r.id = call.id THEN [r EXCEPT !.target = call.target] ELSE r

(* A call that creates nothing adds nothing to what was made.              *)
LEMMA MadeSame ==
    ASSUME TypeOK, NEW e \in Effects
    PROVE  [made EXCEPT ![e] = @ \cup {}] = made
BY DEF TypeOK

LEMMA ExecuteDoes ==
    ASSUME TypeOK, NEW e \in Effects, NEW call \in Call, Execute(e, call)
    PROVE  /\ call.op = "create_tunnel" =>
                /\ Becomes(cf.tunnels \cup {cf.next}, cf.records, cf.tokens, cf.next + 1)
                /\ made' = [made EXCEPT ![e] = @ \cup {cf.next}]
           /\ call.op = "create_dns" =>
                /\ cf.records = {}
                /\ Becomes(cf.tunnels, {NewRecord(call.target)}, cf.tokens, cf.next + 1)
                /\ made' = [made EXCEPT ![e] = @ \cup {cf.next}]
           /\ call.op = "update_dns" =>
                /\ Becomes(cf.tunnels, {Retarget(r, call) : r \in cf.records}, cf.tokens, cf.next)
                /\ made' = made
           /\ call.op = "delete_dns" =>
                /\ Becomes(cf.tunnels, cf.records \ RecordsWith(call.id), cf.tokens, cf.next)
                /\ made' = made
           /\ call.op = "delete_tunnel" =>
                /\ Becomes(cf.tunnels \ {call.id}, cf.records, cf.tokens, cf.next)
                /\ made' = made
           /\ call.op = "store" =>
                /\ Becomes(cf.tunnels, cf.records, cf.tokens \cup {call.grant}, cf.next)
                /\ made' = [made EXCEPT ![e] = @ \cup {call.grant}]
           /\ call.op = "revoke" =>
                /\ Becomes(cf.tunnels, cf.records, cf.tokens \ {call.grant}, cf.next)
                /\ made' = made
           /\ call.op \in {"configure", "connections"} => cf' = cf /\ made' = made
<1>0. cf \in World
  BY CfType
<1>1. CASE call.op = "create_tunnel"
  <2>. DEFINE T == cf.tunnels \cup {cf.next}
              d == [cf EXCEPT !.tunnels = T, !.next = cf.next + 1]
  <2>1. cf' = d
    BY <1>0, <1>1 DEF Execute, Apply, World
  <2>2. T \in TunnelSets
    BY CfType DEF TunnelSets
  <2>3. made' = [made EXCEPT ![e] = @ \cup {cf.next}]
    BY <1>1 DEF Execute, Creates
  <2>. HIDE DEF T
  <2>4. d \in World /\ d.tunnels = T /\ d.records = cf.records /\ d.tokens = cf.tokens /\ d.next = cf.next + 1
    BY <1>0, <2>2, CfType DEF World
  <2>. QED  BY <1>1, <2>1, <2>3, <2>4 DEF Becomes, T
<1>2. CASE call.op = "create_dns"
  <2>. DEFINE T == {NewRecord(call.target)}
              d == [cf EXCEPT !.records = T, !.next = cf.next + 1]
  <2>1. cf' = d
    BY <1>0, <1>2 DEF Execute, Apply, World, NewRecord
  <2>2. T \in RecordSets
    BY <1>2, CfType DEF Call, KeptCall, RecordSets, NewRecord, DnsRecord
  <2>3. made' = [made EXCEPT ![e] = @ \cup {cf.next}] /\ cf.records = {}
    BY <1>2 DEF Execute, Creates, Accepts
  <2>. HIDE DEF T
  <2>4. d \in World /\ d.tunnels = cf.tunnels /\ d.records = T /\ d.tokens = cf.tokens /\ d.next = cf.next + 1
    BY <1>0, <2>2, CfType DEF World
  <2>. QED  BY <1>2, <2>1, <2>3, <2>4 DEF Becomes, T
<1>3. CASE call.op = "update_dns"
  <2>. DEFINE T == {Retarget(r, call) : r \in cf.records}
              d == [cf EXCEPT !.records = T]
  <2>1. cf' = d
    BY <1>0, <1>3 DEF Execute, Apply, World, Retarget
  <2>2. T \in RecordSets
    BY <1>3, CfType DEF Call, KeptCall, RecordSets, Retarget, DnsRecord
  <2>3. made' = made
    BY <1>3, MadeSame DEF Execute, Creates
  <2>. HIDE DEF T
  <2>4. d \in World /\ d.tunnels = cf.tunnels /\ d.records = T /\ d.tokens = cf.tokens /\ d.next = cf.next
    BY <1>0, <2>2, CfType DEF World
  <2>. QED  BY <1>3, <2>1, <2>3, <2>4 DEF Becomes, T
<1>4. CASE call.op = "delete_dns"
  <2>. DEFINE T == cf.records \ RecordsWith(call.id)
              d == [cf EXCEPT !.records = T]
  <2>1. cf' = d
    BY <1>0, <1>4 DEF Execute, Apply, World
  <2>2. T \in RecordSets
    BY CfType DEF RecordSets
  <2>3. made' = made
    BY <1>4, MadeSame DEF Execute, Creates
  <2>. HIDE DEF T
  <2>4. d \in World /\ d.tunnels = cf.tunnels /\ d.records = T /\ d.tokens = cf.tokens /\ d.next = cf.next
    BY <1>0, <2>2, CfType DEF World
  <2>. QED  BY <1>4, <2>1, <2>3, <2>4 DEF Becomes, T
<1>5. CASE call.op = "delete_tunnel"
  <2>. DEFINE T == cf.tunnels \ {call.id}
              d == [cf EXCEPT !.tunnels = T]
  <2>1. cf' = d
    BY <1>0, <1>5 DEF Execute, Apply, World
  <2>2. T \in TunnelSets
    BY CfType DEF TunnelSets
  <2>3. made' = made
    BY <1>5, MadeSame DEF Execute, Creates
  <2>. HIDE DEF T
  <2>4. d \in World /\ d.tunnels = T /\ d.records = cf.records /\ d.tokens = cf.tokens /\ d.next = cf.next
    BY <1>0, <2>2, CfType DEF World
  <2>. QED  BY <1>5, <2>1, <2>3, <2>4 DEF Becomes, T
<1>6. CASE call.op = "store"
  <2>. DEFINE T == cf.tokens \cup {call.grant}
              d == [cf EXCEPT !.tokens = T]
  <2>1. cf' = d
    BY <1>0, <1>6 DEF Execute, Apply, World
  <2>2. T \in TokenSets
    BY <1>6, CfType DEF Call, KeptCall, TokenSets
  <2>3. made' = [made EXCEPT ![e] = @ \cup {call.grant}]
    BY <1>6 DEF Execute, Creates
  <2>. HIDE DEF T
  <2>4. d \in World /\ d.tunnels = cf.tunnels /\ d.records = cf.records /\ d.tokens = T /\ d.next = cf.next
    BY <1>0, <2>2, CfType DEF World
  <2>. QED  BY <1>6, <2>1, <2>3, <2>4 DEF Becomes, T
<1>7. CASE call.op = "revoke"
  <2>. DEFINE T == cf.tokens \ {call.grant}
              d == [cf EXCEPT !.tokens = T]
  <2>1. cf' = d
    BY <1>0, <1>7 DEF Execute, Apply, World
  <2>2. T \in TokenSets
    BY CfType DEF TokenSets
  <2>3. made' = made
    BY <1>7, MadeSame DEF Execute, Creates
  <2>. HIDE DEF T
  <2>4. d \in World /\ d.tunnels = cf.tunnels /\ d.records = cf.records /\ d.tokens = T /\ d.next = cf.next
    BY <1>0, <2>2, CfType DEF World
  <2>. QED  BY <1>7, <2>1, <2>3, <2>4 DEF Becomes, T
<1>8. CASE call.op \in {"configure", "connections"}
  BY <1>8, MadeSame DEF Execute, Apply, Creates
<1>. QED  BY <1>1, <1>2, <1>3, <1>4, <1>5, <1>6, <1>7, <1>8

-----------------------------------------------------------------------------
(* The calls of an effect name only what it made or took over.             *)

Private(e) == Maker(e) /\ outcome[e] # "succeeded"

Legit(e, call) ==
    /\ pc[e] # "idle" /\ (Maker(e) => outcome[e] # "succeeded")
    /\ e \in Invoked => permit[e][1] # "none"
    /\ call.op = "create_tunnel" => Maker(e) /\ st[e].tun = 0
    /\ call.op = "create_dns" =>
            /\ Op[e] = "create" /\ st[e].tun # 0 /\ call.target = st[e].tun /\ st[e].dns = 0
            /\ Ids(e) \subseteq {st[e].tun}
    /\ call.op = "update_dns" =>
            /\ Op[e] = "rebind" /\ st[e].tun # 0 /\ call.id = st[e].dns
            /\ call.target \in {st[e].tun, st[e].old}
    /\ call.op = "delete_dns" => Op[e] \in {"create", "teardown", "release"} /\ call.id = st[e].dns
    /\ call.op = "delete_tunnel" => Op[e] # "release" /\ call.id = st[e].tun /\ Deletes(e)
    /\ call.op = "store" => Maker(e) /\ call.grant = e
    /\ call.op = "revoke" => Op[e] # "release" /\ call.grant = st[e].grant

(* An effect that has begun has an operation; only create and teardown     *)
(* have a port.                                                            *)
LEMMA Operations ==
    ASSUME TypeOK, IngressAssumption, NEW e \in Effects
    PROVE  /\ Op[e] \in Ops \cup {"none"}
           /\ e \in Invoked => Op[e] \in {"create", "teardown"}
           /\ pc[e] # "idle" => Op[e] # "none"
<1>1. Op[e] \in Ops \cup {"none"} /\ (e \in Invoked => Op[e] \in {"create", "teardown"})
  BY DEF TypeOK, IngressAssumption, Dispatch
<1>2. pc[e] \in Labels(Op[e])
  BY DEF TypeOK
<1>. QED  BY <1>1, <1>2 DEF Labels

(* A call under way names only what its effect made or took over.          *)
LEMMA LateLegit ==
    ASSUME TypeOK, NEW l \in late, LateInv(l)
    PROVE  l.by \in Effects /\ l.call \in Call /\ Legit(l.by, l.call)
<1>1. l.by \in Effects /\ l.call \in KeptCall
  BY DEF TypeOK
<1>2. /\ l.call \in Call
      /\ l.call.op \in {"create_tunnel", "create_dns", "update_dns", "delete_dns", "delete_tunnel",
                        "store", "revoke"}
  BY <1>1 DEF Call, KeptCall
<1>3. Deletes(l.by) => outcome[l.by] # "succeeded" \/ ~Maker(l.by)
  BY <1>1 DEF TypeOK, Deletes, Maker, Remover
<1>. QED  BY <1>1, <1>2, <1>3 DEF LateInv, Legit, Maker

(* So does a call that an effect issues.                                   *)
LEMMA StepLegit ==
    ASSUME TypeOK, FreshIds, IngressAssumption, NEW e \in Effects, EffectInv(e), NEW call, Issues(e, call)
    PROVE  Legit(e, call)
<1>1. /\ pc[e] # "idle" /\ pc[e] # "done" /\ outcome[e] = "none" /\ pc[e] \in Labels(Op[e])
      /\ Op[e] \in Ops \cup {"none"}
  BY Operations DEF Issues, TypeOK
<1>2. e \in Invoked => permit[e][1] # "none"
  BY <1>1 DEF EffectInv, PermitInv
<1>3. CASE pc[e] \in {"tunnel", "configure", "dns", "update", "restore", "store", "revoke", "release"}
  <2>1. Op[e] = "create" => CreateInv(e)
    BY DEF EffectInv
  <2>2. Op[e] = "rebind" => RebindInv(e)
    BY DEF EffectInv
  <2>. QED  BY <1>1, <1>2, <1>3, <2>1, <2>2 DEF Issues, Legit, Labels, CreateInv, RebindInv, Ops, Maker, FreshIds, Ids
<1>4. CASE pc[e] = "cleanup"
  <2>1. Head(st[e].todo) \in StagesOf(Op[e]) /\ Head(st[e].todo) # "restore"
    BY <1>4 DEF Issues, TypeOK
  <2>2. call = StageCall(e, Head(st[e].todo)) /\ Deletes(e)
    BY <1>4 DEF Issues, Deletes
  <2>. QED  BY <1>1, <1>2, <1>4, <2>1, <2>2 DEF Legit, StageCall, StagesOf, Labels, Ops, Maker
<1>. QED  BY <1>3, <1>4 DEF Issues

(* A finished allocation shares nothing with an effect that still works on *)
(* its own.                                                                *)
LEMMA OwnedApart ==
    ASSUME TypeOK, WorldInv, IngressAssumption, \A e \in Effects : EffectInv(e),
           NEW a \in owned, NEW f \in Effects, Private(f)
    PROVE  /\ a.grant # f /\ a.tunnel < cf.next /\ a.dns < cf.next /\ a.tunnel # 0 /\ a.dns # 0
           /\ st[f].tun # 0 => a.tunnel # st[f].tun
           /\ Op[f] = "create" /\ st[f].dns # 0 => a.dns # st[f].dns
<1>1. /\ Op[f] = "create" => CreateInv(f)
      /\ Op[f] = "rebind" => RebindInv(f)
      /\ Op[f] \in {"create", "rebind"}
  BY DEF EffectInv, Private, Maker
<1>2. /\ st[f].tun # 0 => st[f].tun \in Ids(f)
      /\ Op[f] = "create" /\ st[f].dns # 0 => st[f].dns \in Ids(f)
  BY <1>1 DEF CreateInv, RebindInv, Ids, TypeOK, LocalState
<1>3. \A x \in Ids(f) : x >= 3 /\ x < cf.next /\ x \in Nat
  BY DEF WorldInv, FreshIds, Ids
<1>4. cf.next \in Nat /\ cf.next >= 3
  BY CfType DEF WorldInv, FreshIds
<1>5. ASSUME NEW g \in Effects, Maker(g), outcome[g] = "succeeded"
      PROVE  /\ g # f /\ st[g].tun \in Ids(g) /\ Ids(g) \cap Ids(f) = {}
             /\ \A x \in Ids(g) : x >= 3 /\ x < cf.next /\ x \in Nat
             /\ Op[g] = "create" => st[g].dns \in Ids(g)
  <2>1. g # f
    BY <1>5 DEF Private
  <2>2. /\ Op[g] = "create" => CreateInv(g)
        /\ Op[g] = "rebind" => RebindInv(g)
        /\ Op[g] \in {"create", "rebind"}
    BY <1>5 DEF EffectInv, Maker
  <2>3. st[g].tun \in Ids(g) /\ (Op[g] = "create" => st[g].dns \in Ids(g))
    BY <1>5, <2>2 DEF CreateInv, RebindInv, Ids, TypeOK, LocalState
  <2>. QED  BY <2>1, <2>3 DEF WorldInv, SeparateIds, FreshIds, Ids
<1>6. OwnedFrom(a) /\ OwnedDns(a)
  BY DEF WorldInv
<1>7. /\ a.grant # f /\ a.tunnel < cf.next /\ a.tunnel # 0
      /\ st[f].tun # 0 => a.tunnel # st[f].tun
  <2>1. CASE a = [tunnel |-> 1, dns |-> 2, grant |-> OldGrant]
    BY <1>2, <1>3, <1>4, <2>1 DEF IngressAssumption
  <2>2. CASE \E g \in Effects : Maker(g) /\ outcome[g] = "succeeded" /\ a = Allocated(g)
    <3>1. PICK g \in Effects : Maker(g) /\ outcome[g] = "succeeded" /\ a = Allocated(g)
      BY <2>2
    <3>2. a.grant = g /\ a.tunnel = st[g].tun
      BY <3>1 DEF Allocated
    <3>. QED  BY <1>2, <1>5, <3>1, <3>2
  <2>. QED  BY <1>6, <2>1, <2>2 DEF OwnedFrom
<1>8. /\ a.dns < cf.next /\ a.dns # 0
      /\ Op[f] = "create" /\ st[f].dns # 0 => a.dns # st[f].dns
  <2>1. CASE a.dns = 2
    BY <1>2, <1>3, <1>4, <2>1
  <2>2. CASE \E g \in Effects : Op[g] = "create" /\ outcome[g] = "succeeded" /\ a.dns = st[g].dns
    BY <1>2, <1>5, <2>2 DEF Maker
  <2>. QED  BY <1>6, <2>1, <2>2 DEF OwnedDns
<1>. QED  BY <1>7, <1>8

(* So what one effect works on is apart from what another works on.        *)
LEMMA Apart ==
    ASSUME TypeOK, WorldInv, IngressAssumption, \A e \in Effects : EffectInv(e),
           NEW e \in Effects, NEW f \in Effects, e # f, pc[e] # "idle",
           e \in Invoked => permit[e][1] # "none", Private(f)
    PROVE  /\ st[f].tun # 0 => st[e].tun # st[f].tun
           /\ st[f].tun # 0 /\ Op[e] = "rebind" => st[e].old # st[f].tun
           /\ Op[f] = "create" /\ st[f].dns # 0 => st[e].dns # st[f].dns
           /\ st[e].grant # f
<1>1. /\ Op[f] = "create" => CreateInv(f)
      /\ Op[f] = "rebind" => RebindInv(f)
      /\ Op[f] \in {"create", "rebind"}
  BY DEF EffectInv, Private, Maker
<1>2. /\ st[f].tun # 0 => st[f].tun \in Ids(f)
      /\ Op[f] = "create" /\ st[f].dns # 0 => st[f].dns \in Ids(f)
  BY <1>1 DEF CreateInv, RebindInv, Ids, TypeOK, LocalState
<1>3. Ids(e) \cap Ids(f) = {}
  BY DEF WorldInv, SeparateIds
<1>4. CASE Op[e] = "create"
  <2>1. CreateInv(e)
    BY <1>4 DEF EffectInv
  <2>2. st[e].grant = e /\ (st[e].tun # 0 => st[e].tun \in Ids(e)) /\ (st[e].dns # 0 => st[e].dns \in Ids(e))
    BY <2>1 DEF CreateInv, Ids, TypeOK, LocalState
  <2>. QED  BY <1>2, <1>3, <1>4, <2>2
<1>5. CASE Op[e] = "rebind"
  <2>1. RebindInv(e)
    BY <1>5 DEF EffectInv
  <2>2. st[e].grant = e /\ (st[e].tun # 0 => st[e].tun \in Ids(e))
    BY <2>1 DEF RebindInv, Ids, TypeOK, LocalState
  <2>3. PICK a \in owned : st[e].dns = a.dns /\ st[e].old = a.tunnel
    BY <2>1 DEF RebindInv
  <2>. QED  BY <1>2, <1>3, <2>2, <2>3, OwnedApart
<1>6. CASE Remover(e)
  <2>1. RemoverInv(e)
    BY <1>6 DEF EffectInv
  <2>2. PICK a \in owned : st[e].dns = a.dns /\ st[e].old = a.tunnel /\ st[e].tun = a.tunnel /\ st[e].grant = a.grant
    BY <2>1 DEF RemoverInv
  <2>. QED  BY <2>2, OwnedApart
<1>. QED  BY <1>4, <1>5, <1>6, Operations DEF Ops, Remover

(* What the invariant of an effect needs of a change of the world.         *)
NoReuse ==
    /\ \A x \in Nat : x < cf.next /\ x \notin cf.tunnels => x \notin cf'.tunnels
    /\ \A x \in Nat : x < cf.next /\ (\A r \in cf.records : r.id # x) => \A r \in cf'.records : r.id # x
    /\ \A a \in owned : a.grant \notin cf.tokens => a.grant \notin cf'.tokens

Lost(e) == Op[e] = "rebind" /\ st[e].upd /\ st[e].err = "transport"

Harmless(f) ==
    Private(f) =>
        /\ st[f].tun # 0 /\ ~Lost(f) /\ (\A r \in cf.records : r.target # st[f].tun) =>
                \A r \in cf'.records : r.target # st[f].tun
        /\ Op[f] = "create" /\ st[f].dns # 0 /\ pc[f] \in {"token", "store"} =>
                \A r \in cf.records : r.id = st[f].dns /\ r.target = st[f].tun => r \in cf'.records
        /\ pc[f] = "confirm" /\ f \in cf.tokens => f \in cf'.tokens

(* Such a call brings no id back, and no token of an allocation.           *)
LEMMA LegitReusesNothing ==
    ASSUME TypeOK, WorldInv, IngressAssumption, \A e \in Effects : EffectInv(e),
           NEW e \in Effects, NEW call \in Call, Legit(e, call), Execute(e, call)
    PROVE  NoReuse
<1>1. cf.next \in Nat
  BY CfType
<1>2. CASE call.op = "create_tunnel"
  BY <1>1, <1>2, ExecuteDoes DEF Becomes, NoReuse
<1>3. CASE call.op = "create_dns"
  BY <1>1, <1>3, ExecuteDoes DEF Becomes, NoReuse, NewRecord
<1>4. CASE call.op = "update_dns"
  <2>1. \A r \in cf.records : Retarget(r, call).id = r.id
    BY CfType DEF Retarget, DnsRecord
  <2>. QED  BY <1>4, <2>1, ExecuteDoes DEF Becomes, NoReuse
<1>5. CASE call.op \in {"delete_dns", "delete_tunnel", "revoke"}
  BY <1>5, ExecuteDoes DEF Becomes, NoReuse
<1>6. CASE call.op = "store"
  <2>1. call.grant = e /\ Private(e)
    BY <1>6 DEF Legit, Private
  <2>2. \A a \in owned : a.grant # e
    BY <2>1, OwnedApart
  <2>. QED  BY <1>6, <2>1, <2>2, ExecuteDoes DEF Becomes, NoReuse
<1>7. CASE call.op \in {"configure", "connections"}
  BY <1>7, ExecuteDoes DEF NoReuse
<1>. QED  BY <1>2, <1>3, <1>4, <1>5, <1>6, <1>7 DEF Call, KeptCall

(* It does no harm to an effect that still works on its own resources.     *)
LEMMA LegitHarmless ==
    ASSUME TypeOK, WorldInv, IngressAssumption, \A e \in Effects : EffectInv(e),
           NEW e \in Effects, NEW call \in Call, Legit(e, call), Execute(e, call),
           NEW f \in Effects, e # f
    PROVE  Harmless(f)
<1>. SUFFICES ASSUME Private(f)
              PROVE  Harmless(f)
  BY DEF Harmless
<1>1. /\ st[f].tun # 0 => st[e].tun # st[f].tun
      /\ st[f].tun # 0 /\ Op[e] = "rebind" => st[e].old # st[f].tun
      /\ Op[f] = "create" /\ st[f].dns # 0 => st[e].dns # st[f].dns
      /\ st[e].grant # f
  BY Apart DEF Legit
<1>2. CASE call.op = "create_tunnel"
  BY <1>2, ExecuteDoes DEF Becomes, Harmless
<1>3. CASE call.op = "create_dns"
  BY <1>1, <1>3, ExecuteDoes DEF Becomes, Harmless, NewRecord, Legit
<1>4. CASE call.op = "update_dns"
  <2>1. call.id = st[e].dns /\ call.target \in {st[e].tun, st[e].old} /\ Op[e] = "rebind"
    BY <1>4 DEF Legit
  <2>2. \A r \in cf.records : /\ r.id # call.id => Retarget(r, call) = r
                              /\ Retarget(r, call).target \in {r.target, call.target}
    BY CfType DEF Retarget, DnsRecord
  <2>3. cf'.records = {Retarget(r, call) : r \in cf.records} /\ cf'.tokens = cf.tokens
    BY <1>4, ExecuteDoes DEF Becomes
  <2>. QED  BY <1>1, <2>1, <2>2, <2>3 DEF Harmless
<1>5. CASE call.op = "delete_dns"
  <2>1. call.id = st[e].dns
    BY <1>5 DEF Legit
  <2>2. cf'.records = cf.records \ RecordsWith(call.id) /\ cf'.tokens = cf.tokens
    BY <1>5, ExecuteDoes DEF Becomes
  <2>. QED  BY <1>1, <2>1, <2>2 DEF Harmless, RecordsWith
<1>6. CASE call.op = "delete_tunnel"
  BY <1>6, ExecuteDoes DEF Becomes, Harmless
<1>7. CASE call.op \in {"store", "revoke"}
  BY <1>1, <1>7, ExecuteDoes DEF Becomes, Harmless, Legit
<1>8. CASE call.op \in {"configure", "connections"}
  BY <1>8, ExecuteDoes DEF Harmless
<1>. QED  BY <1>2, <1>3, <1>4, <1>5, <1>6, <1>7, <1>8 DEF Call, KeptCall

(* The variables of an effect that takes no step; a late store may still   *)
(* add its token to what it made.                                          *)
Still(f) ==
    /\ dispatch' = dispatch /\ owned \subseteq owned'
    /\ pc'[f] = pc[f] /\ st'[f] = st[f] /\ outcome'[f] = outcome[f] /\ permit'[f] = permit[f]
    /\ made[f] \subseteq made'[f] /\ made'[f] \cap Nat = made[f] \cap Nat
    /\ made'[f] # made[f] =>
            Private(f) /\ Deletes(f) /\ (Op[f] = "create" /\ f \in Invoked => permit[f][2] # "none")

(* The invariant of an effect that takes no step: create.                  *)
LEMMA StillCreate ==
    ASSUME TypeOK, FreshIds, NEW f \in Effects, CreateInv(f), Op[f] = "create", Still(f), NoReuse, Harmless(f)
    PROVE  CreateInv(f)'
<1>1. /\ pc'[f] = pc[f] /\ st'[f] = st[f] /\ outcome'[f] = outcome[f]
      /\ made[f] \subseteq made'[f] /\ Ids(f)' = Ids(f)
      /\ pc[f] \in {"observe", "tunnel"} => made'[f] = made[f]
  BY DEF Still, Ids, Deletes, TypeOK, Maker, Private
<1>2. \A x \in Ids(f) : x \in Nat /\ x < cf.next
  BY DEF FreshIds, Ids
<1>3. st[f].tun \in Nat /\ st[f].dns \in Nat /\ cf.next \in Nat /\ st[f].tun < cf.next /\ st[f].dns < cf.next
  <2>1. st[f].tun \in Nat /\ st[f].dns \in Nat /\ cf.next \in Nat /\ cf.next > 0
    BY CfType DEF TypeOK, LocalState, FreshIds
  <2>2. (st[f].tun # 0 => st[f].tun \in Ids(f)) /\ (st[f].dns # 0 => st[f].dns \in Ids(f))
    BY <2>1 DEF CreateInv, Ids
  <2>. QED  BY <1>2, <2>1, <2>2
<1>4. \A x \in Nat : x < cf.next =>
        /\ x \in cf'.tunnels => x \in cf.tunnels
        /\ x \in RecordIds' => x \in RecordIds
  BY DEF NoReuse, RecordIds
<1>5. /\ (st[f].tun # 0 /\ outcome[f] # "succeeded" /\ ~Targeted(st[f].tun)) => ~Targeted(st[f].tun)'
      /\ st[f].dns # 0 /\ pc[f] \in {"token", "store"} =>
            \A r \in cf.records : r.id = st[f].dns /\ r.target = st[f].tun => r \in cf'.records
  BY <1>1 DEF Harmless, Private, Maker, Lost, Targeted, TypeOK
<1>6. Pending(st[f], "tunnel")' = Pending(st[f], "tunnel") /\ Pending(st[f], "dns")' = Pending(st[f], "dns")
  BY <1>1 DEF Pending
<1>7. pc[f] # "done" => outcome[f] = "none"
  BY DEF TypeOK
<1>. QED  BY <1>1, <1>2, <1>3, <1>4, <1>5, <1>6, <1>7 DEF CreateInv

(* The invariant of an effect that takes no step: rebind.                  *)
LEMMA StillRebind ==
    ASSUME TypeOK, FreshIds, NEW f \in Effects, RebindInv(f), Op[f] = "rebind", Still(f), NoReuse, Harmless(f)
    PROVE  RebindInv(f)'
<1>1. /\ pc'[f] = pc[f] /\ st'[f] = st[f] /\ outcome'[f] = outcome[f] /\ owned \subseteq owned'
      /\ made[f] \subseteq made'[f] /\ Ids(f)' = Ids(f)
      /\ pc[f] = "tunnel" => made'[f] = made[f]
  BY DEF Still, Ids, Deletes, TypeOK, Maker, Private, Remover
<1>2. \A x \in Ids(f) : x \in Nat /\ x < cf.next
  BY DEF FreshIds, Ids
<1>3. st[f].tun \in Nat /\ cf.next \in Nat /\ st[f].tun < cf.next
  BY <1>2, CfType DEF RebindInv, TypeOK, LocalState, Ids, FreshIds
<1>4. st[f].tun \in cf'.tunnels => st[f].tun \in cf.tunnels
  BY <1>3 DEF NoReuse
<1>5. /\ (st[f].tun # 0 /\ outcome[f] # "succeeded" /\ ~(st[f].upd /\ st[f].err = "transport")
            /\ ~Targeted(st[f].tun)) => ~Targeted(st[f].tun)'
      /\ pc[f] = "confirm" /\ f \in cf.tokens => f \in cf'.tokens
  BY <1>1 DEF Harmless, Private, Maker, Lost, Targeted, TypeOK
<1>6. Pending(st[f], "tunnel")' = Pending(st[f], "tunnel") /\ Pending(st[f], "restore")' = Pending(st[f], "restore")
  BY <1>1 DEF Pending
<1>7. pc[f] # "done" => outcome[f] = "none"
  BY DEF TypeOK
<1>. QED  BY <1>1, <1>2, <1>3, <1>4, <1>5, <1>6, <1>7 DEF RebindInv

(* The ids of an allocation were given out before.                         *)
LEMMA OwnedTyped ==
    ASSUME TypeOK, WorldInv, IngressAssumption, \A e \in Effects : EffectInv(e), NEW a \in owned
    PROVE  a.tunnel \in Nat /\ a.dns \in Nat /\ a.tunnel < cf.next /\ a.dns < cf.next
<1>1. a.tunnel \in Nat /\ a.dns \in Nat /\ cf.next \in Nat /\ cf.next >= 3 /\ OwnedFrom(a) /\ OwnedDns(a)
  BY CfType DEF TypeOK, Allocation, WorldInv, FreshIds
<1>2. ASSUME NEW g \in Effects, Maker(g), outcome[g] = "succeeded"
      PROVE  st[g].tun < cf.next /\ (Op[g] = "create" => st[g].dns < cf.next)
  <2>1. /\ Op[g] = "create" => CreateInv(g)
        /\ Op[g] = "rebind" => RebindInv(g)
        /\ Op[g] \in {"create", "rebind"}
    BY <1>2 DEF EffectInv, Maker
  <2>2. st[g].tun \in Ids(g) /\ (Op[g] = "create" => st[g].dns \in Ids(g))
    BY <1>2, <2>1 DEF CreateInv, RebindInv, Ids, TypeOK, LocalState
  <2>. QED  BY <2>2 DEF WorldInv, FreshIds
<1>3. a.tunnel < cf.next
  BY <1>1, <1>2 DEF OwnedFrom, Allocated
<1>4. a.dns < cf.next
  BY <1>1, <1>2 DEF OwnedDns, Maker
<1>. QED  BY <1>1, <1>3, <1>4

(* The invariant of an effect that takes no step: teardown, deactivation   *)
(* and release. Here ids that do not come back are needed.                 *)
LEMMA StillRemover ==
    ASSUME TypeOK, WorldInv, IngressAssumption, \A e \in Effects : EffectInv(e),
           NEW f \in Effects, Remover(f), Still(f), NoReuse
    PROVE  RemoverInv(f)'
<1>0. RemoverInv(f) /\ ~Maker(f)
  BY DEF EffectInv, Remover, Maker
<1>1. /\ pc'[f] = pc[f] /\ st'[f] = st[f] /\ outcome'[f] = outcome[f] /\ owned \subseteq owned'
      /\ permit'[f] = permit[f] /\ made'[f] = made[f] /\ dispatch' = dispatch
  BY <1>0 DEF Still, Private
<1>2. CASE \E a \in owned : /\ st[f].dns = a.dns /\ st[f].old = a.tunnel
                            /\ st[f].tun = a.tunnel /\ st[f].grant = a.grant
  <2>1. PICK a \in owned : /\ st[f].dns = a.dns /\ st[f].old = a.tunnel
                           /\ st[f].tun = a.tunnel /\ st[f].grant = a.grant
    BY <1>2
  <2>2. /\ st[f].tun \in Nat /\ st[f].dns \in Nat /\ st[f].tun < cf.next /\ st[f].dns < cf.next
    BY <2>1, OwnedTyped
  <2>3. \A stage : Gone(f, stage) => Gone(f, stage)'
    BY <1>1, <2>1, <2>2 DEF Gone, RecordsWith, NoReuse
  <2>4. \A stage : Pending(st[f], stage)' = Pending(st[f], stage)
    BY <1>1 DEF Pending
  <2>5. Removes(f)' = Removes(f)
    BY <1>1 DEF Removes
  <2>. HIDE DEF Gone, Pending, Removes
  <2>. QED  BY <1>0, <1>1, <2>1, <2>3, <2>4, <2>5 DEF RemoverInv
<1>3. CASE pc[f] = "idle"
  <2>1. outcome[f] = "none"
    BY <1>3 DEF TypeOK
  <2>. QED  BY <1>0, <1>1, <1>3, <2>1 DEF RemoverInv
<1>4. CASE f \in Invoked /\ permit[f][1] = "none"
  <2>1. pc[f] = "idle" \/ outcome[f] = "refused"
    BY <1>4 DEF EffectInv, PermitInv
  <2>2. CASE outcome[f] = "refused"
    <3>1. pc[f] = "done"
      BY <2>2 DEF TypeOK
    <3>. QED  BY <1>0, <1>1, <1>4, <2>2, <3>1 DEF RemoverInv
  <2>. QED  BY <1>3, <2>1, <2>2
<1>. QED  BY <1>0, <1>2, <1>3, <1>4 DEF RemoverInv

(* The invariant of an effect that takes no step: what its port recorded.  *)
LEMMA StillPermit ==
    ASSUME TypeOK, WorldInv, IngressAssumption, \A e \in Effects : EffectInv(e),
           NEW f \in Effects, Still(f), NoReuse
    PROVE  PermitInv(f)' /\ Untouched(f)'
<1>1. /\ pc'[f] = pc[f] /\ st'[f] = st[f] /\ outcome'[f] = outcome[f]
      /\ permit'[f] = permit[f] /\ dispatch' = dispatch /\ made[f] \subseteq made'[f]
  BY DEF Still
<1>2. made'[f] # made[f] => Maker(f) /\ pc[f] # "idle" /\ outcome[f] # "refused" /\ (Op[f] = "create" /\ f \in Invoked => permit[f][2] # "none")
  BY DEF Still, Private, Deletes, TypeOK, Maker, Remover
<1>3. PermitInv(f) /\ Untouched(f)
  BY DEF EffectInv
<1>4. f \in Invoked /\ Op[f] = "teardown" /\ permit[f][2] # "none" => st[f].grant \notin cf'.tokens
  <2>. SUFFICES ASSUME f \in Invoked, Op[f] = "teardown", permit[f][2] # "none"
                PROVE  st[f].grant \notin cf'.tokens
    OBVIOUS
  <2>1. permit[f][1] # "none" /\ st[f].grant \notin cf.tokens /\ pc[f] # "idle"
    BY <1>3 DEF PermitInv, Untouched
  <2>2. \E a \in owned : st[f].grant = a.grant
    BY <2>1 DEF EffectInv, RemoverInv, Remover
  <2>. QED  BY <2>1, <2>2 DEF NoReuse
<1>5. Initial(f)' = Initial(f)
  BY DEF Initial
<1>. HIDE DEF Initial
<1>6. PermitInv(f)'
  BY <1>1, <1>2, <1>3, <1>4 DEF PermitInv
<1>7. Untouched(f)'
  BY <1>1, <1>2, <1>3, <1>5 DEF Untouched
<1>. QED  BY <1>6, <1>7

(* An effect that takes no step keeps its invariant.                       *)
LEMMA StillEffect ==
    ASSUME TypeOK, WorldInv, IngressAssumption, \A e \in Effects : EffectInv(e),
           NEW f \in Effects, Still(f), NoReuse, Harmless(f)
    PROVE  EffectInv(f)'
<1>1. Op' = Op
  BY DEF Still
<1>2. Op[f] = "create" => CreateInv(f)'
  BY StillCreate DEF EffectInv, WorldInv
<1>3. Op[f] = "rebind" => RebindInv(f)'
  BY StillRebind DEF EffectInv, WorldInv
<1>4. Remover(f) => RemoverInv(f)'
  BY StillRemover
<1>5. Remover(f)' = Remover(f)
  BY <1>1 DEF Remover
<1>. QED  BY <1>1, <1>2, <1>3, <1>4, <1>5, StillPermit DEF EffectInv

(* A call that may be executed late is one that changes something.         *)
LEMMA LateTyped ==
    ASSUME TypeOK, NEW l \in late
    PROVE  /\ l.by \in Effects /\ l.call \in Call
           /\ l.call.op \in {"create_tunnel", "create_dns", "update_dns", "delete_dns", "delete_tunnel",
                             "store", "revoke"}
BY DEF TypeOK, Call, KeptCall

(* A call of an effect that takes no step keeps its invariant.             *)
LEMMA StillLate ==
    ASSUME TypeOK, NEW l \in late, LateInv(l), Still(l.by), Harmless(l.by)
    PROVE  LateInv(l)'
<1>. DEFINE f == l.by
<1>0. f \in Effects
  BY LateTyped
<1>1. /\ pc'[f] = pc[f] /\ st'[f] = st[f] /\ outcome'[f] = outcome[f]
      /\ permit'[f] = permit[f] /\ dispatch' = dispatch /\ Ids(f)' = Ids(f)
  BY DEF Still, Ids
<1>2. Deletes(f)' = Deletes(f) /\ Maker(f)' = Maker(f)
  BY <1>1 DEF Deletes, Maker, Remover
<1>3. l.call.op = "create_dns" => ~Targeted(st[f].tun)'
  <2>. SUFFICES ASSUME l.call.op = "create_dns"
                PROVE  ~Targeted(st[f].tun)'
    OBVIOUS
  <2>1. Op[f] = "create" /\ st[f].tun # 0 /\ ~Targeted(st[f].tun) /\ outcome[f] # "succeeded"
    BY DEF LateInv
  <2>. QED  BY <1>1, <2>1 DEF Harmless, Private, Maker, Lost, Targeted
<1>. HIDE DEF Deletes, Maker, Ids, Targeted
<1>. QED  BY <1>0, <1>1, <1>2, <1>3, LateTyped DEF LateInv

-----------------------------------------------------------------------------
(* A call of an effect that is executed late.                              *)

(* A late call that creates nothing at Cloudflare harms not even its own   *)
(* effect.                                                                 *)
LEMMA LateHarmless ==
    ASSUME TypeOK, WorldInv, IngressAssumption, \A e \in Effects : EffectInv(e),
           NEW l \in late, LateInv(l), Execute(l.by, l.call),
           l.call.op \notin {"create_tunnel", "create_dns"}
    PROVE  Harmless(l.by)
<1>. DEFINE e == l.by  call == l.call
<1>0. e \in Effects /\ call \in Call
  BY LateTyped
<1>. SUFFICES ASSUME Private(e)
              PROVE  Harmless(e)
  BY DEF Harmless
<1>1. Deletes(e) => pc[e] \notin {"token", "store", "confirm"}
  BY <1>0 DEF Deletes, TypeOK, Remover, Private, Maker
<1>2. CASE call.op = "update_dns"
  <2>1. /\ Op[e] = "rebind" /\ st[e].tun # 0 /\ call.target \in {st[e].tun, st[e].old}
        /\ call.target = st[e].tun => Lost(e)
        /\ Deletes(e)
    BY <1>2 DEF LateInv, Lost
  <2>2. \A r \in cf.records : Retarget(r, call).target \in {r.target, call.target}
    BY CfType DEF Retarget, DnsRecord
  <2>3. cf'.records = {Retarget(r, call) : r \in cf.records} /\ cf'.tokens = cf.tokens
    BY <1>0, <1>2, ExecuteDoes DEF Becomes
  <2>. QED  BY <1>1, <2>1, <2>2, <2>3 DEF Harmless
<1>3. CASE call.op = "delete_dns"
  <2>1. cf'.records \subseteq cf.records /\ cf'.tokens = cf.tokens
    BY <1>0, <1>3, ExecuteDoes DEF Becomes
  <2>2. Op[e] = "create" => Deletes(e)
    BY <1>3 DEF LateInv
  <2>. QED  BY <1>1, <2>1, <2>2 DEF Harmless
<1>4. CASE call.op = "delete_tunnel"
  BY <1>0, <1>4, ExecuteDoes DEF Becomes, Harmless
<1>5. CASE call.op = "store"
  BY <1>0, <1>5, ExecuteDoes DEF Becomes, Harmless
<1>6. CASE call.op = "revoke"
  <2>1. Deletes(e)
    BY <1>6 DEF LateInv, Private
  <2>. QED  BY <1>0, <1>1, <1>6, <2>1, ExecuteDoes DEF Becomes, Harmless
<1>. QED  BY <1>2, <1>3, <1>4, <1>5, <1>6, LateTyped

(* It leaves the local variables alone; a late store adds its token.       *)
LEMMA LateStill ==
    ASSUME TypeOK, IngressAssumption, NEW l \in late, LateInv(l), Execute(l.by, l.call),
           l.call.op \notin {"create_tunnel", "create_dns"},
           UNCHANGED <<dispatch, owned, pc, st, outcome, permit>>
    PROVE  Still(l.by)
<1>. DEFINE e == l.by  call == l.call
<1>0. e \in Effects /\ call \in Call /\ made[e] \subseteq Nat \cup Effects /\ DOMAIN made = Effects
  BY LateTyped DEF TypeOK
<1>1. CASE call.op = "store"
  <2>1. call.grant = e /\ Maker(e) /\ Deletes(e) /\ (Op[e] = "create" /\ e \in Invoked => permit[e][2] # "none")
    BY <1>1 DEF LateInv
  <2>2. made'[e] = made[e] \cup {e}
    <3>1. made' = [made EXCEPT ![e] = @ \cup {call.grant}]
      BY <1>0, <1>1, ExecuteDoes
    <3>. QED  BY <1>0, <2>1, <3>1
  <2>3. e \notin Nat
    BY <1>0 DEF IngressAssumption, Grants
  <2>4. Private(e)
    BY <1>0, <2>1 DEF Private, Deletes, Maker, Remover, TypeOK
  <2>. QED  BY <2>1, <2>2, <2>3, <2>4 DEF Still
<1>2. CASE call.op # "store"
  <2>1. made' = made
    BY <1>0, <1>2, ExecuteDoes, LateTyped
  <2>. QED  BY <2>1 DEF Still
<1>. QED  BY <1>1, <1>2

(* A tunnel has one maker, whose id it is.                                 *)
LEMMA TunnelOfOne ==
    ASSUME TypeOK, WorldInv, \A e \in Effects : EffectInv(e),
           NEW e \in Effects, NEW f \in Effects, Maker(e), Maker(f), st[e].tun # 0, st[e].tun = st[f].tun
    PROVE  e = f /\ st[e].tun \in Ids(e)
<1>1. ASSUME NEW g \in Effects, Maker(g), st[g].tun # 0
      PROVE  st[g].tun \in Ids(g)
  <2>1. /\ Op[g] = "create" => CreateInv(g)
        /\ Op[g] = "rebind" => RebindInv(g)
        /\ Op[g] \in {"create", "rebind"}
    BY <1>1 DEF EffectInv, Maker
  <2>. QED  BY <1>1, <2>1 DEF CreateInv, RebindInv, Ids, TypeOK, LocalState
<1>. QED  BY <1>1 DEF WorldInv, SeparateIds

(* A tunnel created late: the effect had given up on it.                   *)
LEMMA LateCreatesTunnel ==
    ASSUME TypeOK, WorldInv, IngressAssumption, \A e \in Effects : EffectInv(e),
           NEW l \in late, LateInv(l), Execute(l.by, l.call), l.call.op = "create_tunnel",
           UNCHANGED <<dispatch, owned, pc, st, outcome, permit>>
    PROVE  EffectInv(l.by)'
<1>. DEFINE e == l.by
<1>0. e \in Effects /\ l.call \in Call /\ DOMAIN made = Effects /\ made[e] \subseteq Nat \cup Effects
  BY LateTyped DEF TypeOK
<1>1. /\ Maker(e) /\ st[e].tun = 0 /\ pc[e] \in {"cleanup", "done"} /\ outcome[e] # "succeeded"
      /\ Op[e] = "create" => outcome[e] \in {"unknown", "unrecorded"}
      /\ e \in Invoked => permit[e][1] # "none"
  BY DEF LateInv
<1>2. /\ cf'.tunnels = cf.tunnels \cup {cf.next} /\ cf'.records = cf.records /\ cf'.tokens = cf.tokens
      /\ made' = [made EXCEPT ![e] = @ \cup {cf.next}]
  BY <1>0, ExecuteDoes DEF Becomes
<1>3. /\ made'[e] = made[e] \cup {cf.next} /\ cf.next \in Nat /\ cf.next # 0 /\ e # cf.next /\ 0 \notin cf.tunnels
  BY <1>0, <1>2, CfType DEF IngressAssumption, Grants, WorldInv, FreshIds
<1>4. pc[e] = "cleanup" => outcome[e] = "none"
  BY <1>0 DEF TypeOK
<1>5. Op[e] = "create" => CreateInv(e)'
  <2>. SUFFICES ASSUME Op[e] = "create"
                PROVE  CreateInv(e)'
    OBVIOUS
  <2>1. CreateInv(e) /\ pc[e] = "done" /\ outcome[e] \notin {"failed", "succeeded"}
    BY <1>0, <1>1, <1>4 DEF EffectInv
  <2>. QED  BY <1>1, <2>1 DEF CreateInv
<1>6. Op[e] = "rebind" => RebindInv(e)'
  <2>. SUFFICES ASSUME Op[e] = "rebind"
                PROVE  RebindInv(e)'
    OBVIOUS
  <2>1. RebindInv(e)
    BY <1>0 DEF EffectInv
  <2>2. st[e].tun \notin cf'.tunnels
    BY <1>1, <1>2, <1>3
  <2>. QED  BY <1>1, <1>4, <2>1, <2>2 DEF RebindInv
<1>7. PermitInv(e)' /\ Untouched(e)' /\ ~Remover(e)'
  BY <1>0, <1>1, <1>2, <1>3 DEF EffectInv, PermitInv, Untouched, Remover, Maker
<1>. QED  BY <1>5, <1>6, <1>7 DEF EffectInv

(* A record created late: the certainty of the effect is uncertain.        *)
LEMMA LateCreatesDns ==
    ASSUME TypeOK, WorldInv, IngressAssumption, \A e \in Effects : EffectInv(e),
           NEW l \in late, LateInv(l), Execute(l.by, l.call), l.call.op = "create_dns",
           UNCHANGED <<dispatch, owned, pc, st, outcome, permit>>
    PROVE  EffectInv(l.by)'
<1>. DEFINE e == l.by
<1>0. e \in Effects /\ l.call \in Call /\ DOMAIN made = Effects /\ made[e] \subseteq Nat \cup Effects
  BY LateTyped DEF TypeOK
<1>1. /\ Op[e] = "create" /\ st[e].tun # 0 /\ st[e].dns = 0 /\ st[e].certainty = "uncertain"
      /\ Ids(e) \subseteq {st[e].tun} /\ pc[e] \in {"reconcile", "cleanup", "done"}
      /\ outcome[e] # "succeeded" /\ (e \in Invoked => permit[e][1] # "none")
  BY DEF LateInv
<1>2. /\ cf'.tunnels = cf.tunnels /\ cf'.records = {NewRecord(l.call.target)} /\ cf'.tokens = cf.tokens
      /\ made' = [made EXCEPT ![e] = @ \cup {cf.next}]
  BY <1>0, ExecuteDoes DEF Becomes
<1>3. /\ made'[e] = made[e] \cup {cf.next} /\ cf.next \in Nat /\ cf.next # 0 /\ e # cf.next
      /\ Ids(e)' = Ids(e) \cup {cf.next} /\ 0 \notin RecordIds'
  BY <1>0, <1>2, CfType DEF IngressAssumption, Grants, WorldInv, FreshIds, Ids, RecordIds, NewRecord
<1>4. pc[e] # "done" => outcome[e] = "none"
  BY <1>0 DEF TypeOK
<1>5. CreateInv(e)'
  <2>1. CreateInv(e) /\ outcome[e] \notin {"failed", "succeeded"}
    BY <1>0, <1>1 DEF EffectInv, CreateInv
  <2>2. \A stage : Pending(st[e], stage)' = Pending(st[e], stage)
    BY DEF Pending
  <2>3. st[e].tun \notin RecordIds'
    <3>1. st[e].tun < cf.next
      BY <1>0, <1>1, TunnelOfOne DEF WorldInv, FreshIds, Maker
    <3>. QED  BY <1>2, <1>3, <3>1 DEF RecordIds, NewRecord
  <2>. QED  BY <1>1, <1>2, <1>3, <1>4, <2>1, <2>2, <2>3 DEF CreateInv
<1>6. PermitInv(e)' /\ Untouched(e)' /\ ~Remover(e)'
  BY <1>0, <1>1, <1>2, <1>3 DEF EffectInv, PermitInv, Untouched, Remover
<1>. QED  BY <1>1, <1>5, <1>6 DEF EffectInv

(* The other calls of an effect when one that creates is executed late.    *)
(* There is only one creation of a record.                                 *)
LEMMA LateOther ==
    ASSUME TypeOK, NEW l \in late, LateInv(l), Execute(l.by, l.call),
           l.call.op \in {"create_tunnel", "create_dns"},
           UNCHANGED <<dispatch, owned, pc, st, outcome, permit>>,
           NEW k \in late, k # l, k.by = l.by, LateInv(k)
    PROVE  LateInv(k)'
<1>. DEFINE e == l.by
<1>0. e \in Effects /\ l.call \in Call
  BY LateTyped
<1>1. k.call.op # "create_dns"
  <2>. SUFFICES ASSUME k.call.op = "create_dns"
                PROVE  FALSE
    OBVIOUS
  <2>1. st[e].tun # 0 /\ k.call.target = st[e].tun
    BY DEF LateInv
  <2>2. l.call.op = "create_dns" /\ l.call.target = st[e].tun
    BY <2>1 DEF LateInv
  <2>3. /\ k.call \in [op: {"create_dns"}, target: Nat] /\ l.call \in [op: {"create_dns"}, target: Nat]
        /\ k \in [by: Effects, call: KeptCall] /\ l \in [by: Effects, call: KeptCall]
    BY <2>2 DEF TypeOK, KeptCall
  <2>4. k.call = l.call
    BY <2>1, <2>2, <2>3
  <2>. QED  BY <2>3, <2>4
<1>2. Deletes(e)' = Deletes(e) /\ Maker(e)' = Maker(e)
  BY DEF Deletes, Maker, Remover
<1>. HIDE DEF Deletes, Maker
<1>. QED  BY <1>1, <1>2, LateTyped DEF LateInv

-----------------------------------------------------------------------------
(* The world's part of the invariant.                                      *)

(* The world as it was, or a call of the effect was executed.              *)
Acts(e) ==
    \/ cf' = cf /\ made' = made
    \/ \E call \in Call : Legit(e, call) /\ Execute(e, call)

(* Ids stay fresh and apart, and records unique.                           *)
LEMMA IdsKept ==
    ASSUME TypeOK, WorldInv, IngressAssumption, \A e \in Effects : EffectInv(e), NEW e \in Effects, Acts(e)
    PROVE  FreshIds' /\ SeparateIds' /\ UniqueRecords' /\ cf.next <= cf'.next
<1>. USE DEF WorldInv
<1>0. DOMAIN made = Effects /\ cf.next \in Nat
  BY CfType DEF TypeOK
<1>1. CASE cf' = cf /\ made' = made
  BY <1>0, <1>1 DEF FreshIds, SeparateIds, UniqueRecords, Ids
<1>2. ASSUME NEW call \in Call, Legit(e, call), Execute(e, call)
      PROVE  FreshIds' /\ SeparateIds' /\ UniqueRecords' /\ cf.next <= cf'.next
  <2>1. CASE call.op \in {"create_tunnel", "create_dns"}
    <3>1. /\ made' = [made EXCEPT ![e] = @ \cup {cf.next}] /\ cf'.next = cf.next + 1
      BY <1>2, <2>1, ExecuteDoes DEF Becomes
    <3>2. /\ Ids(e)' = Ids(e) \cup {cf.next}
          /\ \A f \in Effects : f # e => Ids(f)' = Ids(f)
      BY <1>0, <3>1 DEF Ids
    <3>3. SeparateIds'
      BY <1>0, <3>2 DEF SeparateIds, FreshIds
    <3>4. CASE call.op = "create_tunnel"
      <4>1. cf'.tunnels = cf.tunnels \cup {cf.next} /\ cf'.records = cf.records
        BY <1>2, <3>4, ExecuteDoes DEF Becomes
      <4>2. \A r \in cf.records : r.target \in Nat /\ r.id \in Nat
        BY CfType DEF DnsRecord
      <4>3. \A t \in cf.tunnels : t \in Nat
        BY CfType
      <4>4. \A f \in Effects : \A x \in Ids(f) : x \in Nat
        BY DEF Ids
      <4>. QED  BY <1>0, <3>1, <3>2, <3>3, <4>1, <4>2, <4>3, <4>4 DEF FreshIds, UniqueRecords
    <3>5. CASE call.op = "create_dns"
      <4>1. cf'.tunnels = cf.tunnels /\ cf'.records = {NewRecord(call.target)}
        BY <1>2, <3>5, ExecuteDoes DEF Becomes
      <4>2. call.target < cf.next
        <5>1. call.target = st[e].tun /\ st[e].tun # 0 /\ Maker(e)
          BY <1>2, <3>5 DEF Legit, Maker
        <5>. QED  BY <5>1, TunnelOfOne DEF FreshIds
      <4>3. \A t \in cf.tunnels : t \in Nat
        BY CfType
      <4>4. \A f \in Effects : \A x \in Ids(f) : x \in Nat
        BY DEF Ids
      <4>5. call.target \in Nat
        BY <3>5 DEF Call, KeptCall
      <4>. QED  BY <1>0, <3>1, <3>2, <3>3, <4>1, <4>2, <4>3, <4>4, <4>5 DEF FreshIds, UniqueRecords, NewRecord
    <3>. QED  BY <2>1, <3>4, <3>5
  <2>2. CASE call.op \notin {"create_tunnel", "create_dns"}
    <3>1. cf'.next = cf.next /\ cf'.tunnels \subseteq cf.tunnels
      BY <1>0, <1>2, <2>2, ExecuteDoes DEF Becomes, Call, KeptCall
    <3>2. \A f \in Effects : Ids(f)' = Ids(f)
      <4>1. CASE call.op = "store"
        <5>1. call.grant = e /\ e \notin Nat
          BY <1>2, <4>1 DEF Legit, IngressAssumption, Grants
        <5>2. made' = [made EXCEPT ![e] = @ \cup {call.grant}]
          BY <1>2, <4>1, ExecuteDoes
        <5>. QED  BY <1>0, <5>1, <5>2 DEF Ids
      <4>2. CASE call.op # "store"
        <5>1. made' = made
          BY <1>2, <2>2, <4>2, ExecuteDoes DEF Call, KeptCall
        <5>. QED  BY <5>1 DEF Ids
      <4>. QED  BY <4>1, <4>2
    <3>3. UniqueRecords' /\ \A r \in cf'.records : /\ 0 < r.id /\ r.id < cf.next /\ r.target < cf.next
                                                   /\ r.id \notin cf.tunnels
      <4>1. CASE call.op = "update_dns"
        <5>1. cf'.records = {Retarget(r, call) : r \in cf.records}
          BY <1>2, <4>1, ExecuteDoes DEF Becomes
        <5>2. call.target < cf.next
          <6>1. /\ Op[e] = "rebind" /\ st[e].tun # 0 /\ call.target \in {st[e].tun, st[e].old}
                /\ pc[e] # "idle"
            BY <1>2, <4>1 DEF Legit
          <6>2. st[e].tun < cf.next
            BY <6>1, TunnelOfOne DEF FreshIds, Maker
          <6>3. \E a \in owned : st[e].old = a.tunnel
            BY <6>1 DEF EffectInv, RebindInv
          <6>. QED  BY <6>1, <6>2, <6>3, OwnedTyped
        <5>3. \A r \in cf.records : /\ Retarget(r, call).id = r.id /\ Retarget(r, call).cname = r.cname
                                    /\ Retarget(r, call).target \in {r.target, call.target}
          BY CfType DEF Retarget, DnsRecord
        <5>. QED  BY <5>1, <5>2, <5>3 DEF UniqueRecords, FreshIds
      <4>2. CASE call.op # "update_dns"
        <5>1. cf'.records \subseteq cf.records
          BY <1>2, <2>2, <4>2, ExecuteDoes DEF Becomes, Call, KeptCall
        <5>. QED  BY <5>1 DEF UniqueRecords, FreshIds
      <4>. QED  BY <4>1, <4>2
    <3>. QED  BY <1>0, <3>1, <3>2, <3>3 DEF FreshIds, SeparateIds
  <2>. QED  BY <2>1, <2>2
<1>. QED  BY <1>1, <1>2 DEF Acts

(* What the world's part of the invariant needs of the local variables of  *)
(* the effect that acts.                                                   *)
Evolves(e) ==
    /\ Maker(e) /\ st[e].tun # 0 =>
            /\ st'[e].tun = st[e].tun
            /\ Op[e] = "rebind" => st'[e].dns = st[e].dns
            /\ \/ st'[e].dns = st[e].dns
               \/ \A r \in cf'.records : r.target = st[e].tun => r.id = st'[e].dns
    /\ Maker(e) /\ st[e].tun = 0 => st'[e].tun \in {0} \cup cf'.tunnels
    /\ Deletes(e) => Deletes(e)' /\ st'[e].tun = st[e].tun
    /\ outcome[e] = "succeeded" => outcome'[e] = "succeeded" /\ st'[e] = st[e]

(* What was made stays made.                                               *)
LEMMA ActsMakes ==
    ASSUME TypeOK, NEW e \in Effects, Acts(e)
    PROVE  \A f \in Effects : made[f] \subseteq made'[f]
<1>0. DOMAIN made = Effects
  BY DEF TypeOK
<1>1. ASSUME NEW call \in Call, Execute(e, call)
      PROVE  \A f \in Effects : made[f] \subseteq made'[f]
  <2>1. made' = [made EXCEPT ![e] = @ \cup Creates(call)]
    BY <1>1 DEF Execute
  <2>. QED  BY <1>0, <2>1
<1>. QED  BY <1>1 DEF Acts

(* Every record keeps an explanation of what it points to.                 *)
LEMMA RecordsKept ==
    ASSUME TypeOK, WorldInv, IngressAssumption, \A e \in Effects : EffectInv(e), NEW e \in Effects,
           Acts(e), Others(e), Evolves(e), dispatch' = dispatch
    PROVE  RecordsKnown'
<1>0. DOMAIN made = Effects /\ cf.next \in Nat /\ RecordsKnown
  BY CfType DEF TypeOK, WorldInv
<1>1. \A f \in Effects : made[f] \subseteq made'[f]
  BY ActsMakes
<1>2. ASSUME NEW r, r.target # 0, r \in cf'.records, TargetOf(r)
      PROVE  TargetOf(r)'
  <2>1. CASE dispatch.existing /\ r.target = 1 /\ r.id = 2
    BY <2>1 DEF TargetOf
  <2>2. ASSUME NEW f \in Effects, r.target = st[f].tun, st[f].tun # 0,
               \/ Op[f] = "rebind" /\ r.id = st[f].dns
               \/ /\ Op[f] = "create" /\ r.id \in made[f] /\ r.id # r.target
                  /\ st[f].dns # 0 => r.id = st[f].dns
        PROVE  TargetOf(r)'
    <3>1. CASE f # e
      BY <1>1, <2>2, <3>1 DEF TargetOf, Others
    <3>2. CASE f = e
      <4>1. st'[e].tun = st[e].tun
        BY <2>2, <3>2 DEF Evolves, Maker
      <4>2. Op[e] = "rebind" => st'[e].dns = st[e].dns
        BY <2>2, <3>2 DEF Evolves, Maker
      <4>3. Op[e] = "create" /\ st'[e].dns # 0 => r.id = st'[e].dns
        BY <1>2, <2>2, <3>2 DEF Evolves, Maker
      <4>. QED  BY <1>1, <2>2, <3>2, <4>1, <4>2, <4>3 DEF TargetOf
    <3>. QED  BY <3>1, <3>2
  <2>. QED  BY <1>2, <2>1, <2>2 DEF TargetOf
<1>3. CASE cf' = cf /\ made' = made
  BY <1>0, <1>2, <1>3 DEF RecordsKnown
<1>4. ASSUME NEW call \in Call, Legit(e, call), Execute(e, call)
      PROVE  RecordsKnown'
  <2>1. CASE call.op = "create_dns"
    <3>1. /\ cf'.records = {NewRecord(call.target)} /\ made' = [made EXCEPT ![e] = @ \cup {cf.next}]
      BY <1>4, <2>1, ExecuteDoes DEF Becomes
    <3>2. Op[e] = "create" /\ st[e].tun # 0 /\ call.target = st[e].tun /\ st[e].dns = 0
      BY <1>4, <2>1 DEF Legit
    <3>3. st'[e].tun = st[e].tun /\ (st'[e].dns # 0 => cf.next = st'[e].dns)
      BY <3>1, <3>2 DEF Evolves, Maker, NewRecord
    <3>4. cf.next \in made'[e]
      BY <1>0, <3>1
    <3>5. ASSUME NEW r \in cf'.records
          PROVE  ~r.foreign /\ r.target # 0 /\ TargetOf(r)'
      <4>1. r.id = cf.next /\ r.target = st[e].tun /\ r.foreign = FALSE
        BY <3>1, <3>2 DEF NewRecord
      <4>2. cf.next # st[e].tun
        BY <1>0, <3>2, TunnelOfOne DEF WorldInv, FreshIds, Maker
      <4>3. TargetOf(r)'
        BY <3>2, <3>3, <3>4, <4>1, <4>2 DEF TargetOf
      <4>. QED  BY <3>2, <4>1, <4>3
    <3>. HIDE DEF TargetOf
    <3>. QED  BY <3>5 DEF RecordsKnown
  <2>2. CASE call.op # "create_dns"
    <3>1. \A f \in Effects : \A x \in Nat : x \in made'[f] => x \in made[f] \/ x = cf.next
      <4>1. CASE call.op = "store"
        <5>1. call.grant \notin Nat
          BY <1>4, <4>1 DEF Legit, IngressAssumption, Grants
        <5>2. made' = [made EXCEPT ![e] = @ \cup {call.grant}]
          BY <1>4, <4>1, ExecuteDoes
        <5>. QED  BY <1>0, <5>1, <5>2
      <4>2. CASE call.op = "create_tunnel"
        <5>1. made' = [made EXCEPT ![e] = @ \cup {cf.next}]
          BY <1>4, <4>2, ExecuteDoes
        <5>. QED  BY <1>0, <5>1
      <4>3. CASE call.op \notin {"store", "create_tunnel"}
        BY <1>4, <2>2, <4>3, ExecuteDoes DEF Call, KeptCall
      <4>. QED  BY <4>1, <4>2, <4>3
    <3>2. \A r \in cf.records : r.id \in Nat /\ r.id < cf.next
      BY CfType DEF WorldInv, FreshIds, DnsRecord
    <3>3. ASSUME NEW r \in cf.records, r \in cf'.records
          PROVE  IF r.foreign THEN r.target = 0 /\ r.id # 2 /\ \A f \in Effects : r.id \notin made'[f]
                 ELSE r.target # 0 /\ TargetOf(r)'
      BY <1>0, <1>2, <3>1, <3>2, <3>3 DEF RecordsKnown
    <3>4. CASE call.op = "update_dns"
      <4>1. cf'.records = {Retarget(r, call) : r \in cf.records} /\ made' = made
        BY <1>4, <3>4, ExecuteDoes DEF Becomes
      <4>2. /\ Op[e] = "rebind" /\ st[e].tun # 0 /\ call.id = st[e].dns
            /\ call.target \in {st[e].tun, st[e].old} /\ pc[e] # "idle"
        BY <1>4, <3>4 DEF Legit
      <4>3. PICK a \in owned : st[e].dns = a.dns /\ st[e].old = a.tunnel
        BY <4>2 DEF EffectInv, RebindInv
      <4>4. OwnedFrom(a) /\ OwnedDns(a)
        BY DEF WorldInv
      <4>5. ASSUME NEW r \in cf.records, r.id = call.id
            PROVE  LET q == Retarget(r, call) IN
                   IF q.foreign THEN q.target = 0 /\ q.id # 2 /\ \A f \in Effects : q.id \notin made'[f]
                   ELSE q.target # 0 /\ TargetOf(q)'
        <5>. DEFINE q == Retarget(r, call)
        <5>1. q.id = r.id /\ q.foreign = r.foreign /\ q.target = call.target /\ q \in cf'.records
          BY <4>1, <4>5, CfType DEF Retarget, DnsRecord
        <5>2. ~r.foreign
          <6>1. CASE a.dns = 2
            BY <1>0, <4>2, <4>3, <4>5, <6>1 DEF RecordsKnown
          <6>2. ASSUME NEW g \in Effects, Op[g] = "create", outcome[g] = "succeeded", a.dns = st[g].dns
                PROVE  ~r.foreign
            <7>1. CreateInv(g)
              BY <6>2 DEF EffectInv
            <7>2. st[g].dns \in made[g]
              BY <6>2, <7>1 DEF CreateInv
            <7>. QED  BY <1>0, <4>2, <4>3, <4>5, <6>2, <7>2 DEF RecordsKnown
          <6>. QED  BY <4>4, <6>1, <6>2 DEF OwnedDns
        <5>3. CASE call.target = st[e].tun
          <6>1. st'[e].tun = st[e].tun /\ st'[e].dns = st[e].dns
            BY <4>2 DEF Evolves, Maker
          <6>2. TargetOf(q)'
            BY <4>2, <4>5, <5>1, <5>3, <6>1 DEF TargetOf
          <6>. HIDE DEF q, TargetOf
          <6>. QED  BY <4>2, <5>1, <5>2, <5>3, <6>2 DEF q
        <5>4. CASE call.target = st[e].old
          <6>1. call.target = a.tunnel /\ q.id = a.dns
            BY <4>2, <4>3, <4>5, <5>1, <5>4
          <6>2. CASE dispatch.existing /\ a = [tunnel |-> 1, dns |-> 2, grant |-> OldGrant]
            <7>1. TargetOf(q)' /\ q.target # 0
              BY <5>1, <6>1, <6>2 DEF TargetOf
            <7>. HIDE DEF q, TargetOf
            <7>. QED  BY <5>1, <5>2, <7>1 DEF q
          <6>3. ASSUME NEW g \in Effects, Maker(g), outcome[g] = "succeeded", a = Allocated(g)
                PROVE  TargetOf(q)' /\ q.target # 0
            <7>1. /\ Op[g] = "create" => CreateInv(g)
                  /\ Op[g] = "rebind" => RebindInv(g)
                  /\ Op[g] \in {"create", "rebind"}
              BY <6>3 DEF EffectInv, Maker
            <7>2. st[g].tun # 0 /\ (Op[g] = "create" => st[g].dns \in made[g] /\ st[g].dns # st[g].tun)
              BY <6>3, <7>1 DEF CreateInv, RebindInv
            <7>3. q.target = st[g].tun /\ q.id = st[g].dns
              BY <5>1, <6>1, <6>3 DEF Allocated
            <7>4. st'[g] = st[g]
              BY <6>3 DEF Others, Evolves
            <7>. QED  BY <4>1, <7>1, <7>2, <7>3, <7>4 DEF TargetOf
          <6>4. ASSUME TargetOf(q)', q.target # 0
                PROVE  IF q.foreign THEN q.target = 0 /\ q.id # 2 /\ \A f \in Effects : q.id \notin made'[f]
                       ELSE q.target # 0 /\ TargetOf(q)'
            <7>. HIDE DEF q, TargetOf
            <7>. QED  BY <5>1, <5>2, <6>4
          <6>. QED  BY <4>4, <6>2, <6>3, <6>4 DEF OwnedFrom
        <5>. QED  BY <4>2, <5>3, <5>4
      <4>6. ASSUME NEW r \in cf.records, r.id # call.id
            PROVE  Retarget(r, call) = r /\ r \in cf'.records
        BY <4>1, <4>6 DEF Retarget
      <4>7. ASSUME NEW q \in cf'.records
            PROVE  IF q.foreign THEN q.target = 0 /\ q.id # 2 /\ \A f \in Effects : q.id \notin made'[f]
                   ELSE q.target # 0 /\ TargetOf(q)'
        <5>1. PICK r \in cf.records : q = Retarget(r, call)
          BY <4>1, <4>7
        <5>. HIDE DEF TargetOf
        <5>. QED  BY <3>3, <4>5, <4>6, <5>1
      <4>. QED  BY <4>7 DEF RecordsKnown
    <3>5. CASE call.op # "update_dns"
      <4>1. cf'.records \subseteq cf.records
        BY <1>4, <2>2, <3>5, ExecuteDoes DEF Becomes, Call, KeptCall
      <4>. QED  BY <3>3, <4>1 DEF RecordsKnown
    <3>. QED  BY <3>4, <3>5
  <2>. QED  BY <2>1, <2>2
<1>. QED  BY <1>3, <1>4 DEF Acts

(* Every tunnel that is gone has a deleter.                                *)
LEMMA TunnelsKept ==
    ASSUME TypeOK, WorldInv, IngressAssumption, \A e \in Effects : EffectInv(e), NEW e \in Effects,
           Acts(e), Others(e), Evolves(e), dispatch' = dispatch
    PROVE  TunnelsAccounted'
<1>1. ASSUME NEW t \in Nat, NEW g \in Effects, Deleter(g, t)
      PROVE  Deleter(g, t)'
  BY <1>1 DEF Deleter, Deletes, Remover, Others, Evolves
<1>2. ASSUME NEW t \in Nat, t \in cf.tunnels, t \notin cf'.tunnels
      PROVE  Deleter(e, t)
  <2>1. PICK call \in Call : Legit(e, call) /\ Execute(e, call)
    BY <1>2 DEF Acts
  <2>2. call.op = "delete_tunnel" /\ call.id = t
    BY <1>2, <2>1, ExecuteDoes DEF Becomes, Call, KeptCall
  <2>. QED  BY <2>1, <2>2 DEF Legit, Deleter
<1>3. ASSUME NEW t \in Nat, Tunnel(t)'
      PROVE  Tunnel(t) \/ t \in cf'.tunnels
  <2>1. CASE dispatch.existing /\ t = 1
    BY <2>1 DEF Tunnel
  <2>2. ASSUME NEW f \in Effects, Maker(f), st'[f].tun = t, t # 0
        PROVE  Tunnel(t) \/ t \in cf'.tunnels
    <3>1. CASE f # e
      BY <2>2, <3>1 DEF Tunnel, Others
    <3>2. CASE f = e
      BY <2>2, <3>2 DEF Tunnel, Evolves
    <3>. QED  BY <3>1, <3>2
  <2>. QED  BY <1>3, <2>1, <2>2 DEF Tunnel, Maker
<1>4. TunnelsAccounted
  BY DEF WorldInv
<1>5. ASSUME NEW t \in Nat, Tunnel(t)', t \notin cf'.tunnels
      PROVE  \E g \in Effects : Deleter(g, t)'
  <2>1. \E g \in Effects : Deleter(g, t)
    BY <1>2, <1>3, <1>4, <1>5 DEF TunnelsAccounted
  <2>. QED  BY <1>1, <2>1
<1>. QED  BY <1>5 DEF TunnelsAccounted

(* The caller learns of the allocation of an effect that succeeds.         *)
Allocates(e) ==
    \/ owned' = owned
    \/ /\ owned' = owned \cup {Allocated(e)} /\ Maker(e) /\ st'[e] = st[e]
       /\ pc[e] \in {"store", "confirm"} /\ outcome'[e] = "succeeded"

(* Allocations keep their origin.                                          *)
LEMMA OwnedKept ==
    ASSUME TypeOK, WorldInv, \A e \in Effects : EffectInv(e), NEW e \in Effects,
           Others(e), Evolves(e), Allocates(e), dispatch' = dispatch
    PROVE  \A a \in owned' : OwnedFrom(a)' /\ OwnedDns(a)'
<1>1. ASSUME NEW g \in Effects, outcome[g] = "succeeded"
      PROVE  outcome'[g] = "succeeded" /\ st'[g] = st[g]
  BY <1>1 DEF Others, Evolves
<1>2. ASSUME NEW a, OwnedFrom(a)
      PROVE  OwnedFrom(a)'
  BY <1>1, <1>2 DEF OwnedFrom, Allocated, Maker
<1>3. ASSUME NEW a, OwnedDns(a)
      PROVE  OwnedDns(a)'
  BY <1>1, <1>3 DEF OwnedDns
<1>4. ASSUME owned' = owned \cup {Allocated(e)}, Maker(e), st'[e] = st[e],
             pc[e] \in {"store", "confirm"}, outcome'[e] = "succeeded", NEW a, a = Allocated(e)
      PROVE  OwnedFrom(a)' /\ OwnedDns(a)'
  <2>1. a = [tunnel |-> st'[e].tun, dns |-> st'[e].dns, grant |-> e]
    BY <1>4 DEF Allocated
  <2>2. OwnedFrom(a)'
    BY <1>4, <2>1 DEF OwnedFrom, Allocated, Maker
  <2>3. CASE Op[e] = "create"
    <3>1. OwnedDns(a)'
      BY <1>4, <2>1, <2>3 DEF OwnedDns
    <3>. QED  BY <2>2, <3>1
  <2>4. CASE Op[e] = "rebind"
    <3>1. PICK b \in owned : st[e].dns = b.dns
      BY <1>4, <2>4 DEF EffectInv, RebindInv
    <3>2. OwnedDns(b)'
      BY <1>3 DEF WorldInv
    <3>3. a.dns = b.dns
      BY <1>4, <3>1 DEF Allocated
    <3>4. OwnedDns(a)'
      BY <3>2, <3>3 DEF OwnedDns
    <3>. QED  BY <2>2, <3>4
  <2>. QED  BY <1>4, <2>3, <2>4 DEF Maker
<1>5. \A a \in owned : OwnedFrom(a) /\ OwnedDns(a)
  BY DEF WorldInv
<1>. HIDE DEF OwnedFrom, OwnedDns, Allocated
<1>. QED  BY <1>2, <1>3, <1>4, <1>5 DEF Allocates

(* Together, the part of the invariant that is about the world.            *)
LEMMA WorldKept ==
    ASSUME TypeOK, WorldInv, IngressAssumption, \A e \in Effects : EffectInv(e), NEW e \in Effects,
           Acts(e), Others(e), Evolves(e), Allocates(e), dispatch' = dispatch
    PROVE  WorldInv'
BY IdsKept, RecordsKept, TunnelsKept, OwnedKept DEF WorldInv

-----------------------------------------------------------------------------
(* The calls of the effect that acts: those under way, and the one it      *)
(* loses.                                                                  *)

KeepsCalls(e) ==
    /\ pc'[e] # "idle" /\ SameIds(e) /\ (Deletes(e) => Deletes(e)')
    /\ permit[e][1] # "none" => permit'[e][1] # "none"
    /\ permit[e][2] # "none" => permit'[e][2] # "none"
    /\ Maker(e) => SameNotes(e) /\ outcome'[e] # "succeeded" /\ (st[e].tun = 0 => pc'[e] \in {"cleanup", "done"})
    /\ Op[e] = "create" =>
            /\ pc'[e] \in {"reconcile", "cleanup", "done"} /\ Ids(e)' = Ids(e)
            /\ ~Targeted(st[e].tun) => ~Targeted(st[e].tun)'

(* The calls under way of the effect that takes a step.                    *)
LEMMA OwnLateKept ==
    ASSUME TypeOK, NEW l \in late, LateInv(l), pc[l.by] # "done", dispatch' = dispatch, KeepsCalls(l.by)
    PROVE  LateInv(l)'
<1>. DEFINE e == l.by  c == l.call
<1>0. e \in Effects /\ c.op \in {"create_tunnel", "create_dns", "update_dns", "delete_dns", "delete_tunnel",
                                 "store", "revoke"}
  BY LateTyped
<1>1. pc'[e] # "idle" /\ (e \in Invoked => permit'[e][1] # "none") /\ pc[e] # "idle"
  BY DEF LateInv, KeepsCalls
<1>2. outcome[e] = "none"
  BY <1>0 DEF TypeOK
<1>3. CASE c.op = "create_tunnel"
  <2>1. Maker(e) /\ st[e].tun = 0 /\ Op[e] # "create"
    BY <1>2, <1>3 DEF LateInv
  <2>. QED  BY <1>1, <1>3, <2>1 DEF LateInv, KeepsCalls, SameIds, Maker
<1>4. CASE c.op = "create_dns"
  BY <1>1, <1>4 DEF LateInv, KeepsCalls, SameIds, SameNotes, Maker
<1>5. CASE c.op = "update_dns"
  BY <1>1, <1>5 DEF LateInv, KeepsCalls, SameIds, SameNotes, Maker
<1>6. CASE c.op = "delete_dns"
  BY <1>1, <1>6 DEF LateInv, KeepsCalls, SameIds
<1>7. CASE c.op = "delete_tunnel"
  BY <1>1, <1>7 DEF LateInv, KeepsCalls, SameIds
<1>8. CASE c.op = "store"
  BY <1>1, <1>8 DEF LateInv, KeepsCalls, Maker
<1>9. CASE c.op = "revoke"
  BY <1>1, <1>9 DEF LateInv, KeepsCalls, SameIds, Maker
<1>. QED  BY <1>0, <1>3, <1>4, <1>5, <1>6, <1>7, <1>8, <1>9

(* An effect has lost no call before it undoes its work, except the        *)
(* creation of its record; and a removal none that it does not still need. *)
LEMMA NoneLost ==
    ASSUME TypeOK, NEW l \in late, LateInv(l), Maker(l.by)
    PROVE  pc[l.by] \in {"reconcile", "cleanup", "restore", "restore-check", "done",
                         "still-reserved", "tunnel-absent"}
<1>1. l.by \in Effects /\ l.call.op \in {"create_tunnel", "create_dns", "update_dns", "delete_dns", "delete_tunnel",
                                 "store", "revoke"}
  BY LateTyped
<1>2. CASE Deletes(l.by)
  BY <1>1, <1>2 DEF Deletes, TypeOK
<1>3. CASE ~Deletes(l.by)
  BY <1>1, <1>3 DEF LateInv, Maker
<1>. QED  BY <1>2, <1>3

(* An effect that has not begun has no call under way.                     *)
LEMMA NoneLostBefore ==
    ASSUME TypeOK, NEW l \in late, LateInv(l)
    PROVE  pc[l.by] # "idle"
BY DEF LateInv

(* The local variables keep their types.                                   *)
LocalTyped(e) ==
    /\ st'[e] \in LocalState /\ st'[e].todo \in Seq(StagesOf(Op[e]))
    /\ pc'[e] \in Labels(Op[e]) /\ outcome'[e] \in Outcomes /\ permit'[e] \in [1..2 -> Words]
    /\ (pc'[e] = "done") = (outcome'[e] # "none")

(* An executed call keeps the types of the world.                          *)
LEMMA ActsTyped ==
    ASSUME TypeOK, NEW e \in Effects, Acts(e)
    PROVE  /\ cf' \in World /\ made' \in [Effects -> SUBSET (Nat \cup Effects)]
           /\ \A f \in Effects : made'[f] \subseteq Nat \cup {f}
<1>1. CASE cf' = cf /\ made' = made
  BY <1>1 DEF TypeOK
<1>2. ASSUME NEW call \in Call, Legit(e, call), Execute(e, call)
      PROVE  /\ cf' \in World /\ made' \in [Effects -> SUBSET (Nat \cup Effects)]
             /\ \A f \in Effects : made'[f] \subseteq Nat \cup {f}
  <2>1. cf' \in World
    BY <1>2, ExecuteDoes, CfType DEF Becomes, Call, KeptCall
  <2>2. made' = [made EXCEPT ![e] = @ \cup Creates(call)]
    BY <1>2 DEF Execute
  <2>3. Creates(call) \subseteq Nat \cup {e}
    BY <1>2, CfType DEF Creates, Legit
  <2>. HIDE DEF Creates
  <2>. QED  BY <2>1, <2>2, <2>3 DEF TypeOK
<1>. QED  BY <1>1, <1>2 DEF Acts

(* A step keeps all types.                                                 *)
LEMMA TypeKept ==
    ASSUME TypeOK, IngressAssumption, NEW e \in Effects, Step(e), Acts(e), Reaches(e), LocalTyped(e), dispatch' = dispatch
    PROVE  TypeOK'
<1>1. /\ cf' \in World /\ made' \in [Effects -> SUBSET (Nat \cup Effects)]
      /\ \A f \in Effects : made'[f] \subseteq Nat \cup {f}
  BY ActsTyped
<1>2. late' \subseteq [by: Effects, call: KeptCall]
  <2>1. CASE late' = late
    BY <2>1 DEF TypeOK
  <2>2. ASSUME NEW call \in Call, call.op \notin {"configure", "connections"},
               late' = late \cup {[by |-> e, call |-> call]}
        PROVE  late' \subseteq [by: Effects, call: KeptCall]
    <3>1. call \in KeptCall
      BY <2>2 DEF Call
    <3>. QED  BY <2>2, <3>1 DEF TypeOK
  <2>. QED  BY <2>1, <2>2 DEF Reaches, Reads
<1>3. /\ Updated(pc, pc', e) /\ Updated(st, st', e) /\ Updated(outcome, outcome', e)
      /\ Updated(permit, permit', e) /\ Others(e)
  BY StepFrame
<1>4. pc'[e] \in AllLabels
  BY Operations DEF LocalTyped, AllLabels
<1>5. /\ pc' \in [Effects -> AllLabels] /\ st' \in [Effects -> LocalState] /\ outcome' \in [Effects -> Outcomes]
      /\ permit' \in [Effects -> [1..2 -> Words]]
  BY <1>3, <1>4 DEF Updated, TypeOK, LocalTyped
<1>6. owned' \subseteq Allocation
  <2>1. Allocated(e) \in Allocation
    BY DEF Allocated, Allocation, TypeOK, LocalState, Grants
  <2>2. owned' \subseteq owned \cup {Allocated(e)} /\ owned \subseteq Allocation
    BY StepFrame DEF TypeOK
  <2>. QED  BY <2>1, <2>2
<1>7. ASSUME NEW f \in Effects
      PROVE  /\ pc'[f] \in Labels(Op[f]) /\ (pc'[f] = "done") = (outcome'[f] # "none")
             /\ st'[f].todo \in Seq(StagesOf(Op[f]))
  BY <1>3 DEF Others, TypeOK, LocalTyped
<1>. QED  BY <1>1, <1>2, <1>5, <1>6, <1>7 DEF TypeOK

-----------------------------------------------------------------------------
(* Every action keeps the invariant of its own effect and of its calls.    *)

Keeps(e) ==
    /\ LocalTyped(e) /\ EffectInv(e)' /\ Evolves(e)
    /\ \A l \in late' : l.by = e => LateInv(l)'

Listed(t, stage) == \E i \in DOMAIN t : t[i] = stage

(* The stages on each list.                                                *)
LEMMA ListsHold ==
    /\ Listed(<<"tunnel">>, "tunnel") /\ Listed(<<"dns", "tunnel">>, "tunnel")
    /\ Listed(<<"dns", "tunnel">>, "dns") /\ Listed(<<"custody", "dns", "tunnel">>, "dns")
    /\ Listed(<<"custody", "dns", "tunnel">>, "tunnel")
    /\ Listed(<<"restore", "tunnel">>, "restore") /\ Listed(<<"restore", "tunnel">>, "tunnel")
    /\ Listed(<<"custody", "restore", "tunnel">>, "restore")
    /\ Listed(<<"custody", "restore", "tunnel">>, "tunnel")
    /\ Listed(<<"dns", "connections", "tunnel">>, "dns") /\ Listed(<<"dns", "connections", "tunnel">>, "tunnel")
    /\ Listed(<<"custody", "connections", "tunnel">>, "custody")
    /\ Listed(<<"custody", "connections", "tunnel">>, "tunnel")
    /\ Listed(<<"custody", "dns", "connections", "tunnel">>, "custody")
    /\ Listed(<<"custody", "dns", "connections", "tunnel">>, "dns")
    /\ Listed(<<"custody", "dns", "connections", "tunnel">>, "tunnel")
<1>1. \A x : Listed(<<x>>, x)
  BY DEF Listed
<1>2. \A x, y : Listed(<<x, y>>, x) /\ Listed(<<x, y>>, y)
  BY DEF Listed
<1>3. \A x, y, z : Listed(<<x, y, z>>, x) /\ Listed(<<x, y, z>>, y) /\ Listed(<<x, y, z>>, z)
  BY DEF Listed
<1>4. \A x, y, z, w : /\ Listed(<<x, y, z, w>>, x) /\ Listed(<<x, y, z, w>>, y)
                      /\ Listed(<<x, y, z, w>>, z) /\ Listed(<<x, y, z, w>>, w)
  BY DEF Listed
<1>. QED  BY <1>1, <1>2, <1>3, <1>4

(* The lists of each operation.                                            *)
LEMMA ListsOf ==
    /\ \A op : <<>> \in Seq(StagesOf(op))
    /\ <<"tunnel">> \in Seq(StagesOf("create")) /\ <<"dns", "tunnel">> \in Seq(StagesOf("create"))
    /\ <<"custody", "dns", "tunnel">> \in Seq(StagesOf("create"))
    /\ <<"tunnel">> \in Seq(StagesOf("rebind")) /\ <<"restore", "tunnel">> \in Seq(StagesOf("rebind"))
    /\ <<"custody", "restore", "tunnel">> \in Seq(StagesOf("rebind"))
    /\ <<"dns", "connections", "tunnel">> \in Seq(StagesOf("teardown"))
    /\ <<"custody", "dns", "connections", "tunnel">> \in Seq(StagesOf("teardown"))
    /\ <<"custody", "connections", "tunnel">> \in Seq(StagesOf("deactivate"))
BY DEF StagesOf

(* A list and its rest.                                                    *)
LEMMA TailHolds ==
    ASSUME NEW S, NEW t \in Seq(S), t # <<>>
    PROVE  /\ Tail(t) \in Seq(S) /\ Head(t) \in S /\ Listed(t, Head(t))
           /\ \A x : Listed(t, x) => x = Head(t) \/ Listed(Tail(t), x)
<1>1. Len(t) \in Nat /\ Len(t) > 0 /\ Tail(t) \in Seq(S) /\ Head(t) = t[1] /\ t[1] \in S
      /\ DOMAIN t = 1..Len(t) /\ DOMAIN Tail(t) = 1..(Len(t) - 1)
      /\ \A i \in 1..(Len(t) - 1) : Tail(t)[i] = t[i + 1]
  OBVIOUS
<1>2. ASSUME NEW x, NEW i \in DOMAIN t, t[i] = x, x # Head(t)
      PROVE  Listed(Tail(t), x)
  <2>1. i \in Nat /\ i > 1 /\ i - 1 \in 1..(Len(t) - 1)
    BY <1>1, <1>2
  <2>2. Tail(t)[i - 1] = x
    BY <1>1, <1>2, <2>1
  <2>. QED  BY <1>1, <2>1, <2>2 DEF Listed
<1>. QED  BY <1>1, <1>2 DEF Listed

(* The operation that a label belongs to.                                  *)
LEMMA LabelOps ==
    ASSUME TypeOK, IngressAssumption, NEW e \in Effects
    PROVE  /\ pc[e] \in {"observe", "observe-again", "dns", "reconcile"} => Op[e] = "create"
           /\ pc[e] \in {"update", "verify", "confirm", "restore", "restore-check"} => Op[e] = "rebind"
           /\ pc[e] = "revoke" => Op[e] = "teardown"
           /\ pc[e] \in {"still-reserved", "tunnel-absent"} => Op[e] = "deactivate"
           /\ pc[e] \in {"release", "absence"} => Op[e] = "release"
           /\ pc[e] \in {"tunnel", "configure", "token", "store"} => Op[e] \in {"create", "rebind"}
           /\ pc[e] = "reservation" => Op[e] \in {"rebind", "deactivate", "release"}
           /\ pc[e] = "cleanup" => Op[e] \in {"create", "rebind", "teardown", "deactivate"}
           /\ pc[e] # "done" => outcome[e] = "none"
<1>1. pc[e] \in Labels(Op[e]) /\ Op[e] \in Ops \cup {"none"}
  BY Operations DEF TypeOK
<1>2. pc[e] # "done" => outcome[e] = "none"
  BY DEF TypeOK
<1>. QED  BY <1>1, <1>2 DEF Labels, Ops

(* The invariant of an effect after a step, from the part of its           *)
(* operation.                                                              *)
LEMMA EffectKept ==
    ASSUME NEW e \in Effects, dispatch' = dispatch, pc'[e] # "idle", PermitInv(e)',
           Op[e] = "create" => CreateInv(e)', Op[e] = "rebind" => RebindInv(e)', Remover(e) => RemoverInv(e)'
    PROVE  EffectInv(e)'
BY DEF EffectInv, Untouched, Remover

(* A create that stopped: types.                                           *)
LEMMA StoppedTyped ==
    ASSUME TypeOK, NEW e \in Effects, Op[e] = "create", Stopped(e), st'[e] \in LocalState,
           st'[e].todo \in Seq(StagesOf(Op[e]))
    PROVE  LocalTyped(e)
BY DEF LocalTyped, Stopped, Labels, Outcomes

(* A create that stopped: its recorded unit.                               *)
LEMMA StoppedPermit ==
    ASSUME TypeOK, NEW e \in Effects, Op[e] = "create", Stopped(e), PermitInv(e), dispatch' = dispatch,
           pc[e] \notin {"idle", "store", "done"}, e \in made'[e] => e \in made[e],
           permit[e][1] = "returned" => st'[e].tun # 0 /\ st'[e].dns # 0
    PROVE  PermitInv(e)'
<1>1. outcome[e] = "none"
  BY DEF TypeOK
<1>. QED  BY <1>1 DEF PermitInv, Stopped

(* A step that names the same resources as before.                         *)
LEMMA SameEvolves ==
    ASSUME NEW e \in Effects, SameIds(e), outcome[e] = "none", Deletes(e) => Deletes(e)'
    PROVE  Evolves(e)
BY DEF Evolves, SameIds

(* The start of a cleanup: types.                                          *)
LEMMA CleansTyped ==
    ASSUME TypeOK, NEW e \in Effects, NEW stages \in Seq(StagesOf(Op[e])), Cleans(e, stages),
           Op[e] \in {"create", "rebind", "teardown", "deactivate"}, outcome[e] = "none"
    PROVE  LocalTyped(e) /\ pc'[e] = "cleanup" /\ Deletes(e)' /\ pc'[e] # "idle"
BY DEF LocalTyped, Cleans, Goes, TypeOK, Labels, Deletes

(* Cloudflare's tunnels and records, and what the effect made there, stay. *)
SameWorld(e) ==
    /\ cf'.tunnels = cf.tunnels /\ cf'.records = cf.records /\ RecordIds' = RecordIds
    /\ made[e] \subseteq made'[e] /\ Ids(e)' = Ids(e)

(* A read changes nothing.                                                 *)
LEMMA ReadsSame ==
    ASSUME Reads, NEW e
    PROVE  SameWorld(e) /\ made'[e] = made[e]
BY DEF Reads, SameWorld, Ids, RecordIds

(* The start of the cleanup of a create: what is left is on the list.      *)
LEMMA CleansCreate ==
    ASSUME TypeOK, NEW e \in Effects, Op[e] = "create", CreateInv(e), outcome[e] = "none",
           SameWorld(e), NEW stages \in Seq(StagesOf(Op[e])), Cleans(e, stages), Listed(stages, "tunnel"),
           st[e].dns # 0 => Listed(stages, "dns"), st[e].tun # 0, 0 \notin RecordIds,
           st[e].certainty # "uncertain" \/ st'[e].certainty = st[e].certainty
    PROVE  CreateInv(e)'
<1>1. pc'[e] = "cleanup" /\ outcome'[e] = "none" /\ SameIds(e) /\ st'[e].todo = stages
  BY DEF Cleans, Goes
<1>2. Pending(st[e], "tunnel")' /\ (st[e].dns # 0 => Pending(st[e], "dns")')
  BY <1>1 DEF Listed, Pending
<1>3. RecordIds' = RecordIds
  BY DEF SameWorld, RecordIds
<1>. QED  BY <1>1, <1>2, <1>3 DEF CreateInv, SameIds, SameWorld

(* The start of the cleanup of a rebind: what is left is on the list.      *)
LEMMA CleansRebind ==
    ASSUME TypeOK, NEW e \in Effects, Op[e] = "rebind", RebindInv(e), outcome[e] = "none", pc[e] # "idle",
           SameWorld(e), NEW stages \in Seq(StagesOf(Op[e])), Cleans(e, stages), Listed(stages, "tunnel"),
           Targeted(st[e].tun) => Listed(stages, "restore"), st[e].tun # 0, owned' = owned
    PROVE  RebindInv(e)'
<1>1. pc'[e] = "cleanup" /\ outcome'[e] = "none" /\ SameIds(e) /\ st'[e].todo = stages
  BY DEF Cleans, Goes
<1>2. Pending(st[e], "tunnel")' /\ (Targeted(st[e].tun) => Pending(st[e], "restore")')
  BY <1>1 DEF Listed, Pending
<1>3. Targeted(st[e].tun)' = Targeted(st[e].tun)
  BY <1>1 DEF SameWorld, Targeted, SameIds
<1>. QED  BY <1>1, <1>2, <1>3 DEF RebindInv, SameIds, SameWorld

(* The start of a cleanup records nothing.                                 *)
LEMMA CleansPermit ==
    ASSUME TypeOK, NEW e \in Effects, Op[e] = "create" \/ e \notin Invoked, NEW stages, Cleans(e, stages),
           PermitInv(e), dispatch' = dispatch,
           e \notin Invoked \/ (pc[e] \notin {"idle", "store", "done"} /\ (e \in made'[e] => e \in made[e]))
    PROVE  PermitInv(e)'
BY DEF PermitInv, Cleans, Goes, SameIds, TypeOK

(* Zero is no id.                                                          *)
LEMMA NoZero ==
    ASSUME WorldInv
    PROVE  0 \notin RecordIds /\ 0 \notin cf.tunnels
BY DEF WorldInv, FreshIds, RecordIds

LEMMA PreObserveKeeps ==
    ASSUME IngressInv, IngressAssumption, NEW e \in Effects, PreObserve(e), dispatch' = dispatch
    PROVE  Keeps(e)
<1>0. TypeOK /\ EffectInv(e) /\ \A l \in late : LateInv(l)
  BY DEF IngressInv
<1>1. Op[e] = "create" /\ outcome[e] = "none" /\ pc[e] = "observe"
  BY <1>0, LabelOps DEF PreObserve
<1>2. PreObserve(e) => /\ Reads /\ st'[e] \in LocalState /\ SameIds(e) /\ SameWork(e)
           /\ \/ Goes(e, "tunnel") /\ st'[e] = st[e]
              \/ Stopped(e)
  BY <1>0, PreObserveDoes
<1>3. CreateInv(e) /\ PermitInv(e)
  BY <1>0, <1>1 DEF EffectInv
<1>4. LocalTyped(e)
  BY <1>0, <1>1, <1>2, StoppedTyped DEF LocalTyped, Goes, TypeOK, SameWork, Labels
<1>5. CreateInv(e)'
  BY <1>0, <1>1, <1>2, <1>3 DEF CreateInv, Goes, Stopped, SameIds, Reads, Ids, Targeted, RecordIds, TypeOK, LocalState
<1>6. PermitInv(e)'
  BY <1>0, <1>1, <1>2, <1>3, StoppedPermit DEF PermitInv, Goes, SameIds, Reads
<1>7. EffectInv(e)' /\ pc'[e] # "idle"
  BY <1>1, <1>2, <1>5, <1>6, EffectKept DEF Remover, Goes, Stopped
<1>8. Evolves(e)
  BY <1>1, <1>2, <1>3, <1>7 DEF Evolves, SameIds, CreateInv, Deletes, Remover
<1>9. ASSUME NEW l \in late', l.by = e
      PROVE  FALSE
  BY <1>0, <1>1, <1>2, <1>9, NoneLost DEF Reads, Maker
<1>. QED  BY <1>4, <1>7, <1>8, <1>9 DEF Keeps

LEMMA CreateTunnelKeeps ==
    ASSUME IngressInv, IngressAssumption, NEW e \in Effects, CreateTunnel(e), dispatch' = dispatch
    PROVE  Keeps(e)
<1>0. TypeOK /\ WorldInv /\ EffectInv(e) /\ (\A l \in late : LateInv(l)) /\ \A f \in Effects : EffectInv(f)
  BY DEF IngressInv
<1>. DEFINE call == [op |-> "create_tunnel"]
<1>1. /\ Op[e] \in {"create", "rebind"} /\ outcome[e] = "none" /\ pc[e] = "tunnel"
      /\ Maker(e) /\ ~Remover(e) /\ (e \in Invoked => Op[e] = "create")
  BY <1>0, LabelOps, Operations DEF CreateTunnel, Maker, Remover
<1>2. /\ st'[e] \in LocalState
      /\ st'[e].dns = st[e].dns /\ st'[e].old = st[e].old /\ st'[e].grant = st[e].grant
      /\ st'[e].failed = st[e].failed
      /\ \/ /\ Answered(e, call, "ok") /\ Goes(e, "configure")
            /\ st'[e].tun = cf.next /\ SameNotes(e) /\ SameWork(e)
         \/ \E reply \in Replies \ {"ok"} :
               /\ Answered(e, call, reply) /\ st'[e].tun = st[e].tun
               /\ IF Op[e] = "create"
                  THEN Stopped(e) /\ SameWork(e) /\ st'[e].certainty = "uncertain"
                  ELSE Cleans(e, <<>>) /\ st'[e].upd = st[e].upd
  BY <1>0, CreateTunnelDoes
<1>3. /\ Op[e] = "create" => CreateInv(e)
      /\ Op[e] = "rebind" => RebindInv(e)
      /\ PermitInv(e)
  BY <1>0 DEF EffectInv
<1>4. st[e].tun = 0 /\ made[e] = {}
  BY <1>1, <1>3 DEF CreateInv, RebindInv
<1>5. call \in Call /\ call.op = "create_tunnel"
  BY DEF Call, KeptCall
<1>6. /\ cf.next \in Nat /\ cf.next >= 3 /\ cf.next \notin cf.tunnels /\ ~Targeted(cf.next) /\ 0 \notin cf.tunnels
      /\ cf.next # e /\ DOMAIN made = Effects
  <2>1. FreshIds
    BY <1>0 DEF WorldInv
  <2>2. \A r \in cf.records : r.target \in Nat
    BY <1>0, CfType DEF DnsRecord
  <2>3. cf.next # e
    BY <1>0, CfType DEF IngressAssumption, Grants
  <2>. QED  BY <1>0, <2>1, <2>2, <2>3, CfType DEF FreshIds, Targeted, TypeOK
<1>7. /\ cf'.records = cf.records
      /\ \/ cf' = cf /\ made' = made
         \/ cf'.tunnels = cf.tunnels \cup {cf.next} /\ made'[e] = {cf.next}
  <2>1. ASSUME Execute(e, call)
        PROVE  /\ cf'.records = cf.records
               /\ cf'.tunnels = cf.tunnels \cup {cf.next} /\ made'[e] = {cf.next}
    <3>1. /\ cf'.tunnels = cf.tunnels \cup {cf.next} /\ cf'.records = cf.records
          /\ made' = [made EXCEPT ![e] = @ \cup {cf.next}]
      BY <1>0, <1>5, <2>1, ExecuteDoes DEF Becomes
    <3>. QED  BY <1>4, <1>6, <3>1
  <2>. QED  BY <1>2, <2>1 DEF Answered
<1>8. CASE Answered(e, call, "ok") /\ Goes(e, "configure") /\ st'[e].tun = cf.next /\ SameNotes(e) /\ SameWork(e)
  <2>1. cf'.tunnels = cf.tunnels \cup {cf.next} /\ made'[e] = {cf.next} /\ late' = late
    <3>1. Execute(e, call) /\ late' = late
      BY <1>5, <1>8 DEF Answered
    <3>2. /\ cf'.tunnels = cf.tunnels \cup {cf.next} /\ made' = [made EXCEPT ![e] = @ \cup {cf.next}]
      BY <1>0, <1>5, <3>1, ExecuteDoes DEF Becomes
    <3>. QED  BY <1>4, <1>6, <3>1, <3>2
  <2>2. LocalTyped(e)
    BY <1>0, <1>1, <1>2, <1>8 DEF LocalTyped, Goes, TypeOK, SameWork, Labels
  <2>3. Op[e] = "create" => CreateInv(e)'
    <3>1. Op[e] = "create" => st[e].dns = 0
      BY <1>3, <1>4 DEF CreateInv
    <3>2. cf.next \notin RecordIds'
      BY <1>0, <1>6, <1>7 DEF RecordIds, WorldInv, FreshIds
    <3>. QED  BY <1>1, <1>2, <1>3, <1>6, <1>7, <1>8, <2>1, <3>1, <3>2 DEF CreateInv, Goes, SameNotes, Ids, Targeted
  <2>4. Op[e] = "rebind" => RebindInv(e)'
    <3>1. Op[e] = "rebind" => st[e].old < cf.next /\ st[e].old \in Nat
      BY <1>0, <1>1, <1>3, OwnedTyped DEF RebindInv
    <3>. QED BY <1>1, <1>2, <1>3, <1>4, <1>6, <1>7, <1>8, <2>1, <3>1 DEF RebindInv, Goes, SameNotes, Ids, Targeted
  <2>5. PermitInv(e)'
    BY <1>1, <1>2, <1>3, <1>4, <1>6, <1>8, <2>1 DEF PermitInv, Goes, CreateInv
  <2>6. EffectInv(e)'
    BY <1>1, <1>8, <2>3, <2>4, <2>5, EffectKept DEF Goes
  <2>7. Evolves(e)
    BY <1>1, <1>4, <1>8, <2>1 DEF Evolves, Deletes
  <2>8. ASSUME NEW l \in late', l.by = e
        PROVE  FALSE
    BY <1>0, <1>1, <2>1, <2>8, NoneLost
  <2>. QED  BY <2>2, <2>6, <2>7, <2>8 DEF Keeps
<1>9. ASSUME NEW reply \in Replies \ {"ok"}, Answered(e, call, reply), st'[e].tun = st[e].tun,
             IF Op[e] = "create" THEN Stopped(e) /\ SameWork(e) /\ st'[e].certainty = "uncertain"
             ELSE Cleans(e, <<>>) /\ st'[e].upd = st[e].upd
      PROVE  Keeps(e)
  <2>1. CASE Op[e] = "create"
    <3>1. Stopped(e) /\ st'[e].certainty = "uncertain"
      BY <1>9, <2>1
    <3>3. CreateInv(e)'
      BY <1>2, <1>3, <1>4, <1>6, <1>7, <1>9, <2>1, <3>1 DEF CreateInv, Stopped, Ids
    <3>4. PermitInv(e)'
      BY <1>1, <1>2, <1>3, <1>4, <1>6, <1>7, <1>9, <2>1, <3>1, <1>0 DEF PermitInv, Stopped, CreateInv
    <3>2. LocalTyped(e)
      BY <1>0, <1>2, <1>9, <2>1, StoppedTyped DEF SameWork, TypeOK
    <3>5. EffectInv(e)'
      BY <1>1, <2>1, <3>1, <3>3, <3>4, EffectKept DEF Stopped
    <3>6. Evolves(e)
      BY <1>1, <1>4, <1>9 DEF Evolves, Deletes
    <3>7. permit'[e][1] # "none" \/ e \notin Invoked
      BY <1>1, <1>3, <3>1 DEF PermitInv, Stopped
    <3>8. ASSUME NEW l, l = [by |-> e, call |-> call]
          PROVE  LateInv(l)'
      <4>1. l.by = e /\ l.call.op = "create_tunnel"
        BY <3>8
      <4>2. outcome'[e] \in {"unknown", "unrecorded"} /\ pc'[e] = "done"
        BY <3>1 DEF Stopped
      <4>. QED  BY <1>1, <1>4, <1>9, <3>7, <4>1, <4>2 DEF LateInv, Maker
    <3>9. ASSUME NEW l \in late', l.by = e
          PROVE  l = [by |-> e, call |-> call]
      BY <1>0, <1>1, <1>9, <3>9, NoneLost DEF Answered
    <3>. QED  BY <3>2, <3>5, <3>6, <3>8, <3>9 DEF Keeps
  <2>2. CASE Op[e] = "rebind"
    <3>1. Cleans(e, <<>>) /\ st'[e].upd = st[e].upd /\ pc'[e] = "cleanup"
      BY <1>9, <2>2 DEF Cleans, Goes
    <3>2. LocalTyped(e)
      BY <1>0, <1>1, <2>2, <3>1, ListsOf DEF LocalTyped, Cleans, Goes, TypeOK, Labels
    <3>3. RebindInv(e)'
      BY <1>1, <1>2, <1>3, <1>4, <1>6, <1>7, <1>9, <2>2, <3>1 DEF RebindInv, Cleans, Goes, Ids
    <3>4. PermitInv(e)'
      BY <1>1, <2>2 DEF PermitInv
    <3>5. EffectInv(e)'
      BY <1>1, <2>2, <3>1, <3>3, <3>4, EffectKept
    <3>6. Evolves(e)
      BY <1>1, <1>4, <1>9 DEF Evolves, Deletes
    <3>8. ASSUME NEW l, l = [by |-> e, call |-> call]
          PROVE  LateInv(l)'
      <4>1. l.by = e /\ l.call.op = "create_tunnel"
        BY <3>8
      <4>2. outcome'[e] = "none"
        BY <1>1, <3>1 DEF Cleans, Goes
      <4>. QED  BY <1>1, <1>4, <1>9, <2>2, <3>1, <4>1, <4>2 DEF LateInv, Maker
    <3>9. ASSUME NEW l \in late', l.by = e
          PROVE  l = [by |-> e, call |-> call]
      BY <1>0, <1>1, <1>9, <3>9, NoneLost DEF Answered
    <3>. QED  BY <3>2, <3>5, <3>6, <3>8, <3>9 DEF Keeps
  <2>. QED  BY <1>1, <2>1, <2>2
<1>. QED  BY <1>2, <1>8, <1>9

(* Configuring a tunnel changes nothing that is modelled, and is not       *)
(* executed late.                                                          *)
LEMMA ConfigureReads ==
    ASSUME TypeOK, NEW e \in Effects, NEW id \in Nat, NEW reply,
           Answered(e, [op |-> "configure", id |-> id], reply)
    PROVE  Reads
<1>. DEFINE call == [op |-> "configure", id |-> id]
<1>1. call \in Call /\ call.op = "configure"
  BY DEF Call
<1>2. Execute(e, call) => cf' = cf /\ made' = made
  BY <1>1, ExecuteDoes
<1>. QED  BY <1>1, <1>2 DEF Answered, Reads

LEMMA ConfigureTunnelKeeps ==
    ASSUME IngressInv, IngressAssumption, NEW e \in Effects, ConfigureTunnel(e), dispatch' = dispatch
    PROVE  Keeps(e)
<1>0. TypeOK /\ WorldInv /\ EffectInv(e) /\ (\A l \in late : LateInv(l))
  BY DEF IngressInv
<1>1. /\ Op[e] \in {"create", "rebind"} /\ outcome[e] = "none" /\ pc[e] = "configure"
      /\ Maker(e) /\ ~Remover(e) /\ (e \in Invoked => Op[e] = "create")
  BY <1>0, LabelOps, Operations DEF ConfigureTunnel, Maker, Remover
<1>2. /\ st'[e] \in LocalState /\ Reads
      /\ \/ Goes(e, IF Op[e] = "create" THEN "observe-again" ELSE "reservation") /\ st'[e] = st[e]
         \/ Cleans(e, <<"tunnel">>) /\ st'[e].upd = st[e].upd
  <2>1. st[e].tun \in Nat
    BY <1>0 DEF TypeOK, LocalState
  <2>. QED  BY <1>0, <2>1, ConfigureTunnelDoes, ConfigureReads
<1>3. /\ Op[e] = "create" => CreateInv(e)
      /\ Op[e] = "rebind" => RebindInv(e)
      /\ PermitInv(e)
  BY <1>0 DEF EffectInv
<1>4. SameWorld(e) /\ made'[e] = made[e] /\ late' = late
  BY <1>2, ReadsSame DEF Reads
<1>5. SameIds(e) /\ owned' = owned
  BY <1>2 DEF SameIds, Cleans, Goes
<1>6. Evolves(e)
  BY <1>1, <1>5, SameEvolves DEF Deletes, Remover
<1>7. ASSUME NEW l \in late', l.by = e
      PROVE  FALSE
  BY <1>0, <1>1, <1>4, <1>7, NoneLost
<1>8. CASE Goes(e, IF Op[e] = "create" THEN "observe-again" ELSE "reservation") /\ st'[e] = st[e]
  <2>1. LocalTyped(e)
    BY <1>0, <1>1, <1>2, <1>8 DEF LocalTyped, Goes, TypeOK, Labels
  <2>2. Op[e] = "create" => CreateInv(e)'
    BY <1>1, <1>3, <1>4, <1>8 DEF CreateInv, Goes, SameWorld, Targeted
  <2>3. Op[e] = "rebind" => RebindInv(e)'
    BY <1>1, <1>3, <1>4, <1>8 DEF RebindInv, Goes, SameWorld, Targeted
  <2>4. PermitInv(e)'
    BY <1>1, <1>3, <1>4, <1>8 DEF PermitInv, Goes
  <2>5. EffectInv(e)'
    BY <1>1, <1>8, <2>2, <2>3, <2>4, EffectKept DEF Goes
  <2>. QED  BY <1>6, <1>7, <2>1, <2>5 DEF Keeps
<1>9. CASE Cleans(e, <<"tunnel">>)
  <2>0. <<"tunnel">> \in Seq(StagesOf(Op[e])) /\ Listed(<<"tunnel">>, "tunnel")
    BY <1>1, ListsOf, ListsHold
  <2>1. LocalTyped(e) /\ pc'[e] # "idle"
    BY <1>0, <1>1, <1>9, <2>0, CleansTyped
  <2>2. Op[e] = "create" => CreateInv(e)'
    <3>1. Op[e] = "create" => st[e].tun # 0 /\ st[e].dns = 0 /\ st[e].certainty = "none"
      BY <1>1, <1>3 DEF CreateInv
    <3>. QED  BY <1>0, <1>1, <1>3, <1>4, <1>9, <2>0, <3>1, CleansCreate, NoZero
  <2>3. Op[e] = "rebind" => RebindInv(e)'
    <3>1. Op[e] = "rebind" => st[e].tun # 0 /\ ~Targeted(st[e].tun)
      BY <1>1, <1>3 DEF RebindInv
    <3>. QED  BY <1>0, <1>1, <1>3, <1>4, <1>5, <1>9, <2>0, <3>1, CleansRebind
  <2>4. PermitInv(e)'
    BY <1>0, <1>1, <1>3, <1>4, <1>9, CleansPermit
  <2>5. EffectInv(e)'
    BY <1>1, <2>1, <2>2, <2>3, <2>4, EffectKept
  <2>. QED  BY <1>6, <1>7, <2>1, <2>5 DEF Keeps
<1>. QED  BY <1>2, <1>8, <1>9

LEMMA ObserveAgainKeeps ==
    ASSUME IngressInv, IngressAssumption, NEW e \in Effects, ObserveAgain(e), dispatch' = dispatch
    PROVE  Keeps(e)
<1>0. TypeOK /\ WorldInv /\ EffectInv(e) /\ (\A l \in late : LateInv(l))
  BY DEF IngressInv
<1>1. Op[e] = "create" /\ outcome[e] = "none" /\ pc[e] = "observe-again" /\ Maker(e) /\ ~Remover(e)
  BY <1>0, LabelOps DEF ObserveAgain, Maker, Remover
<1>2. /\ Reads /\ st'[e] \in LocalState
      /\ \/ Goes(e, "dns") /\ st'[e] = st[e]
         \/ Cleans(e, <<"tunnel">>)
         \/ Stopped(e) /\ SameIds(e) /\ SameWork(e) /\ st'[e].certainty = "uncertain"
  BY <1>0, ObserveAgainDoes
<1>3. CreateInv(e) /\ PermitInv(e) /\ st[e].tun # 0 /\ st[e].dns = 0 /\ st[e].certainty = "none"
  BY <1>0, <1>1 DEF EffectInv, CreateInv
<1>4. SameWorld(e) /\ made'[e] = made[e] /\ late' = late
  BY <1>2, ReadsSame DEF Reads
<1>5. SameIds(e)
  BY <1>2 DEF SameIds, Cleans
<1>6. Evolves(e)
  BY <1>1, <1>5, SameEvolves DEF Deletes, Remover
<1>7. ASSUME NEW l \in late', l.by = e
      PROVE  FALSE
  BY <1>0, <1>1, <1>4, <1>7, NoneLost
<1>8. CASE Goes(e, "dns") /\ st'[e] = st[e]
  <2>1. LocalTyped(e)
    BY <1>0, <1>1, <1>2, <1>8 DEF LocalTyped, Goes, TypeOK, Labels
  <2>2. CreateInv(e)'
    BY <1>1, <1>3, <1>4, <1>8 DEF CreateInv, Goes, SameWorld, Targeted
  <2>3. PermitInv(e)'
    BY <1>1, <1>3, <1>4, <1>8 DEF PermitInv, Goes
  <2>4. EffectInv(e)'
    BY <1>1, <1>8, <2>2, <2>3, EffectKept DEF Goes
  <2>. QED  BY <1>6, <1>7, <2>1, <2>4 DEF Keeps
<1>9. CASE Cleans(e, <<"tunnel">>)
  <2>0. <<"tunnel">> \in Seq(StagesOf(Op[e])) /\ Listed(<<"tunnel">>, "tunnel")
    BY <1>1, ListsOf, ListsHold
  <2>1. LocalTyped(e) /\ pc'[e] # "idle"
    BY <1>0, <1>1, <1>9, <2>0, CleansTyped
  <2>2. CreateInv(e)'
    BY <1>0, <1>1, <1>3, <1>4, <1>9, <2>0, CleansCreate, NoZero
  <2>3. PermitInv(e)'
    BY <1>0, <1>1, <1>3, <1>4, <1>9, CleansPermit
  <2>4. EffectInv(e)'
    BY <1>1, <2>1, <2>2, <2>3, EffectKept
  <2>. QED  BY <1>6, <1>7, <2>1, <2>4 DEF Keeps
<1>10. CASE Stopped(e) /\ SameIds(e) /\ SameWork(e) /\ st'[e].certainty = "uncertain"
  <2>1. LocalTyped(e)
    BY <1>0, <1>1, <1>2, <1>10, StoppedTyped DEF SameWork, TypeOK
  <2>2. CreateInv(e)'
    BY <1>1, <1>3, <1>4, <1>10 DEF CreateInv, Stopped, SameIds, SameWorld
  <2>3. PermitInv(e)'
    BY <1>0, <1>1, <1>3, <1>4, <1>10, StoppedPermit DEF PermitInv
  <2>4. EffectInv(e)'
    BY <1>1, <1>10, <2>2, <2>3, EffectKept DEF Stopped
  <2>. QED  BY <1>6, <1>7, <2>1, <2>4 DEF Keeps
<1>. QED  BY <1>2, <1>8, <1>9, <1>10

LEMMA CreateDnsKeeps ==
    ASSUME IngressInv, IngressAssumption, NEW e \in Effects, CreateDns(e), dispatch' = dispatch
    PROVE  Keeps(e)
<1>0. TypeOK /\ WorldInv /\ EffectInv(e) /\ (\A l \in late : LateInv(l)) /\ \A f \in Effects : EffectInv(f)
  BY DEF IngressInv
<1>. DEFINE call == [op |-> "create_dns", target |-> st[e].tun]
<1>1. Op[e] = "create" /\ outcome[e] = "none" /\ pc[e] = "dns" /\ Maker(e) /\ ~Remover(e)
  BY <1>0, LabelOps DEF CreateDns, Maker, Remover
<1>2. /\ st'[e] \in LocalState /\ st'[e].tun = st[e].tun /\ st'[e].old = st[e].old
      /\ st'[e].grant = st[e].grant /\ SameWork(e)
      /\ \/ Answered(e, call, "ok") /\ Goes(e, "token") /\ st'[e].dns = cf.next /\ SameNotes(e)
         \/ \E reply \in Replies \ {"ok"} :
               /\ Answered(e, call, reply) /\ Goes(e, "reconcile") /\ st'[e].dns = st[e].dns
               /\ st'[e].certainty = "uncertain"
  BY <1>0, CreateDnsDoes
<1>3. /\ CreateInv(e) /\ PermitInv(e) /\ st[e].tun # 0 /\ st[e].dns = 0 /\ st[e].certainty = "none"
      /\ ~Targeted(st[e].tun)
  BY <1>0, <1>1 DEF EffectInv, CreateInv
<1>4. /\ cf.next \in Nat /\ cf.next # 0 /\ cf.next # st[e].tun /\ DOMAIN made = Effects /\ cf.next # e
      /\ st[e].tun \in Ids(e) /\ Ids(e) \subseteq {st[e].tun} /\ cf.next \notin Ids(e)
  <2>1. FreshIds
    BY <1>0 DEF WorldInv
  <2>2. cf.next # e /\ cf.next \in Nat
    BY <1>0, CfType DEF IngressAssumption, Grants
  <2>3. st[e].tun \in Ids(e) /\ Ids(e) \subseteq {st[e].tun, 0}
    BY <1>0, <1>1, <1>3, TunnelOfOne DEF CreateInv
  <2>. QED  BY <1>0, <2>1, <2>2, <2>3 DEF FreshIds, TypeOK
<1>5. call \in Call /\ call.op = "create_dns" /\ call.target = st[e].tun
  BY <1>0 DEF Call, KeptCall, TypeOK, LocalState
<1>6. ASSUME Execute(e, call)
      PROVE  /\ cf'.tunnels = cf.tunnels /\ cf'.records = {NewRecord(st[e].tun)}
             /\ made'[e] = made[e] \cup {cf.next} /\ Ids(e)' = {st[e].tun, cf.next}
  <2>1. /\ cf'.tunnels = cf.tunnels /\ cf'.records = {NewRecord(st[e].tun)}
        /\ made' = [made EXCEPT ![e] = @ \cup {cf.next}]
    BY <1>0, <1>5, <1>6, ExecuteDoes DEF Becomes
  <2>2. made'[e] = made[e] \cup {cf.next}
    BY <1>4, <2>1
  <2>. QED  BY <1>4, <2>1, <2>2 DEF Ids
<1>7. CASE Answered(e, call, "ok") /\ Goes(e, "token") /\ st'[e].dns = cf.next /\ SameNotes(e)
  <2>1. Execute(e, call) /\ late' = late
    BY <1>5, <1>7 DEF Answered
  <2>2. LocalTyped(e)
    BY <1>0, <1>1, <1>2, <1>7 DEF LocalTyped, Goes, TypeOK, SameWork, Labels
  <2>3. \E r \in cf'.records : r.id = cf.next /\ r.target = st[e].tun
    <3>1. NewRecord(st[e].tun) \in cf'.records
      BY <1>6, <2>1
    <3>2. NewRecord(st[e].tun).id = cf.next /\ NewRecord(st[e].tun).target = st[e].tun
      BY DEF NewRecord
    <3>. QED  BY <3>1, <3>2
  <2>4. CreateInv(e)'
    <3>1. cf'.tunnels = cf.tunnels /\ cf.next \notin cf'.tunnels /\ st[e].tun \notin RecordIds'
      BY <1>0, <1>4, <1>6, <2>1, CfType DEF RecordIds, WorldInv, FreshIds, NewRecord
    <3>. QED  BY <1>1, <1>2, <1>3, <1>4, <1>6, <1>7, <2>1, <2>3, <3>1 DEF CreateInv, Goes, SameNotes
  <2>5. PermitInv(e)'
    BY <1>1, <1>2, <1>3, <1>4, <1>6, <1>7, <2>1 DEF PermitInv, Goes
  <2>6. EffectInv(e)'
    BY <1>1, <1>7, <2>4, <2>5, EffectKept DEF Goes
  <2>7. \A r \in cf'.records : r.id = st'[e].dns
    BY <1>6, <1>7, <2>1 DEF NewRecord
  <2>8. Evolves(e)
    BY <1>1, <1>2, <1>3, <2>7 DEF Evolves, Deletes
  <2>9. ASSUME NEW l \in late', l.by = e
        PROVE  FALSE
    BY <1>0, <1>1, <2>1, <2>9, NoneLost
  <2>. QED  BY <2>2, <2>6, <2>8, <2>9 DEF Keeps
<1>8. ASSUME NEW reply \in Replies \ {"ok"}, Answered(e, call, reply), Goes(e, "reconcile"),
             st'[e].dns = st[e].dns, st'[e].certainty = "uncertain"
      PROVE  Keeps(e)
  <2>1. \/ Ids(e)' = {st[e].tun, cf.next} /\ made'[e] = made[e] \cup {cf.next}
        \/ Ids(e)' = Ids(e) /\ made'[e] = made[e]
    BY <1>6, <1>8 DEF Answered, Ids
  <2>2. LocalTyped(e)
    BY <1>0, <1>1, <1>2, <1>8 DEF LocalTyped, Goes, TypeOK, SameWork, Labels
  <2>3. st[e].tun \notin RecordIds'
    <3>1. CASE cf'.records = {NewRecord(st[e].tun)}
      BY <1>4, <3>1 DEF RecordIds, NewRecord
    <3>2. CASE cf' = cf
      BY <1>3, <3>2 DEF CreateInv, RecordIds
    <3>. QED  BY <1>6, <1>8, <3>1, <3>2 DEF Answered
  <2>4. CreateInv(e)'
    BY <1>1, <1>2, <1>3, <1>4, <1>8, <2>1, <2>3 DEF CreateInv, Goes
  <2>5. PermitInv(e)'
    BY <1>1, <1>2, <1>3, <1>4, <1>8, <2>1 DEF PermitInv, Goes
  <2>6. EffectInv(e)'
    BY <1>1, <1>8, <2>4, <2>5, EffectKept DEF Goes
  <2>7. Evolves(e)
    BY <1>1, <1>2, <1>3, <1>8 DEF Evolves, Deletes
  <2>8. ASSUME NEW l \in late', l.by = e
        PROVE  LateInv(l)'
    <3>1. l = [by |-> e, call |-> call] /\ cf' = cf /\ made' = made
      BY <1>0, <1>1, <1>8, <2>8, NoneLost DEF Answered
    <3>2. l.by = e /\ l.call.op = "create_dns" /\ l.call.target = st[e].tun
      BY <3>1
    <3>3. e \in Invoked => permit'[e][1] # "none"
      BY <1>1, <1>3, <1>8 DEF PermitInv, Goes
    <3>4. ~Targeted(st[e].tun)' /\ Ids(e)' \subseteq {st[e].tun}
      BY <1>2, <1>3, <1>4, <3>1 DEF Targeted, Ids
    <3>. QED  BY <1>1, <1>2, <1>3, <1>8, <3>2, <3>3, <3>4 DEF LateInv, Goes
  <2>. QED  BY <2>2, <2>6, <2>7, <2>8 DEF Keeps
<1>. QED  BY <1>2, <1>7, <1>8

(* A record that points to the tunnel of a create was made by it.          *)
LEMMA OwnRecord ==
    ASSUME TypeOK, WorldInv, \A f \in Effects : EffectInv(f), NEW e \in Effects, Op[e] = "create",
           NEW r \in cf.records, r.target = st[e].tun, st[e].tun # 0
    PROVE  r.id \in Ids(e) /\ r.id # st[e].tun /\ r.id # 0 /\ r.id \notin cf.tunnels
<1>1. st[e].tun \in Ids(e) /\ st[e].tun >= 3
  BY TunnelOfOne DEF WorldInv, FreshIds, Maker
<1>2. ~r.foreign /\ TargetOf(r)
  BY DEF WorldInv, RecordsKnown
<1>3. ~(dispatch.existing /\ r.target = 1)
  BY <1>1
<1>4. PICK f \in Effects :
        /\ r.target = st[f].tun /\ st[f].tun # 0
        /\ \/ Op[f] = "rebind" /\ r.id = st[f].dns
           \/ Op[f] = "create" /\ r.id \in made[f] /\ r.id # r.target
  BY <1>2, <1>3 DEF TargetOf
<1>5. f = e
  BY <1>4, TunnelOfOne DEF Maker
<1>6. r.id \in Nat
  BY CfType DEF DnsRecord
<1>. QED  BY <1>4, <1>5, <1>6 DEF Ids, WorldInv, FreshIds

LEMMA ReconcileKeeps ==
    ASSUME IngressInv, IngressAssumption, NEW e \in Effects, Reconcile(e), dispatch' = dispatch
    PROVE  Keeps(e)
<1>0. TypeOK /\ WorldInv /\ EffectInv(e) /\ (\A l \in late : LateInv(l)) /\ \A f \in Effects : EffectInv(f)
  BY DEF IngressInv
<1>1. Op[e] = "create" /\ outcome[e] = "none" /\ pc[e] = "reconcile" /\ Maker(e) /\ ~Remover(e)
  BY <1>0, LabelOps DEF Reconcile, Maker, Remover
<1>2. /\ Reads /\ st'[e] \in LocalState
      /\ \/ Stopped(e) /\ st'[e] = st[e]
         \/ /\ Goes(e, "token") /\ SameWork(e) /\ st'[e].certainty = "none"
            /\ st'[e].tun = st[e].tun /\ st'[e].old = st[e].old /\ st'[e].grant = st[e].grant
            /\ \E r \in cf.records : /\ cf.records = {r}
                                     /\ r.id = st'[e].dns /\ r.target = st[e].tun
         \/ Cleans(e, <<"tunnel">>) /\ SameNotes(e)
  BY <1>0, ReconcileDoes DEF WorldInv
<1>3. /\ CreateInv(e) /\ PermitInv(e) /\ st[e].tun # 0 /\ st[e].dns = 0 /\ st[e].certainty = "uncertain"
  BY <1>0, <1>1 DEF EffectInv, CreateInv
<1>4. SameWorld(e) /\ made'[e] = made[e] /\ late' = late /\ cf' = cf
  BY <1>2, ReadsSame DEF Reads
<1>7. ASSUME KeepsCalls(e), NEW l \in late', l.by = e
      PROVE  LateInv(l)'
  BY <1>0, <1>1, <1>4, <1>7, OwnLateKept
<1>8. CASE Stopped(e) /\ st'[e] = st[e]
  <2>1. LocalTyped(e)
    BY <1>0, <1>1, <1>2, <1>8, StoppedTyped DEF TypeOK
  <2>2. CreateInv(e)'
    BY <1>1, <1>3, <1>4, <1>8 DEF CreateInv, Stopped, SameWorld
  <2>3. PermitInv(e)'
    BY <1>0, <1>1, <1>3, <1>4, <1>8, StoppedPermit DEF PermitInv
  <2>4. EffectInv(e)'
    BY <1>1, <1>8, <2>2, <2>3, EffectKept DEF Stopped
  <2>5. Evolves(e)
    BY <1>1, <1>8, SameEvolves DEF Deletes, Remover, SameIds
  <2>6. KeepsCalls(e)
    BY <1>1, <1>3, <1>4, <1>8 DEF KeepsCalls, Stopped, SameIds, SameNotes, Deletes, Remover, SameWorld, Targeted
  <2>. QED  BY <1>7, <2>1, <2>4, <2>5, <2>6 DEF Keeps
<1>9. CASE Cleans(e, <<"tunnel">>) /\ SameNotes(e)
  <2>0. <<"tunnel">> \in Seq(StagesOf(Op[e])) /\ Listed(<<"tunnel">>, "tunnel")
    BY <1>1, ListsOf, ListsHold
  <2>1. LocalTyped(e) /\ pc'[e] = "cleanup" /\ pc'[e] # "idle"
    BY <1>0, <1>1, <1>9, <2>0, CleansTyped
  <2>2. CreateInv(e)'
    BY <1>0, <1>1, <1>3, <1>4, <1>9, <2>0, CleansCreate, NoZero DEF SameNotes
  <2>3. PermitInv(e)'
    BY <1>0, <1>1, <1>3, <1>4, <1>9, CleansPermit
  <2>4. EffectInv(e)'
    BY <1>1, <2>1, <2>2, <2>3, EffectKept
  <2>5. Evolves(e)
    BY <1>1, <1>9, SameEvolves DEF Deletes, Remover, Cleans
  <2>6. KeepsCalls(e)
    BY <1>1, <1>3, <1>4, <1>9, <2>1 DEF KeepsCalls, Cleans, Goes, SameIds, Deletes, Remover, SameWorld, Targeted
  <2>. QED  BY <1>7, <2>1, <2>4, <2>5, <2>6 DEF Keeps
<1>10. ASSUME Goes(e, "token"), SameWork(e), st'[e].certainty = "none",
              st'[e].tun = st[e].tun, st'[e].old = st[e].old, st'[e].grant = st[e].grant,
              NEW r \in cf.records, cf.records = {r}, r.id = st'[e].dns, r.target = st[e].tun
       PROVE  Keeps(e)
  <2>1. LocalTyped(e)
    BY <1>0, <1>1, <1>2, <1>10 DEF LocalTyped, Goes, TypeOK, SameWork, Labels
  <2>2. /\ st'[e].dns \in Ids(e) /\ st'[e].dns # st[e].tun /\ st'[e].dns # 0
        /\ st'[e].dns \notin cf.tunnels
    BY <1>0, <1>1, <1>3, <1>10, OwnRecord
  <2>3. Ids(e) \subseteq {st[e].tun, st'[e].dns}
    BY <1>3, <2>2 DEF CreateInv
  <2>4. CreateInv(e)'
    BY <1>1, <1>3, <1>4, <1>10, <2>2, <2>3 DEF CreateInv, Goes, SameWorld, Ids
  <2>5. PermitInv(e)'
    BY <1>1, <1>3, <1>4, <1>10, <2>2 DEF PermitInv, Goes
  <2>6. EffectInv(e)'
    BY <1>1, <1>10, <2>4, <2>5, EffectKept DEF Goes
  <2>7. \A q \in cf'.records : q.id = st'[e].dns
    BY <1>4, <1>10
  <2>8. Evolves(e)
    BY <1>1, <1>3, <1>10, <2>7 DEF Evolves, Deletes
  <2>9. ASSUME NEW l \in late', l.by = e
        PROVE  FALSE
    <3>1. LateInv(l) /\ Targeted(st[e].tun) /\ ~Deletes(e) /\ l \in late
      BY <1>0, <1>1, <1>4, <1>10, <2>9 DEF Targeted, Deletes, Remover
    <3>2. l.call.op \in {"create_tunnel", "create_dns", "update_dns", "delete_dns", "delete_tunnel", "store", "revoke"}
      BY <1>0, <3>1, LateTyped
    <3>. QED  BY <1>1, <2>9, <3>1, <3>2 DEF LateInv
  <2>. QED  BY <2>1, <2>6, <2>8, <2>9 DEF Keeps
<1>. QED  BY <1>2, <1>8, <1>9, <1>10

LEMMA TunnelTokenKeeps ==
    ASSUME IngressInv, IngressAssumption, NEW e \in Effects, TunnelToken(e), dispatch' = dispatch
    PROVE  Keeps(e)
<1>0. TypeOK /\ WorldInv /\ EffectInv(e) /\ (\A l \in late : LateInv(l))
  BY DEF IngressInv
<1>1. Op[e] = "create" /\ outcome[e] = "none" /\ pc[e] = "token" /\ Maker(e) /\ ~Remover(e)
  BY <1>0, LabelOps DEF TunnelToken, Maker, Remover
<1>2. /\ Reads /\ st'[e] \in LocalState /\ owned' = owned
      /\ \/ /\ pc'[e] = "store" /\ outcome'[e] = outcome[e] /\ st'[e] = st[e]
            /\ permit'[e] = IF e \in Invoked THEN <<"returned", "admitted">> ELSE permit[e]
         \/ Halts(e, "unrecorded") /\ permit'[e] = permit[e]
         \/ /\ Halts(e, "refused") /\ permit'[e] \in [1..2 -> Words]
            /\ permit'[e][1] = "returned" /\ permit'[e][2] = permit[e][2]
         \/ Cleans(e, <<"dns", "tunnel">>)
  BY <1>0, TunnelTokenDoes
<1>3. CreateInv(e) /\ PermitInv(e) /\ st[e].tun # 0 /\ st[e].dns # 0 /\ st[e].certainty = "none"
  BY <1>0, <1>1 DEF EffectInv, CreateInv
<1>4. SameWorld(e) /\ made'[e] = made[e] /\ late' = late
  BY <1>2, ReadsSame DEF Reads
<1>5. SameIds(e)
  BY <1>2 DEF SameIds, Cleans, Halts
<1>6. Evolves(e)
  BY <1>1, <1>5, SameEvolves DEF Deletes, Remover
<1>7. ASSUME NEW l \in late', l.by = e
      PROVE  FALSE
  BY <1>0, <1>1, <1>4, <1>7, NoneLost
<1>8. CASE /\ pc'[e] = "store" /\ outcome'[e] = outcome[e] /\ st'[e] = st[e]
           /\ permit'[e] = IF e \in Invoked THEN <<"returned", "admitted">> ELSE permit[e]
  <2>1. LocalTyped(e)
    BY <1>0, <1>1, <1>2, <1>8 DEF LocalTyped, TypeOK, Labels, Words
  <2>2. CreateInv(e)'
    BY <1>1, <1>3, <1>4, <1>8 DEF CreateInv, SameWorld
  <2>3. PermitInv(e)'
    <3>1. CASE e \in Invoked
      <4>1. permit'[e][1] = "returned" /\ permit'[e][2] = "admitted"
        BY <1>8, <3>1
      <4>. QED  BY <1>1, <1>3, <1>8, <4>1 DEF PermitInv
    <3>2. CASE e \notin Invoked
      BY <3>2 DEF PermitInv
    <3>. QED  BY <3>1, <3>2
  <2>4. EffectInv(e)'
    BY <1>1, <1>8, <2>2, <2>3, EffectKept
  <2>. QED  BY <1>6, <1>7, <2>1, <2>4 DEF Keeps
<1>9. CASE Cleans(e, <<"dns", "tunnel">>)
  <2>0. /\ <<"dns", "tunnel">> \in Seq(StagesOf(Op[e])) /\ Listed(<<"dns", "tunnel">>, "tunnel")
        /\ Listed(<<"dns", "tunnel">>, "dns")
    BY <1>1, ListsOf, ListsHold
  <2>1. LocalTyped(e) /\ pc'[e] # "idle"
    BY <1>0, <1>1, <1>9, <2>0, CleansTyped
  <2>2. CreateInv(e)'
    BY <1>0, <1>1, <1>3, <1>4, <1>9, <2>0, CleansCreate, NoZero
  <2>3. PermitInv(e)'
    BY <1>0, <1>1, <1>3, <1>4, <1>9, CleansPermit
  <2>4. EffectInv(e)'
    BY <1>1, <2>1, <2>2, <2>3, EffectKept
  <2>. QED  BY <1>6, <1>7, <2>1, <2>4 DEF Keeps
<1>10. ASSUME NEW kind \in {"unrecorded", "refused"}, Halts(e, kind), permit'[e] \in [1..2 -> Words],
              permit'[e][1] \in {permit[e][1], "returned"}, permit'[e][2] = permit[e][2]
       PROVE  Keeps(e)
  <2>1. LocalTyped(e)
    BY <1>0, <1>1, <1>2, <1>10 DEF LocalTyped, TypeOK, Labels, Halts, Outcomes
  <2>2. CreateInv(e)'
    BY <1>1, <1>3, <1>4, <1>10 DEF CreateInv, SameWorld, Halts
  <2>3. PermitInv(e)'
    BY <1>1, <1>3, <1>4, <1>10 DEF PermitInv, Halts
  <2>4. EffectInv(e)'
    BY <1>1, <1>10, <2>2, <2>3, EffectKept DEF Halts
  <2>. QED  BY <1>6, <1>7, <2>1, <2>4 DEF Keeps
<1>. QED  BY <1>0, <1>2, <1>8, <1>9, <1>10 DEF TypeOK

(* Storing a token changes neither tunnels nor records.                    *)
LEMMA StoreSame ==
    ASSUME TypeOK, IngressAssumption, NEW e \in Effects, NEW reply,
           Answered(e, [op |-> "store", grant |-> e], reply)
    PROVE  /\ SameWorld(e) /\ made'[e] \subseteq made[e] \cup {e}
           /\ reply = "ok" => e \in made'[e] /\ e \in cf'.tokens /\ late' = late
           /\ \A l \in late' : l \in late \/ l = [by |-> e, call |-> [op |-> "store", grant |-> e]]
<1>. DEFINE call == [op |-> "store", grant |-> e]
<1>1. call \in Call /\ call.op = "store" /\ call.grant = e
  BY DEF Call, KeptCall, Grants
<1>2. e \notin Nat /\ DOMAIN made = Effects
  BY DEF IngressAssumption, Grants, TypeOK
<1>3. ASSUME Execute(e, call)
      PROVE  SameWorld(e) /\ made'[e] = made[e] \cup {e} /\ e \in cf'.tokens
  <2>1. /\ cf'.tunnels = cf.tunnels /\ cf'.records = cf.records /\ e \in cf'.tokens
        /\ made' = [made EXCEPT ![e] = @ \cup {e}]
    BY <1>1, <1>3, ExecuteDoes DEF Becomes
  <2>2. made'[e] = made[e] \cup {e}
    BY <1>2, <2>1
  <2>. QED  BY <1>2, <2>1, <2>2 DEF SameWorld, Ids, RecordIds
<1>4. CASE Execute(e, call) /\ late' = late
  BY <1>3, <1>4
<1>5. CASE reply # "ok" /\ cf' = cf /\ made' = made /\ late' \subseteq late \cup {[by |-> e, call |-> call]}
  BY <1>5 DEF SameWorld, Ids, RecordIds
<1>. QED  BY <1>4, <1>5 DEF Answered

LEMMA StoreTokenKeeps ==
    ASSUME IngressInv, IngressAssumption, NEW e \in Effects, StoreToken(e), dispatch' = dispatch
    PROVE  Keeps(e)
<1>0. TypeOK /\ WorldInv /\ EffectInv(e) /\ (\A l \in late : LateInv(l))
  BY DEF IngressInv
<1>. DEFINE call == [op |-> "store", grant |-> e]
<1>1. Op[e] = "create" /\ outcome[e] = "none" /\ pc[e] = "store" /\ Maker(e) /\ ~Remover(e)
  BY <1>0, LabelOps DEF StoreToken, Maker, Remover
<1>2. /\ st'[e] \in LocalState /\ permit'[e] \in [1..2 -> Words] /\ permit'[e][1] = permit[e][1]
      /\ \/ /\ \E reply : Answered(e, call, reply)
            /\ Halts(e, "succeeded") \/ Halts(e, "unrecorded") \/ Halts(e, "unknown")
            /\ permit'[e][2] \in {permit[e][2], "returned", "unknown"}
            /\ outcome'[e] = "succeeded" => late' = late
         \/ /\ \E reply : Answered(e, call, reply)
            /\ e \notin Invoked /\ Cleans(e, <<"custody", "dns", "tunnel">>)
  BY <1>0, StoreTokenDoes DEF Answered, Halts
<1>3. CreateInv(e) /\ PermitInv(e) /\ st[e].tun # 0 /\ st[e].dns # 0 /\ st[e].certainty = "none"
  BY <1>0, <1>1 DEF EffectInv, CreateInv
<1>4. /\ SameWorld(e) /\ made'[e] \subseteq made[e] \cup {e}
      /\ \A l \in late' : l \in late \/ l = [by |-> e, call |-> call]
  BY <1>0, <1>2, StoreSame
<1>5. SameIds(e)
  BY <1>2 DEF SameIds, Cleans, Halts
<1>6. Evolves(e)
  BY <1>1, <1>5, SameEvolves DEF Deletes, Remover
<1>7. ASSUME NEW l \in late', l.by = e, Deletes(e)', e \in Invoked => permit'[e][2] # "none" /\ permit'[e][1] # "none",
             pc'[e] # "idle"
      PROVE  LateInv(l)'
  <2>1. l = [by |-> e, call |-> call]
    BY <1>0, <1>1, <1>4, <1>7, NoneLost
  <2>2. l.by = e /\ l.call.op = "store" /\ l.call.grant = e
    BY <2>1
  <2>. QED  BY <1>1, <1>7, <2>2 DEF LateInv, Maker
<1>8. e \in Invoked => permit[e][2] # "none" /\ permit[e][1] = "returned"
  BY <1>1, <1>3 DEF PermitInv
<1>9. CASE e \notin Invoked /\ Cleans(e, <<"custody", "dns", "tunnel">>)
  <2>0. /\ <<"custody", "dns", "tunnel">> \in Seq(StagesOf(Op[e]))
        /\ Listed(<<"custody", "dns", "tunnel">>, "tunnel") /\ Listed(<<"custody", "dns", "tunnel">>, "dns")
    BY <1>1, ListsOf, ListsHold
  <2>1. LocalTyped(e) /\ pc'[e] # "idle" /\ Deletes(e)'
    BY <1>0, <1>1, <1>9, <2>0, CleansTyped
  <2>2. CreateInv(e)'
    BY <1>0, <1>1, <1>3, <1>4, <1>9, <2>0, CleansCreate, NoZero
  <2>3. PermitInv(e)'
    BY <1>9 DEF PermitInv
  <2>4. EffectInv(e)'
    BY <1>1, <2>1, <2>2, <2>3, EffectKept
  <2>. QED  BY <1>6, <1>7, <1>9, <2>1, <2>4 DEF Keeps
<1>10. ASSUME NEW kind \in {"succeeded", "unrecorded", "unknown"}, Halts(e, kind),
              permit'[e][2] \in {permit[e][2], "returned", "unknown"}, outcome'[e] = "succeeded" => late' = late
       PROVE  Keeps(e)
  <2>1. LocalTyped(e)
    BY <1>0, <1>1, <1>2, <1>10 DEF LocalTyped, TypeOK, Labels, Halts, Outcomes
  <2>2. CreateInv(e)'
    BY <1>1, <1>3, <1>4, <1>10 DEF CreateInv, SameWorld, Halts
  <2>3. PermitInv(e)'
    BY <1>1, <1>2, <1>3, <1>8, <1>10 DEF PermitInv, Halts
  <2>4. EffectInv(e)'
    BY <1>1, <1>10, <2>2, <2>3, EffectKept DEF Halts
  <2>5. CASE kind = "succeeded"
    <3>1. ASSUME NEW l \in late', l.by = e
          PROVE  FALSE
      BY <1>0, <1>1, <1>10, <2>5, <3>1, NoneLost DEF Halts
    <3>. QED  BY <1>6, <2>1, <2>4, <3>1 DEF Keeps
  <2>6. CASE kind # "succeeded"
    <3>1. Deletes(e)' /\ pc'[e] # "idle" /\ (e \in Invoked => permit'[e][2] # "none" /\ permit'[e][1] # "none")
      BY <1>2, <1>8, <1>10, <2>6 DEF Deletes, Halts
    <3>. QED  BY <1>6, <1>7, <2>1, <2>4, <3>1 DEF Keeps
  <2>. QED  BY <2>5, <2>6
<1>. QED  BY <1>2, <1>9, <1>10

(* Without a port nothing is recorded.                                     *)
LEMMA RebindPermit ==
    ASSUME TypeOK, IngressAssumption, NEW e \in Effects, Op[e] \notin {"create", "teardown"}, dispatch' = dispatch
    PROVE  PermitInv(e)' /\ e \notin Invoked
BY Operations DEF PermitInv

(* A rebind that goes to its cleanup has what is left on its list.         *)
LEMMA RebindCleans ==
    ASSUME TypeOK, IngressAssumption, NEW e \in Effects, Op[e] = "rebind", RebindInv(e), outcome[e] = "none",
           pc[e] # "idle", dispatch' = dispatch, SameWorld(e), st[e].tun # 0,
           NEW stages \in {<<"tunnel">>, <<"restore", "tunnel">>, <<"custody", "restore", "tunnel">>},
           Cleans(e, stages), stages = <<"tunnel">> => ~Targeted(st[e].tun)
    PROVE  LocalTyped(e) /\ EffectInv(e)' /\ Deletes(e)'
<1>1. /\ stages \in Seq(StagesOf(Op[e])) /\ Listed(stages, "tunnel")
      /\ stages # <<"tunnel">> => Listed(stages, "restore")
  BY ListsOf, ListsHold
<1>2. LocalTyped(e) /\ Deletes(e)' /\ pc'[e] # "idle"
  BY <1>1, CleansTyped
<1>3. RebindInv(e)'
  <2>1. owned' = owned
    BY DEF Cleans, Goes
  <2>. QED  BY <1>1, <2>1, CleansRebind
<1>. QED  BY <1>2, <1>3, EffectKept, RebindPermit DEF Remover

LEMMA RebindObservesKeeps ==
    ASSUME IngressInv, IngressAssumption, NEW e \in Effects, RebindObserves(e), dispatch' = dispatch
    PROVE  Keeps(e)
<1>0. TypeOK /\ WorldInv /\ EffectInv(e) /\ (\A l \in late : LateInv(l))
  BY DEF IngressInv
<1>1. /\ Op[e] = "rebind" /\ outcome[e] = "none" /\ pc[e] \in {"reservation", "verify"}
      /\ Maker(e) /\ ~Remover(e)
  BY <1>0, LabelOps DEF RebindObserves, Maker, Remover
<1>2. /\ Reads /\ st'[e] \in LocalState
      /\ \/ pc[e] = "reservation" /\ Goes(e, "update") /\ st'[e] = st[e]
         \/ pc[e] = "verify" /\ Goes(e, "token") /\ st'[e] = st[e]
         \/ Cleans(e, IF pc[e] = "reservation" THEN <<"tunnel">> ELSE <<"restore", "tunnel">>)
  BY <1>0, RebindObservesDoes
<1>3. RebindInv(e) /\ st[e].tun # 0 /\ (pc[e] = "reservation" => ~Targeted(st[e].tun))
  BY <1>0, <1>1 DEF EffectInv, RebindInv
<1>4. SameWorld(e) /\ made'[e] = made[e] /\ late' = late
  BY <1>2, ReadsSame DEF Reads
<1>5. SameIds(e)
  BY <1>2 DEF SameIds, Cleans
<1>6. Evolves(e)
  BY <1>1, <1>5, SameEvolves DEF Deletes, Remover
<1>7. ASSUME NEW l \in late', l.by = e
      PROVE  FALSE
  BY <1>0, <1>1, <1>4, <1>7, NoneLost
<1>8. ASSUME NEW label \in {"update", "token"}, Goes(e, label), st'[e] = st[e],
             label = "update" => pc[e] = "reservation"
      PROVE  Keeps(e)
  <2>1. LocalTyped(e)
    BY <1>0, <1>1, <1>2, <1>8 DEF LocalTyped, Goes, TypeOK, Labels
  <2>2. RebindInv(e)'
    BY <1>1, <1>3, <1>4, <1>8 DEF RebindInv, Goes, SameWorld, Targeted
  <2>3. EffectInv(e)'
    BY <1>0, <1>1, <1>8, <2>2, EffectKept, RebindPermit DEF Goes
  <2>. QED  BY <1>6, <1>7, <2>1, <2>3 DEF Keeps
<1>9. CASE Cleans(e, IF pc[e] = "reservation" THEN <<"tunnel">> ELSE <<"restore", "tunnel">>)
  <2>1. CASE pc[e] = "reservation"
    <3>1. Cleans(e, <<"tunnel">>)
      BY <1>9, <2>1
    <3>. QED  BY <1>0, <1>1, <1>3, <1>4, <1>6, <1>7, <2>1, <3>1, RebindCleans DEF Keeps
  <2>2. CASE pc[e] = "verify"
    <3>1. Cleans(e, <<"restore", "tunnel">>) /\ <<"restore", "tunnel">> # <<"tunnel">>
      BY <1>9, <2>2
    <3>. QED  BY <1>0, <1>1, <1>3, <1>4, <1>6, <1>7, <2>2, <3>1, RebindCleans DEF Keeps
  <2>. QED  BY <1>1, <2>1, <2>2
<1>. QED  BY <1>2, <1>8, <1>9

LEMMA UpdateDnsKeeps ==
    ASSUME IngressInv, IngressAssumption, NEW e \in Effects, UpdateDns(e), dispatch' = dispatch
    PROVE  Keeps(e)
<1>0. TypeOK /\ WorldInv /\ EffectInv(e) /\ (\A l \in late : LateInv(l))
  BY DEF IngressInv
<1>. DEFINE call == [op |-> "update_dns", id |-> st[e].dns, target |-> st[e].tun]
<1>1. Op[e] = "rebind" /\ outcome[e] = "none" /\ pc[e] = "update" /\ Maker(e) /\ ~Remover(e)
  BY <1>0, LabelOps DEF UpdateDns, Maker, Remover
<1>2. PICK reply \in Replies :
        /\ st'[e] \in LocalState /\ SameIds(e) /\ st'[e].upd /\ st'[e].failed = st[e].failed
        /\ Answered(e, call, reply) /\ st'[e].err = reply
        /\ IF reply = "ok" THEN Goes(e, "verify") /\ st'[e].todo = st[e].todo
           ELSE Cleans(e, <<"restore", "tunnel">>)
  BY <1>0, UpdateDnsDoes
<1>3. RebindInv(e) /\ st[e].tun # 0
  BY <1>0, <1>1 DEF EffectInv, RebindInv
<1>4. /\ cf'.tunnels = cf.tunnels /\ made' = made
      /\ \A l \in late' : l \in late \/ (l = [by |-> e, call |-> call] /\ reply = "transport")
  <2>1. call \in Call /\ call.op = "update_dns"
    BY <1>0 DEF Call, KeptCall, TypeOK, LocalState
  <2>2. Execute(e, call) => cf'.tunnels = cf.tunnels /\ made' = made
    BY <1>0, <2>1, ExecuteDoes DEF Becomes
  <2>. QED  BY <1>2, <2>2 DEF Answered
<1>5. Evolves(e)
  BY <1>1, <1>2, SameEvolves DEF Deletes, Remover
<1>6. CASE reply = "ok"
  <2>0. Goes(e, "verify")
    BY <1>2, <1>6
  <2>1. st'[e].todo \in Seq(StagesOf(Op[e]))
    BY <1>0, <1>2, <1>6 DEF TypeOK
  <2>2. LocalTyped(e)
    BY <1>0, <1>1, <1>2, <2>0, <2>1 DEF LocalTyped, Goes, TypeOK, Labels
  <2>3. RebindInv(e)'
    BY <1>1, <1>2, <1>3, <1>4, <2>0 DEF RebindInv, Goes, SameIds, Ids
  <2>4. EffectInv(e)'
    BY <1>0, <1>1, <2>0, <2>3, EffectKept, RebindPermit DEF Goes
  <2>5. ASSUME NEW l \in late', l.by = e
        PROVE  FALSE
    BY <1>0, <1>1, <1>4, <1>6, <2>5, NoneLost
  <2>. QED  BY <1>5, <2>2, <2>4, <2>5 DEF Keeps
<1>7. CASE reply # "ok"
  <2>0. /\ Cleans(e, <<"restore", "tunnel">>) /\ <<"restore", "tunnel">> \in Seq(StagesOf(Op[e]))
        /\ Listed(<<"restore", "tunnel">>, "restore") /\ Listed(<<"restore", "tunnel">>, "tunnel")
    BY <1>1, <1>2, <1>7, ListsOf, ListsHold
  <2>1. LocalTyped(e) /\ pc'[e] = "cleanup" /\ Deletes(e)' /\ outcome'[e] = "none" /\ owned' = owned
    BY <1>0, <1>1, <2>0, CleansTyped DEF Cleans, Goes
  <2>2. Pending(st[e], "tunnel")' /\ Pending(st[e], "restore")'
    BY <2>0 DEF Pending, Cleans, Listed
  <2>3. RebindInv(e)'
    BY <1>1, <1>2, <1>3, <1>4, <2>1, <2>2 DEF RebindInv, SameIds, Ids
  <2>4. EffectInv(e)'
    BY <1>0, <1>1, <2>1, <2>3, EffectKept, RebindPermit
  <2>5. ASSUME NEW l \in late', l.by = e
        PROVE  LateInv(l)'
    <3>1. l = [by |-> e, call |-> call] /\ reply = "transport"
      BY <1>0, <1>1, <1>4, <2>5, NoneLost
    <3>2. l.by = e /\ l.call.op = "update_dns" /\ l.call.id = st[e].dns /\ l.call.target = st[e].tun
      BY <3>1
    <3>. QED  BY <1>0, <1>1, <1>2, <1>3, <2>1, <3>1, <3>2, RebindPermit DEF LateInv, SameIds
  <2>. QED  BY <1>5, <2>1, <2>4, <2>5 DEF Keeps
<1>. QED  BY <1>6, <1>7

LEMMA RebindTokenKeeps ==
    ASSUME IngressInv, IngressAssumption, NEW e \in Effects, RebindToken(e), dispatch' = dispatch
    PROVE  Keeps(e)
<1>0. TypeOK /\ WorldInv /\ EffectInv(e) /\ (\A l \in late : LateInv(l))
  BY DEF IngressInv
<1>1. Op[e] = "rebind" /\ outcome[e] = "none" /\ pc[e] = "token" /\ Maker(e) /\ ~Remover(e)
  BY <1>0, LabelOps DEF RebindToken, Maker, Remover
<1>2. /\ Reads /\ st'[e] \in LocalState
      /\ \/ Goes(e, "store") /\ st'[e] = st[e]
         \/ Cleans(e, <<"restore", "tunnel">>)
  BY <1>0, RebindTokenDoes
<1>3. RebindInv(e) /\ st[e].tun # 0
  BY <1>0, <1>1 DEF EffectInv, RebindInv
<1>4. SameWorld(e) /\ made'[e] = made[e] /\ late' = late
  BY <1>2, ReadsSame DEF Reads
<1>5. SameIds(e)
  BY <1>2 DEF SameIds, Cleans
<1>6. Evolves(e)
  BY <1>1, <1>5, SameEvolves DEF Deletes, Remover
<1>7. ASSUME NEW l \in late', l.by = e
      PROVE  FALSE
  BY <1>0, <1>1, <1>4, <1>7, NoneLost
<1>8. CASE Goes(e, "store") /\ st'[e] = st[e]
  <2>1. LocalTyped(e)
    BY <1>0, <1>1, <1>2, <1>8 DEF LocalTyped, Goes, TypeOK, Labels
  <2>2. RebindInv(e)'
    BY <1>1, <1>3, <1>4, <1>8 DEF RebindInv, Goes, SameWorld
  <2>3. EffectInv(e)'
    BY <1>0, <1>1, <1>8, <2>2, EffectKept, RebindPermit DEF Goes
  <2>. QED  BY <1>6, <1>7, <2>1, <2>3 DEF Keeps
<1>9. CASE Cleans(e, <<"restore", "tunnel">>)
  <2>1. <<"restore", "tunnel">> # <<"tunnel">>
    OBVIOUS
  <2>. QED  BY <1>0, <1>1, <1>3, <1>4, <1>6, <1>7, <1>9, <2>1, RebindCleans DEF Keeps
<1>. QED  BY <1>2, <1>8, <1>9

LEMMA RebindStoresKeeps ==
    ASSUME IngressInv, IngressAssumption, NEW e \in Effects, RebindStores(e), dispatch' = dispatch
    PROVE  Keeps(e)
<1>0. TypeOK /\ WorldInv /\ EffectInv(e) /\ (\A l \in late : LateInv(l))
  BY DEF IngressInv
<1>. DEFINE call == [op |-> "store", grant |-> e]
<1>1. Op[e] = "rebind" /\ outcome[e] = "none" /\ pc[e] = "store" /\ Maker(e) /\ ~Remover(e)
  BY <1>0, LabelOps DEF RebindStores, Maker, Remover
<1>2. /\ st'[e] \in LocalState
      /\ \/ Answered(e, call, "ok") /\ Goes(e, "confirm") /\ st'[e] = st[e]
         \/ /\ \E reply \in Replies \ {"ok"} : Answered(e, call, reply)
            /\ Cleans(e, <<"custody", "restore", "tunnel">>)
  BY <1>0, RebindStoresDoes
<1>3. RebindInv(e) /\ st[e].tun # 0
  BY <1>0, <1>1 DEF EffectInv, RebindInv
<1>4. SameWorld(e) /\ \A l \in late' : l \in late \/ l = [by |-> e, call |-> call]
  BY <1>0, <1>2, StoreSame
<1>5. SameIds(e)
  BY <1>2 DEF SameIds, Cleans
<1>6. Evolves(e)
  BY <1>1, <1>5, SameEvolves DEF Deletes, Remover
<1>7. CASE Answered(e, call, "ok") /\ Goes(e, "confirm") /\ st'[e] = st[e]
  <2>1. LocalTyped(e)
    BY <1>0, <1>1, <1>2, <1>7 DEF LocalTyped, Goes, TypeOK, Labels
  <2>2. e \in made'[e] /\ e \in cf'.tokens /\ late' = late
    BY <1>0, <1>7, StoreSame
  <2>3. RebindInv(e)'
    BY <1>1, <1>3, <1>4, <1>7, <2>2 DEF RebindInv, Goes, SameWorld
  <2>4. EffectInv(e)'
    BY <1>0, <1>1, <1>7, <2>3, EffectKept, RebindPermit DEF Goes
  <2>5. ASSUME NEW l \in late', l.by = e
        PROVE  FALSE
    BY <1>0, <1>1, <2>2, <2>5, NoneLost
  <2>. QED  BY <1>6, <2>1, <2>4, <2>5 DEF Keeps
<1>8. CASE Cleans(e, <<"custody", "restore", "tunnel">>)
  <2>1. <<"custody", "restore", "tunnel">> # <<"tunnel">>
    OBVIOUS
  <2>2. LocalTyped(e) /\ EffectInv(e)' /\ Deletes(e)'
    BY <1>0, <1>1, <1>3, <1>4, <1>8, <2>1, RebindCleans
  <2>3. ASSUME NEW l \in late', l.by = e
        PROVE  LateInv(l)'
    <3>1. l = [by |-> e, call |-> call]
      BY <1>0, <1>1, <1>4, <2>3, NoneLost
    <3>2. l.by = e /\ l.call.op = "store" /\ l.call.grant = e /\ pc'[e] # "idle"
      BY <1>8, <3>1 DEF Cleans, Goes
    <3>. QED  BY <1>0, <1>1, <2>2, <3>2, RebindPermit DEF LateInv, Maker
  <2>. QED  BY <1>6, <2>2, <2>3 DEF Keeps
<1>. QED  BY <1>2, <1>7, <1>8

LEMMA RebindConfirmsKeeps ==
    ASSUME IngressInv, IngressAssumption, NEW e \in Effects, RebindConfirms(e), dispatch' = dispatch
    PROVE  Keeps(e)
<1>0. TypeOK /\ WorldInv /\ EffectInv(e) /\ (\A l \in late : LateInv(l))
  BY DEF IngressInv
<1>1. Op[e] = "rebind" /\ outcome[e] = "none" /\ pc[e] = "confirm" /\ Maker(e) /\ ~Remover(e)
  BY <1>0, LabelOps DEF RebindConfirms, Maker, Remover
<1>2. /\ Reads /\ st'[e] \in LocalState
      /\ \/ /\ Halts(e, "succeeded") /\ permit'[e] = permit[e] /\ owned' = owned \cup {Allocated(e)}
         \/ Cleans(e, <<"custody", "restore", "tunnel">>)
  BY <1>0, RebindConfirmsDoes
<1>3. RebindInv(e) /\ st[e].tun # 0
  BY <1>0, <1>1 DEF EffectInv, RebindInv
<1>4. SameWorld(e) /\ made'[e] = made[e] /\ late' = late
  BY <1>2, ReadsSame DEF Reads
<1>5. SameIds(e)
  BY <1>2 DEF SameIds, Cleans, Halts
<1>6. Evolves(e)
  BY <1>1, <1>5, SameEvolves DEF Deletes, Remover
<1>7. ASSUME NEW l \in late', l.by = e
      PROVE  FALSE
  BY <1>0, <1>1, <1>4, <1>7, NoneLost
<1>8. CASE Halts(e, "succeeded") /\ permit'[e] = permit[e] /\ owned' = owned \cup {Allocated(e)}
  <2>1. LocalTyped(e)
    BY <1>0, <1>1, <1>2, <1>8 DEF LocalTyped, Halts, TypeOK, Labels, Outcomes
  <2>2. RebindInv(e)'
    BY <1>1, <1>3, <1>4, <1>8 DEF RebindInv, Halts, SameWorld
  <2>3. EffectInv(e)'
    BY <1>0, <1>1, <1>8, <2>2, EffectKept, RebindPermit DEF Halts
  <2>. QED  BY <1>6, <1>7, <2>1, <2>3 DEF Keeps
<1>9. CASE Cleans(e, <<"custody", "restore", "tunnel">>)
  <2>1. <<"custody", "restore", "tunnel">> # <<"tunnel">>
    OBVIOUS
  <2>. QED  BY <1>0, <1>1, <1>3, <1>4, <1>6, <1>7, <1>9, <2>1, RebindCleans DEF Keeps
<1>. QED  BY <1>2, <1>8, <1>9

(* A cleanup stage deletes; it is off the list afterwards, and then either *)
(* named as failed or its resource is gone.                                *)
StageDone(e) ==
    /\ cf'.tunnels \subseteq cf.tunnels /\ cf'.records \subseteq cf.records
    /\ cf'.tokens \subseteq cf.tokens /\ made' = made
    /\ Pending(st[e], "restore") => Pending(st[e], "restore")'
    /\ \A stage \in {"custody", "dns", "tunnel"} :
            Pending(st[e], stage) => Pending(st[e], stage)' \/ Gone(e, stage)'

(* A stage that was attempted has removed its resource or is named as      *)
(* failed, and leaves at most its own call under way.                      *)
LEMMA StageGone ==
    ASSUME TypeOK, IngressAssumption, NEW e \in Effects, CleanupStage(e)
    PROVE  /\ StageDone(e)
           /\ \A l \in late' : \/ l \in late
                               \/ \E stage \in {"custody", "dns", "tunnel"} :
                                    /\ stage \in StagesOf(Op[e])
                                    /\ l = [by |-> e, call |-> StageCall(e, stage)]
<1>. DEFINE stage == Head(st[e].todo)
            call == StageCall(e, stage)
<1>1. PICK reply \in Replies :
        /\ pc[e] = "cleanup" /\ st[e].todo # <<>> /\ stage # "restore"
        /\ SameIds(e) /\ st'[e].todo = Tail(st[e].todo)
        /\ Answered(e, call, reply)
        /\ st'[e].failed = IF reply # "ok" THEN st[e].failed \cup {stage} ELSE st[e].failed
  BY CleanupStageDoes
<1>2. /\ stage \in StagesOf(Op[e]) /\ stage \in Stages
      /\ \A x : Listed(st[e].todo, x) => x = stage \/ Listed(Tail(st[e].todo), x)
  <2>1. st[e].todo \in Seq(StagesOf(Op[e])) /\ st[e].todo \in Seq(Stages)
    BY DEF TypeOK, LocalState, StageLists
  <2>. QED  BY <1>1, <2>1, TailHolds
<1>3. \A x : Pending(st[e], x) => Pending(st[e], x)' \/ (x = stage /\ reply = "ok")
  <2>. HIDE DEF stage
  <2>. QED  BY <1>1, <1>2 DEF Pending, Listed
<1>4. /\ stage = "custody" => call = [op |-> "revoke", grant |-> st[e].grant]
      /\ stage = "dns" => call = [op |-> "delete_dns", id |-> st[e].dns]
      /\ stage = "connections" => call = [op |-> "connections", id |-> st[e].tun]
      /\ stage = "tunnel" => call = [op |-> "delete_tunnel", id |-> st[e].tun]
      /\ stage \in {"custody", "dns", "connections", "tunnel"}
  BY <1>1, <1>2 DEF StageCall, Stages
<1>5. call \in Call
  BY <1>4 DEF Call, KeptCall, TypeOK, LocalState
<1>. HIDE DEF call, stage
<1>6. ASSUME Execute(e, call)
      PROVE  /\ cf'.tunnels \subseteq cf.tunnels /\ cf'.records \subseteq cf.records
             /\ cf'.tokens \subseteq cf.tokens /\ made' = made
             /\ \A x \in {"custody", "dns", "tunnel"} : x = stage => Gone(e, x)'
  <2>1. CASE stage = "custody"
    <3>1. call.op = "revoke" /\ call.grant = st[e].grant
      BY <1>4, <2>1
    <3>2. Becomes(cf.tunnels, cf.records, cf.tokens \ {st[e].grant}, cf.next) /\ made' = made
      BY <1>5, <1>6, <3>1, ExecuteDoes
    <3>. QED  BY <1>1, <2>1, <3>2 DEF Gone, Becomes, SameIds
  <2>2. CASE stage = "dns"
    <3>1. call.op = "delete_dns" /\ call.id = st[e].dns
      BY <1>4, <2>2
    <3>2. Becomes(cf.tunnels, cf.records \ RecordsWith(st[e].dns), cf.tokens, cf.next) /\ made' = made
      BY <1>5, <1>6, <3>1, ExecuteDoes
    <3>. QED  BY <1>1, <2>2, <3>2 DEF Gone, Becomes, SameIds, RecordsWith
  <2>3. CASE stage = "connections"
    <3>1. call.op = "connections"
      BY <1>4, <2>3
    <3>. QED  BY <1>5, <1>6, <2>3, <3>1, ExecuteDoes
  <2>4. CASE stage = "tunnel"
    <3>1. call.op = "delete_tunnel" /\ call.id = st[e].tun
      BY <1>4, <2>4
    <3>2. Becomes(cf.tunnels \ {st[e].tun}, cf.records, cf.tokens, cf.next) /\ made' = made
      BY <1>5, <1>6, <3>1, ExecuteDoes
    <3>. QED  BY <1>1, <2>4, <3>2 DEF Gone, Becomes, SameIds
  <2>. QED  BY <1>4, <2>1, <2>2, <2>3, <2>4
<1>7. StageDone(e)
  <2>1. CASE Execute(e, call)
    BY <1>1, <1>3, <1>6, <2>1 DEF StageDone
  <2>2. CASE cf' = cf /\ made' = made /\ reply # "ok"
    BY <1>3, <2>2 DEF StageDone
  <2>. QED  BY <1>1, <2>1, <2>2 DEF Answered
<1>8. ASSUME NEW l \in late', l \notin late
      PROVE  stage \in {"custody", "dns", "tunnel"} /\ l = [by |-> e, call |-> call]
  <2>1. l = [by |-> e, call |-> call] /\ call.op # "connections"
    BY <1>1, <1>8 DEF Answered
  <2>. QED  BY <1>4, <2>1
<1>. QED  BY <1>2, <1>7, <1>8 DEF call

LEMMA CleanupStageKeeps ==
    ASSUME IngressInv, IngressAssumption, NEW e \in Effects, CleanupStage(e), dispatch' = dispatch
    PROVE  Keeps(e)
<1>0. TypeOK /\ WorldInv /\ EffectInv(e) /\ (\A l \in late : LateInv(l))
  BY DEF IngressInv
<1>1. /\ Op[e] \in {"create", "rebind", "teardown", "deactivate"} /\ outcome[e] = "none" /\ pc[e] = "cleanup"
      /\ Deletes(e)
  BY <1>0, LabelOps DEF CleanupStage, Deletes
<1>2. /\ st[e].todo # <<>> /\ st'[e] \in LocalState /\ Goes(e, "cleanup") /\ SameIds(e) /\ SameNotes(e)
      /\ st'[e].todo = Tail(st[e].todo)
  BY <1>0, CleanupStageDoes
<1>3. StageDone(e)
  BY <1>0, StageGone
<1>4. LocalTyped(e) /\ Deletes(e)'
  <2>1. Tail(st[e].todo) \in Seq(StagesOf(Op[e]))
    BY <1>0, <1>2, TailHolds DEF TypeOK
  <2>. QED  BY <1>0, <1>1, <1>2, <2>1 DEF LocalTyped, Goes, TypeOK, Labels, Deletes
<1>5. Evolves(e)
  BY <1>1, <1>2, <1>4, SameEvolves
<1>6. Op[e] = "create" => CreateInv(e)'
  <2>. SUFFICES ASSUME Op[e] = "create"
                PROVE  CreateInv(e)'
    OBVIOUS
  <2>1. CreateInv(e)
    BY <1>0 DEF EffectInv
  <2>2. RecordIds' \subseteq RecordIds /\ Ids(e)' = Ids(e) /\ made'[e] = made[e]
    BY <1>3 DEF StageDone, RecordIds, Ids
  <2>3. Gone(e, "tunnel")' => st[e].tun \notin cf'.tunnels
    BY <1>2 DEF Gone, SameIds
  <2>4. Gone(e, "dns")' => st[e].dns \notin RecordIds'
    BY <1>2 DEF Gone, SameIds, RecordsWith, RecordIds
  <2>5. /\ st[e].tun \in cf'.tunnels => Pending(st[e], "tunnel")'
        /\ st[e].dns \in RecordIds' => Pending(st[e], "dns")'
    BY <1>1, <1>3, <2>1, <2>2, <2>3, <2>4 DEF CreateInv, StageDone
  <2>. HIDE DEF Pending, RecordIds
  <2>6. cf'.tunnels \subseteq cf.tunnels
    BY <1>3 DEF StageDone
  <2>. QED  BY <1>1, <1>2, <2>1, <2>2, <2>5, <2>6 DEF CreateInv, Goes, SameIds, SameNotes
<1>7. Op[e] = "rebind" => RebindInv(e)'
  <2>. SUFFICES ASSUME Op[e] = "rebind"
                PROVE  RebindInv(e)'
    OBVIOUS
  <2>1. RebindInv(e) /\ st[e].tun # 0
    BY <1>0, <1>1, <1>2 DEF EffectInv, RebindInv
  <2>2. (Targeted(st[e].tun)' => Targeted(st[e].tun)) /\ Ids(e)' = Ids(e) /\ made'[e] = made[e]
    BY <1>2, <1>3 DEF StageDone, Targeted, Ids, SameIds
  <2>3. Gone(e, "tunnel")' => st[e].tun \notin cf'.tunnels
    BY <1>2 DEF Gone, SameIds
  <2>4. st[e].tun \in cf'.tunnels => Pending(st[e], "tunnel")'
    BY <1>1, <1>3, <2>1, <2>3 DEF RebindInv, StageDone
  <2>5. Targeted(st[e].tun)' => Pending(st[e], "restore")' \/ (st[e].upd /\ st[e].err = "transport")
    BY <1>1, <1>3, <2>1, <2>2 DEF RebindInv, StageDone
  <2>. HIDE DEF Pending, Targeted
  <2>. QED  BY <1>1, <1>2, <2>1, <2>2, <2>4, <2>5 DEF RebindInv, Goes, SameIds, SameNotes
<1>8. Remover(e) => RemoverInv(e)'
  <2>. SUFFICES ASSUME Remover(e)
                PROVE  RemoverInv(e)'
    OBVIOUS
  <2>1. RemoverInv(e)
    BY <1>0 DEF EffectInv
  <2>2. \A stage : Gone(e, stage) => Gone(e, stage)'
    BY <1>2, <1>3 DEF Gone, SameIds, StageDone, RecordsWith
  <2>3. Removes(e)' = Removes(e) /\ Removes(e) \subseteq {"custody", "dns", "tunnel"}
    BY <1>1 DEF Removes
  <2>4. \A stage \in Removes(e) : Gone(e, stage)' \/ Pending(st[e], stage)'
    BY <1>1, <1>3, <2>1, <2>2, <2>3 DEF RemoverInv, StageDone
  <2>5. made'[e] = {} /\ owned' = owned /\ permit'[e] = permit[e] /\ pc'[e] = "cleanup" /\ outcome'[e] = "none"
    BY <1>1, <1>2, <1>3, <2>1 DEF RemoverInv, StageDone, Goes
  <2>. HIDE DEF Pending, Gone
  <2>. QED  BY <1>1, <1>2, <2>1, <2>3, <2>4, <2>5 DEF RemoverInv, SameIds
<1>9. PermitInv(e)'
  <2>1. PermitInv(e)
    BY <1>0 DEF EffectInv
  <2>. QED  BY <1>1, <1>2, <1>3, <2>1 DEF PermitInv, Goes, SameIds, StageDone
<1>10. EffectInv(e)'
  BY <1>2, <1>6, <1>7, <1>8, <1>9, EffectKept DEF Goes
<1>11. KeepsCalls(e)
  <2>1. (Targeted(st[e].tun)' => Targeted(st[e].tun)) /\ Ids(e)' = Ids(e)
    BY <1>2, <1>3 DEF StageDone, Targeted, Ids, SameIds
  <2>. QED  BY <1>1, <1>2, <1>4, <2>1 DEF KeepsCalls, Goes
<1>12. ASSUME NEW l \in late', l.by = e
       PROVE  LateInv(l)'
  <2>1. CASE l \in late
    BY <1>0, <1>1, <1>11, <1>12, <2>1, OwnLateKept
  <2>2. ASSUME NEW stage \in {"custody", "dns", "tunnel"}, stage \in StagesOf(Op[e]),
               l = [by |-> e, call |-> StageCall(e, stage)]
        PROVE  LateInv(l)'
    <3>1. /\ e \in Invoked => permit'[e][1] # "none"
          /\ Op[e] = "teardown" /\ e \in Invoked => permit'[e][2] # "none"
      BY <1>0, <1>1, <1>2 DEF EffectInv, PermitInv, Goes
    <3>2. l.call = StageCall(e, stage) /\ pc'[e] = "cleanup"
      BY <1>2, <2>2 DEF Goes
    <3>3. CASE stage = "custody"
      <4>1. l.call.op = "revoke" /\ l.call.grant = st[e].grant
        BY <3>2, <3>3 DEF StageCall
      <4>. QED  BY <1>1, <1>2, <1>4, <1>12, <3>1, <3>2, <4>1 DEF LateInv, SameIds
    <3>4. CASE stage = "dns"
      <4>1. l.call.op = "delete_dns" /\ l.call.id = st[e].dns /\ Op[e] \in {"create", "teardown"}
        BY <1>1, <2>2, <3>2, <3>4 DEF StageCall, StagesOf
      <4>. QED  BY <1>1, <1>2, <1>4, <1>12, <3>1, <3>2, <4>1 DEF LateInv, SameIds
    <3>5. CASE stage = "tunnel"
      <4>1. l.call.op = "delete_tunnel" /\ l.call.id = st[e].tun
        BY <3>2, <3>5 DEF StageCall
      <4>. QED  BY <1>1, <1>2, <1>4, <1>12, <3>1, <3>2, <4>1 DEF LateInv, SameIds
    <3>. QED  BY <2>2, <3>3, <3>4, <3>5
  <2>. QED  BY <1>0, <2>1, <2>2, StageGone
<1>. QED  BY <1>4, <1>5, <1>10, <1>12 DEF Keeps

(* Only the reserved record can point to the tunnel of a rebind.           *)
LEMMA ReservedOnly ==
    ASSUME TypeOK, WorldInv, \A f \in Effects : EffectInv(f), NEW e \in Effects, Op[e] = "rebind",
           NEW r \in cf.records, r.target = st[e].tun, st[e].tun # 0
    PROVE  r.id = st[e].dns /\ ObservedTunnel(e) = st[e].tun
<1>1. st[e].tun \in Ids(e) /\ st[e].tun >= 3
  BY TunnelOfOne DEF WorldInv, FreshIds, Maker
<1>2. ~r.foreign /\ TargetOf(r)
  BY DEF WorldInv, RecordsKnown
<1>3. ~(dispatch.existing /\ r.target = 1)
  BY <1>1
<1>4. PICK f \in Effects :
        /\ r.target = st[f].tun /\ st[f].tun # 0
        /\ \/ Op[f] = "rebind" /\ r.id = st[f].dns
           \/ Op[f] = "create"
  BY <1>2, <1>3 DEF TargetOf
<1>5. f = e
  BY <1>4, TunnelOfOne DEF Maker
<1>6. r.id = st[e].dns
  BY <1>4, <1>5
<1>7. r \in RecordsWith(st[e].dns) /\ \A q \in RecordsWith(st[e].dns) : q = r
  BY <1>6 DEF RecordsWith, WorldInv, UniqueRecords
<1>8. (CHOOSE q \in RecordsWith(st[e].dns) : TRUE) = r
  BY <1>7
<1>. QED  BY <1>6, <1>7, <1>8 DEF ObservedTunnel

(* The end of the restore stage: types.                                    *)
LEMMA RestoreTyped ==
    ASSUME TypeOK, NEW e \in Effects, Op[e] = "rebind", outcome[e] = "none", st[e].todo # <<>>,
           st'[e] \in LocalState, st'[e].todo \in {st[e].todo, Tail(st[e].todo)},
           NEW label \in {"cleanup", "restore", "restore-check"}, Goes(e, label)
    PROVE  LocalTyped(e) /\ Deletes(e)' /\ outcome'[e] = "none" /\ owned' = owned
<1>1. st[e].todo \in Seq(StagesOf(Op[e])) /\ Tail(st[e].todo) \in Seq(StagesOf(Op[e]))
  BY TailHolds DEF TypeOK
<1>. QED  BY <1>1 DEF LocalTyped, Goes, TypeOK, Labels, Deletes

(* The restore stage ends: it is named as failed, or the record no longer  *)
(* points to the tunnel of the rebind.                                     *)
LEMMA RestoreEnded ==
    ASSUME TypeOK, IngressAssumption, NEW e \in Effects, Op[e] = "rebind", outcome[e] = "none",
           pc[e] \in {"cleanup", "restore", "restore-check"}, RebindInv(e), st[e].todo # <<>>,
           Head(st[e].todo) = "restore", dispatch' = dispatch, cf'.tunnels = cf.tunnels, made' = made,
           Goes(e, "cleanup"), st'[e] \in LocalState, SameIds(e), SameNotes(e),
           st'[e].todo = Tail(st[e].todo), st[e].failed \subseteq st'[e].failed,
           Targeted(st[e].tun)' => Targeted(st[e].tun) /\ "restore" \in st'[e].failed
    PROVE  LocalTyped(e) /\ EffectInv(e)' /\ Deletes(e)'
<1>1. LocalTyped(e) /\ Deletes(e)' /\ outcome'[e] = "none" /\ owned' = owned
  BY RestoreTyped
<1>2. \A x : Listed(st[e].todo, x) => x = Head(st[e].todo) \/ Listed(Tail(st[e].todo), x)
  BY TailHolds DEF TypeOK
<1>3. Pending(st[e], "tunnel") => Pending(st[e], "tunnel")'
  BY <1>2 DEF Pending, Listed
<1>4. Targeted(st[e].tun)' => Pending(st[e], "restore")'
  BY DEF Pending
<1>5. st[e].tun # 0 /\ Ids(e)' = Ids(e)
  BY DEF RebindInv, Ids
<1>. HIDE DEF Pending, Targeted
<1>6. RebindInv(e)'
  BY <1>1, <1>3, <1>4, <1>5 DEF RebindInv, Goes, SameIds, SameNotes
<1>. QED  BY <1>1, <1>6, EffectKept, RebindPermit DEF Goes, Remover

(* The end of the restore stage: the calls under way.                      *)
LEMMA RestoreCalls ==
    ASSUME TypeOK, NEW e \in Effects, Op[e] = "rebind", outcome[e] = "none", st[e].tun # 0, Deletes(e)',
           NEW label \in {"cleanup", "restore", "restore-check"}, Goes(e, label), SameIds(e), SameNotes(e)
    PROVE  KeepsCalls(e)
BY DEF KeepsCalls, Goes

(* The restore stage ended by a read: without a failure only when the      *)
(* record points to what it did before the rebind.                         *)
LEMMA RestoreReads ==
    ASSUME IngressInv, IngressAssumption, NEW e \in Effects, dispatch' = dispatch, Op[e] = "rebind",
           pc[e] \in {"cleanup", "restore-check"}, Reads, st[e].todo # <<>>, Head(st[e].todo) = "restore",
           Restored(e)
    PROVE  Keeps(e)
<1>0. TypeOK /\ WorldInv /\ EffectInv(e) /\ (\A l \in late : LateInv(l)) /\ \A f \in Effects : EffectInv(f)
  BY DEF IngressInv
<1>1. outcome[e] = "none" /\ Deletes(e)
  BY <1>0, LabelOps DEF Deletes
<1>2. RebindInv(e) /\ st[e].tun # 0 /\ st[e].tun # st[e].old
  BY <1>0, <1>1 DEF EffectInv, RebindInv
<1>3. Targeted(st[e].tun)' => Targeted(st[e].tun) /\ "restore" \in st'[e].failed
  <2>1. Targeted(st[e].tun)' => Targeted(st[e].tun)
    BY DEF Restored, SameIds, Reads, Targeted
  <2>2. Targeted(st[e].tun) => ObservedTunnel(e) = st[e].tun
    BY <1>0, <1>2, ReservedOnly DEF Targeted
  <2>. QED  BY <1>2, <2>1, <2>2 DEF Restored
<1>4. /\ cf'.tunnels = cf.tunnels /\ made' = made /\ late' = late /\ Goes(e, "cleanup") /\ SameIds(e)
      /\ SameNotes(e) /\ st[e].failed \subseteq st'[e].failed /\ st'[e] \in LocalState
      /\ st'[e].todo = Tail(st[e].todo)
  BY DEF Restored, Reads
<1>5. LocalTyped(e) /\ EffectInv(e)' /\ Deletes(e)'
  BY <1>0, <1>1, <1>2, <1>3, <1>4, RestoreEnded
<1>6. Evolves(e)
  BY <1>1, <1>4, <1>5, SameEvolves
<1>7. KeepsCalls(e)
  BY <1>0, <1>1, <1>2, <1>4, <1>5, RestoreCalls
<1>8. ASSUME NEW l \in late', l.by = e
      PROVE  LateInv(l)'
  BY <1>0, <1>4, <1>7, <1>8, OwnLateKept
<1>. QED  BY <1>5, <1>6, <1>8 DEF Keeps

LEMMA RestoreObservesKeeps ==
    ASSUME IngressInv, IngressAssumption, NEW e \in Effects, RestoreObserves(e), dispatch' = dispatch
    PROVE  Keeps(e)
<1>0. TypeOK /\ WorldInv /\ EffectInv(e) /\ (\A l \in late : LateInv(l))
  BY DEF IngressInv
<1>1. /\ pc[e] = "cleanup" /\ st[e].todo # <<>> /\ Head(st[e].todo) = "restore" /\ Reads /\ st'[e] \in LocalState
      /\ Restored(e) \/ (Goes(e, "restore") /\ st'[e] = st[e])
  BY <1>0, RestoreObservesDoes
<1>2. Op[e] = "rebind" /\ outcome[e] = "none" /\ Deletes(e)
  <2>1. Head(st[e].todo) \in StagesOf(Op[e])
    BY <1>0, <1>1, TailHolds DEF TypeOK
  <2>. QED  BY <1>0, <1>1, <2>1, LabelOps DEF StagesOf, Deletes
<1>3. RebindInv(e) /\ st[e].tun # 0
  BY <1>0, <1>1, <1>2 DEF EffectInv, RebindInv
<1>4. CASE Restored(e)
  BY <1>1, <1>2, <1>4, RestoreReads
<1>5. CASE Goes(e, "restore") /\ st'[e] = st[e]
  <2>1. LocalTyped(e) /\ Deletes(e)'
    BY <1>0, <1>1, <1>2, <1>5, RestoreTyped
  <2>2. SameWorld(e) /\ made'[e] = made[e] /\ late' = late
    BY <1>1, ReadsSame DEF Reads
  <2>3. \A stage : Pending(st[e], stage)' = Pending(st[e], stage)
    BY <1>5 DEF Pending
  <2>4. RebindInv(e)'
    <3>1. Targeted(st[e].tun)' = Targeted(st[e].tun)
      BY <1>5, <2>2 DEF Targeted, SameWorld
    <3>. HIDE DEF Pending, Targeted
    <3>. QED  BY <1>1, <1>2, <1>3, <1>5, <2>2, <2>3, <3>1 DEF RebindInv, Goes, SameWorld
  <2>5. EffectInv(e)'
    BY <1>0, <1>2, <1>5, <2>4, EffectKept, RebindPermit DEF Goes, Remover
  <2>6. SameIds(e) /\ SameNotes(e)
    BY <1>5 DEF SameIds, SameNotes
  <2>7. Evolves(e)
    BY <1>2, <2>1, <2>6, SameEvolves
  <2>8. KeepsCalls(e)
    BY <1>0, <1>2, <1>3, <1>5, <2>1, <2>6, RestoreCalls
  <2>9. ASSUME NEW l \in late', l.by = e
        PROVE  LateInv(l)'
    BY <1>0, <1>1, <2>2, <2>8, <2>9, OwnLateKept
  <2>. QED  BY <2>1, <2>5, <2>7, <2>9 DEF Keeps
<1>. QED  BY <1>1, <1>4, <1>5

LEMMA RestoreUpdatesKeeps ==
    ASSUME IngressInv, IngressAssumption, NEW e \in Effects, RestoreUpdates(e), dispatch' = dispatch
    PROVE  Keeps(e)
<1>0. TypeOK /\ WorldInv /\ EffectInv(e) /\ (\A l \in late : LateInv(l)) /\ \A f \in Effects : EffectInv(f)
  BY DEF IngressInv
<1>. DEFINE call == [op |-> "update_dns", id |-> st[e].dns, target |-> st[e].old]
<1>1. pc[e] = "restore" /\ Op[e] = "rebind" /\ outcome[e] = "none" /\ Deletes(e)
  BY <1>0, LabelOps DEF RestoreUpdates, Deletes
<1>2. RebindInv(e) /\ st[e].todo # <<>> /\ Head(st[e].todo) = "restore" /\ st[e].tun # 0 /\ st[e].tun # st[e].old
  BY <1>0, <1>1 DEF EffectInv, RebindInv
<1>3. PICK reply \in Replies :
        /\ st'[e] \in LocalState /\ Answered(e, call, reply)
        /\ \/ reply = "ok" /\ Goes(e, "restore-check") /\ st'[e] = st[e]
           \/ /\ reply # "ok" /\ Goes(e, "cleanup") /\ SameIds(e) /\ SameNotes(e)
              /\ st'[e].todo = Tail(st[e].todo)
              /\ st'[e].failed = st[e].failed \cup {Head(st[e].todo)}
  BY <1>0, <1>2, RestoreUpdatesDoes
<1>4. SameIds(e) /\ SameNotes(e)
  BY <1>3 DEF SameIds, SameNotes
<1>5. /\ cf'.tunnels = cf.tunnels /\ made' = made /\ (Targeted(st[e].tun)' => Targeted(st[e].tun))
      /\ \A l \in late' : l \in late \/ (l = [by |-> e, call |-> call] /\ reply = "transport")
  <2>1. call \in Call /\ call.op = "update_dns" /\ call.target = st[e].old
    BY <1>0 DEF Call, KeptCall, TypeOK, LocalState
  <2>2. ASSUME Execute(e, call)
        PROVE  cf'.tunnels = cf.tunnels /\ made' = made /\ (Targeted(st[e].tun)' => Targeted(st[e].tun))
    <3>1. cf'.tunnels = cf.tunnels /\ made' = made /\ cf'.records = {Retarget(r, call) : r \in cf.records}
      BY <1>0, <2>1, <2>2, ExecuteDoes DEF Becomes
    <3>2. \A r \in cf.records : Retarget(r, call).target \in {r.target, st[e].old}
      BY <1>0, <2>1, CfType DEF Retarget, DnsRecord
    <3>. HIDE DEF call
    <3>. QED  BY <1>2, <1>4, <3>1, <3>2 DEF Targeted, SameIds
  <2>3. ASSUME cf' = cf
        PROVE  cf'.tunnels = cf.tunnels /\ (Targeted(st[e].tun)' => Targeted(st[e].tun))
    <3>1. st'[e].tun = st[e].tun
      BY <1>4 DEF SameIds
    <3>. QED  BY <2>3, <3>1 DEF Targeted
  <2>. QED  BY <1>3, <2>2, <2>3 DEF Answered
<1>6. LocalTyped(e) /\ EffectInv(e)' /\ Deletes(e)' /\ KeepsCalls(e) /\ pc'[e] # "idle"
  <2>1. CASE reply = "ok"
    <3>1. Goes(e, "restore-check") /\ st'[e] = st[e]
      BY <1>3, <2>1
    <3>2. LocalTyped(e) /\ Deletes(e)'
      BY <1>0, <1>1, <1>2, <1>3, <3>1, RestoreTyped
    <3>3. \A stage : Pending(st[e], stage)' = Pending(st[e], stage)
      BY <3>1 DEF Pending
    <3>4. RebindInv(e)'
      <4>1. Ids(e)' = Ids(e) /\ made'[e] = made[e]
        BY <1>5 DEF Ids
      <4>. HIDE DEF Pending, Targeted
      <4>. QED  BY <1>1, <1>2, <1>5, <3>1, <3>3, <4>1 DEF RebindInv, Goes
    <3>5. EffectInv(e)'
      BY <1>0, <1>1, <3>1, <3>4, EffectKept, RebindPermit DEF Goes, Remover
    <3>6. KeepsCalls(e)
      BY <1>0, <1>1, <1>2, <1>4, <3>1, <3>2, RestoreCalls
    <3>. QED  BY <3>1, <3>2, <3>5, <3>6 DEF Goes
  <2>2. CASE reply # "ok"
    <3>1. /\ Goes(e, "cleanup") /\ st'[e].todo = Tail(st[e].todo) /\ "restore" \in st'[e].failed
          /\ st[e].failed \subseteq st'[e].failed
      BY <1>2, <1>3, <2>2
    <3>2. LocalTyped(e) /\ EffectInv(e)' /\ Deletes(e)'
      BY <1>0, <1>1, <1>2, <1>3, <1>4, <1>5, <3>1, RestoreEnded
    <3>3. KeepsCalls(e)
      BY <1>0, <1>1, <1>2, <1>4, <3>1, <3>2, RestoreCalls
    <3>. QED  BY <3>1, <3>2, <3>3 DEF Goes
  <2>. QED  BY <2>1, <2>2
<1>7. Evolves(e)
  BY <1>1, <1>4, <1>6, SameEvolves
<1>8. ASSUME NEW l \in late', l.by = e
      PROVE  LateInv(l)'
  <2>1. CASE l \in late
    BY <1>0, <1>1, <1>6, <1>8, <2>1, OwnLateKept
  <2>2. CASE l = [by |-> e, call |-> call]
    <3>1. l.call.op = "update_dns" /\ l.call.id = st[e].dns /\ l.call.target = st[e].old
      BY <2>2
    <3>. QED  BY <1>0, <1>1, <1>2, <1>4, <1>6, <1>8, <3>1, RebindPermit DEF LateInv, SameIds
  <2>. QED  BY <1>5, <2>1, <2>2
<1>. QED  BY <1>6, <1>7, <1>8 DEF Keeps

LEMMA RestoreChecksKeeps ==
    ASSUME IngressInv, IngressAssumption, NEW e \in Effects, RestoreChecks(e), dispatch' = dispatch
    PROVE  Keeps(e)
<1>0. TypeOK /\ EffectInv(e)
  BY DEF IngressInv
<1>1. pc[e] = "restore-check" /\ Op[e] = "rebind"
  BY <1>0, LabelOps DEF RestoreChecks
<1>2. st[e].todo # <<>> /\ Head(st[e].todo) = "restore"
  BY <1>0, <1>1 DEF EffectInv, RebindInv
<1>3. Reads /\ Restored(e)
  BY <1>0, <1>2, RestoreChecksDoes
<1>. QED  BY <1>1, <1>2, <1>3, RestoreReads

(* Nothing is pending on an empty list.                                    *)
LEMMA NothingListed ==
    ASSUME NEW s, s.todo = <<>>, NEW stage
    PROVE  Pending(s, stage) <=> stage \in s.failed
BY DEF Pending

LEMMA CleanupDoneKeeps ==
    ASSUME IngressInv, IngressAssumption, NEW e \in Effects, CleanupDone(e), dispatch' = dispatch
    PROVE  Keeps(e)
<1>0. TypeOK /\ WorldInv /\ EffectInv(e) /\ (\A l \in late : LateInv(l))
  BY DEF IngressInv
<1>1. /\ Op[e] \in {"create", "rebind", "teardown", "deactivate"} /\ outcome[e] = "none" /\ pc[e] = "cleanup"
      /\ Deletes(e) /\ st[e].todo = <<>>
  BY <1>0, LabelOps DEF CleanupDone, Deletes
<1>2. Reads /\ st'[e] = st[e]
  BY <1>0, CleanupDoneDoes
<1>3. SameWorld(e) /\ made'[e] = made[e] /\ late' = late /\ cf' = cf
  BY <1>2, ReadsSame DEF Reads
<1>4. st'[e] \in LocalState /\ st'[e].todo \in Seq(StagesOf(Op[e])) /\ SameIds(e) /\ SameNotes(e)
  BY <1>0, <1>2 DEF TypeOK, SameIds, SameNotes
<1>5. \A stage : Pending(st[e], stage) <=> stage \in st[e].failed
  BY <1>1, NothingListed
<1>6. ASSUME KeepsCalls(e), NEW l \in late', l.by = e
      PROVE  LateInv(l)'
  BY <1>0, <1>1, <1>3, <1>6, OwnLateKept
<1>7. (Targeted(st[e].tun)' = Targeted(st[e].tun)) /\ Ids(e)' = Ids(e)
  BY <1>2, <1>3 DEF Targeted, SameWorld
<1>8. CASE Op[e] = "create"
  <2>1. Stopped(e)
    BY <1>0, <1>8, CleanupDoneDoes
  <2>2. LocalTyped(e)
    BY <1>0, <1>4, <1>8, <2>1, StoppedTyped
  <2>3. CreateInv(e) /\ PermitInv(e)
    BY <1>0, <1>8 DEF EffectInv
  <2>4. outcome'[e] = "failed" => st[e].certainty # "uncertain" /\ Ids(e) \cap (cf.tunnels \cup RecordIds) = {}
    <3>1. ASSUME outcome'[e] = "failed"
          PROVE  st[e].certainty # "uncertain" /\ st[e].failed = {}
      BY <1>2, <2>1, <3>1 DEF Stopped
    <3>2. ASSUME st[e].certainty # "uncertain", st[e].failed = {}
          PROVE  Ids(e) \cap (cf.tunnels \cup RecordIds) = {}
      <4>1. st[e].tun # 0 /\ Ids(e) \subseteq {st[e].tun, st[e].dns} /\ 0 \notin RecordIds /\ 0 \notin cf.tunnels
        BY <1>0, <1>1, <2>3, <3>2, NoZero DEF CreateInv
      <4>2. st[e].tun \notin cf.tunnels /\ st[e].dns \notin RecordIds
        BY <1>1, <1>5, <2>3, <3>2 DEF CreateInv
      <4>3. st[e].tun \notin RecordIds /\ st[e].dns \notin cf.tunnels
        BY <2>3, <4>1 DEF CreateInv
      <4>. HIDE DEF RecordIds
      <4>. QED  BY <4>1, <4>2, <4>3
    <3>. QED  BY <3>1, <3>2
  <2>5. CreateInv(e)'
    <3>. HIDE DEF RecordIds
    <3>. QED  BY <1>2, <1>3, <1>8, <2>1, <2>3, <2>4 DEF CreateInv, Stopped, SameWorld
  <2>6. PermitInv(e)'
    BY <1>0, <1>1, <1>2, <1>3, <1>8, <2>1, <2>3, StoppedPermit DEF PermitInv
  <2>7. EffectInv(e)'
    BY <1>8, <2>1, <2>5, <2>6, EffectKept DEF Stopped, Remover
  <2>8. Deletes(e)'
    BY <2>1 DEF Deletes, Stopped
  <2>9. KeepsCalls(e)
    <3>1. /\ permit[e][1] # "none" => permit'[e][1] # "none"
          /\ permit[e][2] # "none" => permit'[e][2] # "none"
      BY <2>1 DEF Stopped
    <3>. HIDE DEF Targeted
    <3>. QED  BY <1>4, <1>7, <1>8, <2>1, <2>8, <3>1 DEF KeepsCalls, Stopped
  <2>10. Evolves(e)
    BY <1>1, <1>4, <2>8, SameEvolves
  <2>. QED  BY <1>6, <2>2, <2>7, <2>9, <2>10 DEF Keeps
<1>9. CASE Op[e] = "rebind"
  <2>1. /\ Halts(e, IF st[e].failed # {} \/ (st[e].upd /\ st[e].err = "transport") THEN "unknown" ELSE "raised")
        /\ permit'[e] = permit[e] /\ owned' = owned
    BY <1>0, <1>9, CleanupDoneDoes
  <2>2. LocalTyped(e) /\ Deletes(e)' /\ pc'[e] = "done" /\ outcome'[e] \in {"unknown", "raised"}
    BY <1>0, <1>4, <1>9, <2>1 DEF LocalTyped, Halts, TypeOK, Labels, Outcomes, Deletes
  <2>3. RebindInv(e)
    BY <1>0, <1>9 DEF EffectInv
  <2>4. outcome'[e] = "raised" =>
            /\ st[e].tun \notin cf.tunnels /\ (st[e].tun # 0 => ~Targeted(st[e].tun))
            /\ ~(st[e].upd /\ st[e].err = "transport")
    BY <1>1, <1>5, <2>1, <2>3 DEF RebindInv, Halts
  <2>5. RebindInv(e)'
    <3>. HIDE DEF Targeted
    <3>. QED  BY <1>2, <1>3, <1>7, <1>9, <2>1, <2>2, <2>3, <2>4, <1>1 DEF RebindInv
  <2>6. EffectInv(e)'
    BY <1>0, <1>9, <2>2, <2>5, EffectKept, RebindPermit DEF Remover
  <2>7. KeepsCalls(e)
    BY <1>4, <1>9, <2>1, <2>2 DEF KeepsCalls
  <2>8. Evolves(e)
    BY <1>1, <1>4, <2>2, SameEvolves
  <2>. QED  BY <1>6, <2>2, <2>6, <2>7, <2>8 DEF Keeps
<1>10. CASE Op[e] = "teardown"
  <2>1. /\ \/ Halts(e, IF st[e].failed = {} THEN "succeeded" ELSE "unknown")
           \/ Halts(e, "unrecorded")
        /\ permit'[e] \in [1..2 -> Words] /\ permit'[e][1] = permit[e][1] /\ owned' = owned
        /\ permit'[e][2] \in {permit[e][2], "returned", "unknown"}
        /\ e \in Invoked /\ outcome'[e] # "unrecorded" => permit'[e][2] # "none"
    BY <1>0, <1>10, CleanupDoneDoes
  <2>2. /\ LocalTyped(e) /\ Deletes(e)' /\ pc'[e] = "done" /\ outcome'[e] \in {"succeeded", "unknown", "unrecorded"}
        /\ outcome'[e] = "succeeded" => st[e].failed = {}
    BY <1>0, <1>4, <1>10, <2>1 DEF LocalTyped, Halts, TypeOK, Labels, Outcomes, Deletes, Remover
  <2>3. RemoverInv(e) /\ PermitInv(e)
    BY <1>0, <1>10 DEF EffectInv, Remover
  <2>4. /\ \A stage : Gone(e, stage)' = Gone(e, stage)
        /\ Removes(e)' = Removes(e)
    BY <1>2, <1>3 DEF Gone, RecordsWith, Removes
  <2>5. \A stage \in Removes(e) \ st[e].failed : Gone(e, stage)
    BY <1>1, <1>5, <2>3 DEF RemoverInv
  <2>6. \/ e \in Invoked /\ permit'[e][1] = "none"
        \/ \E a \in owned' : /\ st'[e].dns = a.dns /\ st'[e].old = a.tunnel /\ st'[e].tun = a.tunnel
                             /\ st'[e].grant = a.grant
    BY <1>1, <1>2, <2>1, <2>3 DEF RemoverInv
  <2>7. RemoverInv(e)'
    <3>. HIDE DEF Gone, Removes
    <3>. QED  BY <1>2, <1>3, <1>10, <2>1, <2>2, <2>3, <2>4, <2>5, <2>6 DEF RemoverInv
  <2>8. PermitInv(e)'
    BY <1>1, <1>2, <1>3, <1>10, <2>1, <2>2, <2>3 DEF PermitInv
  <2>9. EffectInv(e)'
    BY <1>10, <2>2, <2>7, <2>8, EffectKept
  <2>10. KeepsCalls(e)
    BY <1>4, <1>10, <2>1, <2>2 DEF KeepsCalls, Maker
  <2>11. Evolves(e)
    BY <1>1, <1>4, <2>2, SameEvolves
  <2>. QED  BY <1>6, <2>2, <2>9, <2>10, <2>11 DEF Keeps
<1>11. CASE Op[e] = "deactivate"
  <2>1. Goes(e, "still-reserved")
    BY <1>0, <1>11, CleanupDoneDoes
  <2>2. LocalTyped(e) /\ Deletes(e)' /\ pc'[e] = "still-reserved"
    BY <1>0, <1>1, <1>4, <1>11, <2>1 DEF LocalTyped, Goes, TypeOK, Labels, Deletes
  <2>3. RemoverInv(e)
    BY <1>0, <1>11 DEF EffectInv, Remover
  <2>4. /\ \A stage : Gone(e, stage)' = Gone(e, stage) /\ Pending(st[e], stage)' = Pending(st[e], stage)
        /\ Removes(e)' = Removes(e)
    BY <1>2, <1>3 DEF Gone, RecordsWith, Removes, Pending
  <2>5. RemoverInv(e)'
    <3>. HIDE DEF Gone, Removes, Pending
    <3>. QED  BY <1>1, <1>2, <1>3, <1>11, <2>1, <2>3, <2>4 DEF RemoverInv, Goes
  <2>6. EffectInv(e)'
    BY <1>0, <1>11, <2>2, <2>5, EffectKept, RebindPermit
  <2>7. KeepsCalls(e)
    BY <1>4, <1>11, <2>1, <2>2 DEF KeepsCalls, Maker, Goes
  <2>8. Evolves(e)
    BY <1>1, <1>4, <2>2, SameEvolves
  <2>. QED  BY <1>6, <2>2, <2>6, <2>7, <2>8 DEF Keeps
<1>. QED  BY <1>1, <1>8, <1>9, <1>10, <1>11

LEMMA RevokeTokenKeeps ==
    ASSUME IngressInv, IngressAssumption, NEW e \in Effects, RevokeToken(e), dispatch' = dispatch
    PROVE  Keeps(e)
<1>0. TypeOK /\ WorldInv /\ EffectInv(e) /\ (\A l \in late : LateInv(l))
  BY DEF IngressInv
<1>. DEFINE call == [op |-> "revoke", grant |-> st[e].grant]
<1>1. Op[e] = "teardown" /\ outcome[e] = "none" /\ pc[e] = "revoke" /\ ~Maker(e) /\ Remover(e)
  BY <1>0, LabelOps DEF RevokeToken, Maker, Remover
<1>2. /\ st'[e] \in LocalState /\ SameIds(e) /\ SameNotes(e) /\ owned' = owned /\ st'[e].failed = st[e].failed
      /\ \/ /\ Answered(e, call, "ok") /\ pc'[e] = "cleanup" /\ outcome'[e] = outcome[e]
            /\ st'[e].todo = <<"dns", "connections", "tunnel">> /\ permit'[e] = <<"returned", "admitted">>
         \/ /\ \E reply : Answered(e, call, reply)
            /\ \E kind \in {"unknown", "unrecorded", "refused"} : Halts(e, kind)
            /\ permit'[e] \in [1..2 -> Words] /\ permit'[e][2] = permit[e][2]
            /\ permit'[e][1] \in {permit[e][1], "unknown", "returned"}
  <2>1. permit[e] \in [1..2 -> Words]
    BY <1>0 DEF TypeOK
  <2>. QED  BY <1>0, <2>1, RevokeTokenDoes
<1>3. RemoverInv(e) /\ PermitInv(e) /\ e \in Invoked
  BY <1>0, <1>1 DEF EffectInv, RemoverInv
<1>4. permit[e][1] # "none" /\ permit[e][2] = "none"
  BY <1>1, <1>3 DEF PermitInv
<1>5. call \in Call /\ call.op = "revoke" /\ call.grant = st[e].grant
  BY <1>0 DEF Call, KeptCall, TypeOK, LocalState
<1>6. ASSUME NEW reply, Answered(e, call, reply)
      PROVE  /\ made' = made /\ (reply = "ok" => st[e].grant \notin cf'.tokens)
             /\ \A l \in late' : l \in late \/ l = [by |-> e, call |-> call]
  <2>1. Execute(e, call) => made' = made /\ cf'.tokens = cf.tokens \ {st[e].grant}
    BY <1>0, <1>5, ExecuteDoes DEF Becomes
  <2>. QED  BY <1>6, <2>1 DEF Answered
<1>7. made' = made /\ \A l \in late' : l \in late \/ l = [by |-> e, call |-> call]
  BY <1>2, <1>6
<1>8. Evolves(e)
  BY <1>1, <1>2, SameEvolves DEF Deletes
<1>9. pc'[e] \in {"cleanup", "done"} /\ permit'[e][1] # "none"
  BY <1>2, <1>4 DEF Halts
<1>10. ASSUME NEW l \in late', l.by = e
       PROVE  LateInv(l)'
  <2>1. CASE l \in late
    <3>1. KeepsCalls(e)
      BY <1>1, <1>2, <1>4, <1>9 DEF KeepsCalls, Deletes
    <3>. QED  BY <1>0, <1>1, <1>10, <2>1, <3>1, OwnLateKept
  <2>2. CASE l = [by |-> e, call |-> call]
    <3>1. l.call.op = "revoke" /\ l.call.grant = st[e].grant
      BY <2>2
    <3>. QED  BY <1>1, <1>2, <1>9, <1>10, <3>1 DEF LateInv, SameIds, Maker
  <2>. QED  BY <1>7, <2>1, <2>2
<1>11. CASE /\ Answered(e, call, "ok") /\ pc'[e] = "cleanup" /\ outcome'[e] = outcome[e]
            /\ st'[e].todo = <<"dns", "connections", "tunnel">> /\ permit'[e] = <<"returned", "admitted">>
  <2>1. permit'[e][1] = "returned" /\ permit'[e][2] = "admitted" /\ st[e].grant \notin cf'.tokens
    BY <1>6, <1>11
  <2>2. <<"dns", "connections", "tunnel">> \in Seq(StagesOf(Op[e]))
    BY <1>1, ListsOf
  <2>3. LocalTyped(e)
    BY <1>0, <1>1, <1>2, <1>11, <2>2 DEF LocalTyped, TypeOK, Labels, Words
  <2>4. Pending(st[e], "dns")' /\ Pending(st[e], "tunnel")' /\ Gone(e, "custody")'
    BY <1>2, <1>11, <2>1, ListsHold DEF Pending, Listed, Gone, SameIds
  <2>5. Removes(e)' = {"custody", "dns", "tunnel"}
    BY <1>1 DEF Removes
  <2>6. RemoverInv(e)'
    <3>. HIDE DEF Pending, Gone, Removes
    <3>. QED  BY <1>1, <1>2, <1>3, <1>4, <1>7, <1>11, <2>4, <2>5 DEF RemoverInv, SameIds
  <2>7. PermitInv(e)'
    BY <1>1, <1>2, <1>11, <2>1 DEF PermitInv, SameIds
  <2>8. EffectInv(e)'
    BY <1>1, <1>11, <2>6, <2>7, EffectKept
  <2>. QED  BY <1>8, <1>10, <2>3, <2>8 DEF Keeps
<1>12. ASSUME NEW kind \in {"unknown", "unrecorded", "refused"}, Halts(e, kind),
              permit'[e] \in [1..2 -> Words], permit'[e][2] = permit[e][2],
              permit'[e][1] \in {permit[e][1], "unknown", "returned"}
       PROVE  Keeps(e)
  <2>1. LocalTyped(e)
    BY <1>0, <1>1, <1>2, <1>12 DEF LocalTyped, TypeOK, Labels, Halts, Outcomes
  <2>2. RemoverInv(e)'
    BY <1>1, <1>2, <1>3, <1>4, <1>7, <1>12 DEF RemoverInv, SameIds, Halts
  <2>3. PermitInv(e)'
    BY <1>1, <1>2, <1>3, <1>4, <1>12 DEF PermitInv, Halts
  <2>4. EffectInv(e)'
    BY <1>1, <1>12, <2>2, <2>3, EffectKept DEF Halts
  <2>. QED  BY <1>8, <1>10, <2>1, <2>4 DEF Keeps
<1>. QED  BY <1>2, <1>11, <1>12

LEMMA RequireReservationKeeps ==
    ASSUME IngressInv, IngressAssumption, NEW e \in Effects, RequireReservation(e), dispatch' = dispatch
    PROVE  Keeps(e)
<1>0. TypeOK /\ WorldInv /\ EffectInv(e) /\ (\A l \in late : LateInv(l))
  BY DEF IngressInv
<1>1. Op[e] \in {"deactivate", "release"} /\ outcome[e] = "none" /\ pc[e] = "reservation" /\ ~Maker(e) /\ Remover(e)
  BY <1>0, LabelOps DEF RequireReservation, Maker, Remover
<1>2. /\ Reads /\ st'[e] \in LocalState /\ owned' = owned
      /\ \/ Op[e] = "deactivate" /\ Cleans(e, <<"custody", "connections", "tunnel">>)
         \/ Op[e] = "release" /\ Goes(e, "release") /\ st'[e] = st[e]
         \/ Halts(e, "refused") /\ permit'[e] = permit[e]
  BY <1>0, RequireReservationDoes
<1>3. RemoverInv(e) /\ st[e].failed = {} /\ e \notin Invoked
  BY <1>0, <1>1, RebindPermit DEF EffectInv, RemoverInv
<1>4. made'[e] = made[e] /\ late' = late
  BY <1>2 DEF Reads
<1>5. SameIds(e) /\ pc'[e] # "idle" /\ permit'[e] = permit[e]
  BY <1>2 DEF SameIds, Cleans, Goes, Halts
<1>6. Evolves(e)
  BY <1>1, <1>5, SameEvolves DEF Deletes
<1>7. KeepsCalls(e)
  BY <1>1, <1>5 DEF KeepsCalls, Deletes
<1>8. ASSUME NEW l \in late', l.by = e
      PROVE  LateInv(l)'
  BY <1>0, <1>1, <1>4, <1>7, <1>8, OwnLateKept
<1>9. LocalTyped(e) /\ RemoverInv(e)'
  <2>1. CASE Op[e] = "deactivate" /\ Cleans(e, <<"custody", "connections", "tunnel">>)
    <3>1. <<"custody", "connections", "tunnel">> \in Seq(StagesOf(Op[e]))
      BY <2>1, ListsOf
    <3>2. LocalTyped(e)
      BY <1>0, <1>1, <2>1, <3>1, CleansTyped
    <3>3. Pending(st[e], "custody")' /\ Pending(st[e], "tunnel")'
      BY <2>1, ListsHold DEF Pending, Listed, Cleans
    <3>4. Removes(e)' = {"custody", "tunnel"}
      BY <2>1 DEF Removes
    <3>5. pc'[e] = "cleanup" /\ outcome'[e] = "none"
      BY <1>1, <2>1 DEF Cleans, Goes
    <3>6. RemoverInv(e)'
      <4>. HIDE DEF Pending, Removes
      <4>. QED  BY <1>1, <1>2, <1>3, <1>4, <1>5, <2>1, <3>3, <3>4, <3>5 DEF RemoverInv, SameIds
    <3>. QED  BY <3>2, <3>6
  <2>2. CASE Op[e] = "release" /\ Goes(e, "release") /\ st'[e] = st[e]
    BY <1>0, <1>1, <1>2, <1>3, <1>4, <2>2 DEF LocalTyped, Goes, TypeOK, Labels, RemoverInv
  <2>3. CASE Halts(e, "refused") /\ permit'[e] = permit[e]
    BY <1>0, <1>1, <1>2, <1>3, <1>4, <2>3 DEF LocalTyped, Halts, TypeOK, Labels, Outcomes, RemoverInv
  <2>. QED  BY <1>2, <2>1, <2>2, <2>3
<1>10. EffectInv(e)'
  BY <1>0, <1>1, <1>5, <1>9, EffectKept, RebindPermit
<1>. QED  BY <1>6, <1>8, <1>9, <1>10 DEF Keeps

LEMMA StillReservedKeeps ==
    ASSUME IngressInv, IngressAssumption, NEW e \in Effects, StillReserved(e), dispatch' = dispatch
    PROVE  Keeps(e)
<1>0. TypeOK /\ WorldInv /\ EffectInv(e) /\ (\A l \in late : LateInv(l))
  BY DEF IngressInv
<1>1. Op[e] = "deactivate" /\ outcome[e] = "none" /\ pc[e] = "still-reserved" /\ ~Maker(e) /\ Remover(e)
  BY <1>0, LabelOps DEF StillReserved, Maker, Remover
<1>2. /\ Reads /\ st'[e] \in LocalState /\ Goes(e, "tunnel-absent") /\ SameIds(e)
      /\ st'[e].todo = st[e].todo /\ st[e].failed \subseteq st'[e].failed
  BY <1>0, StillReservedDoes
<1>3. RemoverInv(e)
  BY <1>0, <1>1 DEF EffectInv
<1>4. made'[e] = made[e] /\ late' = late /\ cf' = cf
  BY <1>2 DEF Reads
<1>5. LocalTyped(e) /\ Deletes(e)'
  BY <1>0, <1>1, <1>2 DEF LocalTyped, Goes, TypeOK, Labels, Deletes
<1>6. Evolves(e)
  BY <1>1, <1>2, <1>5, SameEvolves
<1>7. KeepsCalls(e)
  BY <1>1, <1>2, <1>5 DEF KeepsCalls, Goes
<1>8. ASSUME NEW l \in late', l.by = e
      PROVE  LateInv(l)'
  BY <1>0, <1>1, <1>4, <1>7, <1>8, OwnLateKept
<1>9. RemoverInv(e)'
  <2>1. \A stage : Pending(st[e], stage) => Pending(st[e], stage)'
    BY <1>2 DEF Pending
  <2>2. (\A stage : Gone(e, stage)' = Gone(e, stage)) /\ Removes(e)' = Removes(e)
    BY <1>2, <1>4 DEF Gone, RecordsWith, Removes, SameIds
  <2>. HIDE DEF Pending, Gone, Removes
  <2>. QED  BY <1>1, <1>2, <1>3, <1>4, <2>1, <2>2 DEF RemoverInv, Goes, SameIds
<1>10. EffectInv(e)'
  BY <1>0, <1>1, <1>2, <1>9, EffectKept, RebindPermit DEF Goes
<1>. QED  BY <1>5, <1>6, <1>8, <1>10 DEF Keeps

LEMMA TunnelAbsentKeeps ==
    ASSUME IngressInv, IngressAssumption, NEW e \in Effects, TunnelAbsent(e), dispatch' = dispatch
    PROVE  Keeps(e)
<1>0. TypeOK /\ WorldInv /\ EffectInv(e) /\ (\A l \in late : LateInv(l))
  BY DEF IngressInv
<1>1. Op[e] = "deactivate" /\ outcome[e] = "none" /\ pc[e] = "tunnel-absent" /\ ~Maker(e) /\ Remover(e)
  BY <1>0, LabelOps DEF TunnelAbsent, Maker, Remover
<1>2. /\ Reads /\ permit'[e] = permit[e] /\ owned' = owned /\ st'[e] = st[e] /\ pc'[e] = "done"
      /\ outcome'[e] \in {"succeeded", "unknown"}
  BY <1>0, TunnelAbsentDoes DEF Halts
<1>3. RemoverInv(e) /\ st[e].todo = <<>>
  BY <1>0, <1>1 DEF EffectInv, RemoverInv
<1>4. made'[e] = made[e] /\ late' = late /\ cf' = cf
  BY <1>2 DEF Reads
<1>5. LocalTyped(e) /\ Deletes(e)' /\ SameIds(e)
  BY <1>0, <1>1, <1>2 DEF LocalTyped, TypeOK, Labels, Deletes, Outcomes, Remover, SameIds
<1>6. Evolves(e)
  BY <1>1, <1>5, SameEvolves
<1>7. KeepsCalls(e)
  BY <1>1, <1>2, <1>5 DEF KeepsCalls
<1>8. ASSUME NEW l \in late', l.by = e
      PROVE  LateInv(l)'
  BY <1>0, <1>1, <1>4, <1>7, <1>8, OwnLateKept
<1>9. RemoverInv(e)'
  <2>1. \A stage : Pending(st[e], stage) <=> stage \in st[e].failed
    BY <1>3, NothingListed
  <2>2. (\A stage : Gone(e, stage)' = Gone(e, stage)) /\ Removes(e)' = Removes(e)
    BY <1>2, <1>4 DEF Gone, RecordsWith, Removes
  <2>. HIDE DEF Pending, Gone, Removes
  <2>. QED  BY <1>1, <1>2, <1>3, <1>4, <2>1, <2>2 DEF RemoverInv
<1>10. EffectInv(e)'
  BY <1>0, <1>1, <1>2, <1>9, EffectKept, RebindPermit
<1>. QED  BY <1>5, <1>6, <1>8, <1>10 DEF Keeps

LEMMA ReleaseDnsKeeps ==
    ASSUME IngressInv, IngressAssumption, NEW e \in Effects, ReleaseDns(e), dispatch' = dispatch
    PROVE  Keeps(e)
<1>0. TypeOK /\ WorldInv /\ EffectInv(e) /\ (\A l \in late : LateInv(l))
  BY DEF IngressInv
<1>. DEFINE call == [op |-> "delete_dns", id |-> st[e].dns]
<1>1. Op[e] = "release" /\ outcome[e] = "none" /\ pc[e] = "release" /\ ~Maker(e) /\ Remover(e) /\ ~Deletes(e)
  BY <1>0, LabelOps DEF ReleaseDns, Maker, Remover, Deletes
<1>2. PICK reply \in Replies :
        /\ st'[e] \in LocalState /\ Goes(e, "absence") /\ SameIds(e) /\ st'[e].todo = st[e].todo
        /\ Answered(e, call, reply)
        /\ st'[e].failed = IF reply = "ok" THEN st[e].failed ELSE {"dns"}
  BY <1>0, ReleaseDnsDoes
<1>3. RemoverInv(e) /\ e \notin Invoked
  BY <1>0, <1>1, RebindPermit DEF EffectInv
<1>4. /\ made' = made /\ (reply = "ok" => Gone(e, "dns")')
      /\ \A l \in late' : l \in late \/ l = [by |-> e, call |-> call]
  <2>1. call \in Call /\ call.op = "delete_dns" /\ call.id = st[e].dns
    BY <1>0 DEF Call, KeptCall, TypeOK, LocalState
  <2>2. ASSUME Execute(e, call)
        PROVE  made' = made /\ Gone(e, "dns")'
    <3>1. made' = made /\ cf'.records = cf.records \ RecordsWith(st[e].dns)
      BY <1>0, <2>1, <2>2, ExecuteDoes DEF Becomes
    <3>. QED  BY <1>2, <3>1 DEF Gone, RecordsWith, SameIds
  <2>. QED  BY <1>2, <2>2 DEF Answered
<1>5. LocalTyped(e) /\ pc'[e] = "absence" /\ outcome'[e] = "none"
  BY <1>0, <1>1, <1>2 DEF LocalTyped, Goes, TypeOK, Labels
<1>6. Evolves(e)
  BY <1>1, <1>2, SameEvolves
<1>7. KeepsCalls(e)
  BY <1>1, <1>2 DEF KeepsCalls, Goes
<1>8. ASSUME NEW l \in late', l.by = e
      PROVE  LateInv(l)'
  <2>1. CASE l \in late
    BY <1>0, <1>1, <1>7, <1>8, <2>1, OwnLateKept
  <2>2. CASE l = [by |-> e, call |-> call]
    <3>1. l.call.op = "delete_dns" /\ l.call.id = st[e].dns
      BY <2>2
    <3>. QED  BY <1>1, <1>2, <1>3, <1>5, <1>8, <3>1 DEF LateInv, SameIds
  <2>. QED  BY <1>4, <2>1, <2>2
<1>9. RemoverInv(e)'
  <2>1. "dns" \in st'[e].failed \/ Gone(e, "dns")'
    BY <1>2, <1>4
  <2>. HIDE DEF Gone
  <2>. QED  BY <1>1, <1>2, <1>3, <1>4, <1>5, <2>1 DEF RemoverInv, Goes, SameIds
<1>10. EffectInv(e)'
  BY <1>0, <1>1, <1>5, <1>9, EffectKept, RebindPermit
<1>. QED  BY <1>5, <1>6, <1>8, <1>10 DEF Keeps

LEMMA ReleaseAbsenceKeeps ==
    ASSUME IngressInv, IngressAssumption, NEW e \in Effects, ReleaseAbsence(e), dispatch' = dispatch
    PROVE  Keeps(e)
<1>0. TypeOK /\ WorldInv /\ EffectInv(e) /\ (\A l \in late : LateInv(l))
  BY DEF IngressInv
<1>1. Op[e] = "release" /\ outcome[e] = "none" /\ pc[e] = "absence" /\ ~Maker(e) /\ Remover(e)
  BY <1>0, LabelOps DEF ReleaseAbsence, Maker, Remover
<1>2. /\ Reads /\ permit'[e] = permit[e] /\ owned' = owned /\ st'[e] = st[e] /\ pc'[e] = "done"
      /\ outcome'[e] \in {"succeeded", "unknown"}
  BY <1>0, ReleaseAbsenceDoes DEF Halts
<1>3. RemoverInv(e)
  BY <1>0, <1>1 DEF EffectInv
<1>4. made'[e] = made[e] /\ late' = late /\ cf' = cf
  BY <1>2 DEF Reads
<1>5. LocalTyped(e) /\ Deletes(e)' /\ SameIds(e)
  BY <1>0, <1>1, <1>2 DEF LocalTyped, TypeOK, Labels, Deletes, Outcomes, Remover, SameIds
<1>6. Evolves(e)
  BY <1>1, <1>5, SameEvolves
<1>7. KeepsCalls(e)
  BY <1>1, <1>2, <1>5 DEF KeepsCalls
<1>8. ASSUME NEW l \in late', l.by = e
      PROVE  LateInv(l)'
  BY <1>0, <1>1, <1>4, <1>7, <1>8, OwnLateKept
<1>9. RemoverInv(e)'
  <2>1. (\A stage : Gone(e, stage)' = Gone(e, stage)) /\ Removes(e)' = {"dns"}
    BY <1>1, <1>2, <1>4 DEF Gone, RecordsWith, Removes
  <2>. HIDE DEF Gone, Removes
  <2>. QED  BY <1>1, <1>2, <1>3, <1>4, <2>1 DEF RemoverInv
<1>10. EffectInv(e)'
  BY <1>0, <1>1, <1>2, <1>9, EffectKept, RebindPermit
<1>. QED  BY <1>5, <1>6, <1>8, <1>10 DEF Keeps

LEMMA BeginKeeps ==
    ASSUME IngressInv, IngressAssumption, NEW e \in Effects, Begin(e), dispatch' = dispatch
    PROVE  Keeps(e)
<1>0. TypeOK /\ WorldInv /\ EffectInv(e) /\ (\A l \in late : LateInv(l))
  BY DEF IngressInv
<1>1. /\ pc[e] = "idle" /\ Op[e] \in Ops /\ Reads /\ owned' = owned /\ st'[e] \in LocalState
      /\ outcome[e] = "none"
  BY <1>0, BeginDoes, Operations, LabelOps
<1>2. /\ made[e] = {} /\ permit[e][1] = "none" /\ permit[e][2] = "none" /\ st[e].todo = <<>>
      /\ st[e].failed = {} /\ st[e].tun = 0 /\ st[e].dns = 0 /\ ~st[e].upd /\ st[e].certainty = "none"
      /\ st[e].grant = e
  BY <1>0, <1>1 DEF EffectInv, Untouched, Initial
<1>3. made'[e] = made[e] /\ late' = late /\ cf' = cf /\ Ids(e)' = Ids(e) /\ Ids(e) = {}
  BY <1>1, <1>2 DEF Reads, Ids
<1>4. ASSUME NEW l \in late', l.by = e
      PROVE  LateInv(l)'
  BY <1>0, <1>1, <1>3, <1>4, NoneLostBefore
<1>5. permit[e] \in [1..2 -> Words] /\ (e \in Invoked => Op[e] \in {"create", "teardown"})
  BY <1>0, Operations DEF TypeOK
<1>6. CASE e \in Invoked /\ Halts(e, "refused") /\ permit'[e] = permit[e]
  <2>1. pc'[e] = "done" /\ outcome'[e] = "refused" /\ st'[e] = st[e]
    BY <1>6 DEF Halts
  <2>2. LocalTyped(e)
    BY <1>1, <1>2, <1>5, <1>6, <2>1, ListsOf DEF LocalTyped, Labels, Outcomes
  <2>3. Evolves(e)
    BY <1>1, <1>2, <2>1 DEF Evolves, Deletes, Remover
  <2>4. PermitInv(e)'
    BY <1>2, <1>3, <1>5, <1>6, <2>1 DEF PermitInv
  <2>5. Op[e] = "create" => CreateInv(e)'
    BY <1>2, <1>3, <2>1 DEF CreateInv
  <2>6. Remover(e) => RemoverInv(e)'
    <3>. HIDE DEF Gone, Removes, Pending
    <3>. QED  BY <1>2, <1>3, <1>6, <2>1 DEF RemoverInv
  <2>7. EffectInv(e)'
    BY <1>5, <1>6, <2>1, <2>4, <2>5, <2>6, EffectKept
  <2>. QED  BY <1>4, <2>2, <2>3, <2>7 DEF Keeps
<1>7. CASE Op[e] = "create" /\ Starts(e, "observe") /\ st'[e] = st[e]
  <2>1. /\ pc'[e] = "observe" /\ outcome'[e] = "none" /\ permit'[e] \in [1..2 -> Words]
        /\ permit'[e][2] = "none" /\ (e \in Invoked => permit'[e][1] = "admitted")
    BY <1>1, <1>2, <1>7 DEF Starts
  <2>2. LocalTyped(e)
    BY <1>1, <1>2, <1>5, <1>7, <2>1, ListsOf DEF LocalTyped, Labels, Outcomes
  <2>3. Evolves(e)
    BY <1>1, <1>2, <1>7, <2>1 DEF Evolves, Deletes, Remover
  <2>4. PermitInv(e)'
    BY <1>2, <1>3, <1>5, <1>7, <2>1 DEF PermitInv
  <2>5. Op[e] = "create" => CreateInv(e)'
    BY <1>2, <1>3, <1>7, <2>1 DEF CreateInv
  <2>6. ~Remover(e)
    BY <1>7 DEF Remover
  <2>7. EffectInv(e)'
    BY <1>7, <2>1, <2>4, <2>5, <2>6, EffectKept
  <2>. QED  BY <1>4, <2>2, <2>3, <2>7 DEF Keeps
<1>8. ASSUME NEW a \in owned, TakesOver(e, a), NEW l, Starts(e, l), l # "idle", l # "done", Op[e] # "create",
             \/ l = "revoke" /\ e \in Invoked /\ st'[e].todo = <<>>
             \/ l = "tunnel" /\ e \notin Invoked /\ Op[e] = "rebind" /\ st'[e].todo = <<>>
             \/ l = "cleanup" /\ e \notin Invoked /\ Op[e] = "teardown"
                /\ st'[e].todo = <<"custody", "dns", "connections", "tunnel">>
             \/ l = "reservation" /\ e \notin Invoked /\ Op[e] \in {"deactivate", "release"}
                /\ st'[e].todo = <<>>
      PROVE  Keeps(e)
  <2>1. /\ pc'[e] = l /\ outcome'[e] = "none" /\ permit'[e] \in [1..2 -> Words]
        /\ permit'[e][2] = "none" /\ (e \in Invoked => permit'[e][1] = "admitted")
    BY <1>1, <1>2, <1>8 DEF Starts
  <2>2. /\ st'[e].dns = a.dns /\ st'[e].old = a.tunnel /\ st'[e].failed = {} /\ ~st'[e].upd
        /\ st'[e].tun = (IF Op[e] = "rebind" THEN 0 ELSE a.tunnel)
        /\ st'[e].grant = (IF Op[e] = "rebind" THEN e ELSE a.grant)
    BY <1>2, <1>8 DEF TakesOver, SameNotes
  <2>3. LocalTyped(e)
    BY <1>1, <1>2, <1>5, <1>8, <2>1, ListsOf DEF LocalTyped, Labels, Outcomes
  <2>4. Evolves(e)
    BY <1>1, <1>2, <1>8, <2>1, <2>2 DEF Evolves, Deletes, Remover, Maker
  <2>5. PermitInv(e)'
    BY <1>2, <1>3, <1>5, <1>8, <2>1 DEF PermitInv
  <2>6. Op[e] = "rebind" => RebindInv(e)'
    BY <1>1, <1>2, <1>3, <1>5, <1>8, <2>1, <2>2 DEF RebindInv
  <2>7. Remover(e) => RemoverInv(e)'
    <3>. SUFFICES ASSUME Remover(e)
                  PROVE  RemoverInv(e)'
      OBVIOUS
    <3>1. l = "cleanup" => \A stage \in Removes(e)' : Pending(st[e], stage)'
      BY <1>8, ListsHold DEF Removes, Listed, Pending
    <3>. HIDE DEF Gone, Removes, Pending
    <3>. QED  BY <1>1, <1>2, <1>3, <1>8, <2>1, <2>2, <3>1 DEF RemoverInv, Remover
  <2>8. EffectInv(e)'
    BY <1>8, <2>1, <2>5, <2>6, <2>7, EffectKept
  <2>. QED  BY <1>4, <2>3, <2>4, <2>8 DEF Keeps
<1>. QED  BY <1>0, <1>2, <1>6, <1>7, <1>8, BeginDoes

-----------------------------------------------------------------------------
(* Every step keeps the invariant.                                         *)

(* What the other effects see of it.                                       *)
LEMMA OthersStill ==
    ASSUME TypeOK, WorldInv, IngressAssumption, \A g \in Effects : EffectInv(g),
           NEW e \in Effects, Acts(e), Others(e), owned \subseteq owned', dispatch' = dispatch,
           NEW f \in Effects, f # e
    PROVE  Still(f) /\ NoReuse /\ Harmless(f)
<1>0. DOMAIN made = Effects
  BY DEF TypeOK
<1>1. CASE cf' = cf /\ made' = made
  BY <1>1 DEF Still, NoReuse, Harmless, Others
<1>2. ASSUME NEW call \in Call, Legit(e, call), Execute(e, call)
      PROVE  Still(f) /\ NoReuse /\ Harmless(f)
  <2>1. made' = [made EXCEPT ![e] = @ \cup Creates(call)]
    BY <1>2 DEF Execute
  <2>2. made'[f] = made[f]
    BY <1>0, <2>1
  <2>3. Still(f)
    BY <2>2 DEF Still, Others
  <2>. QED  BY <1>2, <2>3, LegitReusesNothing, LegitHarmless
<1>. QED  BY <1>1, <1>2 DEF Acts

(* A step leaves the world alone or executes a call that names only what   *)
(* is its own.                                                             *)
LEMMA StepActs ==
    ASSUME IngressInv, IngressAssumption, NEW e \in Effects, Step(e)
    PROVE  Acts(e) /\ Reaches(e)
<1>1. TypeOK /\ FreshIds /\ EffectInv(e)
  BY DEF IngressInv, WorldInv
<1>2. Reaches(e)
  BY <1>1, StepReaches
<1>. QED  BY <1>1, <1>2, StepLegit DEF Reaches, Acts, Reads

(* Every action keeps the invariant of its effect.                         *)
LEMMA StepKeepsOwn ==
    ASSUME IngressInv, IngressAssumption, NEW e \in Effects, Step(e), dispatch' = dispatch
    PROVE  Keeps(e)
<1>1. CASE Begin(e)
  BY <1>1, BeginKeeps
<1>2. CASE PreObserve(e)
  BY <1>2, PreObserveKeeps
<1>3. CASE CreateTunnel(e)
  BY <1>3, CreateTunnelKeeps
<1>4. CASE ConfigureTunnel(e)
  BY <1>4, ConfigureTunnelKeeps
<1>5. CASE ObserveAgain(e)
  BY <1>5, ObserveAgainKeeps
<1>6. CASE CreateDns(e)
  BY <1>6, CreateDnsKeeps
<1>7. CASE Reconcile(e)
  BY <1>7, ReconcileKeeps
<1>8. CASE TunnelToken(e)
  BY <1>8, TunnelTokenKeeps
<1>9. CASE StoreToken(e)
  BY <1>9, StoreTokenKeeps
<1>10. CASE RebindObserves(e)
  BY <1>10, RebindObservesKeeps
<1>11. CASE UpdateDns(e)
  BY <1>11, UpdateDnsKeeps
<1>12. CASE RebindToken(e)
  BY <1>12, RebindTokenKeeps
<1>13. CASE RebindStores(e)
  BY <1>13, RebindStoresKeeps
<1>14. CASE RebindConfirms(e)
  BY <1>14, RebindConfirmsKeeps
<1>15. CASE CleanupStage(e)
  BY <1>15, CleanupStageKeeps
<1>16. CASE RestoreObserves(e)
  BY <1>16, RestoreObservesKeeps
<1>17. CASE RestoreUpdates(e)
  BY <1>17, RestoreUpdatesKeeps
<1>18. CASE RestoreChecks(e)
  BY <1>18, RestoreChecksKeeps
<1>19. CASE CleanupDone(e)
  BY <1>19, CleanupDoneKeeps
<1>20. CASE RevokeToken(e)
  BY <1>20, RevokeTokenKeeps
<1>21. CASE RequireReservation(e)
  BY <1>21, RequireReservationKeeps
<1>22. CASE StillReserved(e)
  BY <1>22, StillReservedKeeps
<1>23. CASE TunnelAbsent(e)
  BY <1>23, TunnelAbsentKeeps
<1>24. CASE ReleaseDns(e)
  BY <1>24, ReleaseDnsKeeps
<1>25. CASE ReleaseAbsence(e)
  BY <1>25, ReleaseAbsenceKeeps
<1>. HIDE DEF Keeps, IngressInv
<1>. QED  BY <1>1, <1>2, <1>3, <1>4, <1>5, <1>6, <1>7, <1>8, <1>9, <1>10, <1>11, <1>12, <1>13, <1>14, <1>15, <1>16, <1>17, <1>18, <1>19, <1>20, <1>21, <1>22, <1>23, <1>24, <1>25 DEF Step

LEMMA StepKeeps ==
    ASSUME IngressInv, IngressAssumption, NEW e \in Effects, Step(e), dispatch' = dispatch
    PROVE  IngressInv'
<1>0. TypeOK /\ WorldInv /\ (\A f \in Effects : EffectInv(f)) /\ (\A l \in late : LateInv(l))
  BY DEF IngressInv
<1>1. Acts(e) /\ Reaches(e) /\ Keeps(e)
  BY StepActs, StepKeepsOwn
<1>2. Others(e) /\ Allocates(e) /\ owned \subseteq owned'
  BY <1>0, StepFrame DEF Allocates
<1>3. TypeOK'
  BY <1>0, <1>1, TypeKept DEF Keeps
<1>4. WorldInv'
  BY <1>0, <1>1, <1>2, WorldKept DEF Keeps
<1>5. ASSUME NEW f \in Effects, f # e
      PROVE  Still(f) /\ NoReuse /\ Harmless(f)
  BY <1>0, <1>1, <1>2, <1>5, OthersStill
<1>6. \A f \in Effects : EffectInv(f)'
  <2>1. ASSUME NEW f \in Effects, f # e
        PROVE  EffectInv(f)'
    BY <1>0, <1>5, <2>1, StillEffect
  <2>. QED  BY <1>1, <2>1 DEF Keeps
<1>7. ASSUME NEW l \in late', l.by # e
      PROVE  LateInv(l)'
  <2>1. l \in late
    BY <1>1, <1>7 DEF Reaches, Reads
  <2>2. l.by \in Effects /\ LateInv(l)
    BY <1>0, <2>1, LateTyped
  <2>3. Still(l.by) /\ Harmless(l.by)
    BY <1>5, <1>7, <2>2
  <2>. QED  BY <1>0, <2>1, <2>2, <2>3, StillLate
<1>8. \A l \in late' : LateInv(l)'
  BY <1>1, <1>7 DEF Keeps
<1>. QED  BY <1>3, <1>4, <1>6, <1>8 DEF IngressInv

LEMMA LateCallKeeps ==
    ASSUME IngressInv, IngressAssumption, LateCall, dispatch' = dispatch
    PROVE  IngressInv'
<1>0. TypeOK /\ WorldInv /\ (\A f \in Effects : EffectInv(f)) /\ (\A l \in late : LateInv(l))
  BY DEF IngressInv
<1>1. PICK l \in late :
        /\ late' = late \ {l}
        /\ Execute(l.by, l.call) \/ UNCHANGED <<cf, made>>
        /\ UNCHANGED <<pc, st, outcome, permit, owned>>
  BY DEF LateCall
<1>2. LateInv(l) /\ l.by \in Effects /\ l.call \in Call /\ Legit(l.by, l.call)
  BY <1>0, LateLegit
<1>. DEFINE e == l.by
<1>3. Acts(e) /\ Others(e) /\ Allocates(e)
  BY <1>1, <1>2 DEF Acts, Others, Allocates
<1>4. Evolves(e)
  <2>1. Deletes(e)' = Deletes(e)
    BY <1>1 DEF Deletes, Remover
  <2>. QED  BY <1>1, <2>1 DEF Evolves
<1>5. TypeOK'
  <2>1. /\ cf' \in World /\ made' \in [Effects -> SUBSET (Nat \cup Effects)]
        /\ \A f \in Effects : made'[f] \subseteq Nat \cup {f}
    BY <1>0, <1>2, <1>3, ActsTyped
  <2>. QED  BY <1>0, <1>1, <2>1 DEF TypeOK
<1>6. WorldInv'
  BY <1>0, <1>2, <1>3, <1>4, WorldKept
<1>7. ASSUME NEW f \in Effects, f # e
      PROVE  Still(f) /\ NoReuse /\ Harmless(f)
  BY <1>0, <1>1, <1>2, <1>3, <1>7, OthersStill
<1>8. EffectInv(e)' /\ \A k \in late : k # l /\ k.by = e => LateInv(k)'
  <2>1. CASE UNCHANGED <<cf, made>>
    <3>1. Still(e) /\ NoReuse /\ Harmless(e)
      BY <1>1, <2>1 DEF Still, NoReuse, Harmless
    <3>. QED  BY <1>0, <1>2, <3>1, StillEffect, StillLate
  <2>2. CASE Execute(e, l.call) /\ l.call.op \notin {"create_tunnel", "create_dns"}
    <3>1. Still(e) /\ NoReuse /\ Harmless(e)
      BY <1>0, <1>1, <1>2, <2>2, LateStill, LateHarmless, LegitReusesNothing
    <3>. QED  BY <1>0, <1>2, <3>1, StillEffect, StillLate
  <2>3. CASE Execute(e, l.call) /\ l.call.op \in {"create_tunnel", "create_dns"}
    <3>1. EffectInv(e)'
      BY <1>0, <1>1, <1>2, <2>3, LateCreatesTunnel, LateCreatesDns
    <3>. QED  BY <1>0, <1>1, <1>2, <2>3, <3>1, LateOther
  <2>. QED  BY <1>1, <2>1, <2>2, <2>3
<1>9. \A f \in Effects : EffectInv(f)'
  <2>1. ASSUME NEW f \in Effects, f # e
        PROVE  EffectInv(f)'
    BY <1>0, <1>7, <2>1, StillEffect
  <2>. QED  BY <1>8, <2>1
<1>10. \A k \in late' : LateInv(k)'
  <2>1. ASSUME NEW k \in late, k.by # e
        PROVE  LateInv(k)'
    <3>1. k.by \in Effects
      BY <1>0, LateTyped
    <3>. QED  BY <1>0, <1>7, <2>1, <3>1, StillLate
  <2>. QED  BY <1>1, <1>8, <2>1
<1>. QED  BY <1>5, <1>6, <1>9, <1>10 DEF IngressInv

(* The other owners of the zone create and delete only records of theirs.  *)
LEMMA OtherStill ==
    ASSUME NEW f \in Effects, UNCHANGED <<dispatch, pc, st, outcome, permit, owned, made>>
    PROVE  Still(f)
BY DEF Still

LEMMA OtherKeeps ==
    ASSUME IngressInv, IngressAssumption, NoReuse, \A f \in Effects : Harmless(f), TypeOK', WorldInv',
           UNCHANGED <<dispatch, late, pc, st, outcome, permit, owned, made>>
    PROVE  IngressInv'
<1>0. TypeOK /\ WorldInv /\ (\A f \in Effects : EffectInv(f)) /\ (\A l \in late : LateInv(l))
  BY DEF IngressInv
<1>1. \A f \in Effects : EffectInv(f)'
  BY <1>0, OtherStill, StillEffect
<1>2. ASSUME NEW l \in late
      PROVE  LateInv(l)'
  <2>1. l.by \in Effects
    BY <1>0, LateTyped
  <2>. QED  BY <1>0, <2>1, OtherStill, StillLate
<1>. QED  BY <1>1, <1>2 DEF IngressInv

(* The parts of the invariant that do not look at the records.             *)
LEMMA OtherSame ==
    ASSUME WorldInv, cf'.tunnels = cf.tunnels,
           UNCHANGED <<dispatch, late, pc, st, outcome, permit, owned, made>>
    PROVE  /\ SeparateIds' /\ TunnelsAccounted' /\ (\A a \in owned' : OwnedFrom(a)' /\ OwnedDns(a)')
           /\ \A r : TargetOf(r)' = TargetOf(r)
<1>1. SeparateIds' /\ \A r : TargetOf(r)' = TargetOf(r)
  BY DEF WorldInv, SeparateIds, Ids, TargetOf
<1>2. \A t, e : Tunnel(t)' = Tunnel(t) /\ Deleter(e, t)' = Deleter(e, t)
  BY DEF Tunnel, Deleter, Deletes, Remover, Maker
<1>3. TunnelsAccounted'
  BY <1>2 DEF WorldInv, TunnelsAccounted
<1>4. \A a : OwnedFrom(a)' = OwnedFrom(a) /\ OwnedDns(a)' = OwnedDns(a)
  BY DEF OwnedFrom, OwnedDns, Maker, Allocated
<1>. QED  BY <1>1, <1>3, <1>4 DEF WorldInv

LEMMA OtherCreatesKeeps ==
    ASSUME IngressInv, IngressAssumption, OtherCreates, dispatch' = dispatch
    PROVE  IngressInv'
<1>0. TypeOK /\ WorldInv /\ cf \in World /\ cf.next \in Nat /\ cf.records \subseteq DnsRecord /\ cf.tunnels \subseteq Nat
  BY CfType DEF IngressInv
<1>1. PICK cname \in BOOLEAN :
        /\ IF cname THEN cf.records = {} ELSE \A r \in cf.records : ~r.cname
        /\ cf' = [cf EXCEPT !.records = @ \cup {[id |-> cf.next, target |-> 0, cname |-> cname,
                                                 foreign |-> TRUE]},
                            !.next = @ + 1]
  BY DEF OtherCreates
<1>2. UNCHANGED <<dispatch, late, pc, st, outcome, permit, owned, made>>
  BY DEF OtherCreates
<1>. DEFINE n == [id |-> cf.next, target |-> 0, cname |-> cname, foreign |-> TRUE]
<1>3. n \in DnsRecord /\ n.id = cf.next /\ n.target = 0 /\ n.cname = cname /\ n.foreign
  BY <1>0 DEF DnsRecord
<1>4. cf'.tunnels = cf.tunnels /\ cf'.records = cf.records \cup {n} /\ cf'.tokens = cf.tokens /\ cf'.next = cf.next + 1
  BY <1>0, <1>1 DEF World
<1>5. cf' \in World
  <2>1. cf' = [cf EXCEPT !.records = cf.records \cup {n}, !.next = cf.next + 1]
    BY <1>1
  <2>. HIDE DEF n
  <2>2. cf.records \cup {n} \in RecordSets /\ cf.next + 1 \in Nat
    BY <1>0, <1>3 DEF RecordSets
  <2>. QED  BY <1>0, <2>1, <2>2 DEF World
<1>. HIDE DEF n
<1>6. NoReuse
  BY <1>0, <1>3, <1>4 DEF NoReuse
<1>7. \A f \in Effects : Harmless(f)
  BY <1>3, <1>4 DEF Harmless
<1>8. TypeOK'
  BY <1>0, <1>2, <1>5 DEF TypeOK
<1>9. /\ cf.next >= 3 /\ (\A t \in cf.tunnels : 0 < t /\ t < cf.next)
      /\ \A r \in cf.records : 0 < r.id /\ r.id < cf.next /\ r.target < cf.next /\ r.id \notin cf.tunnels
      /\ \A e \in Effects : \A x \in Ids(e) : 3 <= x /\ x < cf.next
  BY <1>0 DEF WorldInv, FreshIds
<1>10. FreshIds'
  <2>1. \A e \in Effects : Ids(e)' = Ids(e) /\ Ids(e) \subseteq Nat
    BY <1>2 DEF Ids
  <2>2. \A r \in cf.records : r.id \in Nat /\ r.target \in Nat
    BY <1>0 DEF DnsRecord
  <2>. HIDE DEF Ids
  <2>3. \A e \in Effects : \A x \in Ids(e)' : 3 <= x /\ x < cf'.next
    BY <1>0, <1>4, <1>9, <2>1
  <2>4. \A r \in cf'.records : 0 < r.id /\ r.id < cf'.next /\ r.target < cf'.next /\ r.id \notin cf'.tunnels
    BY <1>0, <1>3, <1>4, <1>9, <2>2
  <2>5. cf'.next >= 3 /\ \A t \in cf'.tunnels : 0 < t /\ t < cf'.next
    BY <1>0, <1>4, <1>9
  <2>. QED  BY <2>3, <2>4, <2>5 DEF FreshIds
<1>11. UniqueRecords'
  BY <1>0, <1>1, <1>3, <1>4, <1>9 DEF WorldInv, UniqueRecords, DnsRecord
<1>12. RecordsKnown'
  <2>1. \A r \in cf.records : IF r.foreign THEN r.target = 0 /\ r.id # 2 /\ \A e \in Effects : r.id \notin made'[e]
                              ELSE r.target # 0 /\ TargetOf(r)'
    BY <1>0, <1>2, <1>4, OtherSame DEF WorldInv, RecordsKnown
  <2>2. \A e \in Effects : n.id \notin made'[e]
    BY <1>0, <1>2, <1>3, <1>9 DEF Ids
  <2>. QED  BY <1>0, <1>3, <1>4, <1>9, <2>1, <2>2 DEF RecordsKnown
<1>13. WorldInv'
  BY <1>0, <1>2, <1>4, <1>10, <1>11, <1>12, OtherSame DEF WorldInv
<1>. QED  BY <1>2, <1>6, <1>7, <1>8, <1>13, OtherKeeps

LEMMA OtherDeletesKeeps ==
    ASSUME IngressInv, IngressAssumption, OtherDeletes, dispatch' = dispatch
    PROVE  IngressInv'
<1>0. TypeOK /\ WorldInv /\ cf \in World /\ (\A e \in Effects : EffectInv(e))
  BY CfType DEF IngressInv
<1>1. PICK d \in cf.records : d.foreign /\ cf' = [cf EXCEPT !.records = @ \ {d}]
  BY DEF OtherDeletes
<1>2. UNCHANGED <<dispatch, late, pc, st, outcome, permit, owned, made>>
  BY DEF OtherDeletes
<1>3. cf'.tunnels = cf.tunnels /\ cf'.records = cf.records \ {d} /\ cf'.tokens = cf.tokens /\ cf'.next = cf.next
  BY <1>0, <1>1 DEF World
<1>4. cf' \in World
  BY <1>0, <1>1 DEF World, RecordSets
<1>5. NoReuse
  BY <1>3 DEF NoReuse
<1>6. ASSUME NEW f \in Effects
      PROVE  Harmless(f)
  <2>1. d.target = 0
    BY <1>0, <1>1 DEF WorldInv, RecordsKnown
  <2>2. Op[f] = "create" /\ st[f].dns # 0 => st[f].tun # 0
    BY <1>0 DEF EffectInv, CreateInv
  <2>. QED  BY <1>3, <2>1, <2>2 DEF Harmless
<1>7. TypeOK'
  BY <1>0, <1>2, <1>4 DEF TypeOK
<1>8. FreshIds' /\ UniqueRecords'
  BY <1>0, <1>2, <1>3 DEF WorldInv, FreshIds, UniqueRecords, Ids
<1>9. RecordsKnown'
  BY <1>0, <1>2, <1>3, OtherSame DEF WorldInv, RecordsKnown
<1>10. WorldInv'
  BY <1>0, <1>2, <1>3, <1>8, <1>9, OtherSame DEF WorldInv
<1>. QED  BY <1>2, <1>5, <1>6, <1>7, <1>10, OtherKeeps

(* Initially nothing was made.                                             *)
LEMMA InitHolds ==
    ASSUME Init, IngressAssumption
    PROVE  IngressInv
<1>1. /\ dispatch \in Dispatches /\ late = {} /\ pc = [e \in Effects |-> "idle"]
      /\ st = [e \in Effects |-> Initial(e)] /\ outcome = [e \in Effects |-> "none"]
      /\ permit = [e \in Effects |-> <<"none", "none">>] /\ made = [e \in Effects |-> {}]
  BY DEF Init, Initial
<1>2. \A e \in Effects : Op[e] \in Ops \cup {"none"}
  BY <1>1 DEF IngressAssumption, Dispatch
<1>3. \/ /\ dispatch.existing
         /\ cf = [tunnels |-> {1}, tokens |-> {OldGrant}, next |-> 3,
                  records |-> {[id |-> 2, target |-> 1, cname |-> TRUE, foreign |-> FALSE]}]
         /\ owned = {[tunnel |-> 1, dns |-> 2, grant |-> OldGrant]}
      \/ ~dispatch.existing /\ cf = [tunnels |-> {}, records |-> {}, tokens |-> {}, next |-> 3] /\ owned = {}
  BY DEF Init
<1>4. TypeOK
  <2>1. cf \in World /\ owned \subseteq Allocation
    <3>1. 1 \in Nat /\ 2 \in Nat /\ 3 \in Nat /\ OldGrant \in Grants
      BY DEF Grants
    <3>2. /\ {[id |-> 2, target |-> 1, cname |-> TRUE, foreign |-> FALSE]} \in RecordSets /\ {} \in RecordSets
          /\ {1} \in TunnelSets /\ {} \in TunnelSets /\ {OldGrant} \in TokenSets /\ {} \in TokenSets
      BY <3>1 DEF RecordSets, DnsRecord, TunnelSets, TokenSets
    <3>3. owned \subseteq Allocation
      BY <1>3, <3>1 DEF Allocation
    <3>4. CASE cf = [tunnels |-> {}, records |-> {}, tokens |-> {}, next |-> 3]
      BY <3>1, <3>2, <3>3, <3>4 DEF World
    <3>5. ASSUME NEW R \in RecordSets, cf = [tunnels |-> {1}, tokens |-> {OldGrant}, next |-> 3, records |-> R]
          PROVE  cf \in World
      BY <3>1, <3>2, <3>5 DEF World
    <3>. QED  BY <1>3, <3>2, <3>3, <3>4, <3>5
  <2>2. \A e \in Effects : "idle" \in Labels(Op[e])
    BY <1>2 DEF Labels, Ops
  <2>3. \A e \in Effects : "idle" \in AllLabels
    BY <1>2, <2>2 DEF AllLabels
  <2>4. \A e \in Effects : Initial(e) \in LocalState
    <3>1. <<>> \in StageLists
      BY DEF StageLists
    <3>. QED  BY <3>1 DEF Initial, LocalState, Grants, Errors, Certainties, Failures
  <2>5. \A e \in Effects : Initial(e).todo \in Seq(StagesOf(Op[e]))
    BY ListsOf DEF Initial
  <2>6. <<"none", "none">> \in [1..2 -> Words] /\ "none" \in Outcomes
    BY DEF Words, Outcomes
  <2>. HIDE DEF Initial
  <2>. QED  BY <1>1, <2>1, <2>2, <2>3, <2>4, <2>5, <2>6 DEF TypeOK
<1>5. \A e \in Effects : Ids(e) = {} /\ st[e] = Initial(e) /\ made[e] = {} /\ pc[e] = "idle"
                         /\ permit[e][1] = "none" /\ permit[e][2] = "none" /\ outcome[e] = "none"
  BY <1>1 DEF Ids
<1>6. \A e \in Effects : st[e].tun = 0 /\ st[e].dns = 0 /\ st[e].grant = e
  <2>1. \A e : Initial(e).tun = 0 /\ Initial(e).dns = 0 /\ Initial(e).grant = e
    BY DEF Initial
  <2>. QED  BY <1>5, <2>1
<1>7. WorldInv
  <2>1. SeparateIds /\ (\A a \in owned : OwnedFrom(a) /\ OwnedDns(a))
    BY <1>3, <1>5 DEF SeparateIds, OwnedFrom, OwnedDns
  <2>2. FreshIds /\ UniqueRecords
    <3>1. cf.next = 3 /\ cf.tunnels \subseteq {1}
          /\ cf.records \subseteq {[id |-> 2, target |-> 1, cname |-> TRUE, foreign |-> FALSE]}
      BY <1>3
    <3>2. \A r \in cf.records : r.id = 2 /\ r.target = 1
      BY <3>1
    <3>3. UniqueRecords
      BY <3>1 DEF UniqueRecords
    <3>. QED  BY <1>5, <3>1, <3>2, <3>3 DEF FreshIds
  <2>3. RecordsKnown
    BY <1>3 DEF RecordsKnown, TargetOf
  <2>4. TunnelsAccounted
    BY <1>3, <1>6 DEF TunnelsAccounted, Tunnel
  <2>. QED  BY <2>1, <2>2, <2>3, <2>4 DEF WorldInv
<1>8. ASSUME NEW e \in Effects
      PROVE  EffectInv(e)
  <2>1. Untouched(e) /\ PermitInv(e)
    BY <1>5 DEF Untouched, PermitInv
  <2>2. CreateInv(e)
    BY <1>5, <1>6 DEF CreateInv
  <2>3. RebindInv(e)
    BY <1>5, <1>6 DEF RebindInv
  <2>4. RemoverInv(e)
    BY <1>5, <1>6 DEF RemoverInv
  <2>. QED  BY <2>1, <2>2, <2>3, <2>4 DEF EffectInv
<1>. QED  BY <1>1, <1>4, <1>7, <1>8 DEF IngressInv

LEMMA StutterKeeps ==
    ASSUME IngressInv, UNCHANGED vars
    PROVE  IngressInv'
<1>1. TypeOK' = TypeOK
  BY DEF TypeOK, vars
<1>2. WorldInv' = WorldInv
  BY DEF WorldInv, FreshIds, SeparateIds, UniqueRecords, RecordsKnown, TargetOf, TunnelsAccounted, Tunnel,
         Deleter, Deletes, Maker, Remover, Ids, OwnedFrom, OwnedDns, Allocated, vars
<1>3. \A e : EffectInv(e)' = EffectInv(e)
  BY DEF EffectInv, Untouched, PermitInv, CreateInv, RebindInv, RemoverInv, Gone, Removes, Pending, Initial,
         Targeted, Remover, Ids, RecordIds, RecordsWith, vars
<1>4. \A l : LateInv(l)' = LateInv(l)
  BY DEF LateInv, Maker, Deletes, Remover, Ids, Targeted, vars
<1>. QED  BY <1>1, <1>2, <1>3, <1>4 DEF IngressInv, vars

-----------------------------------------------------------------------------
(* The theorems.                                                           *)

(* The inductive invariant holds of every behaviour, for every set of      *)
(* effects and whatever they are asked: the calls of every effect, of its  *)
(* compensation and of its lost requests name only what it made or took    *)
(* over.                                                                   *)
THEOREM IngressInvariant == Spec => []IngressInv
<1>1. Init => IngressInv
  BY InitHolds, IngressAssumption
<1>2. IngressInv /\ [Next]_vars => IngressInv'
  <2>. SUFFICES ASSUME IngressInv, [Next]_vars
                PROVE  IngressInv'
    OBVIOUS
  <2>1. CASE Environment /\ UNCHANGED dispatch
    BY <2>1, LateCallKeeps, OtherCreatesKeeps, OtherDeletesKeeps, IngressAssumption DEF Environment
  <2>2. CASE \E e \in Effects : Step(e) /\ UNCHANGED dispatch
    BY <2>2, StepKeeps, IngressAssumption
  <2>3. CASE UNCHANGED vars
    BY <2>3, StutterKeeps
  <2>. HIDE DEF IngressInv
  <2>. QED  BY <2>1, <2>2, <2>3 DEF Next
<1>. QED  BY <1>1, <1>2, PTL DEF Spec

(* _ingress_failure says failed, as opposed to unknown, only when nothing  *)
(* of the create is left at Cloudflare and nothing can still appear.       *)
THEOREM FailedCreatesAreClean == Spec => []CleanFailure
<1>1. IngressInv => CleanFailure
  <2>. SUFFICES ASSUME IngressInv, NEW e \in Effects, outcome[e] = "failed"
                PROVE  /\ made[e] \cap (cf.tunnels \cup RecordIds) = {}
                       /\ \A l \in late : l.by = e => l.call.op \notin {"create_tunnel", "create_dns"}
    BY DEF CleanFailure
  <2>1. TypeOK /\ EffectInv(e) /\ (\A l \in late : LateInv(l)) /\ pc[e] # "idle"
    BY DEF IngressInv, TypeOK
  <2>2. Op[e] = "create"
    BY <2>1, Operations, IngressAssumption DEF EffectInv, RebindInv, RemoverInv, Remover, Ops
  <2>3. st[e].certainty # "uncertain" /\ Ids(e) \cap (cf.tunnels \cup RecordIds) = {}
    BY <2>1, <2>2 DEF EffectInv, CreateInv
  <2>4. cf.tunnels \cup RecordIds \subseteq Nat
    BY <2>1, CfType DEF RecordIds, DnsRecord
  <2>5. ASSUME NEW l \in late, l.by = e
        PROVE  l.call.op \notin {"create_tunnel", "create_dns"}
    BY <2>1, <2>2, <2>3, <2>5 DEF LateInv
  <2>. QED  BY <2>3, <2>4, <2>5 DEF Ids
<1>. QED  BY <1>1, IngressInvariant, PTL

(* The compensation of rebind: an exception that reports no uncertainty    *)
(* means that _restore_rebind_reservation put the record back and that the *)
(* new tunnel is deleted.                                                  *)
THEOREM RaisedRebindsAreRestored == Spec => []RaisedRebindRestored
<1>1. IngressInv => RaisedRebindRestored
  <2>. SUFFICES ASSUME IngressInv, NEW e \in Effects, outcome[e] = "raised"
                PROVE  /\ \A r \in cf.records : r.target \notin made[e]
                       /\ st[e].tun \notin cf.tunnels
                       /\ st[e].tun # 0 => made[e] \cap cf.tunnels = {}
    BY DEF RaisedRebindRestored
  <2>1. TypeOK /\ WorldInv /\ EffectInv(e) /\ pc[e] # "idle" /\ (\A f \in Effects : EffectInv(f))
    BY DEF IngressInv, TypeOK
  <2>2. Op[e] = "rebind"
    BY <2>1, Operations, IngressAssumption DEF EffectInv, CreateInv, RemoverInv, Remover, Ops
  <2>3. /\ st[e].tun \notin cf.tunnels /\ (st[e].tun # 0 => ~Targeted(st[e].tun))
        /\ st[e].tun # 0 => Ids(e) \subseteq {st[e].tun}
    BY <2>1, <2>2 DEF EffectInv, RebindInv
  <2>4. ASSUME NEW r \in cf.records, r.target \in made[e]
        PROVE  FALSE
    <3>1. r.target \in Ids(e) /\ r.target >= 3
      BY <2>1, <2>4, CfType DEF WorldInv, FreshIds, Ids, DnsRecord
    <3>2. st[e].tun = 0
      BY <2>3, <3>1 DEF Targeted
    <3>3. PICK g \in Effects : Maker(g) /\ r.target = st[g].tun /\ st[g].tun # 0
      BY <2>1, <3>1 DEF WorldInv, RecordsKnown, TargetOf, Maker
    <3>4. r.target \in Ids(g)
      BY <2>1, <3>3, TunnelOfOne
    <3>. QED  BY <2>1, <3>1, <3>2, <3>3, <3>4 DEF WorldInv, SeparateIds
  <2>5. cf.tunnels \subseteq Nat
    BY <2>1, CfType
  <2>. QED  BY <2>3, <2>4, <2>5 DEF Ids
<1>. QED  BY <1>1, IngressInvariant, PTL

(* The evidence of teardown, deactivation and release names every stage    *)
(* whose resource may be left.                                             *)
THEOREM RemovalsAreTrue == Spec => []RemovalTrue
<1>1. IngressInv => RemovalTrue
  <2>. SUFFICES ASSUME IngressInv, NEW e \in Effects, Remover(e), outcome[e] \in {"succeeded", "unknown"},
                       e \in Invoked => permit[e][2] # "none"
                PROVE  \A stage \in Removes(e) \ st[e].failed : Gone(e, stage)
    BY DEF RemovalTrue, Gone, Remover
  <2>1. RemoverInv(e)
    BY DEF IngressInv, EffectInv
  <2>. QED  BY <2>1 DEF RemoverInv
<1>. QED  BY <1>1, IngressInvariant, PTL

(* What _invoke_ingress recorded of its two units covers what the calls of *)
(* the effect did or may still do, at every point where the process may    *)
(* die.                                                                    *)
THEOREM PermitsAlwaysCover == Spec => []PermitsCover
<1>1. IngressInv => PermitsCover
  <2>. SUFFICES ASSUME IngressInv, NEW e \in Invoked
                PROVE  /\ made[e] # {} \/ (\E l \in late : l.by = e) => permit[e][1] # "none"
                       /\ permit[e][2] # "none" => permit[e][1] = "returned"
                       /\ Op[e] = "create" /\ permit[e][1] = "returned" =>
                                {st[e].tun, st[e].dns} \subseteq made[e]
                       /\ Op[e] = "create" /\ e \in made[e] => permit[e][2] # "none"
                       /\ Op[e] = "teardown" =>
                            /\ permit[e][2] # "none" => st[e].grant \notin cf.tokens
                            /\ (\E l \in late : l.by = e /\ l.call.op # "revoke") => permit[e][2] # "none"
    BY DEF PermitsCover
  <2>1. TypeOK /\ (\A l \in late : LateInv(l)) /\ e \in Effects
    BY IngressAssumption DEF IngressInv, TypeOK, Dispatch
  <2>2. EffectInv(e)
    BY <2>1 DEF IngressInv
  <2>3. PermitInv(e) /\ Untouched(e) /\ (Op[e] = "create" => CreateInv(e))
    BY <2>2 DEF EffectInv
  <2>4. made[e] # {} => permit[e][1] # "none"
    BY <2>3 DEF PermitInv, Untouched
  <2>5. ASSUME NEW l \in late, l.by = e
        PROVE  /\ permit[e][1] # "none"
               /\ Op[e] = "teardown" /\ l.call.op # "revoke" => permit[e][2] # "none"
    BY <2>1, <2>5, LateTyped DEF LateInv, Maker
  <2>6. Op[e] = "create" /\ permit[e][1] = "returned" => {st[e].tun, st[e].dns} \subseteq made[e]
    BY <2>3 DEF PermitInv, CreateInv
  <2>. QED  BY <2>3, <2>4, <2>5, <2>6 DEF PermitInv
<1>. QED  BY <1>1, IngressInvariant, PTL

(* The record that points to the tunnel of an allocation is its record.    *)
LEMMA OwnedRecord ==
    ASSUME IngressInv, NEW a \in owned, NEW r \in cf.records, ~r.foreign, r.target = a.tunnel
    PROVE  r.id = a.dns
<1>0. TypeOK /\ WorldInv /\ (\A e \in Effects : EffectInv(e))
  BY DEF IngressInv
<1>1. TargetOf(r) /\ OwnedFrom(a)
  BY <1>0 DEF WorldInv, RecordsKnown
<1>2. ASSUME NEW g \in Effects, Maker(g), st[g].tun # 0
      PROVE  st[g].tun # 1
  BY <1>0, <1>2, TunnelOfOne DEF WorldInv, FreshIds
<1>3. CASE dispatch.existing /\ a = [tunnel |-> 1, dns |-> 2, grant |-> OldGrant]
  BY <1>1, <1>2, <1>3 DEF TargetOf, Maker
<1>4. CASE \E e \in Effects : Maker(e) /\ outcome[e] = "succeeded" /\ a = Allocated(e)
  <2>1. PICK e \in Effects : Maker(e) /\ outcome[e] = "succeeded" /\ a = Allocated(e)
    BY <1>4
  <2>2. /\ a.tunnel = st[e].tun /\ a.dns = st[e].dns /\ st[e].tun # 0
        /\ Op[e] = "create" => st[e].dns # 0
    BY <1>0, <2>1 DEF Allocated, Maker, EffectInv, CreateInv, RebindInv
  <2>3. PICK g \in Effects :
            /\ r.target = st[g].tun /\ st[g].tun # 0
            /\ \/ Op[g] = "rebind" /\ r.id = st[g].dns
               \/ Op[g] = "create" /\ (st[g].dns # 0 => r.id = st[g].dns)
    BY <1>1, <1>2, <2>1, <2>2 DEF TargetOf
  <2>4. g = e
    BY <1>0, <2>1, <2>2, <2>3, TunnelOfOne DEF Maker
  <2>. QED  BY <2>2, <2>3, <2>4
<1>. QED  BY <1>1, <1>3, <1>4 DEF OwnedFrom

(* A hostname that points to a deleted tunnel is always the doing of an    *)
(* effect that deletes that tunnel and is cleaning up, ended without a     *)
(* definite result, or deactivated it; never of a create or a rebind that  *)
(* reports success, of a clean failure, or of a completed teardown.        *)
THEOREM DanglingIsExplained == Spec => []DanglingExplained
<1>1. IngressInv => DanglingExplained
  <2>. SUFFICES ASSUME IngressInv, NEW r \in cf.records, ~r.foreign, r.target \notin cf.tunnels
                PROVE  \E e \in Effects :
                    /\ st[e].tun = r.target /\ Op[e] # "release"
                    /\ \/ pc[e] \in {"cleanup", "restore", "restore-check", "still-reserved",
                                     "tunnel-absent"}
                       \/ outcome[e] \in {"unknown", "unrecorded"}
                       \/ Op[e] = "deactivate" /\ outcome[e] = "succeeded"
    BY DEF DanglingExplained
  <2>0. TypeOK /\ WorldInv /\ (\A e \in Effects : EffectInv(e))
    BY DEF IngressInv
  <2>1. r.target # 0 /\ TargetOf(r) /\ r.target \in Nat /\ r.id \in Nat
    BY <2>0, CfType DEF WorldInv, RecordsKnown, DnsRecord
  <2>2. Tunnel(r.target)
    BY <2>1 DEF TargetOf, Tunnel, Maker
  <2>3. PICK e \in Effects : Deleter(e, r.target)
    BY <2>0, <2>1, <2>2 DEF WorldInv, TunnelsAccounted
  <2>4. st[e].tun = r.target /\ Op[e] # "release" /\ Deletes(e) /\ EffectInv(e)
    BY <2>0, <2>3 DEF Deleter
  <2>5. pc[e] # "idle" /\ Op[e] \in Ops
    BY <2>0, <2>4, Operations, IngressAssumption DEF Deletes, TypeOK
  <2>6. CASE pc[e] # "done"
    <3>1. outcome[e] = "none"
      BY <2>0, <2>6 DEF TypeOK
    <3>. QED  BY <2>4, <3>1 DEF Deletes
  <2>7. CASE outcome[e] \in {"unknown", "unrecorded"}
    BY <2>4, <2>7
  <2>8. CASE outcome[e] = "failed"
    <3>1. Op[e] = "create"
      BY <2>4, <2>5, <2>8 DEF EffectInv, RebindInv, RemoverInv, Remover, Ops
    <3>2. Ids(e) \cap RecordIds = {}
      BY <2>4, <2>8, <3>1 DEF EffectInv, CreateInv
    <3>3. st[e].tun \in Ids(e) /\ st[e].tun >= 3
      BY <2>0, <2>1, <2>4, <3>1, TunnelOfOne DEF Maker, WorldInv, FreshIds
    <3>4. PICK g \in Effects :
            /\ r.target = st[g].tun /\ st[g].tun # 0
            /\ Op[g] = "rebind" \/ (Op[g] = "create" /\ r.id \in made[g])
      BY <2>1, <2>4, <3>3 DEF TargetOf
    <3>5. g = e
      BY <2>0, <2>1, <2>4, <3>1, <3>4, TunnelOfOne DEF Maker
    <3>6. r.id \in Ids(e) \cap RecordIds
      BY <2>1, <3>1, <3>4, <3>5 DEF Ids, RecordIds
    <3>. QED  BY <3>2, <3>6
  <2>9. CASE outcome[e] = "raised"
    <3>1. Op[e] = "rebind"
      BY <2>4, <2>5, <2>9 DEF EffectInv, CreateInv, RemoverInv, Remover, Ops
    <3>. QED  BY <2>1, <2>4, <2>9, <3>1 DEF EffectInv, RebindInv, Targeted
  <2>10. CASE Remover(e) /\ outcome[e] = "succeeded" /\ Op[e] # "deactivate"
    <3>1. Op[e] = "teardown" /\ RemoverInv(e)
      BY <2>4, <2>10 DEF Remover, EffectInv
    <3>2. st[e].failed = {} /\ (e \in Invoked => permit[e][2] # "none")
      BY <2>10, <3>1 DEF RemoverInv
    <3>3. Gone(e, "dns")
      BY <2>10, <3>1, <3>2 DEF RemoverInv, Removes
    <3>4. PermitInv(e)
      BY <2>4 DEF EffectInv
    <3>5. PICK a \in owned : st[e].dns = a.dns /\ st[e].tun = a.tunnel
      BY <2>5, <3>1, <3>2, <3>4 DEF RemoverInv, PermitInv
    <3>6. r.id = st[e].dns
      BY <2>4, <3>5, OwnedRecord
    <3>. QED  BY <3>3, <3>6 DEF Gone, RecordsWith
  <2>11. CASE Op[e] = "deactivate" /\ outcome[e] = "succeeded"
    BY <2>4, <2>11
  <2>12. pc[e] = "done" => \/ outcome[e] \in {"unknown", "unrecorded", "failed", "raised"}
                           \/ Remover(e) /\ outcome[e] = "succeeded"
    BY <2>4 DEF Deletes
  <2>. QED  BY <2>6, <2>7, <2>8, <2>9, <2>10, <2>11, <2>12
<1>. QED  BY <1>1, IngressInvariant, PTL

(* The record that a call names was made by an effect, or is the record of *)
(* an allocation.                                                          *)
LEMMA NamesNoForeign ==
    ASSUME IngressInv, NEW e \in Effects, NEW call, Legit(e, call), NEW r \in cf.records, r.foreign
    PROVE  r.id # st[e].dns
<1>0. TypeOK /\ WorldInv /\ EffectInv(e) /\ (\A f \in Effects : EffectInv(f))
  BY DEF IngressInv
<1>1. r.id > 0 /\ r.id # 2 /\ \A f \in Effects : r.id \notin made[f]
  BY <1>0 DEF WorldInv, FreshIds, RecordsKnown
<1>2. ASSUME NEW a \in owned
      PROVE  r.id # a.dns
  <2>1. OwnedDns(a)
    BY <1>0 DEF WorldInv
  <2>2. ASSUME NEW g \in Effects, Op[g] = "create", outcome[g] = "succeeded"
        PROVE  st[g].dns \in made[g]
    BY <1>0, <2>2 DEF EffectInv, CreateInv
  <2>. QED  BY <1>1, <2>1, <2>2 DEF OwnedDns
<1>3. pc[e] # "idle" /\ (e \in Invoked => permit[e][1] # "none")
  BY DEF Legit
<1>4. CASE Op[e] = "create"
  <2>1. st[e].dns # 0 => st[e].dns \in made[e]
    BY <1>0, <1>4 DEF EffectInv, CreateInv
  <2>2. r.id # 0
    BY <1>1
  <2>. QED  BY <1>1, <2>1, <2>2
<1>5. CASE Op[e] = "rebind"
  BY <1>0, <1>2, <1>3, <1>5 DEF EffectInv, RebindInv
<1>6. CASE Remover(e)
  BY <1>0, <1>2, <1>3, <1>6 DEF EffectInv, RemoverInv
<1>. QED  BY <1>0, <1>3, <1>4, <1>5, <1>6, Operations, IngressAssumption DEF Ops, Remover

(* So no executed call takes away a record of another owner.               *)
LEMMA ActsSpareForeign ==
    ASSUME IngressInv, NEW e \in Effects, Acts(e), NEW r \in cf.records, r.foreign
    PROVE  r \in cf'.records
<1>0. TypeOK
  BY DEF IngressInv
<1>1. ASSUME NEW call \in Call, Legit(e, call), Execute(e, call)
      PROVE  r \in cf'.records
  <2>1. r.id # st[e].dns
    BY <1>1, NamesNoForeign
  <2>2. CASE call.op = "update_dns"
    <3>1. cf'.records = {Retarget(q, call) : q \in cf.records} /\ call.id = st[e].dns
      BY <1>0, <1>1, <2>2, ExecuteDoes DEF Becomes, Legit
    <3>2. Retarget(r, call) = r
      BY <2>1, <3>1 DEF Retarget
    <3>. QED  BY <3>1, <3>2
  <2>3. CASE call.op = "delete_dns"
    <3>1. cf'.records = cf.records \ RecordsWith(call.id) /\ call.id = st[e].dns
      BY <1>0, <1>1, <2>3, ExecuteDoes DEF Becomes, Legit
    <3>. QED  BY <2>1, <3>1 DEF RecordsWith
  <2>4. CASE call.op = "create_dns"
    BY <1>0, <1>1, <2>4, ExecuteDoes
  <2>5. CASE call.op \in {"create_tunnel", "delete_tunnel", "store", "revoke"}
    BY <1>0, <1>1, <2>5, ExecuteDoes DEF Becomes
  <2>6. CASE call.op \in {"configure", "connections"}
    BY <1>0, <1>1, <2>6, ExecuteDoes
  <2>. QED  BY <1>1, <2>2, <2>3, <2>4, <2>5, <2>6 DEF Call, KeptCall
<1>. QED  BY <1>1 DEF Acts

(* No call of the interpreter, made in time, in compensation or executed   *)
(* late, deletes or changes a DNS record of another owner.                 *)
THEOREM ForeignRecordsAreUntouched == Spec => ForeignUntouched
<1>1. IngressInv /\ [Next]_vars =>
        [\A r \in cf.records : r.foreign /\ r \notin cf'.records => OtherDeletes]_vars
  <2>. SUFFICES ASSUME IngressInv, Next, NEW r \in cf.records, r.foreign, r \notin cf'.records
                PROVE  OtherDeletes
    OBVIOUS
  <2>1. ASSUME NEW e \in Effects, Acts(e)
        PROVE  FALSE
    BY <2>1, ActsSpareForeign
  <2>2. CASE LateCall
    <3>1. PICK l \in late : Execute(l.by, l.call) \/ UNCHANGED <<cf, made>>
      BY <2>2 DEF LateCall
    <3>2. l.by \in Effects /\ l.call \in Call /\ Legit(l.by, l.call)
      BY LateLegit DEF IngressInv
    <3>. QED  BY <2>1, <3>1, <3>2 DEF Acts
  <2>3. CASE OtherCreates
    <3>1. cf \in World
      BY DEF IngressInv, TypeOK
    <3>. QED  BY <2>3, <3>1 DEF OtherCreates, World
  <2>4. ASSUME NEW e \in Effects, Step(e)
        PROVE  OtherDeletes
    BY <2>1, <2>4, StepActs, IngressAssumption
  <2>. QED  BY <2>2, <2>3, <2>4 DEF Next, Environment
<1>. QED  BY <1>1, IngressInvariant, PTL DEF Spec, ForeignUntouched

(* Only the last step of create and the last step of rebind report success *)
(* of a maker.                                                             *)
LEMMA SuccessSteps ==
    ASSUME TypeOK, NEW e \in Effects, Step(e), Maker(e), outcome'[e] = "succeeded"
    PROVE  StoreToken(e) \/ RebindConfirms(e)
<1>0. outcome[e] # "succeeded" /\ outcome \in [Effects -> Outcomes] /\ Op[e] \in {"create", "rebind"}
  BY StepFrame DEF TypeOK, Maker
<1>1. CASE Begin(e)
  BY <1>0, <1>1 DEF Begin, Move, Clean, Record, End
<1>2. CASE PreObserve(e)
  BY <1>0, <1>2 DEF PreObserve, Move, StopCreate, Report, RecordLost, Record, End
<1>3. CASE CreateTunnel(e)
  BY <1>0, <1>3 DEF CreateTunnel, Request, Move, Clean, StopCreate, Report, RecordLost, Record, End
<1>4. CASE ConfigureTunnel(e)
  BY <1>0, <1>4 DEF ConfigureTunnel, Request, Move, Clean
<1>5. CASE ObserveAgain(e)
  BY <1>0, <1>5 DEF ObserveAgain, Move, Clean, StopCreate, Report, RecordLost, Record, End
<1>6. CASE CreateDns(e)
  BY <1>0, <1>6 DEF CreateDns, Request, Move
<1>7. CASE Reconcile(e)
  <2>1. StopCreate(e, st[e]) \/ (\E n : Move(e, "token", n)) \/ Clean(e, <<"tunnel">>, st[e])
    BY <1>7 DEF Reconcile
  <2>. QED  BY <1>0, <2>1 DEF Move, Clean, StopCreate, Report, RecordLost, Record, End
<1>8. CASE TunnelToken(e)
  BY <1>0, <1>8 DEF TunnelToken, Move, Clean, RecordLost, Record, End
<1>9. CASE StoreToken(e)
  BY <1>9
<1>10. CASE RebindObserves(e)
  BY <1>0, <1>10 DEF RebindObserves, Move, Clean, FailRebind, RequireObserved
<1>11. CASE UpdateDns(e)
  BY <1>0, <1>11 DEF UpdateDns, Request, Move, Clean
<1>12. CASE RebindToken(e)
  BY <1>0, <1>12 DEF RebindToken, Move, Clean, FailRebind
<1>13. CASE RebindStores(e)
  BY <1>0, <1>13 DEF RebindStores, Request, Move, Clean, FailRebind
<1>14. CASE RebindConfirms(e)
  BY <1>14
<1>15. CASE CleanupStage(e)
  BY <1>0, <1>15 DEF CleanupStage, Request, Move, StageEnds
<1>16. CASE RestoreObserves(e)
  BY <1>0, <1>16 DEF RestoreObserves, Move, StageEnds
<1>17. CASE RestoreUpdates(e)
  BY <1>0, <1>17 DEF RestoreUpdates, Request, Move, StageEnds
<1>18. CASE RestoreChecks(e)
  BY <1>0, <1>18 DEF RestoreChecks, Move, StageEnds
<1>19. CASE CleanupDone(e)
  BY <1>0, <1>19 DEF CleanupDone, Move, StopCreate, Report, RecordLost, Record, End
<1>20. CASE RevokeToken(e)
  BY <1>0, <1>20 DEF RevokeToken, Request, Report, RecordLost, Record, End
<1>21. CASE RequireReservation(e)
  BY <1>0, <1>21 DEF RequireReservation, Move, Clean, End
<1>22. CASE StillReserved(e)
  BY <1>0, <1>22 DEF StillReserved, Move
<1>23. CASE TunnelAbsent(e)
  BY <1>0, <1>23 DEF TunnelAbsent, End, TypeOK, Labels
<1>24. CASE ReleaseDns(e)
  BY <1>0, <1>24 DEF ReleaseDns, Request, Move
<1>25. CASE ReleaseAbsence(e)
  BY <1>0, <1>25 DEF ReleaseAbsence, End, TypeOK, Labels
<1>. QED  BY <1>1, <1>2, <1>3, <1>4, <1>5, <1>6, <1>7, <1>8, <1>9, <1>10, <1>11, <1>12, <1>13, <1>14, <1>15, <1>16, <1>17, <1>18, <1>19, <1>20, <1>21, <1>22, <1>23, <1>24, <1>25 DEF Step

(* Nobody deletes the tunnel of a maker that is still at work.             *)
LEMMA OwnTunnelLives ==
    ASSUME IngressInv, NEW e \in Effects, Maker(e), st[e].tun # 0, pc[e] \in {"store", "confirm"}
    PROVE  st[e].tun \in cf.tunnels
<1>0. TypeOK /\ WorldInv /\ (\A f \in Effects : EffectInv(f))
  BY DEF IngressInv
<1>1. outcome[e] = "none" /\ st[e].tun \in Nat
  BY <1>0 DEF TypeOK, LocalState
<1>2. ~Deletes(e) /\ Private(e)
  BY <1>1 DEF Deletes, Private
<1>3. ASSUME NEW f \in Effects, Deleter(f, st[e].tun)
      PROVE  FALSE
  <2>1. Deletes(f) /\ st[f].tun = st[e].tun /\ f # e
    BY <1>2, <1>3 DEF Deleter
  <2>2. pc[f] # "idle" /\ outcome[f] # "refused"
    BY <1>0, <2>1 DEF Deletes, TypeOK
  <2>3. f \in Invoked => permit[f][1] # "none"
    BY <1>0, <2>2 DEF EffectInv, PermitInv
  <2>. QED  BY <1>0, <1>2, <2>1, <2>2, <2>3, Apart, IngressAssumption
<1>4. Tunnel(st[e].tun)
  BY DEF Tunnel
<1>. QED  BY <1>0, <1>1, <1>3, <1>4 DEF WorldInv, TunnelsAccounted

(* When create or rebind reports success the hostname is served by what    *)
(* the effect itself created, whatever other effects, other owners and     *)
(* lost requests did in the meantime.                                      *)
THEOREM SuccessServes == Spec => ServesAtSuccess
<1>. DEFINE Served(e) ==
        /\ {st[e].tun, e} \subseteq made'[e] /\ st[e].tun \in cf'.tunnels
        /\ \E r \in cf'.records : r.id = st[e].dns /\ r.target = st[e].tun
        /\ Op[e] = "create" => st[e].dns \in made'[e]
        /\ e \in cf'.tokens
<1>1. ASSUME IngressInv, NEW e \in Effects, StoreToken(e), outcome'[e] = "succeeded"
      PROVE  Served(e)
  <2>0. TypeOK /\ EffectInv(e) /\ DOMAIN made = Effects
    BY <1>1 DEF IngressInv, TypeOK
  <2>1. pc[e] = "store" /\ Op[e] = "create" /\ outcome[e] = "none" /\ CreateInv(e)
    BY <1>1, <2>0, StoreTokenDoes DEF EffectInv, TypeOK
  <2>2. Answered(e, [op |-> "store", grant |-> e], "ok")
    BY <1>1, <2>0, <2>1, StoreTokenDoes DEF Halts, Cleans, Goes
  <2>3. Execute(e, [op |-> "store", grant |-> e]) /\ [op |-> "store", grant |-> e] \in Call
    BY <2>2 DEF Answered, Call, KeptCall, Grants
  <2>4. /\ cf'.tunnels = cf.tunnels /\ cf'.records = cf.records /\ cf'.tokens = cf.tokens \cup {e}
        /\ made' = [made EXCEPT ![e] = @ \cup {e}]
    BY <2>0, <2>3, ExecuteDoes DEF Becomes
  <2>5. made'[e] = made[e] \cup {e}
    BY <2>0, <2>4
  <2>6. /\ st[e].tun # 0 /\ {st[e].tun, st[e].dns} \subseteq made[e]
        /\ \E r \in cf.records : r.id = st[e].dns /\ r.target = st[e].tun
    BY <2>1 DEF CreateInv
  <2>7. st[e].tun \in cf.tunnels
    BY <1>1, <2>1, <2>6, OwnTunnelLives DEF Maker
  <2>. QED  BY <2>4, <2>5, <2>6, <2>7
<1>2. ASSUME IngressInv, NEW e \in Effects, RebindConfirms(e), outcome'[e] = "succeeded"
      PROVE  Served(e)
  <2>0. TypeOK /\ EffectInv(e)
    BY <1>2 DEF IngressInv
  <2>1. pc[e] = "confirm" /\ Op[e] = "rebind" /\ outcome[e] = "none" /\ RebindInv(e) /\ Reads
    BY <1>2, <2>0, RebindConfirmsDoes, LabelOps, IngressAssumption DEF EffectInv
  <2>2. ObservedTunnel(e) = st[e].tun
    BY <1>2, <2>0, <2>1, RebindConfirmsDoes DEF Halts, Cleans, Goes
  <2>3. st[e].tun # 0 /\ {st[e].tun, e} \subseteq made[e] /\ e \in cf.tokens
    BY <2>1 DEF RebindInv
  <2>4. \E r \in RecordsWith(st[e].dns) : r.target = st[e].tun
    BY <2>2, <2>3 DEF ObservedTunnel
  <2>5. st[e].tun \in cf.tunnels
    BY <1>2, <2>1, <2>3, OwnTunnelLives DEF Maker
  <2>. QED  BY <2>1, <2>3, <2>4, <2>5 DEF Reads, RecordsWith
<1>3. IngressInv /\ [Next]_vars =>
        [\A e \in Effects :
            outcome'[e] # outcome[e] /\ outcome'[e] = "succeeded" /\ Op[e] \in {"create", "rebind"}
                => Served(e)]_vars
  <2>. SUFFICES ASSUME IngressInv, Next, NEW e \in Effects, outcome'[e] # outcome[e],
                       outcome'[e] = "succeeded", Op[e] \in {"create", "rebind"}
                PROVE  Served(e)
    OBVIOUS
  <2>. HIDE DEF Served
  <2>1. TypeOK
    BY DEF IngressInv
  <2>2. PICK f \in Effects : Step(f)
    BY DEF Next, Environment, LateCall, OtherCreates, OtherDeletes
  <2>3. f = e
    BY <2>1, <2>2, StepFrame DEF Others
  <2>. QED  BY <1>1, <1>2, <2>1, <2>2, <2>3, SuccessSteps DEF Maker
<1>. QED  BY <1>3, IngressInvariant, PTL DEF Spec, ServesAtSuccess

=============================================================================
