------------------------ MODULE SecretCustodyProofs -------------------------
(***************************************************************************)
(* The safety properties of the secret provider client and its adapters,   *)
(* for any number of concurrent calls, every set of requests and every     *)
(* history of the reference.                                               *)
(***************************************************************************)
EXTENDS SecretCustody, TLAPS

Codes == {"ok", "CONFLICT", "MISSING", "REVOKED", "DENIED", "ALREADY_EXISTS", "TIMED_OUT",
          "TRANSPORT_FAILED", "REDIRECTED", "RESPONSE_TOO_LARGE", "MALFORMED_RESPONSE",
          "UNAVAILABLE", "INTEGRITY_FAILURE", "BOOTSTRAP", "MALFORMED_REQUEST",
          "MALFORMED_CONFIGURATION", "INVALID", "TRANSPORT", "MALFORMED_RESULT"}
AskOps == (Ops \ {"store", "legacy"}) \cup {"write"}
Meta == [ver: Nat, status: {"active", "revoked"}, intent: Intents, corr: Correlations]
Reply == [code: Codes, meta: SUBSET Meta]
Outcome == [tag: {"none", "returned", "raised", "missing", "denied"}, code: Codes,
            uncertain: BOOLEAN, meta: SUBSET Meta]
Reported == [tag: {"none", "returned", "raised", "missing", "denied"},
             code: Codes \cup {"CUSTODY_FAILED"}, uncertain: BOOLEAN, meta: SUBSET Meta]
Vault == [versions: Seq(Version), revision: Nat, commands: SUBSET Correlations]

TypeOK ==
    /\ vault \in Vault
    /\ wire \subseteq [by: Calls, ask: Ask]
    /\ answer \in [Calls -> Reply \cup {NoAnswer}]
    /\ pc \in [Calls -> {"idle", "send", "wait", "done"}]
    /\ req \in [Calls -> Requests \cup {NoRequest}]
    /\ asked \in [Calls -> Ask \cup {NoRequest}]
    /\ outcome \in [Calls -> Reported]
    /\ before \in [Calls -> Seq(Version)]
    /\ served \in [Calls -> Seq([op: AskOps, applied: BOOLEAN])]
    /\ \A c \in Calls : /\ pc[c] # "idle" => req[c] \in Requests
                        /\ pc[c] # "done" => outcome[c].tag = "none" /\ outcome[c].code = "ok"

(* The request a call makes first, and the one that compensates it.        *)
First(c) == Asking(req[c])
Compensating(c) == [Asking(req[c]) EXCEPT !.op = "revoke"]

OnWire(c, a) == [by |-> c, ask |-> a] \in wire
Arrived(c, op) == \E i \in 1..Len(served[c]) : served[c][i].op = op

(* Each of them is sent at most once and served at most once, the          *)
(* compensating one only by a legacy store that has given up the first.    *)
SentOnce(c) ==
    /\ pc[c] = "idle" => served[c] = <<>> /\ \A w \in wire : w.by # c
    /\ pc[c] # "idle" => \/ asked[c] = First(c)
                         \/ asked[c] = Compensating(c) /\ req[c].op = "legacy"
    /\ \A w \in wire : w.by = c =>
            /\ w.ask = First(c) \/ (w.ask = Compensating(c) /\ asked[c] = Compensating(c) /\ req[c].op = "legacy")
            /\ ~Arrived(c, w.ask.op)
    /\ \A i \in 1..Len(served[c]) :
            \/ served[c][i].op = First(c).op
            \/ served[c][i].op = "revoke" /\ asked[c] = Compensating(c) /\ req[c].op = "legacy"
    /\ \A i, j \in 1..Len(served[c]) : served[c][i].op = served[c][j].op => i = j
    /\ \A i \in 1..Len(served[c]) : served[c][i].applied => req[c].op = "legacy" \/ mutation(First(c))
    /\ pc[c] = "send" => ~OnWire(c, asked[c]) /\ ~Arrived(c, asked[c].op)
    /\ pc[c] = "wait" /\ answer[c] # NoAnswer => Arrived(c, asked[c].op)

(* What an answer that is being waited for says of the provider.           *)
Describes(c, meta) ==
    \A m \in meta :
        /\ m.ver \in 1..Len(vault.versions)
        /\ m.corr = vault.versions[m.ver].corr
        /\ m.ver \in 1..Len(before[c]) /\ m.status = "active" => before[c][m.ver].status = "active"

RevokedBefore(c) ==
    \A n \in 1..Len(before[c]) : n \in 1..Len(vault.versions) /\ vault.versions[n].status = "revoked"

RevokedExactly(n) == n \in 1..Len(vault.versions) /\ vault.versions[n].status = "revoked"

(* The compensating revocation took effect: no version of the call is      *)
(* active, or its write arrived after it.                                  *)
Compensated(c) ==
    /\ Arrived(c, "revoke")
    /\ \/ \A n \in 1..Len(vault.versions) :
                vault.versions[n].by = c => vault.versions[n].status = "revoked"
       \/ /\ Len(served[c]) = 2
          /\ served[c][1].op = "revoke" /\ served[c][2].op = "write"

AnswerTrue(c) ==
    pc[c] = "wait" /\ answer[c] # NoAnswer =>
        /\ Describes(c, answer[c].meta)
        /\ asked[c].op = "revoke" /\ answer[c].code \in {"ok", "MISSING"} =>
                RevokedBefore(c) /\ (req[c].op = "legacy" => Compensated(c))
        /\ asked[c].op = "revoke_version" /\ answer[c].code = "ok" => RevokedExactly(asked[c].sel)
        /\ answer[c].code # "ok" /\ req[c].op # "legacy" => ~Applied(c)

(* Versions are never forgotten, and a version's revocation is for good.   *)
Since(c) ==
    \A n \in 1..Len(before[c]) :
        /\ n \in 1..Len(vault.versions)
        /\ before[c][n].status = "revoked" => vault.versions[n].status = "revoked"

(* What a call has reported.                                               *)
ReportTrue(c) ==
    /\ /\ outcome[c].tag \in {"raised", "missing", "denied"} /\ ~outcome[c].uncertain
       /\ req[c].op # "legacy" /\ outcome[c].code # "MALFORMED_RESPONSE"
       => ~Applied(c) /\ ~UnderWay(c)
    /\ outcome[c].tag = "returned" =>
        /\ req[c].op = "revoke" => RevokedBefore(c)
        /\ req[c].op = "revoke_version" => RevokedExactly(req[c].sel)
        /\ req[c].op = "generate" =>
                \A m \in outcome[c].meta : /\ m.ver \in 1..Len(vault.versions)
                                           /\ vault.versions[m.ver].corr = req[c].corr
        /\ req[c].op \in {"resolve", "metadata"} =>
                \A m \in outcome[c].meta :
                    /\ m.ver \in 1..Len(before[c]) => before[c][m.ver].status = "active"
                    /\ req[c].sel # 0 => m.ver = req[c].sel
    /\ outcome[c].code = "CUSTODY_FAILED" =>
            req[c].op = "legacy" /\ (~outcome[c].uncertain => Compensated(c))

CallInv(c) == SentOnce(c) /\ AnswerTrue(c) /\ Since(c) /\ ReportTrue(c)

CustodyInv == TypeOK /\ \A c \in Calls : CallInv(c)

-----------------------------------------------------------------------------
(* The provider.                                                           *)

(* What happens to the versions of a reference.                            *)
Grows(vs, us) ==
    /\ us \in Seq(Version) /\ Len(vs) <= Len(us)
    /\ \A n \in 1..Len(vs) : /\ us[n].corr = vs[n].corr /\ us[n].by = vs[n].by
                             /\ vs[n].status = "revoked" => us[n].status = "revoked"

LEMMA RevokeAllGrows ==
    ASSUME NEW vs \in Seq(Version), NEW ns
    PROVE  /\ Grows(vs, RevokeAll(vs, ns)) /\ Len(RevokeAll(vs, ns)) = Len(vs)
           /\ \A n \in 1..Len(vs) : n \in ns => RevokeAll(vs, ns)[n].status = "revoked"
<1> DEFINE us == RevokeAll(vs, ns)
<1>1. \A n \in 1..Len(vs) : vs[n] \in Version
  OBVIOUS
<1>2. \A n \in 1..Len(vs) :
        /\ us[n] \in Version /\ us[n].corr = vs[n].corr /\ us[n].by = vs[n].by
        /\ us[n].status = IF n \in ns THEN "revoked" ELSE vs[n].status
  BY <1>1 DEF RevokeAll, Version
<1>3. us \in Seq(Version) /\ Len(us) = Len(vs)
  <2>1. us = [n \in 1..Len(vs) |-> us[n]] /\ Len(vs) \in Nat
    BY DEF RevokeAll
  <2> QED BY <1>2, <2>1
<1> QED BY <1>2, <1>3 DEF Grows

LEMMA ExecuteGrows ==
    ASSUME NEW d \in Vault, NEW a \in Ask, NEW c \in Calls
    PROVE  /\ Execute(d, a, c) \in Vault
           /\ Grows(d.versions, Execute(d, a, c).versions)
           /\ \A n \in 1..Len(Execute(d, a, c).versions) : n > Len(d.versions) =>
                    Execute(d, a, c).versions[n].by = c /\ a.op \in {"write", "generate"}
           /\ a.op = "revoke" =>
                \A n \in 1..Len(Execute(d, a, c).versions) : Execute(d, a, c).versions[n].status = "revoked"
           /\ a.op = "revoke_version" /\ a.sel \in 1..Len(d.versions) =>
                a.sel \in 1..Len(Execute(d, a, c).versions) /\ Execute(d, a, c).versions[a.sel].status = "revoked"
<1> DEFINE vs == d.versions
           new == [status |-> "active", intent |-> a.intent, corr |-> a.corr, by |-> c]
           e == Execute(d, a, c)
<1>0. vs \in Seq(Version) /\ Grows(vs, vs)
  BY DEF Vault, Grows
<1>1. CASE a.op = "write" \/ (a.op = "generate" /\ Replays(vs, a) = {})
  <2>1. e = [d EXCEPT !.versions = Append(vs, new)]
    BY <1>1 DEF Execute
  <2>2. new \in Version
    BY DEF Version, Ask
  <2> HIDE DEF new
  <2>3. Append(vs, new) \in Seq(Version) /\ Len(Append(vs, new)) = Len(vs) + 1
        /\ \A n \in 1..Len(vs) : Append(vs, new)[n] = vs[n]
        /\ Append(vs, new)[Len(vs) + 1] = new
    BY <1>0, <2>2
  <2>4. Grows(vs, Append(vs, new))
    BY <1>0, <2>3 DEF Grows
  <2>5. e.versions = Append(vs, new) /\ e \in Vault
    BY <2>1, <2>3 DEF Vault
  <2>6. new.by = c
    BY DEF new
  <2> QED BY <1>0, <1>1, <2>3, <2>4, <2>5, <2>6
<1>2. CASE a.op = "revoke"
  <2>1. e = [d EXCEPT !.versions = RevokeAll(vs, 1..Len(vs))]
    BY <1>2 DEF Execute
  <2>2. e.versions = RevokeAll(vs, 1..Len(vs)) /\ e \in Vault
    BY <1>0, <2>1, RevokeAllGrows DEF Vault, Grows
  <2> HIDE DEF e
  <2>3. Grows(vs, e.versions) /\ Len(e.versions) = Len(vs) /\ \A n \in 1..Len(vs) : e.versions[n].status = "revoked"
    BY <1>0, <2>2, RevokeAllGrows
  <2> QED BY <1>0, <1>2, <2>2, <2>3 DEF e
<1>3. CASE a.op = "revoke_version"
  <2>1. e = [d EXCEPT !.versions = RevokeAll(vs, {a.sel})]
    BY <1>3 DEF Execute
  <2>2. e.versions = RevokeAll(vs, {a.sel}) /\ e \in Vault
    BY <1>0, <2>1, RevokeAllGrows DEF Vault, Grows
  <2> HIDE DEF e
  <2>3. /\ Grows(vs, e.versions) /\ Len(e.versions) = Len(vs)
        /\ a.sel \in 1..Len(vs) => e.versions[a.sel].status = "revoked"
    BY <1>0, <2>2, RevokeAllGrows
  <2>4. \A n \in 1..Len(e.versions) : ~(n > Len(vs))
    BY <1>0, <2>3
  <2>5. a.sel \in 1..Len(vs) => a.sel \in 1..Len(e.versions) /\ e.versions[a.sel].status = "revoked"
    BY <2>3
  <2> QED BY <1>3, <2>2, <2>3, <2>4, <2>5 DEF e
<1>4. CASE ~(a.op = "write" \/ (a.op = "generate" /\ Replays(vs, a) = {})) /\ a.op # "revoke" /\ a.op # "revoke_version"
  <2>0. e = d \/ e = [d EXCEPT !.revision = @ + 1, !.commands = @ \cup {a.corr}]
    BY <1>4 DEF Execute
  <2> HIDE DEF e
  <2>1. a.corr \in Correlations /\ d.revision + 1 \in Nat /\ d.commands \cup {a.corr} \in SUBSET Correlations
    BY DEF Vault, Ask
  <2>2. CASE e = d
    BY <1>0, <1>4, <2>2 DEF e
  <2>3. CASE e = [d EXCEPT !.revision = @ + 1, !.commands = @ \cup {a.corr}]
    <3>1. e \in Vault /\ e.versions = vs
      BY <2>1, <2>3 DEF Vault
    <3> QED BY <1>0, <1>4, <3>1 DEF e
  <2> QED BY <2>0, <2>2, <2>3
<1> QED BY <1>1, <1>2, <1>3, <1>4

(* What serving a request does, as far as calls can tell.                  *)
Effect(w, reply, applied) ==
    /\ wire' = wire \ {w}
    /\ answer' = IF pc[w.by] = "wait" /\ asked[w.by] = w.ask
                 THEN [answer EXCEPT ![w.by] = reply] ELSE answer
    /\ served' = [served EXCEPT ![w.by] = Append(@, [op |-> w.ask.op, applied |-> applied])]
    /\ UNCHANGED <<pc, req, asked, outcome, before>>
    /\ vault' \in Vault /\ Grows(vault.versions, vault'.versions)
    /\ applied => mutation(w.ask) /\ reply.code = "ok"
    /\ \A m \in reply.meta :
            /\ m.ver \in 1..Len(vault'.versions)
            /\ m.corr = vault'.versions[m.ver].corr /\ m.status = vault'.versions[m.ver].status
    /\ w.ask.op = "revoke" /\ reply.code \in {"ok", "MISSING"} =>
            \A n \in 1..Len(vault'.versions) : vault'.versions[n].status = "revoked"
    /\ w.ask.op = "revoke_version" /\ reply.code = "ok" => RevokedExactly(w.ask.sel)'
    /\ \A n \in 1..Len(vault'.versions) : n > Len(vault.versions) =>
            vault'.versions[n].by = w.by /\ w.ask.op \in {"write", "generate"}

LEMMA RefusalCodes ==
    ASSUME NEW d, NEW a, NEW code \in Refusals(d, a)
    PROVE  /\ code \in Codes \ {"ok"}
           /\ code = "MISSING" /\ a.op = "revoke" => d.versions = <<>>
<1>1. Objections(d, a) \subseteq {"CONFLICT", "MISSING", "REVOKED", "DENIED"}
  BY DEF Objections
<1>2. a.op = "revoke" /\ "MISSING" \in Objections(d, a) => d.versions = <<>>
  BY DEF Objections
<1> QED BY <1>1, <1>2 DEF Refusals, Codes

LEMMA ServeEffect ==
    ASSUME TypeOK, Serve
    PROVE  \E w \in wire, reply \in Reply, applied \in BOOLEAN : Effect(w, reply, applied)
<1> DEFINE Hear(w, reply) ==
                answer' = IF pc[w.by] = "wait" /\ asked[w.by] = w.ask
                          THEN [answer EXCEPT ![w.by] = reply] ELSE answer
           Served(w, applied) ==
                served' = [served EXCEPT ![w.by] = Append(@, [op |-> w.ask.op, applied |-> applied])]
<1>1. PICK w \in wire :
        /\ wire' = wire \ {w}
        /\ \/ /\ \E code \in Refusals(vault, w.ask) : Hear(w, Refused(code))
              /\ Served(w, FALSE)
              /\ UNCHANGED vault
           \/ /\ Objections(vault, w.ask) = {}
              /\ vault' = Execute(vault, w.ask, w.by)
              /\ \E ns \in Described(vault'.versions, w.ask) :
                    Hear(w, [code |-> "ok", meta |-> {Metadata(vault'.versions, n) : n \in ns}])
              /\ Served(w, mutation(w.ask))
        /\ UNCHANGED <<pc, req, asked, outcome, before>>
  BY DEF Serve
<1>2. w.by \in Calls /\ w.ask \in Ask /\ vault \in Vault
  BY DEF TypeOK
<1>3. ASSUME NEW code \in Refusals(vault, w.ask), Hear(w, Refused(code)), Served(w, FALSE), UNCHANGED vault
      PROVE  Refused(code) \in Reply /\ Effect(w, Refused(code), FALSE)
  <2>1. code \in Codes \ {"ok"} /\ (code = "MISSING" /\ w.ask.op = "revoke" => vault.versions = <<>>)
    BY <1>3, RefusalCodes
  <2>2. Grows(vault.versions, vault.versions)
    BY <1>2 DEF Grows, Vault
  <2>3. Refused(code) \in Reply /\ Refused(code).code = code /\ Refused(code).meta = {}
    BY <2>1 DEF Refused, Reply
  <2>4. \A n \in 1..Len(vault'.versions) : ~(n > Len(vault.versions))
    BY <1>2, <1>3 DEF Vault
  <2>5. w.ask.op = "revoke" /\ code \in {"ok", "MISSING"} =>
            \A n \in 1..Len(vault'.versions) : vault'.versions[n].status = "revoked"
    BY <1>3, <2>1
  <2>6. Effect(w, Refused(code), FALSE)
    BY <1>1, <1>2, <1>3, <2>1, <2>2, <2>3, <2>4, <2>5 DEF Effect
  <2> QED BY <2>3, <2>6
<1>4. ASSUME Objections(vault, w.ask) = {}, vault' = Execute(vault, w.ask, w.by),
             NEW ns \in Described(vault'.versions, w.ask), Served(w, mutation(w.ask)),
             Hear(w, [code |-> "ok", meta |-> {Metadata(vault'.versions, n) : n \in ns}])
      PROVE  \E reply \in Reply : Effect(w, reply, mutation(w.ask))
  <2> DEFINE us == vault'.versions
             reply == [code |-> "ok", meta |-> {Metadata(us, n) : n \in ns}]
  <2>1. vault' \in Vault /\ us \in Seq(Version) /\ Grows(vault.versions, us)
    BY <1>2, <1>4, ExecuteGrows DEF Vault
  <2>2. ns \subseteq 1..Len(us)
    <3>1. CASE w.ask.op = "write"
      <4>1. Len(us) \in 1..Len(us)
        <5>1. us = Append(vault.versions, [status |-> "active", intent |-> w.ask.intent, corr |-> w.ask.corr, by |-> w.by])
          BY <1>2, <1>4, <3>1 DEF Execute, Vault
        <5> QED BY <1>2, <2>1, <5>1 DEF Vault
      <4> QED BY <1>4, <3>1, <4>1 DEF Described
    <3>2. CASE w.ask.op # "write"
      BY <1>4, <3>2 DEF Described
    <3> QED BY <3>1, <3>2
  <2>3. \A n \in ns : /\ Metadata(us, n) \in Meta /\ Metadata(us, n).ver = n
                      /\ Metadata(us, n).corr = us[n].corr /\ Metadata(us, n).status = us[n].status
    <3> TAKE n \in ns
    <3>1. n \in Nat /\ us[n] \in Version
      BY <2>1, <2>2
    <3> HIDE DEF us
    <3> QED BY <3>1 DEF Metadata, Meta, Version
  <2>4. reply \in Reply /\ reply.code = "ok"
    BY <2>3 DEF Reply, Codes
  <2>5. \A m \in reply.meta : m.ver \in 1..Len(us) /\ m.corr = us[m.ver].corr /\ m.status = us[m.ver].status
    BY <2>2, <2>3
  <2>6. w.ask.op = "revoke_version" => w.ask.sel \in 1..Len(vault.versions)
    BY <1>4 DEF Objections
  <2>7. /\ w.ask.op = "revoke" => \A n \in 1..Len(us) : us[n].status = "revoked"
        /\ w.ask.op = "revoke_version" => w.ask.sel \in 1..Len(us) /\ us[w.ask.sel].status = "revoked"
        /\ \A n \in 1..Len(us) : n > Len(vault.versions) => us[n].by = w.by /\ w.ask.op \in {"write", "generate"}
    BY <1>2, <1>4, <2>6, ExecuteGrows
  <2>8. Hear(w, reply)
    BY <1>4
  <2> HIDE DEF reply
  <2>9. Effect(w, reply, mutation(w.ask))
    BY <1>1, <1>4, <2>1, <2>4, <2>5, <2>7, <2>8 DEF Effect, RevokedExactly
  <2> QED BY <2>4, <2>9
<1>5. mutation(w.ask) \in BOOLEAN
  BY DEF mutation
<1> QED BY <1>1, <1>3, <1>4, <1>5

-----------------------------------------------------------------------------
(* The client and its adapters.                                            *)

LEMMA AskTyped ==
    ASSUME NEW r \in Requests
    PROVE  /\ r \in Request /\ Asking(r) \in Ask /\ [Asking(r) EXCEPT !.op = "revoke"] \in Ask
           /\ Asking(r).sel = r.sel /\ Asking(r).intent = r.intent /\ Asking(r).corr = r.corr
           /\ Asking(r).op = IF r.op \in {"store", "legacy"} THEN "write" ELSE r.op
           /\ [Asking(r) EXCEPT !.op = "revoke"].op = "revoke"
BY CustodyAssumption DEF Request, Ask, Asking, Ops

LEMMA DecodedKnown ==
    ASSUME NEW a \in Ask, NEW reply \in Reply
    PROVE  Decoded(a, reply) \in Outcome /\ Decoded(a, reply).tag \in {"returned", "raised"}
BY DEF Decoded, Raised, Returned, Outcome, Reply, Codes, certainty, mutation

LEMMA DisturbedKnown ==
    ASSUME NEW a \in Ask, NEW o \in Disturbances(a)
    PROVE  /\ o \in Outcome /\ o.tag = "raised" /\ o.meta = {}
           /\ o.code \notin {"ok", "MISSING", "DENIED", "REVOKED"}
           /\ o.uncertain = mutation(a) \/ (o.code = "MALFORMED_RESPONSE" /\ ~o.uncertain)
<1>0. mutation(a) \in BOOLEAN
  BY DEF mutation
<1>1. CASE o = Raised("MALFORMED_RESPONSE", FALSE)
  BY <1>1 DEF Raised, Outcome, Codes
<1>2. CASE o # Raised("MALFORMED_RESPONSE", FALSE)
  <2>1. PICK code \in {"TIMED_OUT", "TRANSPORT_FAILED", "REDIRECTED", "RESPONSE_TOO_LARGE",
                       "MALFORMED_RESPONSE", "UNAVAILABLE", "INTEGRITY_FAILURE"} :
            o = Raised(code, mutation(a))
    BY <1>2 DEF Disturbances, certainty
  <2> QED BY <1>0, <2>1 DEF Raised, Outcome, Codes
<1> QED BY <1>1, <1>2

LEMMA UnsentKnown ==
    ASSUME NEW o \in Unsent
    PROVE  o \in Outcome /\ o.tag = "raised" /\ o.code \notin {"ok", "MISSING"}
<1>1. PICK code \in {"BOOTSTRAP", "MALFORMED_REQUEST", "MALFORMED_CONFIGURATION"} : o = Raised(code, FALSE)
  BY DEF Unsent
<1> QED BY <1>1 DEF Raised, Outcome, Codes

(* An adapter's outcome is an outcome, and what it returns was returned to *)
(* it, except that revoking what is missing succeeds.                      *)
LEMMA AdaptedKnown ==
    ASSUME NEW r \in Request, NEW a \in Ask, NEW o \in Outcome, o.tag \in {"returned", "raised"}
    PROVE  /\ Adapted(r, a, o) \in Outcome /\ Adapted(r, a, o).tag # "none"
           /\ Adapted(r, a, o).tag = "returned" =>
                \/ o.tag = "returned" /\ Adapted(r, a, o).meta = o.meta
                    /\ (r.op = "metadata" /\ a.op # "revoke" => \A m \in o.meta : m.status = "active")
                \/ a.op = "revoke" /\ o.code = "MISSING" /\ Adapted(r, a, o).meta = {}
<1>1. custodian_revoke(o) \in Outcome
        /\ (custodian_revoke(o) = o \/ (o.code = "MISSING" /\ custodian_revoke(o).meta = {} /\ custodian_revoke(o).tag = "returned"))
  BY DEF custodian_revoke, Returned, Outcome, Codes
<1>2. resolver_resolve(o) \in Outcome
        /\ (resolver_resolve(o) = o \/ resolver_resolve(o).tag \in {"missing", "denied"})
  BY DEF resolver_resolve, Outcome
<1>3. read_version(r, o) \in Outcome
        /\ (\/ read_version(r, o) = o /\ (o.tag = "returned" => \A m \in o.meta : m.status = "active")
            \/ read_version(r, o).tag = "raised")
  BY DEF read_version, Raised, Outcome, Codes
<1>4. policy_failure(a, o) \in Outcome
        /\ (policy_failure(a, o) = o \/ policy_failure(a, o).tag = "raised")
  <2>1. PolicyCode(o.code) \in Codes
    BY DEF PolicyCode, Codes, Outcome
  <2> QED BY <2>1 DEF policy_failure, Raised, Outcome, mutation
<1> QED BY <1>1, <1>2, <1>3, <1>4 DEF Adapted

(* A failure called definite of something other than an unrecognised       *)
(* answer: the request was not one that changes anything, or the provider  *)
(* refused it.                                                             *)
LEMMA DefiniteDisturbed ==
    ASSUME NEW r \in Requests, r.op # "legacy", NEW o \in Disturbances(Asking(r)),
           ~Adapted(r, Asking(r), o).uncertain, Adapted(r, Asking(r), o).code # "MALFORMED_RESPONSE"
    PROVE  ~mutation(Asking(r))
<1> DEFINE a == Asking(r)  p == Adapted(r, a, o)
<1>0. a \in Ask /\ r \in Request /\ a.op = IF r.op \in {"store", "legacy"} THEN "write" ELSE r.op
  BY AskTyped
<1>1. /\ o \in Outcome /\ o.tag = "raised" /\ o.code \notin {"ok", "MISSING", "DENIED", "REVOKED"}
      /\ o.uncertain = mutation(a) \/ (o.code = "MALFORMED_RESPONSE" /\ ~o.uncertain)
  BY <1>0, DisturbedKnown
<1> SUFFICES ASSUME mutation(a) PROVE FALSE
  OBVIOUS
<1>2. r.op \in {"store", "generate", "revoke", "revoke_version", "policy"}
  BY <1>0 DEF mutation, Request, Ops
<1>3. CASE r.op = "policy"
  <2>1. p = policy_failure(a, o)
    BY <1>0, <1>3 DEF Adapted
  <2>2. o.code \in {"TIMED_OUT", "TRANSPORT_FAILED", "REDIRECTED", "RESPONSE_TOO_LARGE", "MALFORMED_RESPONSE",
                    "UNAVAILABLE", "INTEGRITY_FAILURE"}
    BY DEF Disturbances, Raised
  <2>3. PolicyCode(o.code) \in {"UNAVAILABLE", "TRANSPORT", "MALFORMED_RESULT"}
        /\ (o.code = "MALFORMED_RESPONSE" => PolicyCode(o.code) = "MALFORMED_RESULT")
    BY <2>2 DEF PolicyCode
  <2>4. p.uncertain
    <3> DEFINE flag == (mutation(a) /\ (o.uncertain \/ PolicyCode(o.code) = "MALFORMED_RESULT"))
                        /\ PolicyCode(o.code) \in {"UNAVAILABLE", "TRANSPORT", "MALFORMED_RESULT"}
    <3>1. p = Raised(PolicyCode(o.code), flag)
      BY <1>1, <2>1 DEF policy_failure
    <3>2. o.uncertain \/ PolicyCode(o.code) = "MALFORMED_RESULT"
      BY <1>1, <2>3
    <3>3. flag = TRUE
      BY <2>3, <3>2
    <3> HIDE DEF flag
    <3> QED BY <3>1, <3>3 DEF Raised
  <2> QED BY <2>4
<1>4. CASE r.op # "policy"
  <2>1. p = o
    BY <1>0, <1>1, <1>2, <1>4 DEF Adapted, custodian_revoke
  <2> QED BY <1>1, <2>1
<1> QED BY <1>3, <1>4

LEMMA DefiniteDecoded ==
    ASSUME NEW r \in Requests, r.op # "legacy", NEW reply \in Reply,
           Adapted(r, Asking(r), Decoded(Asking(r), reply)).tag # "returned",
           ~Adapted(r, Asking(r), Decoded(Asking(r), reply)).uncertain,
           Adapted(r, Asking(r), Decoded(Asking(r), reply)).code # "MALFORMED_RESPONSE"
    PROVE  ~mutation(Asking(r)) \/ reply.code # "ok"
<1> DEFINE a == Asking(r)  o == Decoded(a, reply)  p == Adapted(r, a, o)
<1>0. a \in Ask /\ r \in Request /\ a.op = IF r.op \in {"store", "legacy"} THEN "write" ELSE r.op
  BY AskTyped
<1> SUFFICES ASSUME mutation(a), reply.code = "ok" PROVE FALSE
  OBVIOUS
<1>2. r.op \in {"store", "generate", "revoke", "revoke_version", "policy"}
  BY <1>0 DEF mutation, Request, Ops
<1>3. o = Returned(reply.meta) \/ o = Raised("MALFORMED_RESPONSE", TRUE)
  BY DEF Decoded, certainty
<1>4. o.code # "MISSING"
  BY <1>3 DEF Returned, Raised
<1>5. CASE r.op = "policy"
  <2>1. p = policy_failure(a, o)
    BY <1>0, <1>5 DEF Adapted
  <2>2. CASE o = Returned(reply.meta)
    BY <2>1, <2>2 DEF policy_failure, Returned
  <2>3. CASE o = Raised("MALFORMED_RESPONSE", TRUE)
    <3>1. o.tag = "raised" /\ o.code = "MALFORMED_RESPONSE" /\ PolicyCode(o.code) = "MALFORMED_RESULT" /\ o.uncertain = TRUE
      BY <2>3 DEF Raised, PolicyCode
    <3>2. p = Raised("MALFORMED_RESULT", TRUE)
      BY <2>1, <3>1 DEF policy_failure
    <3> QED BY <3>2 DEF Raised
  <2> QED BY <1>3, <2>2, <2>3
<1>6. CASE r.op # "policy"
  <2>1. p = o
    BY <1>0, <1>2, <1>4, <1>6 DEF Adapted, custodian_revoke
  <2> QED BY <1>3, <2>1 DEF Returned, Raised
<1> QED BY <1>5, <1>6

-----------------------------------------------------------------------------
(* Serving a request.                                                      *)

LEMMA AppendIsSeq ==
    ASSUME NEW S, NEW seq \in Seq(S), NEW e \in S
    PROVE  /\ Append(seq, e) \in Seq(S) /\ Len(Append(seq, e)) = Len(seq) + 1 /\ Len(seq) \in Nat
           /\ \A i \in 1..Len(seq) : Append(seq, e)[i] = seq[i]
           /\ Append(seq, e)[Len(seq) + 1] = e
           /\ \A i \in 1..Len(Append(seq, e)) : i \in 1..Len(seq) \/ i = Len(seq) + 1
OBVIOUS

LEMMA ServeTypes ==
    ASSUME TypeOK, NEW w \in wire, NEW reply \in Reply, NEW applied \in BOOLEAN, Effect(w, reply, applied)
    PROVE  /\ TypeOK'
           /\ served'[w.by] = Append(served[w.by], [op |-> w.ask.op, applied |-> applied])
           /\ \A d \in Calls : d # w.by => served'[d] = served[d] /\ answer'[d] = answer[d]
<1>1. w.by \in Calls /\ w.ask \in Ask
  BY DEF TypeOK
<1>2. [op |-> w.ask.op, applied |-> applied] \in [op: AskOps, applied: BOOLEAN]
  BY <1>1 DEF Ask, AskOps
<1>3. Append(served[w.by], [op |-> w.ask.op, applied |-> applied]) \in Seq([op: AskOps, applied: BOOLEAN])
  <2>1. served[w.by] \in Seq([op: AskOps, applied: BOOLEAN])
    BY <1>1 DEF TypeOK
  <2> QED BY <1>2, <2>1, AppendIsSeq
<1>4. served' \in [Calls -> Seq([op: AskOps, applied: BOOLEAN])]
  BY <1>1, <1>3 DEF TypeOK, Effect
<1>5. answer' \in [Calls -> Reply \cup {NoAnswer}]
  BY <1>1 DEF TypeOK, Effect
<1>6. TypeOK'
  BY <1>4, <1>5 DEF TypeOK, Effect
<1> QED BY <1>1, <1>6 DEF TypeOK, Effect

(* Serving a call's request leaves the others' state alone but for the     *)
(* versions, which only grow.                                              *)
LEMMA ServeOther ==
    ASSUME TypeOK, NEW w \in wire, NEW reply \in Reply, NEW applied \in BOOLEAN, Effect(w, reply, applied),
           NEW d \in Calls, d # w.by, CallInv(d)
    PROVE  CallInv(d)'
<1> DEFINE vs == vault.versions  us == vault'.versions
<1>1. /\ served'[d] = served[d] /\ answer'[d] = answer[d] /\ UNCHANGED <<pc, req, asked, outcome, before>>
      /\ wire' = wire \ {w}
  BY ServeTypes DEF Effect
<1>2. /\ vs \in Seq(Version) /\ us \in Seq(Version) /\ Len(vs) \in Nat /\ Len(us) \in Nat /\ Len(vs) <= Len(us)
      /\ \A n \in 1..Len(vs) : /\ n \in 1..Len(us)
                               /\ us[n].corr = vs[n].corr /\ us[n].by = vs[n].by
                               /\ vs[n].status = "revoked" => us[n].status = "revoked"
      /\ \A n \in 1..Len(us) : n \notin 1..Len(vs) => us[n].by = w.by
  <2>1. vs \in Seq(Version) /\ us \in Seq(Version) /\ Grows(vs, us)
    BY DEF TypeOK, Vault, Effect
  <2>2. Len(vs) \in Nat /\ Len(us) \in Nat
    BY <2>1
  <2> QED BY <2>1, <2>2 DEF Grows, Effect
<1>3. \A v : v.by = d => (v \in wire' <=> v \in wire)
  BY <1>1
<1>4. SentOnce(d)'
  <2>1. \A op : Arrived(d, op)' <=> Arrived(d, op)
    BY <1>1 DEF Arrived
  <2>2. OnWire(d, asked[d])' <=> OnWire(d, asked[d])
    BY <1>1, <1>3 DEF OnWire
  <2> QED BY <1>1, <1>3, <2>1, <2>2 DEF CallInv, SentOnce, First, Compensating
<1>5. Since(d)'
  BY <1>1, <1>2 DEF CallInv, Since
<1>6. RevokedBefore(d) => RevokedBefore(d)'
  BY <1>1, <1>2 DEF RevokedBefore
<1>7. \A n : RevokedExactly(n) => RevokedExactly(n)'
  BY <1>2 DEF RevokedExactly
<1>8. Compensated(d) => Compensated(d)'
  <2>1. Arrived(d, "revoke")' <=> Arrived(d, "revoke")
    BY <1>1 DEF Arrived
  <2> QED BY <1>1, <1>2, <2>1 DEF Compensated
<1>9. Applied(d)' <=> Applied(d)
  BY <1>1 DEF Applied
<1>10. UnderWay(d)' <=> UnderWay(d)
  BY <1>1 DEF UnderWay
<1>11. AnswerTrue(d)'
  <2>1. Describes(d, answer[d].meta) => Describes(d, answer[d].meta)'
    BY <1>1, <1>2 DEF Describes
  <2> QED BY <1>1, <1>6, <1>7, <1>8, <1>9, <2>1 DEF CallInv, AnswerTrue
<1>12. ReportTrue(d)'
  BY <1>1, <1>2, <1>6, <1>7, <1>8, <1>9, <1>10 DEF CallInv, ReportTrue
<1> QED BY <1>4, <1>5, <1>11, <1>12 DEF CallInv

(* Serving a call's own request.                                           *)
LEMMA ServeSelf ==
    ASSUME TypeOK, NEW w \in wire, NEW reply \in Reply, NEW applied \in BOOLEAN, Effect(w, reply, applied),
           CallInv(w.by)
    PROVE  CallInv(w.by)'
<1> DEFINE c == w.by
           vs == vault.versions  us == vault'.versions
           new == [op |-> w.ask.op, applied |-> applied]
           old == served[c]
<1>0. c \in Calls /\ w.ask \in Ask /\ w = [by |-> c, ask |-> w.ask]
  BY DEF TypeOK
<1>1. /\ served'[c] = Append(old, new) /\ UNCHANGED <<pc, req, asked, outcome, before>>
      /\ wire' = wire \ {w}
      /\ applied => mutation(w.ask) /\ reply.code = "ok"
  BY ServeTypes DEF Effect
<1>2. /\ vs \in Seq(Version) /\ us \in Seq(Version) /\ Len(vs) \in Nat /\ Len(us) \in Nat /\ Len(vs) <= Len(us)
      /\ \A n \in 1..Len(vs) : /\ n \in 1..Len(us)
                               /\ us[n].corr = vs[n].corr /\ us[n].by = vs[n].by
                               /\ vs[n].status = "revoked" => us[n].status = "revoked"
      /\ \A n \in 1..Len(us) : n \notin 1..Len(vs) => w.ask.op \in {"write", "generate"}
  <2>1. vs \in Seq(Version) /\ us \in Seq(Version) /\ Grows(vs, us)
    BY DEF TypeOK, Vault, Effect
  <2>2. Len(vs) \in Nat /\ Len(us) \in Nat
    BY <2>1
  <2> QED BY <2>1, <2>2 DEF Grows, Effect
<1>3. /\ Len(served'[c]) = Len(old) + 1 /\ Len(old) \in Nat
      /\ \A i \in 1..Len(old) : i \in 1..Len(served'[c]) /\ served'[c][i] = old[i]
      /\ Len(old) + 1 \in 1..Len(served'[c]) /\ served'[c][Len(old) + 1] = new
      /\ \A i \in 1..Len(served'[c]) : i \in 1..Len(old) \/ i = Len(old) + 1
  <2>1. old \in Seq([op: AskOps, applied: BOOLEAN]) /\ new \in [op: AskOps, applied: BOOLEAN]
    BY <1>0 DEF TypeOK, Ask, AskOps
  <2> HIDE DEF old, new
  <2>2. /\ Len(Append(old, new)) = Len(old) + 1 /\ Len(old) \in Nat
        /\ \A i \in 1..Len(old) : Append(old, new)[i] = old[i]
        /\ Append(old, new)[Len(old) + 1] = new
        /\ \A i \in 1..Len(Append(old, new)) : i \in 1..Len(old) \/ i = Len(old) + 1
    BY <2>1, AppendIsSeq
  <2> QED BY <1>1, <2>2
<1>4. /\ w.ask = First(c) \/ (w.ask = Compensating(c) /\ asked[c] = Compensating(c) /\ req[c].op = "legacy")
      /\ ~Arrived(c, w.ask.op)
      /\ pc[c] # "idle"
  BY DEF CallInv, SentOnce
<1>5. req[c] \in Requests
  BY <1>0, <1>4 DEF TypeOK
<1>6. /\ First(c).op # Compensating(c).op \/ req[c].op # "legacy"
      /\ req[c].op = "legacy" => First(c).op = "write"
      /\ First(c).op = "revoke" => req[c].op = "revoke"
      /\ Compensating(c).op = "revoke"
      /\ First(c).sel = req[c].sel
  BY <1>5, AskTyped DEF First, Compensating
<1>7. new.op = w.ask.op /\ new.applied = applied
  OBVIOUS
<1>8. \A op : Arrived(c, op)' <=> Arrived(c, op) \/ op = w.ask.op
  BY <1>3, <1>7 DEF Arrived
<1>9. Applied(c)' <=> Applied(c) \/ applied
  BY <1>3, <1>7 DEF Applied
<1> HIDE DEF new, old
<1>10. First(c)' = First(c) /\ Compensating(c)' = Compensating(c)
  BY <1>1 DEF First, Compensating
<1>11. SentOnce(c)'
  <2>1. \A v \in wire' : v.by = c =>
            /\ v.ask = First(c) \/ (v.ask = Compensating(c) /\ asked[c] = Compensating(c) /\ req[c].op = "legacy")
            /\ ~Arrived(c, v.ask.op)'
    <3> SUFFICES ASSUME NEW v \in wire, v # w, v.by = c
                 PROVE  /\ v.ask = First(c) \/ (v.ask = Compensating(c) /\ asked[c] = Compensating(c) /\ req[c].op = "legacy")
                        /\ ~Arrived(c, v.ask.op)'
      BY <1>1
    <3>1. v.ask # w.ask
      BY <1>0 DEF TypeOK
    <3>2. /\ v.ask = First(c) \/ (v.ask = Compensating(c) /\ asked[c] = Compensating(c) /\ req[c].op = "legacy")
          /\ ~Arrived(c, v.ask.op)
      BY DEF CallInv, SentOnce
    <3>3. v.ask.op # w.ask.op
      BY <1>4, <1>6, <3>1, <3>2
    <3> QED BY <1>8, <3>2, <3>3
  <2>2. \A i \in 1..Len(served'[c]) :
            \/ served'[c][i].op = First(c).op
            \/ served'[c][i].op = "revoke" /\ asked[c] = Compensating(c) /\ req[c].op = "legacy"
    BY <1>3, <1>4, <1>6, <1>7 DEF CallInv, SentOnce, old
  <2>3. \A i, j \in 1..Len(served'[c]) : served'[c][i].op = served'[c][j].op => i = j
    <3>1. \A i \in 1..Len(old) : old[i].op # new.op
      BY <1>4, <1>7 DEF Arrived, old
    <3>2. \A i, j \in 1..Len(old) : old[i].op = old[j].op => i = j
      BY DEF CallInv, SentOnce, old
    <3> QED BY <1>3, <3>1, <3>2
  <2>4. \A i \in 1..Len(served'[c]) : served'[c][i].applied => req[c].op = "legacy" \/ mutation(First(c))
    <3>1. \A i \in 1..Len(old) : old[i].applied => req[c].op = "legacy" \/ mutation(First(c))
      BY DEF CallInv, SentOnce, old
    <3>2. new.applied => req[c].op = "legacy" \/ mutation(First(c))
      BY <1>1, <1>4, <1>7
    <3> QED BY <1>3, <3>1, <3>2
  <2>5. pc[c] = "send" => ~OnWire(c, asked[c])' /\ ~Arrived(c, asked[c].op)'
    <3> SUFFICES ASSUME pc[c] = "send" PROVE ~OnWire(c, asked[c])' /\ ~Arrived(c, asked[c].op)'
      OBVIOUS
    <3>1. ~OnWire(c, asked[c]) /\ ~Arrived(c, asked[c].op)
      BY DEF CallInv, SentOnce
    <3>2. w.ask # asked[c]
      BY <1>0, <3>1 DEF OnWire
    <3>3. asked[c] = First(c) \/ (asked[c] = Compensating(c) /\ req[c].op = "legacy")
      BY <1>4 DEF CallInv, SentOnce
    <3>4. w.ask.op # asked[c].op
      BY <1>4, <1>6, <3>2, <3>3
    <3> QED BY <1>1, <1>8, <3>1, <3>4 DEF OnWire
  <2>6. pc[c] = "wait" /\ answer'[c] # NoAnswer => Arrived(c, asked[c].op)'
    <3>1. answer'[c] = answer[c] \/ asked[c] = w.ask
      BY <1>0 DEF Effect, TypeOK
    <3>2. pc[c] = "wait" /\ answer[c] # NoAnswer => Arrived(c, asked[c].op)
      BY DEF CallInv, SentOnce
    <3>3. \A op : op = asked[c].op => (Arrived(c, op)' <=> Arrived(c, asked[c].op)')
      BY <1>1 DEF Arrived
    <3> QED BY <1>8, <3>1, <3>2, <3>3
  <2>7. pc[c] # "idle" => asked[c] = First(c) \/ (asked[c] = Compensating(c) /\ req[c].op = "legacy")
    BY DEF CallInv, SentOnce
  <2> QED BY <1>1, <1>4, <1>10, <2>1, <2>2, <2>3, <2>4, <2>5, <2>6, <2>7 DEF SentOnce
<1>12. Since(c)'
  BY <1>1, <1>2 DEF CallInv, Since
<1>13. RevokedBefore(c) => RevokedBefore(c)'
  BY <1>1, <1>2 DEF RevokedBefore
<1>14. \A n : RevokedExactly(n) => RevokedExactly(n)'
  BY <1>2 DEF RevokedExactly
<1>15. req[c].op = "legacy" /\ Compensated(c) => Compensated(c)'
  <2> SUFFICES ASSUME req[c].op = "legacy", Compensated(c) PROVE Compensated(c)'
    OBVIOUS
  <2>1. Arrived(c, "revoke") /\ Arrived(c, "revoke")' /\ w.ask.op = "write" /\ ~Arrived(c, "write")
    BY <1>4, <1>6, <1>8 DEF Compensated
  <2>2. Len(old) = 1 /\ old[1].op = "revoke"
    <3>1. \A i \in 1..Len(old) : old[i].op = "revoke"
      BY <1>6, <2>1 DEF CallInv, SentOnce, Arrived, old
    <3>2. \A i, j \in 1..Len(old) : i = j
      BY <3>1 DEF CallInv, SentOnce, old
    <3>3. 1 \in 1..Len(old)
      BY <1>3, <2>1 DEF Arrived, old
    <3>4. ~(2 \in 1..Len(old))
      BY <3>2, <3>3
    <3>5. Len(old) \in Nat
      BY <1>3
    <3>6. \A k \in Nat : 1 \in 1..k /\ ~(2 \in 1..k) => k = 1
      OBVIOUS
    <3>7. Len(old) = 1
      BY <3>3, <3>4, <3>5, <3>6
    <3> QED BY <3>1, <3>3, <3>7
  <2>3. Len(served'[c]) = 2 /\ served'[c][1].op = "revoke" /\ served'[c][2].op = "write"
    BY <1>3, <1>7, <2>1, <2>2
  <2> QED BY <2>1, <2>3 DEF Compensated
<1>16. AnswerTrue(c)'
  <2> SUFFICES ASSUME pc[c] = "wait", answer'[c] # NoAnswer
               PROVE  /\ Describes(c, answer[c].meta)'
                      /\ asked[c].op = "revoke" /\ answer'[c].code \in {"ok", "MISSING"} =>
                            RevokedBefore(c)' /\ (req[c].op = "legacy" => Compensated(c)')
                      /\ asked[c].op = "revoke_version" /\ answer'[c].code = "ok" => RevokedExactly(asked[c].sel)'
                      /\ answer'[c].code # "ok" /\ req[c].op # "legacy" => ~Applied(c)'
    BY <1>1 DEF AnswerTrue
  <2>1. CASE asked[c] = w.ask
    <3>1. answer'[c] = reply
      BY <1>0, <2>1 DEF Effect, TypeOK
    <3>2. Describes(c, answer[c].meta)'
      <4>1. \A m \in reply.meta : m.ver \in 1..Len(us) /\ m.corr = us[m.ver].corr /\ m.status = us[m.ver].status
        BY DEF Effect
      <4>2. \A n \in 1..Len(before[c]) : before[c][n].status = "revoked" => us[n].status = "revoked"
        BY <1>1, <1>12 DEF Since
      <4>3. \A n \in 1..Len(before[c]) : before[c][n].status \in {"active", "revoked"}
        <5>1. before[c] \in Seq(Version)
          BY <1>0 DEF TypeOK
        <5>2. \A n \in 1..Len(before[c]) : before[c][n] \in Version
          BY ONLY <5>1
        <5> QED BY <5>2 DEF Version
      <4> QED BY <1>1, <3>1, <4>1, <4>2, <4>3 DEF Describes
    <3>3. asked[c].op = "revoke" /\ reply.code \in {"ok", "MISSING"} =>
                            RevokedBefore(c)' /\ (req[c].op = "legacy" => Compensated(c)')
      <4> SUFFICES ASSUME asked[c].op = "revoke", reply.code \in {"ok", "MISSING"}
                   PROVE  RevokedBefore(c)' /\ Compensated(c)'
        OBVIOUS
      <4>1. \A n \in 1..Len(us) : us[n].status = "revoked"
        BY <2>1 DEF Effect
      <4>2. Arrived(c, "revoke")'
        BY <1>8, <2>1
      <4> QED BY <1>1, <1>12, <4>1, <4>2 DEF RevokedBefore, Compensated, Since
    <3>4. asked[c].op = "revoke_version" /\ reply.code = "ok" => RevokedExactly(asked[c].sel)'
      BY <1>1, <2>1 DEF Effect
    <3>5. reply.code # "ok" /\ req[c].op # "legacy" => ~Applied(c)'
      <4> SUFFICES ASSUME reply.code # "ok", req[c].op # "legacy" PROVE ~Applied(c)'
        OBVIOUS
      <4>1. Len(old) = 0
        <5>1. \A i \in 1..Len(old) : old[i].op = First(c).op /\ ~(old[i].op = w.ask.op)
          BY <1>4 DEF CallInv, SentOnce, Arrived, old
        <5>2. ~(1 \in 1..Len(old))
          BY <1>4, <5>1
        <5> QED BY <1>3, <5>2
      <4>2. ~Applied(c)
        BY <4>1 DEF Applied, old
      <4> QED BY <1>1, <1>9, <4>2
    <3> QED BY <3>1, <3>2, <3>3, <3>4, <3>5
  <2>2. CASE asked[c] # w.ask
    <3>1. answer'[c] = answer[c]
      BY <1>0, <2>2 DEF Effect, TypeOK
    <3>2. /\ Describes(c, answer[c].meta)
          /\ asked[c].op = "revoke" /\ answer[c].code \in {"ok", "MISSING"} =>
                RevokedBefore(c) /\ (req[c].op = "legacy" => Compensated(c))
          /\ asked[c].op = "revoke_version" /\ answer[c].code = "ok" => RevokedExactly(asked[c].sel)
      BY <3>1 DEF CallInv, AnswerTrue
    <3>3. Describes(c, answer[c].meta)'
      BY <1>1, <1>2, <3>1, <3>2 DEF Describes
    <3>4. req[c].op = "legacy"
      BY <1>4, <2>2 DEF CallInv, SentOnce
    <3>5. RevokedExactly(asked[c].sel) => RevokedExactly(asked[c].sel)'
      BY <1>1, <1>2 DEF RevokedExactly
    <3> QED BY <1>13, <1>15, <3>1, <3>2, <3>3, <3>4, <3>5
  <2> QED BY <2>1, <2>2
<1>17. ReportTrue(c)'
  <2>1. ~Applied(c) /\ ~UnderWay(c) => ~Applied(c)' /\ ~UnderWay(c)'
    BY <1>1, <1>9 DEF UnderWay
  <2> QED BY <1>1, <1>2, <1>13, <1>14, <1>15, <2>1 DEF CallInv, ReportTrue
<1> QED BY <1>11, <1>12, <1>16, <1>17 DEF CallInv

-----------------------------------------------------------------------------
(* The steps of a call.                                                    *)

(* What is true of a call remains so while nothing of it changes.          *)
LEMMA Untouched ==
    ASSUME NEW d \in Calls, CallInv(d), UNCHANGED vault,
           pc'[d] = pc[d] /\ req'[d] = req[d] /\ asked'[d] = asked[d] /\ outcome'[d] = outcome[d],
           before'[d] = before[d] /\ served'[d] = served[d] /\ answer'[d] = answer[d],
           \A v : v.by = d => (v \in wire' <=> v \in wire)
    PROVE  CallInv(d)'
<1>1. /\ UNCHANGED vault
      /\ pc'[d] = pc[d] /\ req'[d] = req[d] /\ asked'[d] = asked[d] /\ outcome'[d] = outcome[d]
      /\ before'[d] = before[d] /\ served'[d] = served[d] /\ answer'[d] = answer[d]
  OBVIOUS
<1>2. \A v : v.by = d => (v \in wire' <=> v \in wire)
  OBVIOUS
<1>3. \A op : Arrived(d, op)' <=> Arrived(d, op)
  BY <1>1 DEF Arrived
<1>4. OnWire(d, asked[d])' <=> OnWire(d, asked[d])
  BY <1>1, <1>2 DEF OnWire
<1>5. SentOnce(d)'
  <2>1. First(d)' = First(d) /\ Compensating(d)' = Compensating(d)
    BY <1>1 DEF First, Compensating
  <2>2. Arrived(d, asked[d].op)' <=> Arrived(d, asked[d].op)
    BY <1>1 DEF Arrived
  <2>3. pc[d] = "idle" => served'[d] = <<>> /\ \A w \in wire' : w.by # d
    BY <1>1, <1>2 DEF CallInv, SentOnce
  <2>4. \A w \in wire' : w.by = d =>
            /\ w.ask = First(d) \/ (w.ask = Compensating(d) /\ asked[d] = Compensating(d) /\ req[d].op = "legacy")
            /\ ~Arrived(d, w.ask.op)
    BY <1>2 DEF CallInv, SentOnce
  <2> QED BY <1>1, <1>3, <1>4, <2>1, <2>2, <2>3, <2>4 DEF CallInv, SentOnce
<1>6. Since(d)' /\ (RevokedBefore(d)' <=> RevokedBefore(d)) /\ (\A n : RevokedExactly(n)' <=> RevokedExactly(n))
  BY <1>1 DEF CallInv, Since, RevokedBefore, RevokedExactly
<1>7. Compensated(d)' <=> Compensated(d)
  BY <1>1, <1>3 DEF Compensated
<1>8. Applied(d)' <=> Applied(d)
  BY <1>1 DEF Applied
<1>9. UnderWay(d)' <=> UnderWay(d)
  BY <1>2 DEF UnderWay
<1>10. AnswerTrue(d)'
  <2>1. Describes(d, answer[d].meta)' <=> Describes(d, answer[d].meta)
    BY <1>1 DEF Describes
  <2>2. RevokedExactly(asked[d].sel)' <=> RevokedExactly(asked[d].sel)
    BY <1>1 DEF RevokedExactly
  <2> QED BY <1>1, <1>6, <1>7, <1>8, <2>1, <2>2 DEF CallInv, AnswerTrue
<1>11. ReportTrue(d)'
  <2>1. RevokedExactly(req[d].sel)' <=> RevokedExactly(req[d].sel)
    BY <1>1 DEF RevokedExactly
  <2> QED BY <1>1, <1>6, <1>7, <1>8, <1>9, <2>1 DEF CallInv, ReportTrue
<1> QED BY <1>5, <1>6, <1>10, <1>11 DEF CallInv

(* A step of one call leaves the others' state alone.                      *)
LEMMA StepOther ==
    ASSUME TypeOK, NEW c \in Calls, Step(c), NEW d \in Calls, d # c, CallInv(d)
    PROVE  CallInv(d)'
<1>1. /\ UNCHANGED vault
      /\ pc'[d] = pc[d] /\ req'[d] = req[d] /\ asked'[d] = asked[d] /\ outcome'[d] = outcome[d]
      /\ before'[d] = before[d] /\ served'[d] = served[d] /\ answer'[d] = answer[d]
  BY DEF TypeOK, Step, Begin, Refuse, Send, Receive, Disturbed, Conclude
<1>2. \A v : v.by = d => (v \in wire' <=> v \in wire)
  BY DEF Step, Begin, Refuse, Send, Receive, Disturbed
<1> QED BY <1>1, <1>2, Untouched

LEMMA BeginKeeps ==
    ASSUME TypeOK, NEW c \in Calls, Begin(c), CallInv(c)
    PROVE  TypeOK' /\ CallInv(c)'
<1>1. PICK r \in Requests : /\ req' = [req EXCEPT ![c] = r] /\ asked' = [asked EXCEPT ![c] = Asking(r)]
  BY DEF Begin
<1>2. /\ pc[c] = "idle" /\ pc' = [pc EXCEPT ![c] = "send"]
      /\ UNCHANGED <<vault, wire, answer, outcome, before, served>>
  BY DEF Begin
<1>3. Asking(r) \in Ask
  BY AskTyped
<1>4. TypeOK'
  BY <1>1, <1>2, <1>3 DEF TypeOK
<1>5. pc'[c] = "send" /\ req'[c] = r /\ asked'[c] = Asking(r)
  BY <1>1, <1>2 DEF TypeOK
<1>6. served[c] = <<>> /\ \A w \in wire : w.by # c
  BY <1>2 DEF CallInv, SentOnce
<1>7. SentOnce(c)'
  BY <1>2, <1>5, <1>6 DEF SentOnce, First, Compensating, OnWire, Arrived
<1>8. Since(c)' /\ AnswerTrue(c)'
  BY <1>2, <1>5 DEF CallInv, Since, AnswerTrue
<1>9. ReportTrue(c)'
  BY <1>2 DEF ReportTrue, TypeOK
<1> QED BY <1>4, <1>7, <1>8, <1>9 DEF CallInv

LEMMA SendKeeps ==
    ASSUME TypeOK, NEW c \in Calls, Send(c), CallInv(c)
    PROVE  TypeOK' /\ CallInv(c)'
<1>1. /\ pc[c] = "send" /\ wire' = wire \cup {[by |-> c, ask |-> asked[c]]}
      /\ pc' = [pc EXCEPT ![c] = "wait"] /\ answer' = [answer EXCEPT ![c] = NoAnswer]
      /\ before' = [before EXCEPT ![c] = vault.versions]
      /\ UNCHANGED <<vault, req, asked, outcome, served>>
  BY DEF Send
<1>2. req[c] \in Requests
  BY <1>1 DEF TypeOK
<1>3. asked[c] = First(c) \/ (asked[c] = Compensating(c) /\ req[c].op = "legacy")
  BY <1>1 DEF CallInv, SentOnce
<1>4. asked[c] \in Ask /\ vault.versions \in Seq(Version)
  BY <1>2, <1>3, AskTyped DEF First, Compensating, TypeOK, Vault
<1>5. TypeOK'
  <2>1. [by |-> c, ask |-> asked[c]] \in [by: Calls, ask: Ask]
    BY <1>4
  <2>2. wire' \subseteq [by: Calls, ask: Ask]
    BY <1>1, <2>1 DEF TypeOK
  <2>3. before' \in [Calls -> Seq(Version)] /\ answer' \in [Calls -> Reply \cup {NoAnswer}]
    BY <1>1, <1>4 DEF TypeOK
  <2> QED BY <1>1, <2>2, <2>3 DEF TypeOK
<1>6. pc'[c] = "wait" /\ answer'[c] = NoAnswer /\ before'[c] = vault.versions
  BY <1>1 DEF TypeOK
<1>7. ~Arrived(c, asked[c].op)
  BY <1>1 DEF CallInv, SentOnce
<1>8. First(c)' = First(c) /\ Compensating(c)' = Compensating(c) /\ \A op : Arrived(c, op)' <=> Arrived(c, op)
  BY <1>1 DEF First, Compensating, Arrived
<1>9. SentOnce(c)'
  <2>1. \A w \in wire' : w.by = c =>
            /\ w.ask = First(c) \/ (w.ask = Compensating(c) /\ asked[c] = Compensating(c) /\ req[c].op = "legacy")
            /\ ~Arrived(c, w.ask.op)
    BY <1>1, <1>3, <1>7 DEF CallInv, SentOnce
  <2> QED BY <1>1, <1>3, <1>6, <1>8, <2>1 DEF CallInv, SentOnce
<1>10. Since(c)' /\ AnswerTrue(c)'
  BY <1>1, <1>6 DEF Since, AnswerTrue
<1>11. ReportTrue(c)'
  BY <1>1 DEF ReportTrue, TypeOK
<1> QED BY <1>5, <1>9, <1>10, <1>11 DEF CallInv

(* What a call may report of an outcome its adapter gives it.              *)
Reportable(c, p) ==
    /\ /\ p.tag \in {"raised", "missing", "denied"} /\ ~p.uncertain
       /\ req[c].op # "legacy" /\ p.code # "MALFORMED_RESPONSE"
       => ~Applied(c) /\ ~UnderWay(c)
    /\ p.tag = "returned" =>
        /\ req[c].op = "revoke" => RevokedBefore(c)
        /\ req[c].op = "revoke_version" => RevokedExactly(req[c].sel)
        /\ req[c].op = "generate" =>
                \A m \in p.meta : /\ m.ver \in 1..Len(vault.versions)
                                  /\ vault.versions[m.ver].corr = req[c].corr
        /\ req[c].op \in {"resolve", "metadata"} =>
                \A m \in p.meta :
                    /\ m.ver \in 1..Len(before[c]) => before[c][m.ver].status = "active"
                    /\ req[c].sel # 0 => m.ver = req[c].sel
    /\ req[c].op = "legacy" /\ asked[c].op = "revoke" /\ p.tag # "raised" => Compensated(c)

LEMMA ConcludeKeeps ==
    ASSUME TypeOK, NEW c \in Calls, CallInv(c), pc[c] \in {"send", "wait"},
           NEW o \in Outcome, o.tag \in {"returned", "raised"}, Conclude(c, o),
           Reportable(c, Adapted(req[c], asked[c], o)),
           UNCHANGED <<vault, wire, answer, req, before, served>>
    PROVE  TypeOK' /\ CallInv(c)'
<1> DEFINE r == req[c]  a == asked[c]  p == Adapted(r, a, o)
<1>0. r \in Requests /\ r \in Request
  BY AskTyped DEF TypeOK
<1>1. asked[c] = First(c) \/ (asked[c] = Compensating(c) /\ r.op = "legacy")
  BY DEF CallInv, SentOnce
<1>2. asked[c] \in Ask /\ Compensating(c) \in Ask /\ Compensating(c).op = "revoke"
  BY <1>0, <1>1, AskTyped DEF First, Compensating
<1>3. p \in Outcome /\ p.tag # "none"
  BY <1>0, <1>2, AdaptedKnown
<1>4. /\ First(c)' = First(c) /\ Compensating(c)' = Compensating(c) /\ (\A op : Arrived(c, op)' <=> Arrived(c, op))
      /\ (Compensated(c)' <=> Compensated(c)) /\ (RevokedBefore(c)' <=> RevokedBefore(c))
      /\ (RevokedExactly(r.sel)' <=> RevokedExactly(r.sel))
      /\ (Applied(c)' <=> Applied(c)) /\ (UnderWay(c)' <=> UnderWay(c))
  BY DEF First, Compensating, Arrived, Compensated, RevokedBefore, RevokedExactly, Applied, UnderWay
<1>5. Since(c)'
  BY DEF CallInv, Since
<1>6. CASE r.op = "legacy" /\ a.op = "write" /\ p.tag = "raised"
  <2>1. /\ pc' = [pc EXCEPT ![c] = "send"] /\ asked' = [asked EXCEPT ![c].op = "revoke"] /\ UNCHANGED outcome
    BY <1>6 DEF Conclude
  <2>2. a = First(c) /\ First(c).op = "write"
    BY <1>0, <1>1, <1>2, <1>6, AskTyped DEF First
  <2>3. pc'[c] = "send" /\ asked'[c] = Compensating(c)
    BY <2>1, <2>2 DEF TypeOK, First, Compensating
  <2>4. asked' \in [Calls -> Ask \cup {NoRequest}]
    BY <1>2, <2>1, <2>3 DEF TypeOK
  <2>5. TypeOK'
    BY <2>1, <2>4 DEF TypeOK
  <2>6. a # Compensating(c)
    BY <1>2, <2>2
  <2>7. ~Arrived(c, "revoke") /\ ~OnWire(c, Compensating(c))
    <3>1. \A i \in 1..Len(served[c]) : served[c][i].op = "write"
      BY <2>2, <2>6 DEF CallInv, SentOnce
    <3>2. \A w \in wire : w.by = c => w.ask = First(c)
      BY <2>6 DEF CallInv, SentOnce
    <3> QED BY <1>2, <2>2, <3>1, <3>2 DEF Arrived, OnWire
  <2>8. ~Arrived(c, asked[c].op)' /\ ~OnWire(c, asked[c])'
    BY <1>2, <2>3, <2>7 DEF Arrived, OnWire
  <2>9. SentOnce(c)'
    <3>1. /\ \A w \in wire' : w.by = c => w.ask = First(c) /\ ~Arrived(c, w.ask.op)
          /\ \A i \in 1..Len(served'[c]) : served'[c][i].op = First(c).op
          /\ \A i, j \in 1..Len(served'[c]) : served'[c][i].op = served'[c][j].op => i = j
      BY <2>6 DEF CallInv, SentOnce
    <3> QED BY <1>4, <1>6, <2>3, <2>8, <3>1 DEF SentOnce
  <2>10. AnswerTrue(c)'
    BY <2>3 DEF AnswerTrue
  <2>11. ReportTrue(c)'
    <3>1. outcome'[c].tag = "none" /\ outcome'[c].code = "ok"
      BY <2>1 DEF TypeOK
    <3> QED BY <3>1 DEF ReportTrue
  <2> QED BY <1>5, <2>5, <2>9, <2>10, <2>11 DEF CallInv
<1>7. CASE ~(r.op = "legacy" /\ a.op = "write" /\ p.tag = "raised")
  <2> DEFINE q == IF r.op = "legacy" /\ a.op = "revoke" THEN Raised("CUSTODY_FAILED", p.tag = "raised") ELSE p
  <2>1. pc' = [pc EXCEPT ![c] = "done"] /\ outcome' = [outcome EXCEPT ![c] = q] /\ UNCHANGED asked
    BY <1>7 DEF Conclude
  <2>2. q \in Reported
    BY <1>3 DEF Raised, Reported, Outcome
  <2>3. pc'[c] = "done" /\ outcome'[c] = q
    BY <2>1 DEF TypeOK
  <2>4. TypeOK'
    <3> HIDE DEF q
    <3> QED BY <2>1, <2>2 DEF TypeOK
  <2>5. SentOnce(c)'
    <3>1. pc[c] # "idle"
      OBVIOUS
    <3> QED BY <1>4, <2>1, <2>3, <3>1 DEF CallInv, SentOnce
  <2>6. AnswerTrue(c)'
    BY <2>3 DEF AnswerTrue
  <2>7. ReportTrue(c)'
    <3>1. CASE r.op = "legacy" /\ a.op = "revoke"
      <4>1. q.tag = "raised" /\ q.code = "CUSTODY_FAILED" /\ (~q.uncertain => p.tag # "raised")
        BY <3>1 DEF Raised
      <4> HIDE DEF q
      <4>2. ~q.uncertain => Compensated(c)
        BY <3>1, <4>1 DEF Reportable
      <4> QED BY <1>4, <2>3, <3>1, <4>1, <4>2 DEF ReportTrue
    <3>2. CASE ~(r.op = "legacy" /\ a.op = "revoke")
      <4>1. q = p /\ p.code # "CUSTODY_FAILED"
        BY <1>3, <3>2 DEF Outcome, Codes
      <4> HIDE DEF p, q
      <4> QED BY <1>4, <2>3, <4>1 DEF ReportTrue, Reportable, p
    <3> QED BY <3>1, <3>2
  <2> QED BY <1>5, <2>4, <2>5, <2>6, <2>7 DEF CallInv
<1> QED BY <1>6, <1>7

(* A call that sends or waits, and is not a legacy store, is at its first  *)
(* request; one that compensates gets a custodian's answer.                *)
LEMMA Position ==
    ASSUME TypeOK, NEW c \in Calls, CallInv(c), pc[c] \in {"send", "wait"}
    PROVE  /\ req[c] \in Requests /\ req[c] \in Request /\ asked[c] \in Ask
           /\ req[c].op # "legacy" => asked[c] = Asking(req[c])
           /\ req[c].op # "legacy" => \A w \in wire : w.by = c => w.ask = asked[c]
           /\ req[c].op # "legacy" => \A i \in 1..Len(served[c]) : served[c][i].op = asked[c].op
           /\ \A o : asked[c].op = "revoke" => Adapted(req[c], asked[c], o) = custodian_revoke(o)
<1>1. req[c] \in Requests
  BY DEF TypeOK
<1>2. asked[c] = First(c) \/ (asked[c] = Compensating(c) /\ req[c].op = "legacy")
  BY DEF CallInv, SentOnce
<1>3. asked[c] \in Ask /\ req[c] \in Request
  BY <1>1, <1>2, AskTyped DEF First, Compensating
<1>4. req[c].op # "legacy" => \A w \in wire : w.by = c => w.ask = asked[c]
  BY <1>2 DEF CallInv, SentOnce
<1>5. req[c].op # "legacy" => \A i \in 1..Len(served[c]) : served[c][i].op = asked[c].op
  BY <1>2 DEF CallInv, SentOnce
<1>6. asked[c].op = "revoke" => req[c].op \in {"revoke", "legacy"}
  BY <1>1, <1>2, AskTyped DEF First
<1>7. \A o : asked[c].op = "revoke" => Adapted(req[c], asked[c], o) = custodian_revoke(o)
  BY <1>6 DEF Adapted
<1> QED BY <1>1, <1>2, <1>3, <1>4, <1>5, <1>7 DEF First

LEMMA RefuseKeeps ==
    ASSUME TypeOK, NEW c \in Calls, Refuse(c), CallInv(c)
    PROVE  TypeOK' /\ CallInv(c)'
<1>1. PICK o \in Unsent : Conclude(c, o)
  BY DEF Refuse
<1>2. pc[c] = "send" /\ UNCHANGED <<vault, wire, answer, req, before, served>>
  BY DEF Refuse
<1>3. o \in Outcome /\ o.tag = "raised" /\ o.code \notin {"ok", "MISSING"}
  BY UnsentKnown
<1> DEFINE p == Adapted(req[c], asked[c], o)
<1>4. p.tag # "returned"
  BY <1>2, <1>3, Position, AdaptedKnown
<1>5. req[c].op # "legacy" => ~Applied(c) /\ ~UnderWay(c)
  <2> SUFFICES ASSUME req[c].op # "legacy" PROVE ~Applied(c) /\ ~UnderWay(c)
    OBVIOUS
  <2>1. ~OnWire(c, asked[c]) /\ ~Arrived(c, asked[c].op)
    BY <1>2 DEF CallInv, SentOnce
  <2>2. ~Applied(c)
    BY <1>2, <2>1, Position DEF Applied, Arrived
  <2>3. \A w \in wire : w = [by |-> w.by, ask |-> w.ask]
    BY DEF TypeOK
  <2>4. ~UnderWay(c)
    BY <1>2, <2>1, <2>3, Position DEF UnderWay, OnWire
  <2> QED BY <2>2, <2>4
<1>6. asked[c].op = "revoke" => p.tag = "raised"
  BY <1>2, <1>3, Position DEF custodian_revoke
<1>7. Reportable(c, p)
  BY <1>4, <1>5, <1>6 DEF Reportable
<1> QED BY <1>1, <1>2, <1>3, <1>7, ConcludeKeeps

LEMMA DisturbedKeeps ==
    ASSUME TypeOK, NEW c \in Calls, Disturbed(c), CallInv(c)
    PROVE  TypeOK' /\ CallInv(c)'
<1>1. PICK o \in Disturbances(asked[c]) : Conclude(c, o)
  BY DEF Disturbed
<1>2. pc[c] = "wait" /\ UNCHANGED <<vault, wire, answer, req, before, served>>
  BY DEF Disturbed
<1>3. asked[c] \in Ask /\ req[c] \in Request /\ req[c] \in Requests
  BY <1>2, Position
<1>4. o \in Outcome /\ o.tag = "raised" /\ o.code \notin {"ok", "MISSING"}
  BY <1>3, DisturbedKnown
<1> DEFINE p == Adapted(req[c], asked[c], o)
<1>5. p.tag # "returned"
  BY <1>3, <1>4, AdaptedKnown
<1>6. req[c].op # "legacy" /\ ~p.uncertain /\ p.code # "MALFORMED_RESPONSE" => ~Applied(c) /\ ~UnderWay(c)
  <2> SUFFICES ASSUME req[c].op # "legacy", ~p.uncertain, p.code # "MALFORMED_RESPONSE"
               PROVE  ~Applied(c) /\ ~UnderWay(c)
    OBVIOUS
  <2>1. asked[c] = Asking(req[c])
    BY <1>2, Position
  <2>2. ~mutation(asked[c])
    BY <1>3, <2>1, DefiniteDisturbed
  <2>3. ~Applied(c)
    BY <2>1, <2>2 DEF CallInv, SentOnce, Applied, First
  <2>4. ~UnderWay(c)
    BY <1>2, <2>2, Position DEF UnderWay
  <2> QED BY <2>3, <2>4
<1>7. asked[c].op = "revoke" => p.tag = "raised"
  BY <1>2, <1>4, Position DEF custodian_revoke
<1>8. Reportable(c, p)
  BY <1>5, <1>6, <1>7 DEF Reportable
<1> QED BY <1>1, <1>2, <1>4, <1>8, ConcludeKeeps

LEMMA ReceiveKeeps ==
    ASSUME TypeOK, NEW c \in Calls, Receive(c), CallInv(c)
    PROVE  TypeOK' /\ CallInv(c)'
<1> DEFINE a == asked[c]  r == req[c]  reply == answer[c]
           o == Decoded(a, reply)
           p == Adapted(r, a, o)
<1>1. pc[c] = "wait" /\ reply # NoAnswer /\ Conclude(c, o) /\ UNCHANGED <<vault, wire, answer, req, before, served>>
  BY DEF Receive
<1>2. a \in Ask /\ r \in Request /\ r \in Requests /\ reply \in Reply
  BY <1>1, Position DEF TypeOK
<1>3. o \in Outcome /\ o.tag \in {"returned", "raised"}
  BY <1>2, DecodedKnown
<1>4. /\ o.tag = "returned" => reply.code = "ok" /\ MetadataMatches(a, reply.meta) /\ o.meta = reply.meta
      /\ o.code = "MISSING" => reply.code = "MISSING"
  BY DEF Decoded, Returned, Raised
<1>5. p.tag = "returned" =>
        \/ /\ reply.code = "ok" /\ MetadataMatches(a, reply.meta) /\ p.meta = reply.meta
           /\ r.op = "metadata" /\ a.op # "revoke" => \A m \in reply.meta : m.status = "active"
        \/ a.op = "revoke" /\ reply.code = "MISSING" /\ p.meta = {}
  BY <1>2, <1>3, <1>4, AdaptedKnown
<1>6. /\ Describes(c, reply.meta)
      /\ a.op = "revoke" /\ reply.code \in {"ok", "MISSING"} =>
            RevokedBefore(c) /\ (r.op = "legacy" => Compensated(c))
      /\ a.op = "revoke_version" /\ reply.code = "ok" => RevokedExactly(a.sel)
      /\ reply.code # "ok" /\ r.op # "legacy" => ~Applied(c)
      /\ Arrived(c, a.op)
  BY <1>1 DEF CallInv, AnswerTrue, SentOnce
<1>7. r.op # "legacy" /\ p.tag # "returned" /\ ~p.uncertain /\ p.code # "MALFORMED_RESPONSE"
        => ~Applied(c) /\ ~UnderWay(c)
  <2> SUFFICES ASSUME r.op # "legacy", p.tag # "returned", ~p.uncertain, p.code # "MALFORMED_RESPONSE"
               PROVE  ~Applied(c) /\ ~UnderWay(c)
    OBVIOUS
  <2>1. a = Asking(r)
    BY <1>1, Position
  <2>2. ~mutation(a) \/ reply.code # "ok"
    BY <1>2, <2>1, DefiniteDecoded
  <2>3. ~Applied(c)
    BY <1>6, <2>1, <2>2 DEF CallInv, SentOnce, Applied, First
  <2>4. ~UnderWay(c)
    <3>1. \A w \in wire : w.by # c
      BY <1>1, <1>6, Position DEF CallInv, SentOnce
    <3> QED BY <3>1 DEF UnderWay
  <2> QED BY <2>3, <2>4
<1>8. p.tag = "returned" /\ r.op # "legacy" =>
        /\ r.op = "revoke" => RevokedBefore(c)
        /\ r.op = "revoke_version" => RevokedExactly(r.sel)
        /\ r.op = "generate" =>
                \A m \in p.meta : m.ver \in 1..Len(vault.versions) /\ vault.versions[m.ver].corr = r.corr
        /\ r.op \in {"resolve", "metadata"} =>
                \A m \in p.meta :
                    /\ m.ver \in 1..Len(before[c]) => before[c][m.ver].status = "active"
                    /\ r.sel # 0 => m.ver = r.sel
  <2> SUFFICES ASSUME p.tag = "returned", r.op # "legacy"
               PROVE  /\ r.op = "revoke" => RevokedBefore(c)
                      /\ r.op = "revoke_version" => RevokedExactly(r.sel)
                      /\ r.op = "generate" =>
                            \A m \in p.meta : m.ver \in 1..Len(vault.versions) /\ vault.versions[m.ver].corr = r.corr
                      /\ r.op \in {"resolve", "metadata"} =>
                            \A m \in p.meta :
                                /\ m.ver \in 1..Len(before[c]) => before[c][m.ver].status = "active"
                                /\ r.sel # 0 => m.ver = r.sel
    OBVIOUS
  <2>1. a = Asking(r)
    BY <1>1, Position
  <2>2. a.sel = r.sel /\ a.corr = r.corr /\ a.op = IF r.op \in {"store", "legacy"} THEN "write" ELSE r.op
    BY <1>2, <2>1, AskTyped
  <2>3. a.op # "revoke" => /\ reply.code = "ok" /\ MetadataMatches(a, reply.meta) /\ p.meta = reply.meta
                           /\ r.op = "metadata" => \A m \in reply.meta : m.status = "active"
    BY <1>5
  <2>4. r.op = "revoke" => RevokedBefore(c)
    BY <1>5, <1>6, <2>2
  <2>5. r.op = "revoke_version" => RevokedExactly(r.sel)
    BY <1>6, <2>2, <2>3
  <2> HIDE DEF p, o, a, r, reply
  <2>6. ASSUME r.op = "generate"
        PROVE  \A m \in p.meta : m.ver \in 1..Len(vault.versions) /\ vault.versions[m.ver].corr = r.corr
    <3>1. a.op = "generate" /\ p.meta = reply.meta /\ \A m \in reply.meta : m.corr = r.corr
      BY <2>2, <2>3, <2>6 DEF MetadataMatches, generate_delegation_key
    <3> QED BY <1>6, <3>1 DEF Describes
  <2>7. ASSUME r.op \in {"resolve", "metadata"}
        PROVE  \A m \in p.meta :
                    /\ m.ver \in 1..Len(before[c]) => before[c][m.ver].status = "active"
                    /\ r.sel # 0 => m.ver = r.sel
    <3>1. /\ p.meta = reply.meta
          /\ \A m \in reply.meta : m.status = "active" /\ (r.sel # 0 => m.ver = r.sel)
      BY <2>2, <2>3, <2>7 DEF MetadataMatches, resolve, read_metadata
    <3> QED BY <1>6, <3>1 DEF Describes
  <2> QED BY <2>4, <2>5, <2>6, <2>7
<1>9. r.op = "legacy" /\ a.op = "revoke" /\ p.tag # "raised" => Compensated(c)
  <2> SUFFICES ASSUME r.op = "legacy", a.op = "revoke", p.tag # "raised" PROVE Compensated(c)
    OBVIOUS
  <2>1. p = custodian_revoke(o)
    BY <1>1, Position
  <2>2. o.tag = "returned" \/ o.code = "MISSING"
    BY <1>3, <2>1 DEF custodian_revoke
  <2> QED BY <1>4, <1>6, <2>2
<1>10. Reportable(c, p)
  BY <1>7, <1>8, <1>9 DEF Reportable
<1> QED BY <1>1, <1>3, <1>10, ConcludeKeeps

-----------------------------------------------------------------------------

LEMMA CustodyInit ==
    ASSUME Init
    PROVE  CustodyInv
<1>1. PICK vs \in InitialVersions : vault = [versions |-> vs, revision |-> 0, commands |-> {}]
  BY DEF Init
<1>2. vault \in Vault
  BY <1>1, CustodyAssumption DEF Vault
<1>3. TypeOK
  <2>1. outcome \in [Calls -> Reported]
    BY DEF Init, Reported, Codes
  <2> QED BY <1>2, <2>1 DEF Init, TypeOK
<1>4. ASSUME NEW c \in Calls PROVE CallInv(c)
  <2>1. SentOnce(c) /\ Since(c) /\ AnswerTrue(c)
    BY DEF Init, SentOnce, Since, AnswerTrue, Arrived
  <2>2. ReportTrue(c)
    BY DEF Init, ReportTrue
  <2> QED BY <2>1, <2>2 DEF CallInv
<1> QED BY <1>3, <1>4 DEF CustodyInv

LEMMA CustodyNext ==
    ASSUME CustodyInv, [Next]_vars
    PROVE  CustodyInv'
<1>0. TypeOK /\ \A c \in Calls : CallInv(c)
  BY DEF CustodyInv
<1>1. CASE Serve
  <2>1. PICK w \in wire, reply \in Reply, applied \in BOOLEAN : Effect(w, reply, applied)
    BY <1>0, <1>1, ServeEffect
  <2>2. w.by \in Calls
    BY <1>0 DEF TypeOK
  <2>3. TypeOK'
    BY <1>0, <2>1, ServeTypes
  <2>4. \A d \in Calls : CallInv(d)'
    BY <1>0, <2>1, <2>2, ServeOther, ServeSelf
  <2> QED BY <2>3, <2>4 DEF CustodyInv
<1>2. ASSUME NEW c \in Calls, Step(c) PROVE CustodyInv'
  <2>1. TypeOK' /\ CallInv(c)'
    BY <1>0, <1>2, BeginKeeps, RefuseKeeps, SendKeeps, ReceiveKeeps, DisturbedKeeps DEF Step
  <2>2. \A d \in Calls : d # c => CallInv(d)'
    BY <1>0, <1>2, StepOther
  <2> QED BY <2>1, <2>2 DEF CustodyInv
<1>3. CASE UNCHANGED vars
  <2>1. UNCHANGED <<vault, wire, answer, pc, req, asked, outcome, before, served>>
    BY <1>3 DEF vars, client
  <2>2. TypeOK'
    BY <1>0, <2>1 DEF TypeOK
  <2>3. \A d \in Calls : CallInv(d)'
    BY <1>0, <2>1, Untouched
  <2> QED BY <2>2, <2>3 DEF CustodyInv
<1> QED BY <1>1, <1>2, <1>3 DEF Next

LEMMA CustodyAlways == Spec => []CustodyInv
BY CustodyInit, CustodyNext, PTL DEF Spec

(* A failure the client or the policy client reports as definite           *)
(* (secret_provider/client.py, policy.py) left the provider unchanged and  *)
(* nothing on its way that could still change it.                          *)
THEOREM DefiniteIsUnaffected == Spec => []DefiniteMeansUnaffected
<1>1. CustodyInv => DefiniteMeansUnaffected
  BY DEF CustodyInv, CallInv, ReportTrue, DefiniteMeansUnaffected
<1> QED BY <1>1, CustodyAlways, PTL

(* What a returned revocation or generation says (secret_provider/         *)
(* client.py, custody.py) is so at the provider, and remains so.           *)
THEOREM ReceiptsStayTrue == Spec => []ReceiptsTrue
<1>1. CustodyInv => ReceiptsTrue
  BY DEF CustodyInv, CallInv, ReportTrue, ReceiptsTrue, RevokedBefore, RevokedExactly
<1> QED BY <1>1, CustodyAlways, PTL

(* A resolver (secret_provider/resolver.py) hands out no version that was  *)
(* revoked before it asked, and no other than the selected one.            *)
THEOREM RevokedNotResolved == Spec => []ResolvedWasActive
<1>1. CustodyInv => ResolvedWasActive
  BY DEF CustodyInv, CallInv, ReportTrue, ResolvedWasActive
<1> QED BY <1>1, CustodyAlways, PTL

(* A legacy store that reports its failure as cleaned up                   *)
(* (cloudflare/client.py) left no active version of its own, unless its    *)
(* write reached the provider after its revocation.                        *)
THEOREM CleanupExplained == Spec => []CompensationExplained
<1>1. CustodyInv => CompensationExplained
  <2> SUFFICES ASSUME CustodyInv, NEW c \in Calls, outcome[c].code = "CUSTODY_FAILED", ~outcome[c].uncertain
               PROVE  \/ \A n \in Active(vault.versions) : vault.versions[n].by # c
                      \/ /\ Len(served[c]) = 2
                         /\ served[c][1].op = "revoke" /\ served[c][2].op = "write"
    BY DEF CompensationExplained
  <2>1. Compensated(c)
    BY DEF CustodyInv, CallInv, ReportTrue
  <2> QED BY <2>1 DEF Compensated, Active
<1> QED BY <1>1, CustodyAlways, PTL
=============================================================================
