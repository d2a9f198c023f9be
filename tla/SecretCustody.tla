--------------------------- MODULE SecretCustody ----------------------------
(***************************************************************************)
(* The secret provider client and the adapters above it (secret_provider/, *)
(* and the legacy custody path of cloudflare/client.py) on ONE secret      *)
(* reference: storing, generating, revoking, resolving and observing its   *)
(* versions, and the commands of the provider's access policy.             *)
(*                                                                         *)
(* Every operation is one HTTP request, sent once and never retried.  The  *)
(* provider executes it when it arrives, which may be after the client has *)
(* stopped waiting; its answer may be lost, replaced by an intermediary's  *)
(* error or garbled.  The provider is external: it is modelled by the      *)
(* answers the client distinguishes.                                       *)
(***************************************************************************)
EXTENDS Naturals, Sequences

CONSTANTS
    Calls,            \* concurrent uses of the client
    Intents,          \* uses a secret version may be stored for
    Correlations,     \* correlation ids of generations and policy commands
    Requests,         \* the requests a call may make
    NoRequest, NoAnswer,
    InitialVersions   \* the versions the reference may have at the start

VARIABLES
    vault,     \* provider: versions of the reference, policy revision, commands applied
    wire,      \* requests that have left the client and not reached the provider
    answer,    \* the provider's answer to the request a call is waiting for
    pc, req,   \* program counter and request of a call
    asked,     \* the HTTP request it is at
    outcome,   \* what it returned or raised
    before,    \* history: the versions when it sent the request
    served     \* history: its requests the provider has served, in order

client == <<answer, pc, req, asked, outcome, before>>
vars == <<vault, wire, client, served>>

Ops == {"store", "legacy", "generate", "revoke", "revoke_version", "resolve", "metadata",
        "policy", "policy_read"}

(* sel is the selected version, 0 for the operational one; for a policy    *)
(* command it is the expected revision.                                    *)
Request == [op: Ops, sel: Nat, intent: Intents, corr: Correlations]

Ask == [op: (Ops \ {"store", "legacy"}) \cup {"write"}, sel: Nat, intent: Intents,
        corr: Correlations]

(* by is history: the call that made the version, NoRequest for an older   *)
(* one.                                                                    *)
Version == [status: {"active", "revoked"}, intent: Intents, corr: Correlations,
            by: Calls \cup {NoRequest}]

ASSUME CustodyAssumption ==
    /\ Requests \subseteq Request
    /\ NoRequest \notin Request \cup Ask \cup Calls
    /\ InitialVersions \subseteq Seq(Version)

mutation(a) == a.op \in {"write", "generate", "revoke", "revoke_version", "policy"}

-----------------------------------------------------------------------------
(* The provider.                                                           *)

Metadata(vs, n) ==
    [ver |-> n, status |-> vs[n].status, intent |-> vs[n].intent, corr |-> vs[n].corr]

Active(vs) == {n \in 1..Len(vs) : vs[n].status = "active"}

RevokeAll(vs, ns) ==
    [n \in 1..Len(vs) |-> IF n \in ns THEN [vs[n] EXCEPT !.status = "revoked"] ELSE vs[n]]

Refused(code) == [code |-> code, meta |-> {}]

(* The objections the provider's state makes to a request; it executes one *)
(* it has no objection to.                                                 *)
Objections(d, a) ==
    LET vs == d.versions
        n == a.sel
        found == n \in 1..Len(vs)
        If(condition, code) == IF condition THEN {code} ELSE {}
    IN CASE a.op = "generate" ->
                If(\E k \in 1..Len(vs) : vs[k].corr = a.corr /\ vs[k].status = "revoked", "CONFLICT")
         [] a.op = "revoke" -> If(vs = <<>>, "MISSING")
         [] a.op = "metadata" -> If(~found, "MISSING")
         [] a.op = "revoke_version" ->
                If(~found, "MISSING") \cup If(found /\ n \notin Active(vs), "REVOKED")
         [] a.op = "resolve" /\ n # 0 ->
                If(~found, "MISSING") \cup If(found /\ n \notin Active(vs), "REVOKED")
                    \cup If(found /\ vs[n].intent # a.intent, "DENIED")
         [] a.op = "resolve" ->
                If(vs = <<>>, "MISSING") \cup If(vs # <<>> /\ Active(vs) = {}, "REVOKED")
         [] a.op = "policy" -> If(a.corr \notin d.commands /\ d.revision # n, "CONFLICT")
         [] a.op = "policy_read" -> If(a.corr \notin d.commands, "MISSING")
         [] OTHER -> {}

(* Whatever the state, a caller may be denied, and a provider that keeps   *)
(* one version at a time refuses a second.                                 *)
Refusals(d, a) ==
    Objections(d, a) \cup {"DENIED"}
        \cup IF a.op = "write" /\ Active(d.versions) # {} THEN {"ALREADY_EXISTS"} ELSE {}

Replays(vs, a) == {k \in 1..Len(vs) : vs[k].corr = a.corr}

Execute(d, a, c) ==
    LET vs == d.versions
        new == [status |-> "active", intent |-> a.intent, corr |-> a.corr, by |-> c] IN
    CASE a.op = "write" \/ (a.op = "generate" /\ Replays(vs, a) = {}) ->
            [d EXCEPT !.versions = Append(vs, new)]
      [] a.op = "revoke" -> [d EXCEPT !.versions = RevokeAll(vs, 1..Len(vs))]
      [] a.op = "revoke_version" -> [d EXCEPT !.versions = RevokeAll(vs, {a.sel})]
      [] a.op = "policy" /\ a.corr \notin d.commands ->
            [d EXCEPT !.revision = @ + 1, !.commands = @ \cup {a.corr}]
      [] OTHER -> d

(* The versions the answer to an executed request describes, and those a   *)
(* provider that mistakes the version describes instead.                   *)
Described(vs, a) ==
    CASE a.op = "write"    -> {{Len(vs)}}
      [] a.op = "revoke"   -> {1..Len(vs)}
      [] a.op \in {"policy", "policy_read"} -> {{}}
      [] OTHER -> {{n} : n \in 1..Len(vs)}

(* A request reaches the provider, which refuses it, or executes and       *)
(* answers it.  Only the request a call still waits for is heard.          *)
Serve ==
    \E w \in wire :
        LET Hear(reply) ==
                answer' = IF pc[w.by] = "wait" /\ asked[w.by] = w.ask
                          THEN [answer EXCEPT ![w.by] = reply] ELSE answer
            Served(applied) ==
                served' = [served EXCEPT ![w.by] = Append(@, [op |-> w.ask.op, applied |-> applied])]
        IN /\ wire' = wire \ {w}
           /\ \/ /\ \E code \in Refusals(vault, w.ask) : Hear(Refused(code))
                 /\ Served(FALSE)
                 /\ UNCHANGED vault
              \/ /\ Objections(vault, w.ask) = {}
                 /\ vault' = Execute(vault, w.ask, w.by)
                 /\ \E ns \in Described(vault'.versions, w.ask) :
                        Hear([code |-> "ok", meta |-> {Metadata(vault'.versions, n) : n \in ns}])
                 /\ Served(mutation(w.ask))
           /\ UNCHANGED <<pc, req, asked, outcome, before>>

-----------------------------------------------------------------------------
(* The client: what it makes of an answer.                                 *)

Returned(meta) == [tag |-> "returned", code |-> "ok", uncertain |-> FALSE, meta |-> meta]
Raised(code, uncertain) == [tag |-> "raised", code |-> code, uncertain |-> uncertain, meta |-> {}]

certainty(a) == mutation(a)

(* Mutant: the status of the version is not compared.                      *)
MetadataAnyStatus(a, meta) ==
    /\ a.op = "generate" => \A m \in meta : m.corr = a.corr
    /\ a.op \in {"revoke", "revoke_version"} => meta # {}
    /\ a.op \in {"revoke_version", "metadata"} => \A m \in meta : m.ver = a.sel
    /\ a.op = "resolve" /\ a.sel # 0 => \A m \in meta : m.ver = a.sel /\ m.intent = a.intent

(* What each operation requires of the versions an answer describes.  The  *)
(* answer to a generation states its correlation once, for the version it  *)
(* describes; corr stands for that field.                                  *)
write(m) == m.status = "active"
generate_delegation_key(a, m) == m.status = "active" /\ m.corr = a.corr
read_metadata(a, m) == m.ver = a.sel
resolve(a, m) == m.status = "active" /\ (a.sel # 0 => m.ver = a.sel /\ m.intent = a.intent)
revoke(meta) == meta # {} /\ \A m \in meta : m.status = "revoked"
revoke_version(a, m) == m.status = "revoked" /\ m.ver = a.sel

(* The answer describes what was asked for: status, exact version, intent  *)
(* of a selected version, correlation of a generated one.                  *)
MetadataMatches(a, meta) ==
    /\ a.op = "revoke" => revoke(meta)
    /\ \A m \in meta :
        CASE a.op = "write" -> write(m)
          [] a.op = "generate" -> generate_delegation_key(a, m)
          [] a.op = "metadata" -> read_metadata(a, m)
          [] a.op = "resolve" -> resolve(a, m)
          [] a.op = "revoke_version" -> revoke_version(a, m)
          [] OTHER -> TRUE

(* A recognised refusal is definite.                                       *)
Decoded(a, reply) ==
    IF reply.code # "ok" THEN Raised(reply.code, FALSE)
    ELSE IF MetadataMatches(a, reply.meta) THEN Returned(reply.meta)
    ELSE Raised("MALFORMED_RESPONSE", certainty(a))

(* What may come instead of the provider's answer: nothing in time, a      *)
(* broken connection, a redirect, too long or unreadable a body, a 5xx;    *)
(* and an error envelope below 500 that no code is known for, which the    *)
(* client takes for definite.                                              *)
Disturbances(a) ==
    {Raised(code, certainty(a)) :
        code \in {"TIMED_OUT", "TRANSPORT_FAILED", "REDIRECTED", "RESPONSE_TOO_LARGE",
                  "MALFORMED_RESPONSE", "UNAVAILABLE", "INTEGRITY_FAILURE"}}
        \cup {Raised("MALFORMED_RESPONSE", FALSE)}

(* Refusals before anything is sent: bootstrap registry, request           *)
(* validation and size, credential file.                                   *)
Unsent == {Raised(code, FALSE) : code \in {"BOOTSTRAP", "MALFORMED_REQUEST", "MALFORMED_CONFIGURATION"}}

-----------------------------------------------------------------------------
(* The adapters: what they make of the client's outcome.                   *)

(* Mutant: any refusal means that there was nothing to revoke.             *)
RevokeTolerant(o) == IF o.tag = "raised" /\ ~o.uncertain THEN Returned({}) ELSE o

custodian_revoke(o) == IF o.code = "MISSING" THEN Returned({}) ELSE o

resolver_resolve(o) ==
    CASE o.code = "MISSING" -> [o EXCEPT !.tag = "missing"]
      [] o.code \in {"DENIED", "REVOKED"} -> [o EXCEPT !.tag = "denied"]
      [] OTHER -> o

read_version(r, o) ==
    IF o.tag # "returned" THEN o
    ELSE IF \E m \in o.meta : m.status # "active" THEN Raised("REVOKED", FALSE)
    ELSE IF \E m \in o.meta : m.intent # r.intent THEN Raised("DENIED", FALSE)
    ELSE o

(* _ERRORS: codes it does not name are malformed results.                  *)
PolicyCode(code) ==
    CASE code \in {"MALFORMED_CONFIGURATION", "UNAVAILABLE", "INTEGRITY_FAILURE"} -> "UNAVAILABLE"
      [] code = "MALFORMED_REQUEST" -> "INVALID"
      [] code \in {"DENIED", "MISSING", "CONFLICT"} -> code
      [] code \in {"REDIRECTED", "TIMED_OUT", "TRANSPORT_FAILED"} -> "TRANSPORT"
      [] OTHER -> "MALFORMED_RESULT"

(* Mutant: the flag follows the client's certainty alone.                  *)
PolicyFailureByCertainty(a, o) ==
    IF o.tag # "raised" THEN o ELSE Raised(PolicyCode(o.code), mutation(a) /\ o.uncertain)

(* effect_may_have_occurred: for a mutation whose certainty or whose       *)
(* result is in doubt.                                                     *)
policy_failure(a, o) ==
    LET code == PolicyCode(o.code)
        doubt == mutation(a) /\ (o.uncertain \/ code = "MALFORMED_RESULT") IN
    IF o.tag # "raised" THEN o
    ELSE Raised(code, doubt /\ code \in {"UNAVAILABLE", "TRANSPORT", "MALFORMED_RESULT"})

Adapted(r, a, o) ==
    CASE a.op = "revoke" -> custodian_revoke(o)
      [] r.op = "resolve" -> resolver_resolve(o)
      [] r.op = "metadata" -> read_version(r, o)
      [] r.op \in {"policy", "policy_read"} -> policy_failure(a, o)
      [] OTHER -> o

-----------------------------------------------------------------------------
(* The steps of a call.                                                    *)

Asking(r) == [op |-> IF r.op \in {"store", "legacy"} THEN "write" ELSE r.op,
              sel |-> r.sel, intent |-> r.intent, corr |-> r.corr]

Begin(c) ==
    /\ pc[c] = "idle"
    /\ \E r \in Requests :
        /\ req' = [req EXCEPT ![c] = r]
        /\ asked' = [asked EXCEPT ![c] = Asking(r)]
    /\ pc' = [pc EXCEPT ![c] = "send"]
    /\ UNCHANGED <<vault, wire, answer, outcome, before, served>>

(* Mutant: a failed legacy store is reported without the revocation.       *)
ConcludeUncompensated(c, o) ==
    /\ pc' = [pc EXCEPT ![c] = "done"]
    /\ outcome' = [outcome EXCEPT ![c] =
            IF req[c].op = "legacy" /\ o.tag = "raised" THEN Raised("CUSTODY_FAILED", FALSE) ELSE o]
    /\ UNCHANGED asked

(* The call ends with what its adapter makes of the outcome.  A legacy     *)
(* store that raised first revokes the reference; whether that worked      *)
(* decides if the failure is reported as cleaned up or as uncertain.       *)
Conclude(c, o) ==
    LET r == req[c]
        a == asked[c]
        p == Adapted(r, a, o)
    IN IF r.op = "legacy" /\ a.op = "write" /\ p.tag = "raised"
       THEN /\ pc' = [pc EXCEPT ![c] = "send"]
            /\ asked' = [asked EXCEPT ![c].op = "revoke"]
            /\ UNCHANGED outcome
       ELSE /\ pc' = [pc EXCEPT ![c] = "done"]
            /\ outcome' = [outcome EXCEPT ![c] =
                    IF r.op = "legacy" /\ a.op = "revoke"
                    THEN Raised("CUSTODY_FAILED", p.tag = "raised") ELSE p]
            /\ UNCHANGED asked

Refuse(c) ==
    /\ pc[c] = "send"
    /\ \E o \in Unsent : Conclude(c, o)
    /\ UNCHANGED <<vault, wire, answer, req, before, served>>

Send(c) ==
    /\ pc[c] = "send"
    /\ wire' = wire \cup {[by |-> c, ask |-> asked[c]]}
    /\ pc' = [pc EXCEPT ![c] = "wait"]
    /\ answer' = [answer EXCEPT ![c] = NoAnswer]
    /\ before' = [before EXCEPT ![c] = vault.versions]
    /\ UNCHANGED <<vault, req, asked, outcome, served>>

Receive(c) ==
    /\ pc[c] = "wait" /\ answer[c] # NoAnswer
    /\ Conclude(c, Decoded(asked[c], answer[c]))
    /\ UNCHANGED <<vault, wire, answer, req, before, served>>

(* The client stops waiting, whether or not the request has arrived.       *)
Disturbed(c) ==
    /\ pc[c] = "wait"
    /\ \E o \in Disturbances(asked[c]) : Conclude(c, o)
    /\ UNCHANGED <<vault, wire, answer, req, before, served>>

-----------------------------------------------------------------------------

Init ==
    /\ \E vs \in InitialVersions : vault = [versions |-> vs, revision |-> 0, commands |-> {}]
    /\ wire = {}
    /\ answer = [c \in Calls |-> NoAnswer]
    /\ pc = [c \in Calls |-> "idle"]
    /\ req = [c \in Calls |-> NoRequest]
    /\ asked = [c \in Calls |-> NoRequest]
    /\ outcome = [c \in Calls |-> [tag |-> "none", code |-> "ok", uncertain |-> FALSE, meta |-> {}]]
    /\ before = [c \in Calls |-> <<>>]
    /\ served = [c \in Calls |-> <<>>]

Step(c) == Begin(c) \/ Refuse(c) \/ Send(c) \/ Receive(c) \/ Disturbed(c)

Next == Serve \/ \E c \in Calls : Step(c)

Spec == Init /\ [][Next]_vars

-----------------------------------------------------------------------------
(* Properties.                                                             *)

Applied(c) == \E i \in 1..Len(served[c]) : served[c][i].applied

UnderWay(c) == \E w \in wire : w.by = c /\ mutation(w.ask)

(* A failure reported as definite, or a policy failure without             *)
(* effect_may_have_occurred, left the provider unchanged and nothing under *)
(* way that could still change it.  The legacy store is judged by          *)
(* CompensationExplained; the one code the client itself calls definite    *)
(* without knowing, an unrecognised error envelope, is left out, and the   *)
(* policy client has to make up for it.                                    *)
DefiniteMeansUnaffected ==
    \A c \in Calls :
        /\ outcome[c].tag \in {"raised", "missing", "denied"} /\ ~outcome[c].uncertain
        /\ req[c].op # "legacy" /\ outcome[c].code # "MALFORMED_RESPONSE"
        => ~Applied(c) /\ ~UnderWay(c)

(* A receipt says what the provider holds: a returned revocation has       *)
(* revoked, for good, every version that existed when it was requested; an *)
(* exact one the version it names; a generated key is the one of the       *)
(* correlation asked for.                                                  *)
ReceiptsTrue ==
    \A c \in Calls : outcome[c].tag = "returned" =>
        /\ req[c].op = "revoke" =>
                \A n \in 1..Len(before[c]) : vault.versions[n].status = "revoked"
        /\ req[c].op = "revoke_version" => vault.versions[req[c].sel].status = "revoked"
        /\ req[c].op = "generate" =>
                \A m \in outcome[c].meta : vault.versions[m.ver].corr = req[c].corr

(* No secret is handed out whose revocation was complete before it was     *)
(* asked for, and a selected version is never substituted.                 *)
ResolvedWasActive ==
    \A c \in Calls : outcome[c].tag = "returned" /\ req[c].op \in {"resolve", "metadata"} =>
        \A m \in outcome[c].meta :
            /\ m.ver \in 1..Len(before[c]) => before[c][m.ver].status = "active"
            /\ req[c].sel # 0 => m.ver = req[c].sel

(* A legacy store that failed and reports its cleanup as done leaves no    *)
(* active token, unless its write reached the provider only after the      *)
(* compensating revocation did.                                            *)
CompensationExplained ==
    \A c \in Calls : outcome[c].code = "CUSTODY_FAILED" /\ ~outcome[c].uncertain =>
        \/ \A n \in Active(vault.versions) : vault.versions[n].by # c
        \/ /\ Len(served[c]) = 2
           /\ served[c][1].op = "revoke" /\ served[c][2].op = "write"
=============================================================================
