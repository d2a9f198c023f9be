------------------------- MODULE MCInvokedDispatch --------------------------
(* Instances of InvokedDispatch for TLC.                                   *)
EXTENDS InvokedDispatch

Call(op, authority, policy, secrets, checks, port) ==
    [op |-> op, intent |-> "ok", authority |-> authority, policy |-> policy,
     deliveries |-> FALSE, resolver |-> "authorized", secrets |-> secrets,
     checks |-> checks, port |-> port]

Works == {[op |-> "plain", secrets |-> s, checks |-> <<>>] : s \in SUBSET ProductGrants}
            \cup {[op |-> o, secrets |-> s, checks |-> <<>>] :
                    o \in {"selected", "configured"}, s \in {{"delivery"}, ProductGrants}}
            \cup {[op |-> "cleanup", secrets |-> {}, checks |-> <<>>]}
            \cup {[op |-> "wait", secrets |-> {}, checks |-> c] :
                    c \in {<<>>, <<"postgres">>, <<"http", "postgres">>, <<"postgres", "postgres">>}}

Ways == {[authority |-> "ambient", policy |-> FALSE], [authority |-> "ambient", policy |-> TRUE],
         [authority |-> "local", policy |-> FALSE], [authority |-> "local", policy |-> TRUE],
         [authority |-> "tls", policy |-> FALSE], [authority |-> "tls", policy |-> TRUE],
         [authority |-> "malformed", policy |-> FALSE], [authority |-> "other", policy |-> FALSE]}

Admissible == {Call(w.op, y.authority, y.policy, w.secrets, w.checks, p) :
                 w \in Works, y \in Ways, p \in {"none", "valid", "unusable"}}

Variants(r) == {[r EXCEPT !.intent = i] : i \in {"unsupported", "invalid"}}
                  \cup {[r EXCEPT !.resolver = x] : x \in {"none", "legacy"}}
                  \cup {[r EXCEPT !.deliveries = TRUE]}

MCRequests ==
    Admissible \cup UNION {Variants(r) : r \in {q \in Admissible : q.authority = "tls" /\ ~q.policy}}
        \cup {[r EXCEPT !.port = "childless"] : r \in {q \in Admissible : q.op = "wait"}}
=============================================================================
