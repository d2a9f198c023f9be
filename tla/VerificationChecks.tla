------------------------- MODULE VerificationChecks -------------------------
(***************************************************************************)
(* One bounded verification check: HttpVerificationInterpreter,            *)
(* RedisVerificationInterpreter and PostgresVerificationInterpreter        *)
(* (verification.py) and the runtime-private HTTP probe of WaitForHealthy  *)
(* (docker/runtime.py), with endpoint authorization (probes/security.py),  *)
(* public DNS resolution (probes/public_dns.py) and the attempts of        *)
(* timing.py.                                                              *)
(*                                                                         *)
(* DNS and the checked service may answer differently every time they are  *)
(* asked, also between the two queries of one resolution.                  *)
(***************************************************************************)
EXTENDS Integers, FiniteSets

CONSTANTS
    MaximumAttempts,  \* VerificationPolicy.maximum_attempts
    MaximumRecords,   \* PublicDnsResolverPolicy.maximum_records
    Inet, Inet6,      \* addresses of the A and AAAA families, as numbers
    Global,           \* the ones that are globally routable
    Checks            \* the checks that may be asked for

ASSUME VerificationAssumption ==
    /\ MaximumAttempts \in Nat \ {0} /\ MaximumRecords \in Nat \ {0}
    /\ Inet \subseteq Nat /\ Inet6 \subseteq Nat
    /\ \A a \in Inet, b \in Inet6 : a < b
    /\ Global \subseteq Inet \cup Inet6
    /\ Checks # {}

VARIABLES
    check,     \* the check asked for
    pc,        \* begin, authorize, A, AAAA, pin, attempt, done
    attempt,   \* the ordinal verification_attempts has yielded, 0 before the loop
    gathered,  \* addresses the resolution under way has collected
    target,    \* the address requests go to: [to, answers, at]
    sent,      \* history: the requests made, in which attempt, and their answers
    verdict    \* outcome and attempt count of the VerificationCompleted

vars == <<check, pc, attempt, gathered, target, sent, verdict>>

(* The private and the host-local endpoint are one fixed address.          *)
Fixed == -1
Families == [A |-> Inet, AAAA |-> Inet6]
None == [to |-> Fixed, answers |-> {}, at |-> 0]
NoVerdict == [outcome |-> "none", attempts |-> 0]

(* kind: the interpreter.  trusted: the address policy covers the endpoint *)
(* as written.  reference: its address is a secret reference to resolve.   *)
(* admitted: a Postgres check has authentication and a resolver for it.    *)
Check == [kind: {"http", "redis", "postgres", "probe"},
          context: {"runtime-private", "host-local", "public"},
          trusted: BOOLEAN, reference: BOOLEAN, admitted: BOOLEAN]

ASSUME CheckAssumption == Checks \subseteq Check

(* What each interpreter makes of an answer.  A redirect is never followed *)
(* and never passes, even with an expected status.                         *)
HttpOutcome ==
    [expected |-> "PASSED", unexpected |-> "FAILED", redirect |-> "MALFORMED",
     oversized |-> "MALFORMED", protocol |-> "MALFORMED",
     timeout |-> "TIMED_OUT", transport |-> "FAILED"]

RedisOutcome ==
    [expected |-> "PASSED", unexpected |-> "FAILED", oversized |-> "MALFORMED",
     timeout |-> "TIMED_OUT", transport |-> "FAILED"]

PostgresOutcome ==
    [expected |-> "PASSED", unexpected |-> "FAILED", timeout |-> "TIMED_OUT", transport |-> "FAILED"]

ProbeOutcome ==
    [expected |-> "PASSED", unexpected |-> "FAILED", rejected |-> "REJECTED",
     oversized |-> "MALFORMED", timeout |-> "TIMED_OUT", transport |-> "FAILED"]

OutcomeOf == [http |-> HttpOutcome, redis |-> RedisOutcome,
              postgres |-> PostgresOutcome, probe |-> ProbeOutcome]

(* Only an HTTP check of a public endpoint is authorized anew per attempt. *)
PerAttempt(c) == c.kind = "http" /\ c.context = "public"

-----------------------------------------------------------------------------

Report(outcome, attempts) ==
    pc' = "done" /\ verdict' = [outcome |-> outcome, attempts |-> attempts]

(* The loop over verification_attempts goes on, or ends with the last      *)
(* observation.                                                            *)
NextAttempt(outcome) ==
    IF attempt < MaximumAttempts
    THEN /\ attempt' = attempt + 1
         /\ pc' = IF PerAttempt(check) THEN "authorize" ELSE "attempt"
         /\ UNCHANGED verdict
    ELSE Report(outcome, attempt) /\ UNCHANGED attempt

(* The interpreter's checks before its first authorization.                *)
execute ==
    /\ pc = "begin"
    /\ IF check.kind = "probe" \/ PerAttempt(check)
       THEN /\ attempt' = 1
            /\ pc' = IF check.kind = "probe" THEN "attempt" ELSE "authorize"
            /\ UNCHANGED verdict
       ELSE IF check.kind = "postgres" /\ ~check.admitted
       THEN Report("REJECTED", 1) /\ UNCHANGED attempt
       ELSE pc' = "authorize" /\ UNCHANGED <<attempt, verdict>>
    /\ UNCHANGED <<check, gathered, target, sent>>

(* Mutant: an unresolved endpoint ends every check.                        *)
UnresolvedIsFinal == Report("REJECTED", IF PerAttempt(check) THEN attempt ELSE 1) /\ UNCHANGED attempt

(* Mutant: an unresolved endpoint is retried without using an attempt.     *)
UnresolvedUncounted ==
    IF PerAttempt(check) THEN pc' = "authorize" /\ UNCHANGED <<attempt, verdict>>
    ELSE Report("REJECTED", 1) /\ UNCHANGED attempt

(* An endpoint that cannot be resolved is worth another attempt where the  *)
(* endpoint is authorized per attempt; every other refusal is final.       *)
Unresolved ==
    IF PerAttempt(check) THEN NextAttempt("REJECTED")
    ELSE Report("REJECTED", 1) /\ UNCHANGED attempt

Untrusted == Report("REJECTED", IF PerAttempt(check) THEN attempt ELSE 1) /\ UNCHANGED attempt

(* The Postgres password is resolved between authorization and the loop.   *)
CredentialRefused ==
    check.kind = "postgres" /\ Report("REJECTED", 1) /\ UNCHANGED attempt

(* The target is fixed; a check that is authorized once begins its loop.   *)
Authorized(answers, to) ==
    /\ target' = [to |-> to, answers |-> answers, at |-> attempt]
    /\ \/ /\ attempt' = IF PerAttempt(check) THEN attempt ELSE 1
          /\ pc' = "attempt"
          /\ UNCHANGED verdict
       \/ CredentialRefused

(* authorize_probe_endpoint up to the resolution of a public host name.    *)
authorize_probe_endpoint ==
    /\ pc = "authorize"
    /\ \/ check.reference /\ Unresolved /\ UNCHANGED <<target, gathered>>
       \/ ~check.trusted /\ Untrusted /\ UNCHANGED <<target, gathered>>
       \/ /\ check.trusted /\ check.context # "public"
          /\ Authorized({}, Fixed) /\ UNCHANGED gathered
       \/ /\ check.trusted /\ check.context = "public"
          /\ pc' = "A" /\ gathered' = {}
          /\ UNCHANGED <<attempt, verdict, target>>
    /\ UNCHANGED <<check, sent>>

(* One query per address family.  A failed query raises, NXDOMAIN empties  *)
(* the answer, and too many records are a malformed response.              *)
query ==
    /\ pc \in DOMAIN Families
    /\ \/ Unresolved /\ UNCHANGED gathered
       \/ \E found \in SUBSET Families[pc] :
            LET all == gathered \cup found IN
            IF Cardinality(all) > MaximumRecords THEN Unresolved /\ UNCHANGED gathered
            ELSE /\ gathered' = all
                 /\ pc' = IF pc = "A" THEN "AAAA" ELSE "pin"
                 /\ UNCHANGED <<attempt, verdict>>
    /\ UNCHANGED <<check, target, sent>>

Lowest(addresses) == CHOOSE a \in addresses : \A b \in addresses : a <= b

(* Mutant: only the selected address has to be global.                     *)
PinSelected ==
    /\ pc = "pin"
    /\ IF gathered = {} THEN Unresolved /\ UNCHANGED target
       ELSE IF Lowest(gathered) \notin Global THEN Untrusted /\ UNCHANGED target
       ELSE Authorized(gathered, Lowest(gathered))
    /\ UNCHANGED <<check, gathered, sent>>

(* Every address of the answer must be global; the lowest is pinned.       *)
pinned_public_address ==
    /\ pc = "pin"
    /\ IF gathered = {} THEN Unresolved /\ UNCHANGED target
       ELSE IF ~(gathered \subseteq Global) THEN Untrusted /\ UNCHANGED target
       ELSE Authorized(gathered, Lowest(gathered))
    /\ UNCHANGED <<check, gathered, sent>>

(* One request to the authorized target and what is made of its answer.    *)
try ==
    /\ pc = "attempt"
    /\ \E answer \in DOMAIN OutcomeOf[check.kind] :
        LET outcome == OutcomeOf[check.kind][answer] IN
        /\ sent' = sent \cup {[attempt |-> attempt, to |-> target, outcome |-> outcome]}
        /\ IF outcome = "PASSED" THEN Report(outcome, attempt) /\ UNCHANGED attempt
           ELSE NextAttempt(outcome)
    /\ UNCHANGED <<check, gathered, target>>

Init ==
    /\ check \in Checks /\ pc = "begin" /\ attempt = 0
    /\ gathered = {} /\ target = None /\ sent = {} /\ verdict = NoVerdict

Step == authorize_probe_endpoint \/ query \/ pinned_public_address \/ try

Next == execute \/ Step

Spec == Init /\ [][Next]_vars

(* Requests, queries and sleeps are all bounded by a timeout.              *)
FairSpec == Spec /\ WF_vars(Next)

-----------------------------------------------------------------------------
(* Properties.                                                             *)

(* A request of a public check goes to an address of a DNS answer that had *)
(* only global addresses, however DNS answers change between the queries,  *)
(* and of an HTTP check to one resolved and vetted in the same attempt: no *)
(* pin outlives its attempt.                                               *)
RequestsVetted ==
    check.context = "public" /\ check.kind # "probe" =>
        \A m \in sent :
            /\ m.to.answers \subseteq Global /\ m.to.to \in m.to.answers
            /\ check.kind = "http" => m.to.at = m.attempt

(* The verdict is explained by what was sent: one request per attempt at   *)
(* most and none after the reported one; PASSED exactly when the reported  *)
(* attempt passed; another service verdict only from the last allowed      *)
(* attempt.  A public HTTP check is rejected before its last attempt only  *)
(* when its endpoint is untrusted: a resolver outage uses one attempt.     *)
VerdictExplained ==
    /\ \A m, n \in sent : m.attempt = n.attempt => m = n
    /\ pc = "done" =>
        /\ \A m \in sent : /\ m.attempt <= verdict.attempts
                          /\ m.outcome = "PASSED" => m.attempt = verdict.attempts
        /\ (verdict.outcome = "PASSED") = (\E m \in sent : m.outcome = "PASSED")
        /\ verdict.outcome \in {"FAILED", "TIMED_OUT", "MALFORMED"} =>
              \E m \in sent : /\ m.attempt = MaximumAttempts /\ m.outcome = verdict.outcome
                              /\ verdict.attempts = MaximumAttempts
        /\ /\ check.kind = "http" /\ check.context = "public"
           /\ verdict.outcome = "REJECTED" /\ verdict.attempts < MaximumAttempts
           => ~check.trusted \/ ~(gathered \subseteq Global)

(* Every check ends.                                                       *)
CheckEnds == <>(pc = "done")
=============================================================================
