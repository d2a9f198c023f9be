------------------------- MODULE VerificationProofs -------------------------
(***************************************************************************)
(* The safety properties of a verification check, for every number of      *)
(* attempts, every address space and every set of checks.                  *)
(***************************************************************************)
EXTENDS VerificationChecks, WellFoundedInduction, TLAPS

Labels == {"begin", "authorize", "A", "AAAA", "pin", "attempt", "done"}
Outcomes == {"PASSED", "FAILED", "MALFORMED", "TIMED_OUT", "REJECTED"}
Addresses == Inet \cup Inet6
Target == [to: Int, answers: SUBSET Addresses, at: 0..MaximumAttempts]

TypeOK ==
    /\ check \in Checks
    /\ pc \in Labels
    /\ attempt \in 0..MaximumAttempts
    /\ gathered \subseteq Addresses
    /\ target \in Target
    /\ sent \subseteq [attempt: 1..MaximumAttempts, to: Target, outcome: Outcomes]
    /\ verdict \in [outcome: Outcomes \cup {"none"}, attempts: 0..MaximumAttempts]

(* Where the loop stands: it begins before the authorization of a public   *)
(* HTTP check and after that of any other.                                 *)
LoopBegun ==
    /\ pc \in {"authorize", "A", "AAAA", "pin"} => (attempt = 0) = ~PerAttempt(check)
    /\ pc = "begin" => attempt = 0
    /\ pc = "attempt" => attempt # 0
    /\ pc \in {"A", "AAAA", "pin"} => check.context = "public" /\ check.trusted
    /\ pc \in {"authorize", "A", "AAAA", "pin"} => check.kind # "probe"

(* The target a request is about to go to has been vetted.                 *)
TargetVetted ==
    pc = "attempt" /\ check.context = "public" /\ check.kind # "probe" =>
        /\ target.answers \subseteq Global /\ target.to \in target.answers
        /\ check.kind = "http" => target.at = attempt

(* Until there is a verdict, no attempt passed, the current one has made   *)
(* no request and the earlier ones at most one each.                       *)
NothingSentYet ==
    /\ \A m, n \in sent : m.attempt = n.attempt => m = n
    /\ pc # "done" => \A m \in sent : m.attempt < attempt /\ m.outcome # "PASSED"

VerificationInv ==
    /\ TypeOK
    /\ LoopBegun
    /\ TargetVetted
    /\ NothingSentYet
    /\ RequestsVetted
    /\ VerdictExplained

-----------------------------------------------------------------------------
(* What the interpreters make of an answer is an outcome, and an HTTP      *)
(* answer is never a rejection.                                            *)
LEMMA OutcomeKnown ==
    ASSUME NEW kind \in {"http", "redis", "postgres", "probe"}, NEW answer \in DOMAIN OutcomeOf[kind]
    PROVE  /\ OutcomeOf[kind][answer] \in Outcomes
           /\ kind = "http" => OutcomeOf[kind][answer] # "REJECTED"
<1>1. CASE kind = "http"
  BY <1>1 DEF OutcomeOf, HttpOutcome, Outcomes
<1>2. CASE kind = "redis"
  BY <1>2 DEF OutcomeOf, RedisOutcome, Outcomes
<1>3. CASE kind = "postgres"
  BY <1>3 DEF OutcomeOf, PostgresOutcome, Outcomes
<1>4. CASE kind = "probe"
  BY <1>4 DEF OutcomeOf, ProbeOutcome, Outcomes
<1> QED BY <1>1, <1>2, <1>3, <1>4

(* The pinned address is one of the answer.                                *)
LEMMA LowestIn ==
    ASSUME NEW S \in SUBSET Nat, S # {}
    PROVE  Lowest(S) \in S
<1> DEFINE R == OpToRel(<, Nat)
<1>1. \A x, y \in Nat : <<y, x>> \in R <=> y < x
  BY DEF OpToRel
<1>2. \E x \in S : \A y \in S : ~(<<y, x>> \in R)
  BY WFMin, NatLessThanWellFounded
<1>3. PICK x \in S : \A y \in S : ~(<<y, x>> \in R)
  BY <1>2
<1>4. \A y \in S : ~(y < x)
  BY <1>1, <1>3
<1>5. \A y \in S : x <= y
  BY <1>4
<1> QED BY <1>5 DEF Lowest

(* Types.                                                                  *)
LEMMA TypeNext ==
    ASSUME TypeOK, LoopBegun, [Next]_vars
    PROVE  TypeOK'
<1> USE VerificationAssumption, CheckAssumption DEF TypeOK, Labels, Outcomes, Report, NextAttempt,
        Unresolved, Untrusted, Authorized, CredentialRefused, Target, Fixed
<1>1. CASE execute
  BY <1>1 DEF execute
<1>2. CASE authorize_probe_endpoint
  BY <1>2 DEF authorize_probe_endpoint, LoopBegun
<1>3. CASE query
  <2>1. Families[pc] \subseteq Addresses
    BY <1>3 DEF query, Families, Addresses
  <2>2. pc \in {"A", "AAAA"} /\ (PerAttempt(check) => attempt # 0)
    BY <1>3 DEF query, Families, LoopBegun
  <2>3. gathered' \subseteq Addresses
    BY <1>3, <2>1 DEF query
  <2>4. \/ Unresolved
        \/ pc' \in Labels /\ UNCHANGED <<attempt, verdict>>
    BY <1>3 DEF query
  <2>5. pc' \in Labels /\ attempt' \in 0..MaximumAttempts /\ verdict' \in [outcome: Outcomes \cup {"none"}, attempts: 0..MaximumAttempts]
    BY <2>2, <2>4
  <2> QED BY <1>3, <2>3, <2>5 DEF query
<1>4. CASE pinned_public_address
  <2>1. gathered \in SUBSET Nat
    BY DEF Addresses
  <2>2. gathered # {} => Lowest(gathered) \in gathered
    BY ONLY <2>1, LowestIn
  <2>3. \A x \in gathered : x \in Int
    BY ONLY <2>1
  <2>4. gathered # {} => Lowest(gathered) \in Int
    BY ONLY <2>2, <2>3
  <2> QED BY <1>4, <2>4 DEF pinned_public_address, LoopBegun
<1>5. CASE try
  <2>1. check.kind \in {"http", "redis", "postgres", "probe"}
    BY DEF Check
  <2>2. PICK answer \in DOMAIN OutcomeOf[check.kind] :
            LET outcome == OutcomeOf[check.kind][answer] IN
            /\ sent' = sent \cup {[attempt |-> attempt, to |-> target, outcome |-> outcome]}
            /\ IF outcome = "PASSED" THEN Report(outcome, attempt) /\ UNCHANGED attempt
               ELSE NextAttempt(outcome)
    BY <1>5 DEF try
  <2>3. OutcomeOf[check.kind][answer] \in Outcomes
    BY <2>1, OutcomeKnown
  <2> QED BY <1>5, <2>2, <2>3 DEF try, LoopBegun
<1>6. CASE UNCHANGED vars
  BY <1>6 DEF vars
<1> QED BY <1>1, <1>2, <1>3, <1>4, <1>5, <1>6 DEF Next, Step

(* The loop's position.                                                    *)
LEMMA LoopNext ==
    ASSUME TypeOK, LoopBegun, [Next]_vars
    PROVE  LoopBegun'
<1> USE VerificationAssumption DEF LoopBegun, Report, NextAttempt, Unresolved, Untrusted,
        Authorized, CredentialRefused, PerAttempt
<1>0. attempt \in Nat
  BY DEF TypeOK
<1>1. CASE execute
  BY <1>1 DEF execute
<1>2. CASE authorize_probe_endpoint
  BY <1>0, <1>2 DEF authorize_probe_endpoint
<1>3. CASE query
  <2>1. pc \in {"A", "AAAA"} /\ UNCHANGED check
    BY <1>3 DEF query, Families
  <2>2. Unresolved \/ (pc' \in {"AAAA", "pin"} /\ UNCHANGED attempt)
    BY <1>3 DEF query
  <2> QED BY <1>0, <2>1, <2>2
<1>4. CASE pinned_public_address
  BY <1>0, <1>4 DEF pinned_public_address
<1>5. CASE try
  BY <1>0, <1>5 DEF try
<1>6. CASE UNCHANGED vars
  BY <1>6 DEF vars
<1> QED BY <1>1, <1>2, <1>3, <1>4, <1>5, <1>6 DEF Next, Step

(* A check only reaches an attempt with a vetted target, and requests are  *)
(* made in attempts only.                                                  *)
LEMMA VettedNext ==
    ASSUME TypeOK, LoopBegun, TargetVetted, RequestsVetted, [Next]_vars
    PROVE  TargetVetted' /\ RequestsVetted'
<1> USE DEF TargetVetted, Report, NextAttempt, Unresolved, Untrusted, CredentialRefused, PerAttempt
<1>1. CASE execute
  BY <1>1 DEF execute, RequestsVetted
<1>2. CASE authorize_probe_endpoint
  <2>1. TargetVetted'
    BY <1>2 DEF authorize_probe_endpoint, Authorized, LoopBegun
  <2> QED BY <1>2, <2>1 DEF authorize_probe_endpoint, RequestsVetted
<1>3. CASE query
  <2>1. TargetVetted'
    BY <1>3 DEF query, LoopBegun, Families
  <2> QED BY <1>3, <2>1 DEF query, RequestsVetted
<1>4. CASE pinned_public_address
  <2>1. gathered \in SUBSET Nat
    BY VerificationAssumption DEF TypeOK, Addresses
  <2>2. gathered # {} => Lowest(gathered) \in gathered
    BY ONLY <2>1, LowestIn
  <2>3. TargetVetted'
    BY <1>4, <2>2 DEF pinned_public_address, LoopBegun, Authorized
  <2> QED BY <1>4, <2>3 DEF pinned_public_address, RequestsVetted
<1>5. CASE try
  <2>1. PICK outcome : sent' = sent \cup {[attempt |-> attempt, to |-> target, outcome |-> outcome]}
    BY <1>5 DEF try
  <2>2. RequestsVetted'
    BY <1>5, <2>1 DEF try, RequestsVetted
  <2>3. TargetVetted'
    BY <1>5 DEF try
  <2> QED BY <2>2, <2>3
<1>6. CASE UNCHANGED vars
  BY <1>6 DEF vars, RequestsVetted
<1> QED BY <1>1, <1>2, <1>3, <1>4, <1>5, <1>6 DEF Next, Step

(* A step that makes no request and leaves the check running.              *)
LEMMA Continued ==
    ASSUME TypeOK, NothingSentYet, pc # "done", pc' # "done", sent' = sent,
           attempt' \in Nat, attempt' >= attempt
    PROVE  NothingSentYet' /\ VerdictExplained'
<1>1. \A m \in sent : m.attempt \in Nat
  BY VerificationAssumption DEF TypeOK
<1>2. attempt \in Nat
  BY DEF TypeOK
<1>3. NothingSentYet'
  BY <1>1, <1>2 DEF NothingSentYet
<1>4. VerdictExplained'
  BY <1>3 DEF NothingSentYet, VerdictExplained
<1> QED BY <1>3, <1>4

(* A step that makes no request and ends the check with a rejection.       *)
LEMMA Rejected ==
    ASSUME TypeOK, NothingSentYet, pc # "done", pc' = "done", sent' = sent,
           NEW n \in Nat, n >= attempt, verdict' = [outcome |-> "REJECTED", attempts |-> n],
           PerAttempt(check') /\ n < MaximumAttempts => ~check'.trusted \/ ~(gathered' \subseteq Global)
    PROVE  NothingSentYet' /\ VerdictExplained'
<1>1. \A m \in sent : m.attempt \in Nat /\ m.attempt < attempt /\ m.outcome # "PASSED"
  BY VerificationAssumption DEF TypeOK, NothingSentYet
<1>2. attempt \in Nat
  BY DEF TypeOK
<1>3. \A m \in sent : m.attempt <= n
  BY <1>1, <1>2
<1>4. NothingSentYet'
  BY DEF NothingSentYet
<1>5. verdict'.outcome = "REJECTED" /\ verdict'.attempts = n
  OBVIOUS
<1>6. VerdictExplained'
  BY <1>1, <1>3, <1>4, <1>5 DEF NothingSentYet, VerdictExplained, PerAttempt
<1> QED BY <1>4, <1>6

(* Every step keeps the verdict explained.                                 *)
LEMMA ExplainedNext ==
    ASSUME TypeOK, LoopBegun, NothingSentYet, VerdictExplained, [Next]_vars
    PROVE  NothingSentYet' /\ VerdictExplained'
<1> USE VerificationAssumption
<1>0. attempt \in 0..MaximumAttempts
  BY DEF TypeOK
<1> DEFINE n == IF PerAttempt(check) THEN attempt ELSE 1
<1>a. ASSUME Unresolved, pc # "done", UNCHANGED <<check, sent>>, (attempt = 0) = ~PerAttempt(check)
      PROVE  NothingSentYet' /\ VerdictExplained'
  <2>1. CASE PerAttempt(check) /\ attempt < MaximumAttempts
    <3>1. pc' # "done" /\ attempt' = attempt + 1
      BY <1>a, <2>1 DEF Unresolved, NextAttempt
    <3> QED BY <1>0, <1>a, <3>1, Continued
  <2>2. CASE PerAttempt(check) /\ ~(attempt < MaximumAttempts)
    <3>1. pc' = "done" /\ verdict' = [outcome |-> "REJECTED", attempts |-> attempt]
      BY <1>a, <2>2 DEF Unresolved, NextAttempt, Report
    <3> QED BY <1>0, <1>a, <2>2, <3>1, Rejected
  <2>3. CASE ~PerAttempt(check)
    <3>1. pc' = "done" /\ verdict' = [outcome |-> "REJECTED", attempts |-> 1] /\ attempt = 0
      BY <1>a, <2>3 DEF Unresolved, Report
    <3> QED BY <1>a, <2>3, <3>1, Rejected
  <2> QED BY <2>1, <2>2, <2>3
<1>b. ASSUME Untrusted, pc # "done", UNCHANGED <<check, sent>>, (attempt = 0) = ~PerAttempt(check),
             ~check.trusted \/ ~(gathered' \subseteq Global)
      PROVE  NothingSentYet' /\ VerdictExplained'
  <2>1. pc' = "done" /\ verdict' = [outcome |-> "REJECTED", attempts |-> n] /\ n \in Nat /\ n >= attempt
    BY <1>0, <1>b DEF Untrusted, Report
  <2> HIDE DEF n
  <2> QED BY <1>b, <2>1, Rejected
<1>c. ASSUME NEW to, NEW answers, Authorized(answers, to), pc # "done", UNCHANGED <<check, sent>>,
             (attempt = 0) = ~PerAttempt(check)
      PROVE  NothingSentYet' /\ VerdictExplained'
  <2>1. CASE CredentialRefused
    <3>1. /\ pc' = "done" /\ verdict' = [outcome |-> "REJECTED", attempts |-> 1]
          /\ ~PerAttempt(check) /\ attempt = 0
      BY <1>c, <2>1 DEF CredentialRefused, Report, PerAttempt
    <3> QED BY <1>c, <3>1, Rejected
  <2>2. CASE attempt' = n /\ pc' = "attempt"
    <3>1. attempt' \in Nat /\ attempt' >= attempt /\ pc' # "done"
      BY <1>0, <1>c, <2>2
    <3> QED BY <1>c, <3>1, Continued
  <2> QED BY <1>c, <2>1, <2>2 DEF Authorized
<1>1. CASE execute
  <2>1. attempt = 0 /\ pc # "done" /\ UNCHANGED <<check, sent>>
    BY <1>1 DEF execute, LoopBegun
  <2>2. CASE pc' = "done"
    <3>1. verdict' = [outcome |-> "REJECTED", attempts |-> 1] /\ ~PerAttempt(check)
      BY <1>1, <2>2 DEF execute, Report
    <3> QED BY <2>1, <2>2, <3>1, Rejected
  <2>3. CASE pc' # "done"
    <3>1. attempt' \in {0, 1}
      BY <1>1, <2>1, <2>3 DEF execute, Report
    <3> QED BY <2>1, <2>3, <3>1, Continued
  <2> QED BY <2>2, <2>3
<1>2. CASE authorize_probe_endpoint
  <2>1. (attempt = 0) = ~PerAttempt(check) /\ pc # "done" /\ UNCHANGED <<check, sent>>
    BY <1>2 DEF authorize_probe_endpoint, LoopBegun
  <2>2. CASE pc' = "A" /\ UNCHANGED attempt
    BY <1>0, <2>1, <2>2, Continued
  <2> QED BY <1>2, <1>a, <1>b, <1>c, <2>1, <2>2 DEF authorize_probe_endpoint
<1>3. CASE query
  <2>1. (attempt = 0) = ~PerAttempt(check) /\ pc # "done" /\ UNCHANGED <<check, sent>>
    BY <1>3 DEF query, Families, LoopBegun
  <2>2. CASE pc' \in {"AAAA", "pin"} /\ UNCHANGED attempt
    BY <1>0, <2>1, <2>2, Continued
  <2>3. Unresolved \/ (pc' \in {"AAAA", "pin"} /\ UNCHANGED attempt)
    BY <1>3 DEF query
  <2> QED BY <1>a, <2>1, <2>2, <2>3
<1>4. CASE pinned_public_address
  <2>1. (attempt = 0) = ~PerAttempt(check) /\ pc # "done" /\ UNCHANGED <<check, sent, gathered>>
    BY <1>4 DEF pinned_public_address, LoopBegun
  <2>2. Unresolved \/ (Untrusted /\ ~(gathered \subseteq Global)) \/ Authorized(gathered, Lowest(gathered))
    BY <1>4 DEF pinned_public_address
  <2> QED BY <1>a, <1>b, <1>c, <2>1, <2>2
<1>5. CASE try
  <2>1. check.kind \in {"http", "redis", "postgres", "probe"}
    BY CheckAssumption DEF TypeOK, Check
  <2>2. PICK answer \in DOMAIN OutcomeOf[check.kind] :
            LET outcome == OutcomeOf[check.kind][answer] IN
            /\ sent' = sent \cup {[attempt |-> attempt, to |-> target, outcome |-> outcome]}
            /\ IF outcome = "PASSED" THEN Report(outcome, attempt) /\ UNCHANGED attempt
               ELSE NextAttempt(outcome)
    BY <1>5 DEF try
  <2> DEFINE outcome == OutcomeOf[check.kind][answer]
  <2> DEFINE request == [attempt |-> attempt, to |-> target, outcome |-> outcome]
  <2>3. outcome \in Outcomes /\ (check.kind = "http" => outcome # "REJECTED")
    BY <2>1, OutcomeKnown
  <2>4. pc = "attempt" /\ pc # "done" /\ attempt # 0 /\ UNCHANGED check
    BY <1>5 DEF try, LoopBegun
  <2>5. \A m \in sent : m.attempt \in Nat /\ m.attempt < attempt /\ m.outcome # "PASSED"
    BY <2>4 DEF TypeOK, NothingSentYet
  <2>6. sent' = sent \cup {request} /\ request.attempt = attempt /\ request.outcome = outcome
    BY <2>2
  <2> HIDE DEF request
  <2>7. \A m, k \in sent' : m.attempt = k.attempt => m = k
    BY <1>0, <2>5, <2>6 DEF NothingSentYet
  <2>8. CASE outcome # "PASSED" /\ attempt < MaximumAttempts
    <3>1. pc' # "done" /\ attempt' = attempt + 1
      BY <2>2, <2>8 DEF NextAttempt
    <3>2. \A m \in sent' : m.attempt < attempt' /\ m.outcome # "PASSED"
      BY <1>0, <2>5, <2>6, <2>8, <3>1
    <3> QED BY <2>7, <3>1, <3>2 DEF NothingSentYet, VerdictExplained
  <2>9. CASE outcome = "PASSED" \/ ~(attempt < MaximumAttempts)
    <3>1. pc' = "done" /\ verdict'.outcome = outcome /\ verdict'.attempts = attempt
      BY <2>2, <2>9 DEF NextAttempt, Report
    <3>2. \A m \in sent' : m.attempt <= attempt /\ (m.outcome = "PASSED" => m.attempt = attempt)
      BY <1>0, <2>5, <2>6
    <3>3. (outcome = "PASSED") = (\E m \in sent' : m.outcome = "PASSED")
      BY <2>5, <2>6
    <3>4. outcome # "PASSED" => attempt = MaximumAttempts
      BY <1>0, <2>9
    <3> HIDE DEF outcome
    <3> QED BY <1>0, <2>3, <2>4, <2>6, <2>7, <3>1, <3>2, <3>3, <3>4 DEF NothingSentYet, VerdictExplained, Outcomes
  <2> QED BY <2>8, <2>9
<1>6. CASE UNCHANGED vars
  BY <1>6 DEF vars, NothingSentYet, VerdictExplained
<1> QED BY <1>1, <1>2, <1>3, <1>4, <1>5, <1>6 DEF Next, Step
LEMMA InvInit ==
    ASSUME Init
    PROVE  VerificationInv
<1> USE VerificationAssumption DEF Init, None, NoVerdict, Fixed
<1>1. TypeOK
  BY DEF TypeOK, Labels, Target
<1>2. LoopBegun /\ TargetVetted /\ NothingSentYet
  BY DEF LoopBegun, TargetVetted, NothingSentYet
<1>3. RequestsVetted /\ VerdictExplained
  BY DEF RequestsVetted, VerdictExplained
<1> QED BY <1>1, <1>2, <1>3 DEF VerificationInv

LEMMA InvNext ==
    ASSUME VerificationInv, [Next]_vars
    PROVE  VerificationInv'
BY TypeNext, LoopNext, VettedNext, ExplainedNext DEF VerificationInv

LEMMA InvAlways == Spec => []VerificationInv
BY InvInit, InvNext, PTL DEF Spec

(* Whatever DNS answers, and however its answers change between queries    *)
(* and attempts, a request of a public check (verification.py) goes to an  *)
(* address whose whole answer was globally routable, and of an HTTP check  *)
(* to one authorized in the same attempt.                                  *)
THEOREM AddressesVetted == Spec => []RequestsVetted
<1>1. VerificationInv => RequestsVetted
  BY DEF VerificationInv
<1> QED BY <1>1, InvAlways, PTL

(* The verdict of a check (verification.py, timing.py) follows from the    *)
(* requests it made, whatever the policy's number of attempts.             *)
THEOREM VerdictsExplained == Spec => []VerdictExplained
<1>1. VerificationInv => VerdictExplained
  BY DEF VerificationInv
<1> QED BY <1>1, InvAlways, PTL
=============================================================================
