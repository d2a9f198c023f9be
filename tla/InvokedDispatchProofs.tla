------------------------ MODULE InvokedDispatchProofs -----------------------
(***************************************************************************)
(* What holds of every call of the invoked Docker interpreter, for every   *)
(* set of requests: the client it acquired is released on every path, the  *)
(* port's acknowledgements are not lost, and no provider call is made      *)
(* without a permit.                                                       *)
(***************************************************************************)
EXTENDS InvokedDispatch, SequenceTheorems, FiniteSetTheorems, TLAPS

Sections == Grants \cup Checks \cup {"dispatch", "acquisition"}
Permit == [kind: PermitKinds, outcome: {"open", "returned", "unknown"}]

TypeOK ==
    /\ pc \in {"idle", "admit", "call", "connect", "run", "close", "record", "done"}
    /\ req \in Requests \cup {NoRequest} /\ (pc # "idle" => req \in Requests)
    /\ todo \in Seq(Sections) /\ credential \in BOOLEAN
    /\ permits \in Seq(Permit)
    /\ pending \in Results \cup Raised \cup {"none", "error"}
    /\ client \in {"none", "open", "closed", "unclosed"}
    /\ directory \in {"none", "present", "removed", "stuck"}
    /\ io \in [PermitKinds -> Nat]
    /\ portFailed \in BOOLEAN
    /\ end \in Results \cup Raised \cup {"none"}

(* A dispatch is the last section of a call that is not an ordinary        *)
(* verification, and only checks follow an acquisition or a check.         *)
Ordered(r, s) ==
    \A i \in 1..Len(s) :
        /\ s[i] = "dispatch" => i = Len(s) /\ ~(Invoked(r) /\ r.op = "wait")
        /\ s[i] = "acquisition" => Invoked(r) /\ r.op = "wait"
        /\ \A j \in 1..Len(s) : i < j /\ s[i] \in Checks \cup {"acquisition"} => s[j] \in Checks

OnlyChecks == \A i \in 1..Len(todo) : todo[i] \in Checks

(* The call is in a section of its plan, and only an effect closes outside *)
(* an ordinary verification.                                               *)
InPlan ==
    /\ Ordered(req, todo)
    /\ pc \in {"admit", "call", "connect", "run", "record"} => todo # <<>>
    /\ pc \in {"connect", "run"} => Head(todo) \in {"dispatch", "acquisition"}
    /\ pc = "close" /\ ~Ordinary => todo # <<>> /\ Head(todo) = "dispatch"
    /\ pc = "close" => pending \in Results \cup Raised
    /\ end # "none" => pc = "done"
    /\ pc = "idle" => todo = <<>>

(* What is held before a section runs: nothing, or in an ordinary          *)
(* verification's checks the client its acquisition opened.                *)
Nothing == client = "none" /\ directory = "none"
Held == client = "open" /\ directory \in {"none", "present"} /\ Binding(req) # "ambient"

(* The result owns up to a release that is uncertain.                      *)
OwnsUp(what) == what \in Raised \/ (what = "uncertain" /\ evidence \cap Receipts = {})

Custody ==
    /\ pc = "idle" => Nothing
    /\ pc \in {"admit", "call"} => Nothing \/ (Held /\ Ordinary /\ OnlyChecks)
    /\ pc = "connect" => client = "none" /\ directory = "present" /\ Binding(req) # "ambient"
    /\ pc = "run" => Nothing \/ Held
    /\ pc = "close" => (Nothing /\ ~Ordinary) \/ Held
    /\ pc = "record" =>
        /\ client = "open" => Held /\ Ordinary /\ (Head(todo) = "acquisition" \/ OnlyChecks)
        /\ pending = "none" => Nothing \/ Held
        /\ directory = "present" => client \in {"open", "unclosed"} \/ pending = "cancelled"
        /\ client = "unclosed" \/ directory = "stuck" =>
              OwnsUp(pending)
              \/ (pending = "error" /\ Head(todo) = "acquisition" /\ evidence = {})
    /\ pc = "done" =>
        /\ client # "open"
        /\ directory = "present" => end = "cancelled" \/ client = "unclosed"
        /\ client = "unclosed" \/ directory = "stuck" => OwnsUp(end)

(* Only an effect that ran left evidence, and its call goes no further.    *)
EvidenceOfEffect ==
    evidence # {} => pc \in {"close", "record", "done"} /\ ~Ordinary /\ pending # "none"

AllReturned == \A i \in 1..Len(permits) : permits[i].outcome = "returned"

(* The port's record: every permit but the last is acknowledged before the *)
(* next is asked for, and a call the port failed is on its way out.        *)
Ledger ==
    /\ \A i \in 1..Len(permits) : i < Len(permits) => permits[i].outcome = "returned"
    /\ pc = "idle" => permits = <<>>
    /\ pc # "idle" /\ ~Invoked(req) => permits = <<>>
    /\ pc = "admit" => AllReturned
    /\ pc = "close" /\ Ordinary /\ pending = "succeeded" => AllReturned
    /\ end = "succeeded" => AllReturned
    /\ pc # "idle" /\ Invoked(req)
          /\ (pc \in {"call", "connect", "run", "record"} \/ (pc = "close" /\ ~Ordinary)) => permits # <<>>
    /\ portFailed =>
          \/ pc = "done" /\ end \in Raised
          \/ pc = "close" /\ Ordinary /\ pending \in Raised

SharedKinds == PermitKinds \ {"prepared-runtime-dispatch"}

(* A permit that was admitted and whose provider call is still to come.    *)
Ahead(k) == IF pc = "call" /\ PermitKind = k THEN 1 ELSE 0

Covered ==
    /\ pc = "idle" => permits = <<>> /\ io = [k \in PermitKinds |-> 0]
    /\ pc # "idle" /\ Invoked(req) =>
        /\ \A k \in SharedKinds : io[k] + Ahead(k) <= PermitCount(k)
        /\ io["prepared-runtime-dispatch"] > 0 => PermitCount("prepared-runtime-dispatch") = 1
        /\ pc = "admit" \/ (pc \in {"call", "connect", "run", "record"} /\ Head(todo) # "dispatch") =>
              PermitCount("prepared-runtime-dispatch") = 0
        /\ pc \in {"call", "connect", "run"} /\ Head(todo) = "dispatch" =>
              PermitCount("prepared-runtime-dispatch") = 1

DispatchInv == TypeOK /\ InPlan /\ Custody /\ EvidenceOfEffect /\ Ledger /\ Covered

-----------------------------------------------------------------------------
(* Facts about a request.                                                  *)

LEMMA Fields ==
    ASSUME NEW r \in Requests
    PROVE  r \in Request /\ r.checks \in Seq(Checks) /\ r # NoRequest
BY CallAssumption DEF Request

(* A refusal is a result or a control error, and never a success.          *)
LEMMA RefusalKinds ==
    ASSUME NEW r
    PROVE  Refusal(r) \in {"unsupported", "control", "failed", "cleanup_rows", "none"}
BY DEF Refusal

LEMMA GrantsJoin ==
    ASSUME NEW s \in Seq(Grants), NEW t \in Seq(Grants)
    PROVE  s \o t \in Seq(Grants)
BY ConcatProperties

(* Grants come first in a plan, then one dispatch or an acquisition and    *)
(* its checks.                                                             *)
LEMMA PlanParts ==
    ASSUME NEW r \in Requests
    PROVE  \E g \in Seq(Grants) :
              \/ Invoked(r) /\ r.op = "wait" /\ Plan(r) = g \o (<<"acquisition">> \o r.checks)
              \/ ~(Invoked(r) /\ r.op = "wait") /\ Plan(r) = g \o <<"dispatch">>
<1> DEFINE a == IF Binding(r) = "tls" THEN TlsGrants ELSE <<>>
           b == IF Invoked(r) /\ "delivery" \in r.secrets THEN <<"delivery">> ELSE <<>>
           c == IF Invoked(r) /\ "pull" \in r.secrets THEN <<"pull">> ELSE <<>>
<1>1. a \in Seq(Grants)
  <2>1. TlsGrants \in Seq(Grants)
    BY DEF TlsGrants, Grants
  <2> QED  BY <2>1
<1>2. b \in Seq(Grants) /\ c \in Seq(Grants)
  <2>1. <<>> \in Seq(Grants) /\ <<"delivery">> \in Seq(Grants) /\ <<"pull">> \in Seq(Grants)
    BY DEF Grants, ProductGrants
  <2> QED  BY <2>1
<1>3. (a \o b) \o c \in Seq(Grants)
  <2> HIDE DEF a, b, c
  <2>1. a \o b \in Seq(Grants)
    BY <1>1, <1>2, GrantsJoin
  <2> QED  BY <2>1, <1>2, GrantsJoin
<1>4. Plan(r) = ((a \o b) \o c)
                  \o (IF Invoked(r) /\ r.op = "wait" THEN <<"acquisition">> \o r.checks
                                                     ELSE <<"dispatch">>)
  BY DEF Plan
<1> HIDE DEF a, b, c
<1> QED  BY <1>3, <1>4

LEMMA PlanOrdered ==
    ASSUME NEW r \in Requests
    PROVE  Plan(r) \in Seq(Sections) /\ Plan(r) # <<>> /\ Ordered(r, Plan(r))
<1>1. r.checks \in Seq(Checks)
  BY Fields
<1>2. PICK g \in Seq(Grants) :
              \/ Invoked(r) /\ r.op = "wait" /\ Plan(r) = g \o (<<"acquisition">> \o r.checks)
              \/ ~(Invoked(r) /\ r.op = "wait") /\ Plan(r) = g \o <<"dispatch">>
  BY PlanParts
<1>3. g \in Seq(Sections) /\ r.checks \in Seq(Sections)
  BY <1>1 DEF Sections
<1>4. "dispatch" \notin Grants \cup Checks /\ "acquisition" \notin Grants \cup Checks
        /\ Grants \cap Checks = {}
  BY DEF Grants, ProductGrants, Checks
<1>5. CASE Invoked(r) /\ r.op = "wait" /\ Plan(r) = g \o (<<"acquisition">> \o r.checks)
  <2> DEFINE t == <<"acquisition">> \o r.checks
  <2>1. /\ t \in Seq(Sections) /\ Len(t) = 1 + Len(r.checks)
        /\ t[1] = "acquisition"
        /\ \A i \in 2..Len(t) : t[i] \in Checks
    <3>1. <<"acquisition">> \in Seq(Sections)
      BY DEF Sections
    <3> QED  BY <1>1, <1>3, <3>1, ConcatProperties
  <2> HIDE DEF t
  <2>2. /\ g \o t \in Seq(Sections) /\ Len(g \o t) = Len(g) + Len(t)
        /\ \A i \in 1..(Len(g) + Len(t)) :
              (g \o t)[i] = IF i <= Len(g) THEN g[i] ELSE t[i - Len(g)]
    BY <1>3, <2>1, ConcatProperties
  <2>3. Len(g) \in Nat /\ Len(t) \in Nat /\ Len(t) >= 1
    BY <1>1, <2>1
  <2>4. \A i \in 1..Len(g) : g[i] \in Grants
    OBVIOUS
  <2>5. /\ \A i \in 1..Len(g) : (g \o t)[i] \in Grants
        /\ (g \o t)[Len(g) + 1] = "acquisition"
        /\ \A i \in 1..(Len(g) + Len(t)) : i > Len(g) + 1 => (g \o t)[i] \in Checks
    BY <2>1, <2>2, <2>3, <2>4
  <2> DEFINE p == g \o t
  <2>6. p # <<>> /\ Plan(r) = p
    BY <1>5, <2>2, <2>3 DEF t
  <2>7. /\ p \in Seq(Sections) /\ Len(p) = Len(g) + Len(t)
        /\ \A i \in 1..Len(p) :
              \/ i <= Len(g) /\ p[i] \in Grants
              \/ i = Len(g) + 1 /\ p[i] = "acquisition"
              \/ i > Len(g) + 1 /\ p[i] \in Checks
    BY <2>2, <2>3, <2>5
  <2> HIDE DEF p
  <2>8. Ordered(r, p)
    <3> SUFFICES ASSUME NEW i \in 1..Len(p)
                 PROVE  /\ p[i] # "dispatch"
                        /\ \A j \in 1..Len(p) :
                              i < j /\ p[i] \in Checks \cup {"acquisition"} => p[j] \in Checks
      BY <1>5 DEF Ordered
    <3>1. p[i] # "dispatch"
      BY <2>7, <1>4
    <3>2. ASSUME NEW j \in 1..Len(p), i < j, p[i] \in Checks \cup {"acquisition"}
          PROVE  p[j] \in Checks
      <4>1. ~(i <= Len(g))
        BY <2>7, <3>2, <1>4, <2>3
      <4>2. j > Len(g) + 1
        BY <4>1, <3>2, <2>3, <2>7
      <4> QED  BY <2>7, <4>2, <2>3
    <3> QED  BY <3>1, <3>2
  <2> QED  BY <2>6, <2>7, <2>8
<1>6. CASE ~(Invoked(r) /\ r.op = "wait") /\ Plan(r) = g \o <<"dispatch">>
  <2> DEFINE p == g \o <<"dispatch">>
  <2>1. /\ p \in Seq(Sections) /\ Len(p) = Len(g) + 1
        /\ \A i \in 1..(Len(g) + 1) : p[i] = IF i <= Len(g) THEN g[i] ELSE "dispatch"
    <3>1. <<"dispatch">> \in Seq(Sections) /\ Len(<<"dispatch">>) = 1 /\ <<"dispatch">>[1] = "dispatch"
      BY DEF Sections
    <3> QED  BY <1>3, <3>1, ConcatProperties
  <2>2. \A i \in 1..Len(g) : g[i] \in Grants
    OBVIOUS
  <2>3. p # <<>> /\ Plan(r) = p
    BY <1>6, <2>1
  <2> HIDE DEF p
  <2> QED  BY <1>4, <1>6, <2>1, <2>2, <2>3 DEF Ordered
<1> QED  BY <1>2, <1>5, <1>6

(* The sections that remain keep their order.                              *)
LEMMA OrderedTail ==
    ASSUME NEW r, NEW s \in Seq(Sections), s # <<>>, Ordered(r, s)
    PROVE  /\ Tail(s) \in Seq(Sections) /\ Ordered(r, Tail(s))
           /\ Len(s) # 1 => Tail(s) # <<>>
           /\ Head(s) = s[1] /\ Head(s) \in Sections
           /\ Head(s) = "dispatch" => Len(s) = 1
           /\ Head(s) \in Checks \cup {"acquisition"} =>
                 \A i \in 1..Len(Tail(s)) : Tail(s)[i] \in Checks
<1>1. /\ Tail(s) \in Seq(Sections) /\ Len(Tail(s)) = Len(s) - 1 /\ Len(s) \in Nat /\ Len(s) >= 1
      /\ \A i \in 1..Len(Tail(s)) : Tail(s)[i] = s[i + 1]
      /\ Head(s) = s[1] /\ Head(s) \in Sections
  OBVIOUS
<1> DEFINE t == Tail(s)
<1>2. Len(s) # 1 => t # <<>>
  BY <1>1
<1> HIDE DEF t
<1>3. Head(s) = "dispatch" => Len(s) = 1
  <2>1. 1 \in 1..Len(s)
    BY <1>1
  <2> QED  BY <1>1, <2>1 DEF Ordered
<1>4. \A i \in 1..Len(t) : i + 1 \in 1..Len(s) /\ t[i] = s[i + 1]
  BY <1>1 DEF t
<1>5. Head(s) \in Checks \cup {"acquisition"} => \A i \in 1..Len(t) : t[i] \in Checks
  <2>1. \A i \in 1..Len(t) : 1 < i + 1 /\ 1 \in 1..Len(s)
    BY <1>1 DEF t
  <2> QED  BY <1>1, <1>4, <2>1 DEF Ordered
<1>6. Ordered(r, t)
  <2> SUFFICES ASSUME NEW i \in 1..Len(t)
               PROVE  /\ t[i] = "dispatch" => i = Len(t) /\ ~(Invoked(r) /\ r.op = "wait")
                      /\ t[i] = "acquisition" => Invoked(r) /\ r.op = "wait"
                      /\ \A j \in 1..Len(t) :
                            i < j /\ t[i] \in Checks \cup {"acquisition"} => t[j] \in Checks
    BY DEF Ordered
  <2>1. i + 1 \in 1..Len(s) /\ t[i] = s[i + 1] /\ (i + 1 = Len(s) => i = Len(t))
    <3>1. Len(t) = Len(s) - 1 /\ i \in Int
      BY <1>1 DEF t
    <3>2. i + 1 = Len(s) => i = Len(s) - 1
      BY <3>1, <1>1
    <3> QED  BY <3>1, <3>2, <1>4
  <2>2. ASSUME NEW j \in 1..Len(t), i < j, t[i] \in Checks \cup {"acquisition"}
        PROVE  t[j] \in Checks
    <3>1. j + 1 \in 1..Len(s) /\ t[j] = s[j + 1] /\ i + 1 < j + 1
      BY <1>4, <1>1, <2>2 DEF t
    <3> QED  BY <2>1, <2>2, <3>1 DEF Ordered
  <2> QED  BY <2>1, <2>2 DEF Ordered
<1> QED  BY <1>1, <1>2, <1>3, <1>5, <1>6 DEF t

-----------------------------------------------------------------------------
(* Facts about permits.                                                    *)

LEMMA KindIs ==
    /\ PermitKind \in PermitKinds
    /\ Resolving => PermitKind = "secret-resolution"
    /\ Head(todo) = "dispatch" => PermitKind = "prepared-runtime-dispatch"
    /\ Head(todo) = "acquisition" => PermitKind = "ordinary-verification-acquisition"
    /\ Head(todo) \in Checks /\ ~Resolving => PermitKind = "ordinary-verification-check"
    /\ PermitKind = "prepared-runtime-dispatch" => Head(todo) = "dispatch"
<1> DEFINE h == Head(todo)
<1>1. ~(h = "dispatch" /\ Resolving) /\ ~(h = "acquisition" /\ Resolving)
  BY DEF Resolving, Grants, ProductGrants
<1> QED  BY <1>1 DEF PermitKind, PermitKinds, Checks

(* The permit a section asks for.                                          *)
Asked == [kind |-> PermitKind, outcome |-> "open"]

LEMMA AskedPermit == Asked \in Permit /\ Asked.kind = PermitKind
BY KindIs DEF Asked, Permit

Of(ps, k) == {i \in 1..Len(ps) : ps[i].kind = k}

(* One more permit is one more of its kind.                                *)
LEMMA CountAppend ==
    ASSUME NEW ps \in Seq(Permit), NEW p \in Permit, NEW k
    PROVE  /\ Cardinality(Of(ps, k)) \in Nat
           /\ Cardinality(Of(Append(ps, p), k)) =
                 Cardinality(Of(ps, k)) + (IF p.kind = k THEN 1 ELSE 0)
<1>1. Len(ps) \in Nat /\ IsFiniteSet(1..Len(ps)) /\ Of(ps, k) \subseteq 1..Len(ps)
  BY FS_Interval DEF Of
<1>2. IsFiniteSet(Of(ps, k)) /\ Cardinality(Of(ps, k)) \in Nat
  BY <1>1, FS_Subset, FS_CardinalityType
<1>3. /\ Len(Append(ps, p)) = Len(ps) + 1 /\ Append(ps, p)[Len(ps) + 1] = p
      /\ \A i \in 1..Len(ps) : Append(ps, p)[i] = ps[i]
  OBVIOUS
<1>4. Of(Append(ps, p), k) = Of(ps, k) \cup (IF p.kind = k THEN {Len(ps) + 1} ELSE {})
  BY <1>1, <1>3 DEF Of
<1>5. Len(ps) + 1 \notin Of(ps, k)
  BY <1>1
<1> DEFINE S == Of(ps, k)
           n == Len(ps) + 1
<1> HIDE DEF S, n
<1>6. Cardinality(S \cup {n}) = Cardinality(S) + 1
  BY <1>2, <1>5, FS_AddElement DEF S, n
<1>7. CASE p.kind = k
  BY <1>2, <1>4, <1>6, <1>7 DEF S, n
<1>8. CASE p.kind # k
  BY <1>2, <1>4, <1>8
<1> QED  BY <1>2, <1>7, <1>8

(* An acknowledgement changes the last permit's outcome and no kind.       *)
LEMMA Acknowledged ==
    ASSUME permits \in Seq(Permit), permits # <<>>,
           NEW o \in {"returned", "unknown"}, Acknowledge(o)
    PROVE  /\ permits' \in Seq(Permit) /\ Len(permits') = Len(permits)
           /\ \A i \in 1..Len(permits) : i < Len(permits) => permits'[i] = permits[i]
           /\ permits'[Len(permits)].outcome = o
           /\ \A k : Of(permits', k) = Of(permits, k)
<1>1. Len(permits) \in 1..Len(permits) /\ permits[Len(permits)] \in Permit
  OBVIOUS
<1>2. [permits[Len(permits)] EXCEPT !.outcome = o] \in Permit
        /\ [permits[Len(permits)] EXCEPT !.outcome = o].kind = permits[Len(permits)].kind
        /\ [permits[Len(permits)] EXCEPT !.outcome = o].outcome = o
  BY <1>1 DEF Permit
<1>3. permits' = [permits EXCEPT ![Len(permits)] = [permits[Len(permits)] EXCEPT !.outcome = o]]
  BY DEF Acknowledge
<1>4. /\ permits' \in Seq(Permit) /\ Len(permits') = Len(permits)
      /\ \A i \in 1..Len(permits) :
            permits'[i] = IF i = Len(permits) THEN [permits[Len(permits)] EXCEPT !.outcome = o]
                                              ELSE permits[i]
  BY <1>1, <1>2, <1>3, ExceptSeq
<1>5. \A i \in 1..Len(permits) : permits'[i].kind = permits[i].kind
  BY <1>1, <1>2, <1>4
<1>6. \A k : Of(permits', k) = Of(permits, k)
  BY <1>4, <1>5 DEF Of
<1>7. permits'[Len(permits)].outcome = o
  BY <1>1, <1>2, <1>4
<1>8. \A i \in 1..Len(permits) : i < Len(permits) => permits'[i] = permits[i]
  BY <1>4
<1> QED  BY <1>4, <1>6, <1>7, <1>8

-----------------------------------------------------------------------------
(* How a step goes on.                                                     *)

Ends(kind) == pc' = "done" /\ end' = kind /\ pending' = pending /\ ~(Ordinary /\ client = "open")
Releases(kind) == pc' = "close" /\ pending' = kind /\ end' = end /\ Ordinary /\ client = "open"

LEMMA StopCases ==
    ASSUME NEW kind, Stop(kind)
    PROVE  Ends(kind) \/ Releases(kind)
BY DEF Stop, Finish, Ends, Releases

LEMMA StepRequest ==
    ASSUME Step
    PROVE  req' = req /\ (Ordinary' <=> Ordinary) /\ Binding(req)' = Binding(req)
<1>1. req' = req
  BY DEF Step, SecretRefused, CheckRefused, admit, resolve, AcquireAmbient, AcquireUnix, AcquireTls,
         ConnectTls, RunEffect, InspectEndpoints, RunCheck, CloseBound, CloseOrdinary, finish, del
<1> QED  BY <1>1 DEF Ordinary

(* After an acknowledgement the section goes on, or the call is decided.   *)
GoesOn ==
    /\ pending = "none" /\ pc' = "admit" /\ pending' = pending /\ end' = end
    /\ \/ todo' = todo /\ Head(todo) = "postgres"
       \/ todo' = Tail(todo) /\ Len(todo) # 1
    /\ credential' \in BOOLEAN

Decides(kind) ==
    /\ Ends(kind) \/ Releases(kind)
    /\ \/ pending = "none" /\ kind = "succeeded" /\ todo' = Tail(todo) /\ credential' = FALSE
       \/ /\ todo' = todo /\ credential' = credential
          /\ \/ pending \notin {"none", "error"} /\ kind = pending
             \/ pending = "error" /\ kind \in {"failed", "uncertain"}
                    /\ (~Resolving => kind = "uncertain")
             \/ portFailed' = TRUE /\ kind = IF pending = "cancelled" THEN "cancelled" ELSE "control"

LEMMA ContinueCases ==
    ASSUME Continue
    PROVE  GoesOn \/ \E kind : Decides(kind)
<1>1. CASE pending = "none" /\ Head(todo) = "postgres" /\ ~credential
  BY <1>1 DEF Continue, GoesOn
<1>2. CASE pending = "none" /\ ~(Head(todo) = "postgres" /\ ~credential)
  <2>1. CASE Len(todo) = 1
    <3>1. Stop("succeeded") /\ todo' = Tail(todo) /\ credential' = FALSE
      BY <1>2, <2>1 DEF Continue
    <3> QED  BY <1>2, <3>1, StopCases DEF Decides
  <2>2. CASE Len(todo) # 1
    BY <1>2, <2>2 DEF Continue, GoesOn
  <2> QED  BY <2>1, <2>2
<1>3. CASE pending = "error"
  <2>1. PICK kind \in IF Resolving THEN {"failed", "uncertain"} ELSE {"uncertain"} : Stop(kind)
    BY <1>3 DEF Continue
  <2>2. todo' = todo /\ credential' = credential
    BY <1>3 DEF Continue
  <2> QED  BY <1>3, <2>1, <2>2, StopCases DEF Decides
<1>4. CASE pending \notin {"none", "error"}
  <2>1. Stop(pending) /\ todo' = todo /\ credential' = credential
    BY <1>4 DEF Continue
  <2> QED  BY <1>4, <2>1, StopCases DEF Decides
<1> QED  BY <1>1, <1>2, <1>3, <1>4

Unrecorded == (~Invoked(req) \/ pending = "control") /\ permits' = permits /\ portFailed' = portFailed
Recorded ==
    /\ Invoked(req) /\ pending # "control" /\ portFailed' = portFailed
    /\ Acknowledge(IF pending \in {"error", "cancelled"} THEN "unknown" ELSE "returned")
PortFails == Invoked(req) /\ permits' = permits /\ portFailed' = TRUE

LEMMA FinishCases ==
    ASSUME finish
    PROVE  /\ pc = "record"
           /\ UNCHANGED <<req, prepared, evidence, client, directory, io>>
           /\ \/ (Unrecorded \/ Recorded) /\ GoesOn
              \/ \E kind : Unrecorded /\ Decides(kind)
              \/ \E kind : Recorded /\ Decides(kind)
              \/ \E kind : PortFails /\ kind \in Raised /\ Decides(kind)
<1>1. CASE (~Invoked(req) \/ pending = "control") /\ Continue /\ UNCHANGED <<permits, portFailed>>
  <2>1. Unrecorded
    BY <1>1 DEF Unrecorded
  <2> QED  BY <1>1, <2>1, ContinueCases DEF finish
<1>2. CASE /\ Invoked(req) /\ pending # "control"
           /\ Acknowledge(IF pending \in {"error", "cancelled"} THEN "unknown" ELSE "returned")
           /\ Continue /\ UNCHANGED portFailed
  <2>1. Recorded
    BY <1>2 DEF Recorded
  <2> QED  BY <1>2, <2>1, ContinueCases DEF finish
<1>3. CASE /\ Invoked(req) /\ pending # "control" /\ portFailed' = TRUE
           /\ Stop(IF pending = "cancelled" THEN "cancelled" ELSE "control")
           /\ UNCHANGED <<permits, todo, credential>>
  <2> DEFINE kind == IF pending = "cancelled" THEN "cancelled" ELSE "control"
  <2>1. PortFails /\ kind \in Raised
    BY <1>3 DEF PortFails, Raised
  <2>2. Ends(kind) \/ Releases(kind)
    BY <1>3, StopCases
  <2>3. Decides(kind)
    BY <1>3, <2>2 DEF Decides
  <2> QED  BY <2>1, <2>3 DEF finish
<1> QED  BY <1>1, <1>2, <1>3 DEF finish

(* The kinds a call is decided with.                                       *)
LEMMA DecidedKind ==
    ASSUME TypeOK, NEW kind, Decides(kind)
    PROVE  kind \in Results \cup Raised
BY DEF TypeOK, Decides, Results, Raised

-----------------------------------------------------------------------------
LEMMA TypeNext ==
    ASSUME TypeOK, InPlan, Ledger, [Next]_vars
    PROVE  TypeOK'
<1> DEFINE Kinds == Results \cup Raised
<1>k. {"failed", "unsupported", "control", "succeeded", "uncertain", "cancelled", "cleanup_rows"} \subseteq Kinds
  BY DEF Results, Raised
<1>c. ASSUME NEW k \in PermitKinds, Counted(k)
      PROVE  io' \in [PermitKinds -> Nat]
  BY <1>c DEF TypeOK, Counted
<1>s. ASSUME NEW kind \in Kinds, Stop(kind)
      PROVE  /\ pc' \in {"close", "done"} /\ pending' \in Kinds \cup {"none", "error"}
             /\ end' \in Kinds \cup {"none"}
  BY <1>s, StopCases DEF TypeOK, Ends, Releases
<1>1. CASE execute
  <2>1. PICK r \in Requests :
          /\ req' = r
          /\ IF r.port = "unusable" THEN Finish("control") /\ UNCHANGED todo
             ELSE IF Refusal(r) # "none" THEN Finish(Refusal(r)) /\ UNCHANGED todo
             ELSE pc' = "admit" /\ todo' = Plan(r) /\ UNCHANGED <<pending, end>>
    BY <1>1 DEF execute
  <2>2. Plan(r) \in Seq(Sections)
    BY PlanOrdered
  <2>3. Refusal(r) # "none" => Refusal(r) \in Kinds
    BY RefusalKinds, <1>k
  <2> HIDE DEF Kinds
  <2>4. end' \in Kinds \cup {"none"} /\ pending' = pending /\ pc' \in {"admit", "done"}
         /\ todo' \in Seq(Sections)
    BY <2>1, <2>2, <2>3, <1>k DEF Finish, TypeOK, Kinds
  <2> QED  BY <1>1, <2>1, <2>4 DEF execute, TypeOK, Kinds
<1>2. CASE SecretRefused
  BY <1>2, <1>k, <1>s DEF SecretRefused, TypeOK
<1>3. CASE CheckRefused
  BY <1>3, <1>k, <1>s DEF CheckRefused, TypeOK
<1>4. CASE admit
  <2>1. permits' = permits \/ permits' = Append(permits, Asked)
    BY <1>4 DEF admit, Asked
  <2>2. permits' \in Seq(Permit)
    <3>1. permits \in Seq(Permit) /\ Asked \in Permit
      BY AskedPermit DEF TypeOK
    <3>2. Append(permits, Asked) \in Seq(Permit)
      BY <3>1, AppendProperties
    <3> QED  BY <2>1, <3>1, <3>2
  <2>3. pc' \in {"call", "close", "done"} /\ pending' \in Kinds \cup {"none", "error"}
        /\ end' \in Kinds \cup {"none"} /\ portFailed' \in BOOLEAN
    BY <1>4, <1>k, <1>s DEF admit, TypeOK
  <2> QED  BY <1>4, <2>2, <2>3 DEF admit, TypeOK
<1>5. CASE resolve
  <2>1. io' \in [PermitKinds -> Nat]
    BY <1>5, <1>c DEF resolve, PermitKinds
  <2> QED  BY <1>5, <1>k, <2>1 DEF resolve, Answer, TypeOK
<1>6. CASE AcquireAmbient
  BY <1>6 DEF AcquireAmbient, TypeOK
<1>7. CASE AcquireUnix
  <2>1. io' \in [PermitKinds -> Nat]
    BY <1>7, <1>c, KindIs DEF AcquireUnix
  <2> QED  BY <1>7, <1>k, <2>1 DEF AcquireUnix, AcquisitionRaises, Answer, TypeOK
<1>8. CASE AcquireTls
  <2>1. io' \in [PermitKinds -> Nat]
    BY <1>8, <1>c, KindIs DEF AcquireTls
  <2> QED  BY <1>8, <1>k, <2>1 DEF AcquireTls, AcquisitionRaises, Answer, TypeOK
<1>17. CASE ConnectTls
  BY <1>17, <1>k DEF ConnectTls, AcquisitionRaises, Answer, TypeOK
<1>9. CASE RunEffect
  <2>1. io' \in [PermitKinds -> Nat]
    BY <1>9, <1>c DEF RunEffect, PermitKinds
  <2>2. pending' \in Kinds
    BY <1>9, <1>k DEF RunEffect
  <2> QED  BY <1>9, <2>1, <2>2 DEF RunEffect, TypeOK
<1>10. CASE InspectEndpoints
  BY <1>10, <1>k DEF InspectEndpoints, Answer, TypeOK
<1>11. CASE RunCheck
  <2>1. io' \in [PermitKinds -> Nat]
    BY <1>11, <1>c DEF RunCheck, PermitKinds
  <2> QED  BY <1>11, <1>k, <2>1 DEF RunCheck, Answer, TypeOK
<1>12. CASE CloseBound
  <2>1. client' \in {"none", "open", "closed", "unclosed"}
        /\ directory' \in {"none", "present", "removed", "stuck"}
    BY <1>12 DEF CloseBound, Release, TypeOK
  <2>2. pending' \in Kinds \cup {"none", "error"}
    BY <1>12, <1>k DEF CloseBound, BoundResult, TypeOK
  <2> QED  BY <1>12, <2>1, <2>2 DEF CloseBound, TypeOK
<1>13. CASE CloseOrdinary
  <2>1. client' \in {"none", "open", "closed", "unclosed"}
        /\ directory' \in {"none", "present", "removed", "stuck"}
    BY <1>13 DEF CloseOrdinary, Release, TypeOK
  <2>2. pending \in Kinds
    BY <1>13 DEF InPlan, CloseOrdinary
  <2>3. end' \in Kinds
    BY <1>13, <2>2, <1>k DEF CloseOrdinary, Finish
  <2> QED  BY <1>13, <2>1, <2>2, <2>3 DEF CloseOrdinary, Finish, TypeOK
<1>14. CASE finish
  <2>1. permits' \in Seq(Permit)
    <3>1. Recorded => permits # <<>> /\ permits \in Seq(Permit)
      BY <1>14 DEF finish, TypeOK, Ledger, Recorded
    <3>2. Recorded => permits' \in Seq(Permit)
      BY <3>1, Acknowledged DEF Recorded
    <3> QED  BY <1>14, <3>2, FinishCases DEF Unrecorded, PortFails, TypeOK
  <2>2. portFailed' \in BOOLEAN
    BY <1>14, FinishCases DEF Unrecorded, Recorded, PortFails, TypeOK
  <2>3. todo \in Seq(Sections) /\ todo # <<>> /\ Tail(todo) \in Seq(Sections)
    BY <1>14, OrderedTail DEF finish, TypeOK, InPlan
  <2>4. UNCHANGED <<req, client, directory, io>> /\ req \in Requests
    BY <1>14, FinishCases DEF finish, TypeOK
  <2>5. CASE GoesOn
    BY <2>1, <2>2, <2>3, <2>4, <2>5 DEF GoesOn, TypeOK
  <2>6. ASSUME NEW kind, Decides(kind)
        PROVE  TypeOK'
    <3>1. kind \in Kinds
      BY <2>6, DecidedKind
    <3>2. todo' \in Seq(Sections) /\ credential' \in BOOLEAN
      BY <2>6, <2>3 DEF Decides, TypeOK
    <3> HIDE DEF Kinds
    <3>3. /\ pc' \in {"close", "done"} /\ pending' \in Kinds \cup {"none", "error"}
          /\ end' \in Kinds \cup {"none"}
      BY <2>6, <3>1 DEF Decides, Ends, Releases, TypeOK, Kinds
    <3> QED  BY <2>1, <2>2, <2>4, <3>2, <3>3 DEF TypeOK, Kinds
  <2> QED  BY <1>14, <2>5, <2>6, FinishCases
<1>15. CASE del
  BY <1>15 DEF del, TypeOK
<1>16. CASE UNCHANGED vars
  BY <1>16 DEF vars, TypeOK
<1> QED
  BY <1>1, <1>2, <1>3, <1>4, <1>5, <1>6, <1>7, <1>8, <1>9, <1>10, <1>11, <1>12, <1>13, <1>14, <1>15,
     <1>16, <1>17 DEF Next, Step

(* The call stays in its plan.                                             *)
LEMMA InPlanNext ==
    ASSUME TypeOK, InPlan, [Next]_vars
    PROVE  InPlan'
<1> DEFINE Kinds == Results \cup Raised
<1>k. {"failed", "unsupported", "control", "succeeded", "uncertain", "cancelled", "cleanup_rows"} \subseteq Kinds
  BY DEF Results, Raised
<1>u. ASSUME UNCHANGED <<req, todo>>, pc' # "admit", pc' # "idle"
      PROVE  Ordered(req, todo)' /\ (Ordinary' <=> Ordinary)
  BY <1>u DEF InPlan, Ordered, Ordinary
<1>s. ASSUME NEW kind \in Kinds, Stop(kind), UNCHANGED <<req, todo>>, pc # "done"
      PROVE  InPlan'
  <2>1. Ordered(req, todo)' /\ (Ordinary' <=> Ordinary)
    BY <1>s, <1>u, StopCases DEF Ends, Releases
  <2>2. end = "none"
    BY <1>s DEF InPlan
  <2> QED  BY <1>s, <2>1, <2>2, StopCases DEF Ends, Releases, InPlan
<1>1. CASE execute
  <2>1. PICK r \in Requests :
          /\ req' = r
          /\ IF r.port = "unusable" THEN Finish("control") /\ UNCHANGED todo
             ELSE IF Refusal(r) # "none" THEN Finish(Refusal(r)) /\ UNCHANGED todo
             ELSE pc' = "admit" /\ todo' = Plan(r) /\ UNCHANGED <<pending, end>>
    BY <1>1 DEF execute
  <2>2. Plan(r) # <<>> /\ Ordered(r, Plan(r))
    BY PlanOrdered
  <2>3. CASE pc' = "admit"
    <3>1. todo' = Plan(r) /\ end' = end /\ req' = r
      BY <2>1, <2>3 DEF Finish
    <3> QED  BY <1>1, <2>2, <2>3, <3>1 DEF InPlan, execute
  <2>4. CASE pc' # "admit"
    <3>1. pc' = "done" /\ todo' = todo
      BY <2>1, <2>4 DEF Finish
    <3>2. Ordered(req, todo)'
      <4>1. todo = <<>>
        BY <1>1 DEF execute, InPlan
      <4> QED  BY <3>1, <4>1 DEF Ordered
    <3> QED  BY <3>1, <3>2 DEF InPlan
  <2> QED  BY <2>3, <2>4
<1>2. CASE SecretRefused
  BY <1>2, <1>k, <1>s DEF SecretRefused
<1>3. CASE CheckRefused
  BY <1>3, <1>k, <1>s DEF CheckRefused
<1>4. CASE admit
  BY <1>4, <1>k, <1>s, <1>u DEF admit, InPlan
<1>5. CASE resolve
  BY <1>5, <1>u DEF resolve, Answer, InPlan
<1>6. CASE AcquireAmbient
  BY <1>6, <1>u DEF AcquireAmbient, InPlan
<1>7. CASE AcquireUnix
  BY <1>7, <1>u DEF AcquireUnix, AcquisitionRaises, Answer, InPlan
<1>8. CASE AcquireTls
  BY <1>8, <1>u DEF AcquireTls, AcquisitionRaises, Answer, InPlan
<1>17. CASE ConnectTls
  BY <1>17, <1>u DEF ConnectTls, AcquisitionRaises, Answer, InPlan
<1>9. CASE RunEffect
  <2>1. pending' \in Kinds
    BY <1>9, <1>k DEF RunEffect
  <2> QED  BY <1>9, <1>u, <2>1 DEF RunEffect, InPlan
<1>10. CASE InspectEndpoints
  BY <1>10, <1>u DEF InspectEndpoints, Answer, InPlan
<1>11. CASE RunCheck
  BY <1>11, <1>u DEF RunCheck, Answer, InPlan
<1>12. CASE CloseBound
  BY <1>12, <1>u DEF CloseBound, InPlan
<1>13. CASE CloseOrdinary
  BY <1>13, <1>u DEF CloseOrdinary, Finish, InPlan
<1>14. CASE finish
  <2>1. pc = "record" /\ req' = req /\ end = "none"
    BY <1>14, FinishCases DEF InPlan
  <2>2. /\ todo \in Seq(Sections) /\ todo # <<>> /\ Ordered(req, Tail(todo))
        /\ (Len(todo) # 1 => Tail(todo) # <<>>)
    BY <2>1, OrderedTail DEF TypeOK, InPlan
  <2>3. todo' \in {todo, Tail(todo)} => Ordered(req, todo)' /\ (Ordinary' <=> Ordinary)
    BY <2>1, <2>2 DEF InPlan, Ordered, Ordinary
  <2>4. CASE GoesOn
    BY <2>1, <2>2, <2>3, <2>4 DEF GoesOn, InPlan
  <2>5. ASSUME NEW kind, Decides(kind)
        PROVE  InPlan'
    <3>1. kind \in Kinds /\ todo' \in {todo, Tail(todo)}
      BY <2>5, DecidedKind DEF Decides
    <3> QED  BY <2>1, <2>3, <2>5, <3>1 DEF Decides, Ends, Releases, InPlan
  <2> QED  BY <1>14, <2>4, <2>5, FinishCases
<1>15. CASE del
  BY <1>15, <1>u DEF del, InPlan
<1>16. CASE UNCHANGED vars
  BY <1>16 DEF vars, InPlan, Ordered, Ordinary
<1> QED
  BY <1>1, <1>2, <1>3, <1>4, <1>5, <1>6, <1>7, <1>8, <1>9, <1>10, <1>11, <1>12, <1>13, <1>14, <1>15,
     <1>16, <1>17 DEF Next, Step

(* Only an effect leaves evidence.                                         *)
LEMMA EvidenceNext ==
    ASSUME TypeOK, InPlan, EvidenceOfEffect, [Next]_vars
    PROVE  EvidenceOfEffect'
<1> USE DEF EvidenceOfEffect
<1>s. ASSUME NEW kind, Stop(kind), UNCHANGED <<req, evidence>>, pc = "admit"
      PROVE  EvidenceOfEffect'
  BY <1>s
<1>1. CASE execute
  BY <1>1 DEF execute
<1>2. CASE SecretRefused
  BY <1>2, <1>s DEF SecretRefused
<1>3. CASE CheckRefused
  BY <1>3, <1>s DEF CheckRefused
<1>4. CASE admit
  BY <1>4 DEF admit
<1>5. CASE resolve
  BY <1>5 DEF resolve
<1>6. CASE AcquireAmbient
  BY <1>6 DEF AcquireAmbient
<1>7. CASE AcquireUnix
  BY <1>7 DEF AcquireUnix
<1>8. CASE AcquireTls
  BY <1>8 DEF AcquireTls
<1>17. CASE ConnectTls
  BY <1>17 DEF ConnectTls
<1>9. CASE RunEffect
  <2>1. ~Ordinary
    <3>1. 1 \in 1..Len(todo) /\ todo[1] = "dispatch"
      BY <1>9, OrderedTail DEF RunEffect, TypeOK, InPlan
    <3> QED  BY <3>1 DEF InPlan, Ordered, Ordinary
  <2>2. pending' # "none"
    BY <1>9 DEF RunEffect, Results
  <2>3. ~Ordinary'
    BY <1>9, <2>1, StepRequest DEF Step
  <2> QED  BY <1>9, <2>2, <2>3 DEF RunEffect
<1>10. CASE InspectEndpoints
  BY <1>10 DEF InspectEndpoints
<1>11. CASE RunCheck
  BY <1>11 DEF RunCheck
<1>12. CASE CloseBound
  <2>1. pending' # "none"
    <3>1. pending # "none"
      BY <1>12 DEF CloseBound, InPlan, Results, Raised
    <3> QED  BY <1>12, <3>1 DEF CloseBound, BoundResult
  <2>2. ~Ordinary'
    BY <1>12, StepRequest DEF Step, CloseBound
  <2> QED  BY <1>12, <2>1, <2>2 DEF CloseBound
<1>13. CASE CloseOrdinary
  BY <1>13 DEF CloseOrdinary
<1>14. CASE finish
  <2>1. evidence' = evidence /\ (Ordinary' <=> Ordinary)
    BY <1>14, FinishCases, StepRequest DEF Step
  <2>2. CASE GoesOn
    BY <2>1, <2>2 DEF GoesOn
  <2>3. ASSUME NEW kind, Decides(kind)
        PROVE  EvidenceOfEffect'
    BY <2>1, <2>3 DEF Decides, Ends, Releases
  <2> QED  BY <1>14, <2>2, <2>3, FinishCases
<1>15. CASE del
  BY <1>15, StepRequest DEF Step, del
<1>16. CASE UNCHANGED vars
  BY <1>16 DEF vars, Ordinary
<1> QED
  BY <1>1, <1>2, <1>3, <1>4, <1>5, <1>6, <1>7, <1>8, <1>9, <1>10, <1>11, <1>12, <1>13, <1>14, <1>15,
     <1>16, <1>17 DEF Next, Step

(* The client and the TLS material are accounted for at every step.        *)
LEMMA CustodyNext ==
    ASSUME TypeOK, InPlan, EvidenceOfEffect, Custody, [Next]_vars
    PROVE  Custody'
<1>h. ASSUME todo # <<>>
      PROVE  /\ todo \in Seq(Sections) /\ 1 \in 1..Len(todo) /\ Head(todo) = todo[1]
             /\ Head(todo) = "dispatch" => ~Ordinary /\ Head(todo) \notin Checks
             /\ Head(todo) = "acquisition" => Ordinary /\ Head(todo) \notin Checks
  <2>1. todo \in Seq(Sections) /\ 1 \in 1..Len(todo) /\ Head(todo) = todo[1]
    BY <1>h DEF TypeOK
  <2> QED  BY <2>1 DEF InPlan, Ordered, Ordinary, Checks
<1>o. ASSUME OnlyChecks, UNCHANGED todo  PROVE OnlyChecks'
  BY <1>o DEF OnlyChecks
<1>s. ASSUME NEW kind, Stop(kind), pc = "admit", UNCHANGED <<req, todo, client, directory>>
      PROVE  Custody'
  <2>1. Ordinary' <=> Ordinary
    BY <1>s DEF Ordinary
  <2> QED  BY <1>s, <2>1, StopCases DEF Ends, Releases, Custody, Nothing, Held
<1>1. CASE execute
  <2>1. Nothing /\ pc' \in {"admit", "done"} /\ UNCHANGED <<client, directory>>
    BY <1>1 DEF execute, Finish, Custody
  <2> QED  BY <2>1 DEF Nothing, Custody
<1>2. CASE SecretRefused
  BY <1>2, <1>s DEF SecretRefused
<1>3. CASE CheckRefused
  BY <1>3, <1>s DEF CheckRefused
<1>4. CASE admit
  <2>1. Ordinary' <=> Ordinary
    BY <1>4, StepRequest DEF Step
  <2>2. CASE pc' = "call"
    BY <1>4, <1>o, <2>1, <2>2 DEF admit, Custody, Nothing, Held
  <2>3. CASE Stop("control")
    BY <1>4, <1>s, <2>3 DEF admit
  <2> QED  BY <1>4, <2>2, <2>3 DEF admit
<1>5. CASE resolve
  <2>1. Ordinary' <=> Ordinary
    BY <1>5, StepRequest DEF Step
  <2> QED  BY <1>5, <1>o, <2>1 DEF resolve, Answer, Custody, Nothing, Held
<1>a. ASSUME pc = "call", Head(todo) \in {"dispatch", "acquisition"}
      PROVE  Nothing /\ evidence = {}
  <2>1. todo # <<>>
    BY <1>a DEF InPlan
  <2>2. ~OnlyChecks
    BY <1>a, <1>h, <2>1 DEF OnlyChecks
  <2> QED  BY <1>a, <2>2 DEF Custody, EvidenceOfEffect
<1>6. CASE AcquireAmbient
  BY <1>6, <1>a DEF AcquireAmbient, Custody, Nothing
<1>f. ASSUME pc \in {"call", "connect"}, Head(todo) \in {"dispatch", "acquisition"}, pc' = "record",
             UNCHANGED <<todo, req, evidence>>, client' \in {"none", "closed", "unclosed"},
             \/ pending' = "cancelled" /\ directory' \in {"none", "present"}
             \/ /\ pending' = IF Head(todo) = "dispatch" THEN "uncertain" ELSE "error"
                /\ directory' \in {"none", "removed", "stuck"}
      PROVE  Custody'
  <2>1. evidence' = {} /\ evidence' \cap Receipts = {} /\ Head(todo') = Head(todo)
    BY <1>f DEF EvidenceOfEffect
  <2>2. pending' \in {"cancelled", "uncertain"} \/ (pending' = "error" /\ Head(todo') = "acquisition")
    BY <1>f, <2>1
  <2> QED  BY <1>f, <2>1, <2>2 DEF Custody, OwnsUp, Raised
<1>7. CASE AcquireUnix
  <2>1. CASE pc' = "run"
    BY <1>7, <1>a, <2>1 DEF AcquireUnix, AcquisitionRaises, Answer, Custody, Nothing, Held
  <2>2. CASE pc' # "run"
    BY <1>7, <1>a, <1>f, <2>2 DEF AcquireUnix, AcquisitionRaises, Answer, Nothing
  <2> QED  BY <2>1, <2>2
<1>8. CASE AcquireTls
  <2>1. CASE pc' = "connect"
    BY <1>8, <1>a, <2>1 DEF AcquireTls, AcquisitionRaises, Answer, Custody, Nothing
  <2>2. CASE pc' # "connect"
    BY <1>8, <1>a, <1>f, <2>2 DEF AcquireTls, AcquisitionRaises, Answer, Nothing
  <2> QED  BY <2>1, <2>2
<1>17. CASE ConnectTls
  <2>1. CASE pc' = "run"
    BY <1>17, <2>1 DEF ConnectTls, AcquisitionRaises, Answer, Custody, Held
  <2>2. CASE pc' # "run"
    BY <1>17, <1>f, <2>2 DEF ConnectTls, AcquisitionRaises, Answer, InPlan, Custody
  <2> QED  BY <2>1, <2>2
<1>9. CASE RunEffect
  <2>1. ~Ordinary'
    BY <1>9, <1>h, StepRequest DEF Step, RunEffect, InPlan
  <2> QED  BY <1>9, <2>1 DEF RunEffect, Custody, Nothing, Held
<1>10. CASE InspectEndpoints
  <2>1. Ordinary'
    BY <1>10, <1>h, StepRequest DEF Step, InspectEndpoints, InPlan
  <2> QED  BY <1>10, <2>1 DEF InspectEndpoints, Answer, Custody, Nothing, Held
<1>11. CASE RunCheck
  <2>1. Ordinary' <=> Ordinary
    BY <1>11, StepRequest DEF Step
  <2> QED  BY <1>11, <1>o, <2>1 DEF RunCheck, Answer, Custody, Nothing, Held
<1>12. CASE CloseBound
  <2>1. ~Ordinary' /\ pending \notin {"none", "error"}
    BY <1>12, StepRequest DEF Step, CloseBound, InPlan, Results, Raised
  <2>2. CASE ~close_after_execution(req)
    BY <1>12, <2>1, <2>2 DEF CloseBound, close_after_execution, Custody, Nothing, Held
  <2>3. CASE close_after_execution(req)
    <3>1. PICK how \in {"none", "error", "cancelled"} : Release(how) /\ BoundResult(how)
      BY <1>12, <2>3 DEF CloseBound
    <3>2. directory \in {"none", "present"}
      BY <1>12 DEF CloseBound, Custody, Nothing, Held
    <3>3. CASE how = "none"
      BY <1>12, <2>1, <3>1, <3>2, <3>3 DEF CloseBound, Release, BoundResult, Custody
    <3>4. CASE how = "cancelled"
      <4>1. pending' = "cancelled" /\ client' = "unclosed" /\ directory' = directory
        BY <3>1, <3>4 DEF Release, BoundResult
      <4> QED  BY <1>12, <4>1 DEF CloseBound, Custody, OwnsUp, Raised
    <3>5. CASE how = "error"
      <4>1. client' \in {"closed", "unclosed"} /\ directory' # "present"
        BY <3>1, <3>2, <3>5 DEF Release
      <4>2. \/ pending' \in Raised
            \/ pending' = "uncertain" /\ evidence' \cap Receipts = {}
        BY <3>1, <3>5 DEF BoundResult, Receipts
      <4>3. pending' # "none"
        BY <4>2 DEF Raised
      <4> QED  BY <1>12, <4>1, <4>2, <4>3 DEF CloseBound, Custody, OwnsUp
    <3> QED  BY <3>3, <3>4, <3>5
  <2> QED  BY <2>2, <2>3
<1>13. CASE CloseOrdinary
  <2>1. PICK how \in {"none", "error", "cancelled"} :
          /\ Release(how)
          /\ Finish(IF pending \in Raised \cup {"uncertain"} \/ how = "none" THEN pending
                    ELSE IF how = "cancelled" THEN how ELSE "uncertain")
    BY <1>13 DEF CloseOrdinary
  <2>2. directory \in {"none", "present"} /\ evidence' = {} /\ evidence' \cap Receipts = {}
    BY <1>13 DEF CloseOrdinary, Custody, Nothing, Held, EvidenceOfEffect
  <2>3. client' \in {"closed", "unclosed"}
    BY <2>1 DEF Release
  <2>4. directory' = "present" => client' = "unclosed"
    BY <2>1, <2>2 DEF Release
  <2>5. client' = "unclosed" \/ directory' = "stuck" => end' \in Raised \cup {"uncertain"}
    BY <2>1, <2>2 DEF Release, Finish, Raised
  <2>6. pc' = "done"
    BY <2>1 DEF Finish
  <2> QED  BY <2>2, <2>3, <2>4, <2>5, <2>6 DEF Custody, OwnsUp
<1>14. CASE finish
  <2>1. /\ pc = "record" /\ UNCHANGED <<req, evidence, client, directory>> /\ (Ordinary' <=> Ordinary)
    BY <1>14, FinishCases, StepRequest DEF Step
  <2>2. /\ todo # <<>>
        /\ Head(todo) \in Checks \cup {"acquisition"} =>
              \A i \in 1..Len(Tail(todo)) : Tail(todo)[i] \in Checks
    BY <2>1, OrderedTail DEF TypeOK, InPlan
  <2>3. OnlyChecks => Head(todo) \in Checks
    BY <2>2, <1>h DEF OnlyChecks
  <2>4. CASE GoesOn
    <3>1. Nothing \/ (Held /\ Ordinary /\ (Head(todo) = "acquisition" \/ OnlyChecks))
      BY <2>1, <2>4 DEF GoesOn, Custody, Held
    <3>2. CASE Nothing
      BY <2>1, <2>4, <3>2 DEF GoesOn, Custody, Nothing
    <3>3. CASE Held /\ Ordinary /\ (Head(todo) = "acquisition" \/ OnlyChecks)
      <4>1. OnlyChecks'
        <5>1. CASE todo' = Tail(todo)
          BY <2>2, <2>3, <3>3, <5>1 DEF OnlyChecks
        <5>2. CASE todo' = todo /\ Head(todo) = "postgres"
          BY <3>3, <5>2, <1>o
        <5> QED  BY <2>4, <5>1, <5>2 DEF GoesOn
      <4> QED  BY <2>1, <2>4, <3>3, <4>1 DEF GoesOn, Custody, Held
    <3> QED  BY <3>1, <3>2, <3>3
  <2>5. ASSUME NEW kind, Decides(kind)
        PROVE  Custody'
    <3>1. CASE Releases(kind)
      BY <2>1, <3>1 DEF Releases, Custody, Held
    <3>2. CASE Ends(kind)
      <4>1. client # "open"
        BY <2>1, <3>2 DEF Ends, Custody
      <4>2. directory = "present" => client = "unclosed" \/ kind = "cancelled"
        BY <2>1, <2>5, <4>1 DEF Custody, Decides
      <4>3. ASSUME client = "unclosed" \/ directory = "stuck"
            PROVE  OwnsUp(kind)
        <5>1. pending # "none"
          BY <2>1, <4>3 DEF Custody, Nothing, Held
        <5>2. \/ OwnsUp(pending)
              \/ pending = "error" /\ Head(todo) = "acquisition" /\ evidence = {}
          BY <2>1, <4>3 DEF Custody
        <5>3. Head(todo) = "acquisition" => ~Resolving
          BY DEF Resolving, Grants, ProductGrants
        <5>4. CASE kind = pending /\ pending \notin {"none", "error"}
          BY <5>2, <5>4
        <5>5. CASE pending = "error" /\ (~Resolving => kind = "uncertain")
          BY <5>2, <5>3, <5>5 DEF OwnsUp, Raised
        <5>6. CASE kind = IF pending = "cancelled" THEN "cancelled" ELSE "control"
          BY <5>6 DEF OwnsUp, Raised
        <5> QED  BY <2>5, <5>1, <5>4, <5>5, <5>6 DEF Decides
      <4>4. pc' = "done" /\ end' = kind
        BY <3>2 DEF Ends
      <4> QED  BY <2>1, <4>1, <4>2, <4>3, <4>4 DEF Custody, OwnsUp
    <3> QED  BY <2>5, <3>1, <3>2 DEF Decides
  <2> QED  BY <1>14, <2>4, <2>5, FinishCases
<1>15. CASE del
  BY <1>15 DEF del, Custody, OwnsUp, Raised
<1>16. CASE UNCHANGED vars
  <2>1. (Ordinary' <=> Ordinary) /\ (OnlyChecks' <=> OnlyChecks) /\ (Nothing' <=> Nothing) /\ (Held' <=> Held)
    BY <1>16 DEF vars, Ordinary, OnlyChecks, Nothing, Held
  <2> QED  BY <1>16, <2>1 DEF vars, Custody, OwnsUp
<1> QED
  BY <1>1, <1>2, <1>3, <1>4, <1>5, <1>6, <1>7, <1>8, <1>9, <1>10, <1>11, <1>12, <1>13, <1>14, <1>15,
     <1>16, <1>17 DEF Next, Step

-----------------------------------------------------------------------------
(* The port's record.                                                      *)
LEMMA LedgerNext ==
    ASSUME TypeOK, InPlan, Ledger, [Next]_vars
    PROVE  Ledger'
<1>p. /\ permits \in Seq(Permit) /\ Len(permits) \in Nat
      /\ \A i \in 1..Len(permits) : permits[i] \in Permit
  BY DEF TypeOK
<1>d. pc # "done" => end = "none"
  BY DEF InPlan
<1>s. ASSUME NEW kind, Stop(kind), kind # "succeeded", pc = "admit", UNCHANGED <<req, permits>>,
             portFailed' => kind \in Raised
      PROVE  Ledger'
  <2>1. Ordinary' <=> Ordinary
    BY <1>s DEF Ordinary
  <2> QED  BY <1>s, <1>d, <2>1, StopCases DEF Ends, Releases, Ledger, AllReturned
<1>q. ASSUME UNCHANGED <<req, permits, portFailed, end>>, pc \in {"call", "connect", "run"},
             \/ pc' \in {"connect", "run", "record"}
             \/ pc' = "close" /\ ~Ordinary
      PROVE  Ledger'
  <2>1. Ordinary' <=> Ordinary
    BY <1>q DEF Ordinary
  <2> QED  BY <1>q, <1>d, <2>1 DEF Ledger, AllReturned
<1>1. CASE execute
  <2>1. /\ pc = "idle" /\ permits = <<>> /\ permits' = permits /\ ~portFailed /\ portFailed' = portFailed
        /\ pc' \in {"admit", "done"}
    BY <1>1 DEF execute, Finish, Ledger
  <2>2. Len(permits') = 0
    BY <2>1
  <2> QED  BY <2>1, <2>2 DEF Ledger, AllReturned
<1>2. CASE SecretRefused
  <2>1. ~portFailed'
    BY <1>2 DEF SecretRefused, Ledger
  <2> QED  BY <1>2, <1>s, <2>1 DEF SecretRefused
<1>3. CASE CheckRefused
  <2>1. ~portFailed'
    BY <1>3 DEF CheckRefused, Ledger
  <2> QED  BY <1>3, <1>s, <2>1 DEF CheckRefused
<1>4. CASE admit
  <2>1. CASE Stop("control") /\ permits' = permits /\ Invoked(req)
    BY <1>4, <1>s, <2>1 DEF admit, Raised
  <2>2. CASE /\ pc' = "call" /\ permits' = (IF Invoked(req) THEN Append(permits, Asked) ELSE permits)
             /\ UNCHANGED <<pending, end, portFailed>>
    <3>1. req' = req /\ pc = "admit" /\ ~portFailed' /\ end' = "none"
      BY <1>4, <1>d, <2>2 DEF admit, Ledger
    <3>2. CASE ~Invoked(req)
      BY <2>2, <3>1, <3>2 DEF Ledger, AllReturned
    <3>3. CASE Invoked(req)
      <4>1. permits' = Append(permits, Asked) /\ Asked \in Permit
        BY <2>2, <3>3, AskedPermit
      <4>2. /\ Len(permits') = Len(permits) + 1 /\ permits' # <<>>
            /\ \A i \in 1..Len(permits) : permits'[i] = permits[i]
        BY <1>p, <4>1, AppendProperties
      <4>3. \A i \in 1..Len(permits') : i < Len(permits') => permits'[i].outcome = "returned"
        <5>1. \A i \in 1..Len(permits') : i < Len(permits') => i \in 1..Len(permits)
          BY <1>p, <4>2
        <5> QED  BY <3>1, <4>2, <5>1 DEF Ledger, AllReturned
      <4> QED  BY <2>2, <3>1, <3>3, <4>2, <4>3 DEF Ledger
    <3> QED  BY <3>2, <3>3
  <2> QED  BY <1>4, <2>1, <2>2 DEF admit, Asked
<1>5. CASE resolve
  BY <1>5, <1>q DEF resolve, Answer
<1>6. CASE AcquireAmbient
  BY <1>6, <1>q DEF AcquireAmbient
<1>7. CASE AcquireUnix
  BY <1>7, <1>q DEF AcquireUnix, AcquisitionRaises, Answer
<1>8. CASE AcquireTls
  BY <1>8, <1>q DEF AcquireTls, AcquisitionRaises, Answer
<1>17. CASE ConnectTls
  BY <1>17, <1>q DEF ConnectTls, AcquisitionRaises, Answer
<1>9. CASE RunEffect
  <2>1. ~Ordinary
    <3>1. 1 \in 1..Len(todo) /\ todo[1] = "dispatch"
      BY <1>9, OrderedTail DEF RunEffect, TypeOK, InPlan
    <3> QED  BY <3>1 DEF InPlan, Ordered, Ordinary
  <2> QED  BY <1>9, <1>q, <2>1 DEF RunEffect
<1>10. CASE InspectEndpoints
  BY <1>10, <1>q DEF InspectEndpoints, Answer
<1>11. CASE RunCheck
  BY <1>11, <1>q DEF RunCheck, Answer
<1>12. CASE CloseBound
  <2>1. (Ordinary' <=> Ordinary) /\ req' = req
    BY <1>12, StepRequest DEF Step
  <2> QED  BY <1>12, <1>d, <2>1 DEF CloseBound, Ledger, AllReturned
<1>13. CASE CloseOrdinary
  <2>1. PICK how \in {"none", "error", "cancelled"} :
          Finish(IF pending \in Raised \cup {"uncertain"} \/ how = "none" THEN pending
                 ELSE IF how = "cancelled" THEN how ELSE "uncertain")
    BY <1>13 DEF CloseOrdinary
  <2>2. pc = "close" /\ Ordinary /\ UNCHANGED <<req, permits, portFailed>> /\ pc' = "done"
    BY <1>13, <2>1 DEF CloseOrdinary, Finish
  <2>3. end' = "succeeded" => pending = "succeeded"
    BY <2>1 DEF Finish
  <2>4. pending \in Raised => end' = pending
    BY <2>1 DEF Finish
  <2> QED  BY <2>2, <2>3, <2>4 DEF Ledger, AllReturned
<1>14. CASE finish
  <2>1. /\ pc = "record" /\ req' = req /\ (Ordinary' <=> Ordinary) /\ end = "none" /\ ~portFailed
    BY <1>14, <1>d, FinishCases, StepRequest DEF Step, Ledger
  <2>2. Recorded => permits # <<>>
    BY <2>1 DEF Recorded, Ledger, TypeOK
  <2>3. ASSUME Recorded
        PROVE  /\ Len(permits') = Len(permits)
               /\ \A i \in 1..Len(permits') : i < Len(permits') => permits'[i].outcome = "returned"
               /\ pending \notin {"error", "cancelled"} => AllReturned'
               /\ permits' # <<>> /\ ~portFailed'
    <3> DEFINE o == IF pending \in {"error", "cancelled"} THEN "unknown" ELSE "returned"
    <3>1. o \in {"returned", "unknown"} /\ Acknowledge(o)
      BY <2>3 DEF Recorded
    <3> HIDE DEF o
    <3>2. /\ permits' \in Seq(Permit) /\ Len(permits') = Len(permits)
          /\ \A i \in 1..Len(permits) : i < Len(permits) => permits'[i] = permits[i]
          /\ permits'[Len(permits)].outcome = o
      BY <1>p, <2>2, <2>3, <3>1, Acknowledged
    <3>3. \A i \in 1..Len(permits') : i < Len(permits') => permits'[i].outcome = "returned"
      BY <3>2 DEF Ledger
    <3>4. \A i \in 1..Len(permits') : i < Len(permits') \/ i = Len(permits)
      BY <1>p, <3>2
    <3>5. pending \notin {"error", "cancelled"} => AllReturned'
      BY <3>2, <3>3, <3>4 DEF AllReturned, o
    <3>6. permits' # <<>>
      BY <1>p, <2>2, <2>3, <3>2
    <3> QED  BY <2>1, <2>3, <3>2, <3>3, <3>5, <3>6 DEF Recorded
  <2>4. ASSUME Unrecorded
        PROVE  /\ permits' = permits /\ ~portFailed'
               /\ pending # "control" => permits = <<>> /\ AllReturned'
    <3>1. pending # "control" => permits = <<>>
      BY <2>1, <2>4 DEF Unrecorded, Ledger
    <3>2. permits = <<>> => Len(permits) = 0
      OBVIOUS
    <3> QED  BY <2>1, <2>4, <3>1, <3>2 DEF Unrecorded, AllReturned
  <2>5. CASE (Unrecorded \/ Recorded) /\ GoesOn
    <3>1. AllReturned' /\ ~portFailed' /\ pc' = "admit" /\ end' = "none"
      BY <2>1, <2>3, <2>4, <2>5 DEF GoesOn
    <3>2. \A i \in 1..Len(permits') : i < Len(permits') => permits'[i].outcome = "returned"
      BY <3>1 DEF AllReturned
    <3>3. ~Invoked(req) => permits' = <<>>
      BY <2>1, <2>4, <2>5 DEF Recorded, Unrecorded, GoesOn
    <3> QED  BY <2>1, <3>1, <3>2, <3>3 DEF Ledger
  <2>6. ASSUME NEW kind, Unrecorded \/ Recorded, Decides(kind)
        PROVE  Ledger'
    <3>1. ~portFailed' /\ (kind = "succeeded" => AllReturned')
      BY <2>3, <2>4, <2>6 DEF Decides
    <3>2. \A i \in 1..Len(permits') : i < Len(permits') => permits'[i].outcome = "returned"
      BY <2>3, <2>4, <2>6 DEF Ledger
    <3>3. ~Invoked(req) => permits' = <<>>
      BY <2>1, <2>6 DEF Recorded, Unrecorded, Ledger
    <3> QED  BY <2>1, <2>6, <3>1, <3>2, <3>3 DEF Ledger, Decides, Ends, Releases
  <2>7. ASSUME NEW kind, PortFails, kind \in Raised, Decides(kind)
        PROVE  Ledger'
    <3>1. kind # "succeeded"
      BY <2>7 DEF Raised
    <3> QED  BY <2>1, <2>7, <3>1 DEF PortFails, Ledger, Decides, Ends, Releases
  <2> QED  BY <1>14, <2>5, <2>6, <2>7, FinishCases
<1>15. CASE del
  <2>1. (Ordinary' <=> Ordinary) /\ req' = req
    BY <1>15, StepRequest DEF Step
  <2> QED  BY <1>15, <2>1 DEF del, Ledger, AllReturned
<1>16. CASE UNCHANGED vars
  BY <1>16 DEF vars, Ledger, AllReturned, Ordinary
<1> QED
  BY <1>1, <1>2, <1>3, <1>4, <1>5, <1>6, <1>7, <1>8, <1>9, <1>10, <1>11, <1>12, <1>13, <1>14, <1>15,
     <1>16, <1>17 DEF Next, Step

-----------------------------------------------------------------------------
(* Provider calls are covered by permits.                                  *)
(* What the count of permits is after a step.                              *)
LEMMA Counts ==
    ASSUME TypeOK, NEW k
    PROVE  /\ PermitCount(k) \in Nat
           /\ permits' = permits => PermitCount(k)' = PermitCount(k)
           /\ permits' = Append(permits, Asked) =>
                 PermitCount(k)' = PermitCount(k) + (IF PermitKind = k THEN 1 ELSE 0)
           /\ permits # <<>> /\ Recorded => PermitCount(k)' = PermitCount(k)
<1>1. permits \in Seq(Permit) /\ Asked \in Permit /\ Asked.kind = PermitKind
  BY AskedPermit DEF TypeOK
<1>2. PermitCount(k) = Cardinality(Of(permits, k)) /\ PermitCount(k)' = Cardinality(Of(permits', k))
  BY DEF PermitCount, Of
<1>3. /\ Cardinality(Of(permits, k)) \in Nat
      /\ Cardinality(Of(Append(permits, Asked), k)) =
            Cardinality(Of(permits, k)) + (IF Asked.kind = k THEN 1 ELSE 0)
  BY <1>1, CountAppend
<1>4. permits # <<>> /\ Recorded => Of(permits', k) = Of(permits, k)
  <2> SUFFICES ASSUME permits # <<>>, Recorded PROVE Of(permits', k) = Of(permits, k)
    OBVIOUS
  <2> DEFINE o == IF pending \in {"error", "cancelled"} THEN "unknown" ELSE "returned"
  <2>1. o \in {"returned", "unknown"} /\ Acknowledge(o)
    BY DEF Recorded
  <2> HIDE DEF o
  <2> QED  BY <1>1, <2>1, Acknowledged
<1> QED  BY <1>1, <1>2, <1>3, <1>4

LEMMA CoveredNext ==
    ASSUME TypeOK, InPlan, Ledger, Covered, [Next]_vars
    PROVE  Covered'
<1> DEFINE d == "prepared-runtime-dispatch"
<1>t. /\ io \in [PermitKinds -> Nat] /\ d \in PermitKinds /\ d \notin SharedKinds
      /\ SharedKinds \subseteq PermitKinds
      /\ \A k \in PermitKinds : io[k] \in Nat /\ PermitCount(k) \in Nat
      /\ \A k : Ahead(k) \in {0, 1}
  BY Counts DEF TypeOK, PermitKinds, SharedKinds, Ahead
<1>o. ASSUME NEW k, pc' # "call"  PROVE  Ahead(k)' = 0
  BY <1>o DEF Ahead
<1>c. ASSUME \A k : PermitCount(k)' = PermitCount(k), UNCHANGED <<req, io>>, pc # "idle",
             pc' \in {"close", "done"}
      PROVE  Covered'
  <2>1. \A k \in SharedKinds : Invoked(req) => io'[k] + Ahead(k)' <= PermitCount(k)'
    <3> SUFFICES ASSUME NEW k \in SharedKinds, Invoked(req)
                 PROVE  io'[k] + Ahead(k)' <= PermitCount(k)'
      OBVIOUS
    <3>1. Ahead(k)' = 0 /\ io'[k] = io[k] /\ PermitCount(k)' = PermitCount(k)
      BY <1>c, <1>o
    <3>2. io[k] + Ahead(k) <= PermitCount(k) /\ Ahead(k) \in {0, 1} /\ io[k] \in Nat /\ PermitCount(k) \in Nat
      BY <1>c, <1>t DEF Covered
    <3> QED  BY ONLY <3>1, <3>2
  <2> QED  BY <1>c, <2>1 DEF Covered
<1>r. ASSUME UNCHANGED <<req, todo, permits>>, pc \in {"call", "connect", "run"},
             pc' \in {"connect", "run", "record", "close"},
             NEW n \in PermitKinds, io' = io \/ io' = [io EXCEPT ![n] = @ + 1],
             io' = io \/ (n = d /\ Head(todo) = "dispatch") \/ (n = PermitKind /\ pc = "call")
      PROVE  Covered'
  <2> SUFFICES ASSUME Invoked(req) PROVE Covered'
    BY <1>r DEF Covered
  <2>0. \A k : PermitCount(k)' = PermitCount(k)
    BY <1>r, Counts
  <2>1. ASSUME NEW k \in SharedKinds
        PROVE  io'[k] + Ahead(k)' <= PermitCount(k)'
    <3>1. Ahead(k)' = 0 /\ PermitCount(k)' = PermitCount(k)
      BY <1>r, <1>o, <2>0
    <3>2. io[k] + Ahead(k) <= PermitCount(k) /\ Ahead(k) \in {0, 1} /\ io[k] \in Nat /\ PermitCount(k) \in Nat
      BY <1>r, <1>t, <2>1 DEF Covered
    <3>3. CASE io' = io \/ n # k
      <4>1. io'[k] = io[k]
        BY <1>r, <1>t, <2>1, <3>3
      <4> QED  BY ONLY <3>1, <3>2, <4>1
    <3>4. CASE io' # io /\ n = k
      <4>1. io'[k] = io[k] + 1
        BY <1>r, <1>t, <2>1, <3>4
      <4>2. Ahead(k) = 1
        BY <1>r, <1>t, <2>1, <3>4 DEF Ahead
      <4> QED  BY ONLY <3>1, <3>2, <4>1, <4>2
    <3> QED  BY <3>3, <3>4
  <2>2. io'[d] > 0 => PermitCount(d)' = 1
    <3>1. CASE Head(todo) = "dispatch"
      BY <1>r, <2>0, <3>1 DEF Covered
    <3>2. CASE Head(todo) # "dispatch"
      <4>1. PermitKind # d
        BY <3>2, KindIs
      <4>2. io'[d] = io[d]
        BY <1>r, <1>t, <3>2, <4>1
      <4> QED  BY <1>r, <2>0, <4>2 DEF Covered
    <3> QED  BY <3>1, <3>2
  <2> QED  BY <1>r, <2>0, <2>1, <2>2 DEF Covered
<1>s. ASSUME NEW kind, Stop(kind), pc = "admit", UNCHANGED <<req, permits, io>>
      PROVE  Covered'
  BY <1>s, <1>c, Counts, StopCases DEF Ends, Releases
<1>1. CASE execute
  <2>1. /\ permits' = <<>> /\ pc' \in {"admit", "done"} /\ io' = [k \in PermitKinds |-> 0]
        /\ pc = "idle"
    BY <1>1 DEF execute, Finish, Covered
  <2>2. \A k : PermitCount(k)' = 0
    <3>1. \A k : {i \in 1..Len(permits') : permits'[i].kind = k} = {}
      BY <2>1
    <3> QED  BY <3>1, FS_EmptySet DEF PermitCount
  <2>3. \A k \in SharedKinds : io'[k] + Ahead(k)' <= PermitCount(k)'
    BY <1>o, <1>t, <2>1, <2>2
  <2>4. io'[d] = 0
    BY <1>t, <2>1
  <2> QED  BY <2>1, <2>2, <2>3, <2>4 DEF Covered
<1>2. CASE SecretRefused
  BY <1>2, <1>s DEF SecretRefused
<1>3. CASE CheckRefused
  BY <1>3, <1>s DEF CheckRefused
<1>4. CASE admit
  <2>1. CASE Stop("control") /\ permits' = permits
    BY <1>4, <1>s, <2>1 DEF admit
  <2>2. CASE pc' = "call" /\ permits' = (IF Invoked(req) THEN Append(permits, Asked) ELSE permits)
    <3> SUFFICES ASSUME Invoked(req) PROVE Covered'
      BY <1>4, <2>2 DEF Covered, admit
    <3>1. pc = "admit" /\ UNCHANGED <<req, todo, credential, io>> /\ permits' = Append(permits, Asked)
      BY <1>4, <2>2 DEF admit
    <3>2. \A k : PermitCount(k)' = PermitCount(k) + (IF PermitKind = k THEN 1 ELSE 0)
      BY <3>1, Counts
    <3>3. PermitKind' = PermitKind
      BY <3>1 DEF PermitKind, Resolving
    <3>4. ASSUME NEW k \in SharedKinds
          PROVE  io'[k] + Ahead(k)' <= PermitCount(k)'
      <4>1. io[k] + Ahead(k) <= PermitCount(k) /\ Ahead(k) = 0 /\ io[k] \in Nat /\ PermitCount(k) \in Nat
        BY <1>t, <3>1, <3>4 DEF Covered, Ahead
      <4>2. Ahead(k)' = IF PermitKind = k THEN 1 ELSE 0
        BY <2>2, <3>3 DEF Ahead
      <4>3. io'[k] = io[k] /\ PermitCount(k)' = PermitCount(k) + (IF PermitKind = k THEN 1 ELSE 0)
        BY <3>1, <3>2
      <4> QED  BY ONLY <4>1, <4>2, <4>3
    <3>5. PermitCount(d) = 0 /\ ~(io[d] > 0)
      BY <3>1, <1>t DEF Covered
    <3>6. PermitKind = d <=> Head(todo) = "dispatch"
      BY KindIs
    <3>7. PermitCount(d)' = IF Head(todo) = "dispatch" THEN 1 ELSE 0
      BY <3>2, <3>5, <3>6
    <3> QED  BY <2>2, <3>1, <3>4, <3>5, <3>7 DEF Covered
  <2> QED  BY <1>4, <2>1, <2>2 DEF admit, Asked
<1>5. CASE resolve
  <2>1. PermitKind = "secret-resolution" /\ PermitKind \in PermitKinds
    BY <1>5, KindIs DEF resolve
  <2> QED  BY <1>5, <1>r, <2>1 DEF resolve, Counted, Answer
<1>6. CASE AcquireAmbient
  BY <1>6, <1>r, <1>t DEF AcquireAmbient
<1>7. CASE AcquireUnix
  <2>1. PermitKind \in PermitKinds
    BY KindIs
  <2> QED  BY <1>7, <1>r, <2>1 DEF AcquireUnix, Counted, AcquisitionRaises, Answer
<1>8. CASE AcquireTls
  <2>1. PermitKind \in PermitKinds
    BY KindIs
  <2> QED  BY <1>8, <1>r, <2>1 DEF AcquireTls, Counted, AcquisitionRaises, Answer
<1>17. CASE ConnectTls
  BY <1>17, <1>r, <1>t DEF ConnectTls, AcquisitionRaises, Answer
<1>9. CASE RunEffect
  BY <1>9, <1>r, <1>t DEF RunEffect, Counted
<1>10. CASE InspectEndpoints
  BY <1>10, <1>r, <1>t DEF InspectEndpoints, Answer
<1>11. CASE RunCheck
  <2>1. PermitKind = "ordinary-verification-check" /\ PermitKind \in PermitKinds
    BY <1>11, KindIs DEF RunCheck
  <2> QED  BY <1>11, <1>r, <2>1 DEF RunCheck, Counted, Answer
<1>12. CASE CloseBound
  <2>1. Head(todo') = "dispatch" /\ \A k : PermitCount(k)' = PermitCount(k)
    BY <1>12, Counts DEF CloseBound, InPlan
  <2>2. /\ pc = "close" /\ pc' = "record" /\ UNCHANGED <<req, io>>
    BY <1>12 DEF CloseBound
  <2>3. \A k \in SharedKinds : Ahead(k) = 0 /\ Ahead(k)' = 0
    BY <2>2 DEF Ahead
  <2> QED  BY <2>1, <2>2, <2>3 DEF Covered
<1>13. CASE CloseOrdinary
  BY <1>13, <1>c, Counts DEF CloseOrdinary, Finish
<1>14. CASE finish
  <2>1. pc = "record" /\ UNCHANGED <<req, io>>
    BY <1>14, FinishCases
  <2>2. \A k : PermitCount(k)' = PermitCount(k)
    <3>1. Recorded => permits # <<>>
      BY <2>1 DEF Recorded, Ledger
    <3> QED  BY <1>14, <3>1, FinishCases, Counts DEF Unrecorded, PortFails
  <2>3. CASE GoesOn
    <3>1. Head(todo) # "dispatch"
      BY <2>1, <2>3, OrderedTail DEF GoesOn, TypeOK, InPlan
    <3>2. \A k \in SharedKinds : Ahead(k) = 0 /\ Ahead(k)' = 0
      BY <2>1, <2>3 DEF Ahead, GoesOn
    <3> QED  BY <2>1, <2>2, <2>3, <3>1, <3>2 DEF GoesOn, Covered
  <2>4. ASSUME NEW kind, Decides(kind)
        PROVE  Covered'
    BY <1>c, <2>1, <2>2, <2>4 DEF Decides, Ends, Releases
  <2> QED  BY <1>14, <2>3, <2>4, FinishCases
<1>15. CASE del
  <2>1. \A k : PermitCount(k)' = PermitCount(k)
    BY <1>15, Counts DEF del
  <2> QED  BY <1>15, <1>c, <2>1 DEF del
<1>16. CASE UNCHANGED vars
  <2>1. \A k : PermitCount(k)' = PermitCount(k) /\ Ahead(k)' = Ahead(k)
    BY <1>16 DEF vars, PermitCount, Ahead, PermitKind, Resolving
  <2> QED  BY <1>16, <2>1 DEF vars, Covered
<1> QED
  BY <1>1, <1>2, <1>3, <1>4, <1>5, <1>6, <1>7, <1>8, <1>9, <1>10, <1>11, <1>12, <1>13, <1>14, <1>15,
     <1>16, <1>17 DEF Next, Step

-----------------------------------------------------------------------------
LEMMA DispatchInit == Init => DispatchInv
<1> SUFFICES ASSUME Init PROVE DispatchInv
  OBVIOUS
<1>1. todo \in Seq(Sections) /\ permits \in Seq(Permit) /\ Len(todo) = 0 /\ Len(permits) = 0
  BY DEF Init
<1>2. TypeOK
  BY <1>1 DEF Init, TypeOK
<1>3. InPlan /\ Custody /\ EvidenceOfEffect /\ Ledger /\ Covered
  BY <1>1 DEF Init, InPlan, Ordered, Custody, Nothing, EvidenceOfEffect, Ledger, Covered
<1> QED  BY <1>2, <1>3 DEF DispatchInv

LEMMA DispatchAlways == Spec => []DispatchInv
<1>1. DispatchInv /\ [Next]_vars => DispatchInv'
  BY TypeNext, InPlanNext, CustodyNext, EvidenceNext, LedgerNext, CoveredNext DEF DispatchInv
<1> QED  BY <1>1, DispatchInit, PTL DEF Spec

(* The client a call acquired is closed, or its close attempted, on every  *)
(* way out of execute, its TLS material goes with it, and a release that   *)
(* is uncertain shows in the result: for every set of requests.            *)
THEOREM ReleasesClient == Spec => []ClientReleased
<1>1. DispatchInv => ClientReleased
  <2> SUFFICES ASSUME DispatchInv PROVE ClientReleased
    OBVIOUS
  <2>1. ReleasedOnEveryPath
    BY DEF DispatchInv, Custody, ReleasedOnEveryPath
  <2>2. UncertainReleaseReported
    <3>1. end \in Results => pc = "done" /\ end \notin Raised
      BY DEF DispatchInv, InPlan, Results, Raised
    <3> QED  BY <3>1 DEF DispatchInv, Custody, OwnsUp, UncertainReleaseReported
  <2> QED  BY <2>1, <2>2 DEF ClientReleased
<1> QED  BY <1>1, DispatchAlways, PTL

(* A success was acknowledged permit by permit, and a failure of the port  *)
(* is raised, whatever the call was doing when the port failed.            *)
THEOREM AcknowledgesOutcome == Spec => []OutcomeAcknowledged
<1>1. DispatchInv => OutcomeAcknowledged
  BY DEF DispatchInv, Ledger, AllReturned, OutcomeAcknowledged
<1> QED  BY <1>1, DispatchAlways, PTL

(* No resolver, Docker client or checked service is touched without a      *)
(* permit of its kind, and permits do not overlap, however many secrets    *)
(* and checks the request names.                                           *)
THEOREM CoversProviderCalls == Spec => []PermitsCoverIo
<1>1. DispatchInv => PermitsCoverIo
  <2> SUFFICES ASSUME DispatchInv PROVE PermitsCoverIo
    OBVIOUS
  <2>1. OpenPermitIsLast
    <3>1. \A i \in 1..Len(permits) : i < Len(permits) \/ i = Len(permits)
      BY DEF DispatchInv, TypeOK
    <3> QED  BY <3>1 DEF DispatchInv, Ledger, OpenPermitIsLast
  <2>2. IoAdmitted
    <3> SUFFICES ASSUME req # NoRequest, Invoked(req) PROVE IoAdmitted
      BY DEF IoAdmitted
    <3>1. ASSUME NEW k \in SharedKinds  PROVE io[k] <= PermitCount(k)
      <4>0. TypeOK /\ k \in PermitKinds
        BY <3>1 DEF DispatchInv, SharedKinds
      <4>1. io[k] \in Nat /\ PermitCount(k) \in Nat /\ Ahead(k) \in {0, 1}
        BY <4>0, Counts DEF TypeOK, Ahead
      <4>2. CASE pc # "idle"
        <5>1. io[k] + Ahead(k) <= PermitCount(k)
          BY <3>1, <4>2 DEF DispatchInv, Covered
        <5> QED  BY ONLY <4>1, <5>1
      <4>3. CASE pc = "idle"
        <5>1. io[k] = 0
          BY <4>0, <4>3 DEF DispatchInv, Covered
        <5> QED  BY ONLY <4>1, <5>1
      <4> QED  BY <4>2, <4>3
    <3>2. io["prepared-runtime-dispatch"] > 0 => PermitCount("prepared-runtime-dispatch") = 1
      <4>1. pc = "idle" => io["prepared-runtime-dispatch"] = 0
        BY DEF DispatchInv, Covered, PermitKinds
      <4> QED  BY <4>1 DEF DispatchInv, Covered
    <3> QED  BY <3>1, <3>2 DEF IoAdmitted, SharedKinds, PermitKinds
  <2> QED  BY <2>1, <2>2 DEF PermitsCoverIo
<1> QED  BY <1>1, DispatchAlways, PTL
=============================================================================
