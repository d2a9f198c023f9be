-------------------------- MODULE InvokedDispatch ---------------------------
(***************************************************************************)
(* One call of DockerRuntimeInterpreter.execute or execute_with_authority  *)
(* (docker/runtime.py): admission of the request, secret preparation, the  *)
(* acquisition of the client its runtime authority names, the effect or    *)
(* the ordinary verification on that client, and the client's release,     *)
(* with the permits of the invocation port (invocations.py) around each.   *)
(*                                                                         *)
(* The effect itself is an answer here: NodeEffects, ConfigurationNode and *)
(* ConfigurationVolumes model it.  Calls share only the interpreter's own  *)
(* client, which no path closes, so one call is the whole state.  A        *)
(* process that dies is a call that takes no further step: every property  *)
(* of all states is also about what a crash leaves behind.                 *)
(***************************************************************************)
EXTENDS Naturals, Sequences, FiniteSets

CONSTANTS
    Requests,    \* the calls operations may make
    NoRequest

VARIABLES
    pc,          \* idle, admit, call, connect, run, close, record, done
    req,
    todo,        \* the sections of the call still ahead, the current one first
    credential,  \* the password of the check at the head has been resolved
    prepared,    \* _PreparedSecretResolver's entries
    permits,     \* the port's durable record: what was admitted, how it ended
    pending,     \* how the work ended that close or record still follow
    evidence,    \* evidence of the pending result
    client,      \* the raw client acquired for this call
    directory,   \* the temporary directory with its TLS material; "stuck": its removal failed
    io,          \* history: provider and resolver calls by the permit kind they need
    portFailed,  \* history: an admission was refused or an acknowledgement failed
    end          \* what the caller gets: a result kind, or the exception raised

vars == <<pc, req, todo, credential, prepared, permits, pending, evidence,
          client, directory, io, portFailed, end>>

TlsGrants == <<"ca_certificate", "client_certificate", "client_key">>
ProductGrants == {"delivery", "pull"}
Grants == {"ca_certificate", "client_certificate", "client_key"} \cup ProductGrants
Checks == {"http", "postgres"}
PermitKinds == {"secret-resolution", "prepared-runtime-dispatch",
                "ordinary-verification-acquisition", "ordinary-verification-check"}
Results == {"succeeded", "failed", "unsupported", "uncertain", "cleanup_rows"}
Raised == {"control", "cancelled"}
Receipts == {"configuration_invocation_completion", "configuration_installation_receipt",
             "secret_resolution_receipt", "secret_installation_receipt"}

(* intent: what contract admission says of the request.  authority:        *)
(* "ambient" is execute() without one.  policy: the interpreter holds a    *)
(* Unix socket policy instead of a client.  port: "unusable" is a required *)
(* port that is missing or malformed, "childless" one without for_check.   *)
Request ==
    [op: {"plain", "selected", "configured", "cleanup", "wait"},
     intent: {"ok", "unsupported", "invalid"},
     authority: {"ambient", "local", "tls", "malformed", "other"},
     policy: BOOLEAN, deliveries: BOOLEAN,
     resolver: {"none", "legacy", "authorized"},
     secrets: SUBSET ProductGrants, checks: Seq(Checks),
     port: {"none", "valid", "childless", "unusable"}]

ASSUME CallAssumption ==
    /\ Requests # {} /\ Requests \subseteq Request
    /\ NoRequest \notin Requests
    /\ \A r \in Requests :
          /\ r.secrets # {} => r.op \in {"plain", "selected", "configured"}
          /\ r.checks # <<>> => r.op = "wait"
          /\ r.port = "childless" => r.op = "wait"

-----------------------------------------------------------------------------
(* Admission: everything decided before a secret is resolved.              *)

Invoked(r) == r.port \in {"valid", "childless"}

(* What the request and authority checks answer, or "none".                *)
Refusal(r) ==
    IF r.intent = "unsupported" THEN "unsupported"
    ELSE IF r.port = "childless" THEN "control"
    ELSE IF r.intent = "invalid" \/ (r.op = "selected" /\ r.resolver # "authorized") THEN "failed"
    ELSE IF r.op = "cleanup" /\ r.authority \notin {"ambient", "local"} THEN "cleanup_rows"
    ELSE IF \/ r.authority = "other"
            \/ r.policy /\ r.authority # "local"
            \/ r.authority \in {"tls", "malformed"} /\ r.deliveries THEN "unsupported"
    ELSE IF \/ r.authority = "malformed"
            \/ /\ r.authority = "tls"
               /\ r.resolver = "none" \/ (r.resolver = "legacy" /\ Invoked(r))
            \/ Invoked(r) /\ r.secrets # {} /\ r.resolver # "authorized" THEN "failed"
    ELSE "none"

(* _prepare_runtime_authority_client: the client the authority names.      *)
Binding(r) ==
    IF r.authority = "tls" THEN "tls" ELSE IF r.policy THEN "unix" ELSE "ambient"

close_after_execution(r) == Binding(r) # "ambient"

(* The sections in the order they run.  With a port, deliveries and the    *)
(* pull credential are prepared before the dispatch; without one the       *)
(* effect resolves them itself.  An invoked WaitForHealthy has one section *)
(* for the acquisition and one per check.                                  *)
Plan(r) ==
    (IF Binding(r) = "tls" THEN TlsGrants ELSE <<>>)
        \o (IF Invoked(r) /\ "delivery" \in r.secrets THEN <<"delivery">> ELSE <<>>)
        \o (IF Invoked(r) /\ "pull" \in r.secrets THEN <<"pull">> ELSE <<>>)
        \o (IF Invoked(r) /\ r.op = "wait" THEN <<"acquisition">> \o r.checks ELSE <<"dispatch">>)

Ordinary == Invoked(req) /\ req.op = "wait"

Resolving == Head(todo) \in Grants \/ (Head(todo) = "postgres" /\ ~credential)

PermitKind ==
    CASE Resolving                    -> "secret-resolution"
      [] Head(todo) = "dispatch"      -> "prepared-runtime-dispatch"
      [] Head(todo) = "acquisition"   -> "ordinary-verification-acquisition"
      [] OTHER                        -> "ordinary-verification-check"

-----------------------------------------------------------------------------
(* How a step goes on.                                                     *)

Finish(kind) == pc' = "done" /\ end' = kind /\ UNCHANGED pending

(* Mutant: an exception leaves the ordinary verification at once.          *)
StopWithoutRelease(kind) ==
    IF Ordinary /\ kind \in Results /\ client = "open"
    THEN pc' = "close" /\ pending' = kind /\ UNCHANGED end
    ELSE Finish(kind)

(* The call is decided.  _execute_ordinary_invoked releases what its       *)
(* acquisition left in custody first, whatever was decided.                *)
Stop(kind) ==
    IF Ordinary /\ client = "open"
    THEN pc' = "close" /\ pending' = kind /\ UNCHANGED end
    ELSE Finish(kind)

Answer(what) == pc' = "record" /\ pending' = what /\ UNCHANGED end

Counted(kind) == io' = [io EXCEPT ![kind] = @ + 1]

execute ==
    /\ pc = "idle"
    /\ \E r \in Requests :
        /\ req' = r
        /\ IF r.port = "unusable" THEN Finish("control") /\ UNCHANGED todo
           ELSE IF Refusal(r) # "none" THEN Finish(Refusal(r)) /\ UNCHANGED todo
           ELSE pc' = "admit" /\ todo' = Plan(r) /\ UNCHANGED <<pending, end>>
    /\ UNCHANGED <<credential, prepared, permits, evidence, client, directory, io, portFailed>>

(* Before a secret's permit is asked for: its reference is malformed, or   *)
(* not exactly one committed grant covers it.                              *)
SecretRefused ==
    /\ pc = "admit" /\ Head(todo) \in Grants
    /\ Stop("failed")
    /\ UNCHANGED <<req, todo, credential, prepared, permits, evidence, client, directory, io, portFailed>>

(* Before a check's permit is asked for: its endpoint is missing or        *)
(* unresolved, it is not supported, a Postgres check's endpoint,           *)
(* authentication or grant is not admitted, or the child port is not one.  *)
CheckRefused ==
    /\ pc = "admit" /\ Head(todo) \in Checks /\ ~credential
    /\ \E kind \in {"failed", "unsupported", "control"} : Stop(kind)
    /\ UNCHANGED <<req, todo, credential, prepared, permits, evidence, client, directory, io, portFailed>>

(* Mutant: secret resolutions ask for no permit.                           *)
AdmitEffectsOnly ==
    /\ pc = "admit"
    /\ pc' = "call"
    /\ permits' = IF Invoked(req) /\ ~Resolving
                  THEN Append(permits, [kind |-> PermitKind, outcome |-> "open"]) ELSE permits
    /\ UNCHANGED <<req, todo, credential, prepared, pending, evidence, client, directory, io, portFailed, end>>

(* invoke(): the port admits, or its control error ends the call.          *)
admit ==
    /\ pc = "admit"
    /\ \/ /\ pc' = "call"
          /\ permits' = IF Invoked(req)
                        THEN Append(permits, [kind |-> PermitKind, outcome |-> "open"]) ELSE permits
          /\ UNCHANGED <<pending, end, portFailed>>
       \/ /\ Invoked(req)
          /\ portFailed' = TRUE
          /\ Stop("control")
          /\ UNCHANGED permits
    /\ UNCHANGED <<req, todo, credential, prepared, evidence, client, directory, io>>

-----------------------------------------------------------------------------
(* Sections.                                                               *)

(* The resolver returns the value, returns that it is missing or denied,   *)
(* raises, or is cancelled.                                                *)
resolve ==
    /\ pc = "call" /\ Resolving
    /\ Counted("secret-resolution")
    /\ \E answer \in {"none", "failed", "error", "cancelled"} :
        /\ Answer(answer)
        /\ prepared' = IF answer = "none" /\ Head(todo) \in Grants
                       THEN prepared \cup {Head(todo)} ELSE prepared
    /\ UNCHANGED <<req, todo, credential, permits, evidence, client, directory, portFailed>>

(* A failed acquisition raises; inside a dispatch that is an uncertain     *)
(* result, inside ordinary verification an execution error.                *)
AcquisitionRaises(how) ==
    Answer(IF how = "cancelled" THEN how
           ELSE IF Head(todo) = "dispatch" THEN "uncertain" ELSE "error")

AcquireAmbient ==
    /\ pc = "call" /\ Head(todo) \in {"dispatch", "acquisition"} /\ Binding(req) = "ambient"
    /\ pc' = "run"
    /\ UNCHANGED <<req, todo, credential, prepared, permits, pending, evidence,
                   client, directory, io, portFailed, end>>

(* _unix_client: a client that was constructed and not verified is closed  *)
(* before the failure leaves.                                              *)
AcquireUnix ==
    /\ pc = "call" /\ Head(todo) \in {"dispatch", "acquisition"} /\ Binding(req) = "unix"
    /\ Counted(PermitKind)
    /\ \/ client' = "open" /\ pc' = "run" /\ UNCHANGED <<pending, end>>
       \/ /\ client' \in {"none", "closed", "unclosed"}
          /\ \E how \in {"error", "cancelled"} : AcquisitionRaises(how)
    /\ UNCHANGED <<req, todo, credential, prepared, permits, evidence, directory, portFailed>>

(* _remote_tls_client: a fresh directory for the TLS material is made, or  *)
(* cannot be.                                                              *)
AcquireTls ==
    /\ pc = "call" /\ Head(todo) \in {"dispatch", "acquisition"} /\ Binding(req) = "tls"
    /\ Counted(PermitKind)
    /\ \/ directory' = "present" /\ pc' = "connect" /\ UNCHANGED <<pending, end>>
       \/ UNCHANGED directory /\ \E how \in {"error", "cancelled"} : AcquisitionRaises(how)
    /\ UNCHANGED <<req, todo, credential, prepared, permits, evidence, client, portFailed>>

(* The material is written to it and the client constructed.  An exception *)
(* of either removes the directory, and a removal that fails is passed     *)
(* over; a cancellation leaves the directory to the finaliser.             *)
ConnectTls ==
    /\ pc = "connect"
    /\ \/ client' = "open" /\ pc' = "run" /\ UNCHANGED <<directory, pending, end>>
       \/ directory' \in {"removed", "stuck"} /\ AcquisitionRaises("error") /\ UNCHANGED client
       \/ AcquisitionRaises("cancelled") /\ UNCHANGED <<client, directory>>
    /\ UNCHANGED <<req, todo, credential, prepared, permits, evidence, io, portFailed>>

EvidenceOf(op, kind) ==
    CASE op = "configured" ->
            {"configuration_attempt"}
                \cup (IF kind \in {"succeeded", "failed"}
                      THEN {"configuration_invocation_completion"} ELSE {})
                \cup (IF kind = "succeeded" THEN {"configuration_installation_receipt"} ELSE {})
      [] op = "selected" ->
            {"secret_attempt"}
                \cup (IF kind = "succeeded"
                      THEN {"secret_resolution_receipt", "secret_installation_receipt"} ELSE {})
      [] op = "cleanup" -> {"rows"}
      [] OTHER -> {}

(* The effect on the bound client.  Its resolver answers from what was     *)
(* prepared; sealed, it refuses every other grant as a port error.         *)
RunEffect ==
    /\ pc = "run" /\ Head(todo) = "dispatch"
    /\ Counted("prepared-runtime-dispatch")
    /\ pc' = "close"
    /\ IF Invoked(req) /\ ~(req.secrets \subseteq prepared)
       THEN pending' = "control" /\ UNCHANGED evidence
       ELSE \/ pending' = "cancelled" /\ UNCHANGED evidence
            \/ \E kind \in IF req.op = "cleanup" THEN {"cleanup_rows"} ELSE Results \ {"cleanup_rows"} :
                  pending' = kind /\ evidence' = EvidenceOf(req.op, kind)
    /\ UNCHANGED <<req, todo, credential, prepared, permits, client, directory, portFailed, end>>

(* Ordinary verification inspects the node's endpoints once, under the     *)
(* acquisition's permit.                                                   *)
InspectEndpoints ==
    /\ pc = "run" /\ Head(todo) = "acquisition"
    /\ \E answer \in {"none", "error", "cancelled"} : Answer(answer)
    /\ UNCHANGED <<req, todo, credential, prepared, permits, evidence, client, directory, io, portFailed>>

RunCheck ==
    /\ pc = "call" /\ Head(todo) \in Checks /\ ~Resolving
    /\ Counted("ordinary-verification-check")
    /\ \E answer \in {"none", "failed", "unsupported", "error", "cancelled"} : Answer(answer)
    /\ UNCHANGED <<req, todo, credential, prepared, permits, evidence, client, directory, portFailed>>

-----------------------------------------------------------------------------
(* Release and acknowledgement.                                            *)

(* DockerSdkClient.close: the raw client, then the TLS directory even when *)
(* the raw close raised.  how is what close raises.                        *)
Release(how) ==
    \/ how = "none" /\ client' = "closed" /\ directory' = IF directory = "present" THEN "removed" ELSE directory
    \/ how = "error" /\ directory = "present" /\ client' = "closed" /\ directory' = "stuck"
    \/ how = "error" /\ client' = "unclosed"
        /\ directory' \in IF directory = "present" THEN {"removed", "stuck"} ELSE {directory}
    \/ how = "cancelled" /\ client' = "unclosed" /\ UNCHANGED directory

(* Mutant: an uncertain release keeps the evidence of the effect.          *)
BoundKeepsEvidence(how) ==
    IF how = "cancelled" THEN pending' = how /\ UNCHANGED evidence
    ELSE IF how = "none" \/ pending \in Raised THEN UNCHANGED <<pending, evidence>>
    ELSE pending' = "uncertain" /\ UNCHANGED evidence

(* _execute_bound after close: a cancelled close outranks everything, an   *)
(* execution error outranks a failed close, and a failed close turns the   *)
(* result uncertain and strips what only a finished effect may claim.      *)
BoundResult(how) ==
    IF how = "cancelled" THEN pending' = how /\ UNCHANGED evidence
    ELSE IF how = "none" \/ pending \in Raised THEN UNCHANGED <<pending, evidence>>
    ELSE /\ pending' = "uncertain"
         /\ evidence' = IF req.op \in {"plain", "wait"} THEN {}
                        ELSE (evidence \ Receipts)
                               \cup (IF "secret_attempt" \in evidence
                                     THEN {"authority_close_unknown"} ELSE {})

CloseBound ==
    /\ pc = "close" /\ ~Ordinary
    /\ IF close_after_execution(req)
       THEN \E how \in {"none", "error", "cancelled"} : Release(how) /\ BoundResult(how)
       ELSE UNCHANGED <<client, directory, pending, evidence>>
    /\ pc' = "record"
    /\ UNCHANGED <<req, todo, credential, prepared, permits, io, portFailed, end>>

(* _execute_ordinary_invoked after close: a control or cancellation of the *)
(* work is raised, an ordinary execution error is an uncertain result      *)
(* whatever close did, and only then does close's own failure count.       *)
CloseOrdinary ==
    /\ pc = "close" /\ Ordinary
    /\ \E how \in {"none", "error", "cancelled"} :
        /\ Release(how)
        /\ Finish(IF pending \in Raised \cup {"uncertain"} \/ how = "none" THEN pending
                  ELSE IF how = "cancelled" THEN how ELSE "uncertain")
    /\ UNCHANGED <<req, todo, credential, prepared, permits, evidence, io, portFailed>>

Acknowledge(outcome) == permits' = [permits EXCEPT ![Len(permits)].outcome = outcome]

(* What the caller of a section makes of how it ended.  An exception of a  *)
(* resolver is a refusal or an uncertain result, by its class.             *)
Continue ==
    CASE pending = "none" ->
            IF Head(todo) = "postgres" /\ ~credential
            THEN /\ credential' = TRUE /\ pc' = "admit"
                 /\ UNCHANGED <<todo, pending, end>>
            ELSE /\ credential' = FALSE /\ todo' = Tail(todo)
                 /\ IF Len(todo) = 1 THEN Stop("succeeded")
                    ELSE pc' = "admit" /\ UNCHANGED <<pending, end>>
      [] pending = "error" ->
            /\ \E kind \in IF Resolving THEN {"failed", "uncertain"} ELSE {"uncertain"} : Stop(kind)
            /\ UNCHANGED <<todo, credential>>
      [] OTHER -> Stop(pending) /\ UNCHANGED <<todo, credential>>

(* Mutant: a failed acknowledgement is ignored.                            *)
FinishIgnoringPort ==
    /\ pc = "record"
    /\ Continue
    /\ IF Invoked(req) /\ pending # "control"
       THEN \/ Acknowledge(IF pending \in {"error", "cancelled"} THEN "unknown" ELSE "returned")
                /\ UNCHANGED portFailed
            \/ portFailed' = TRUE /\ UNCHANGED permits
       ELSE UNCHANGED <<permits, portFailed>>
    /\ UNCHANGED <<req, prepared, evidence, client, directory, io>>

(* _finish: the outcome is acknowledged before the call goes on; a control *)
(* error of the call leaves its permit open; a cancellation goes on even   *)
(* when it cannot be acknowledged.                                         *)
finish ==
    /\ pc = "record"
    /\ \/ /\ ~Invoked(req) \/ pending = "control"
          /\ Continue
          /\ UNCHANGED <<permits, portFailed>>
       \/ /\ Invoked(req) /\ pending # "control"
          /\ Acknowledge(IF pending \in {"error", "cancelled"} THEN "unknown" ELSE "returned")
          /\ Continue
          /\ UNCHANGED portFailed
       \/ /\ Invoked(req) /\ pending # "control"
          /\ portFailed' = TRUE
          /\ Stop(IF pending = "cancelled" THEN "cancelled" ELSE "control")
          /\ UNCHANGED <<permits, todo, credential>>
    /\ UNCHANGED <<req, prepared, evidence, client, directory, io>>

(* Mutant: the finaliser looks for a client instead of a directory.        *)
DelByClient ==
    /\ pc = "done" /\ directory = "present" /\ client = "open"
    /\ directory' = "removed"
    /\ UNCHANGED <<pc, req, todo, credential, prepared, permits, pending, evidence,
                   client, io, portFailed, end>>

(* DockerSdkClient.__del__, and the directory's own finaliser, once the    *)
(* call's frames are gone.                                                 *)
del ==
    /\ pc = "done" /\ directory = "present"
    /\ directory' \in {"removed", "stuck"}
    /\ UNCHANGED <<pc, req, todo, credential, prepared, permits, pending, evidence,
                   client, io, portFailed, end>>

-----------------------------------------------------------------------------

Init ==
    /\ pc = "idle" /\ req = NoRequest
    /\ todo = <<>> /\ credential = FALSE /\ prepared = {} /\ permits = <<>>
    /\ pending = "none" /\ evidence = {}
    /\ client = "none" /\ directory = "none"
    /\ io = [k \in PermitKinds |-> 0]
    /\ portFailed = FALSE /\ end = "none"

Step ==
    \/ SecretRefused \/ CheckRefused \/ admit \/ resolve
    \/ AcquireAmbient \/ AcquireUnix \/ AcquireTls \/ ConnectTls
    \/ RunEffect \/ InspectEndpoints \/ RunCheck
    \/ CloseBound \/ CloseOrdinary \/ finish \/ del

Next == execute \/ Step

Spec == Init /\ [][Next]_vars

(* Every client, resolver and port call returns or raises, and Python runs *)
(* finalisers: a call that began takes its next step.                      *)
FairSpec == Spec /\ WF_vars(Step)

-----------------------------------------------------------------------------
(* Properties.                                                             *)

PermitCount(k) == Cardinality({i \in 1..Len(permits) : permits[i].kind = k})

(* The client is closed, or its close attempted, on every way out of the   *)
(* call: result, control error or cancellation.  Its TLS material is gone  *)
(* too unless a cancellation interrupted the client.                       *)
ReleasedOnEveryPath ==
    pc = "done" => /\ client # "open"
                   /\ directory = "present" => end = "cancelled" \/ client = "unclosed"

(* When the release of the client is uncertain, a returned result says so  *)
(* and claims no completion or receipt.                                    *)
UncertainReleaseReported ==
    end \in Results /\ (client = "unclosed" \/ directory = "stuck") =>
        end = "uncertain" /\ evidence \cap Receipts = {}

(* A client acquired for one call is released however the call ends, and a *)
(* release that is uncertain is not hidden behind the work's result.       *)
ClientReleased == ReleasedOnEveryPath /\ UncertainReleaseReported

(* A success was acknowledged by the port step by step, no permit of it    *)
(* open or unknown; and once the port has refused an admission or an       *)
(* acknowledgement the call returns no result: no except clause on the way *)
(* turns the port's control error into an ordinary failure.                *)
OutcomeAcknowledged ==
    /\ end = "succeeded" => \A i \in 1..Len(permits) : permits[i].outcome = "returned"
    /\ portFailed /\ pc = "done" => end \in Raised

(* Nothing touches a resolver, a Docker client or a checked service unless *)
(* a permit of the matching kind was admitted for it first; a crash leaves *)
(* no provider call the port does not know of.                             *)
IoAdmitted ==
    req # NoRequest /\ Invoked(req) =>
        /\ io["secret-resolution"] <= PermitCount("secret-resolution")
        /\ io["ordinary-verification-check"] <= PermitCount("ordinary-verification-check")
        /\ io["prepared-runtime-dispatch"] > 0 => PermitCount("prepared-runtime-dispatch") = 1
        /\ io["ordinary-verification-acquisition"] <= PermitCount("ordinary-verification-acquisition")

(* Admissions do not nest or overlap: an unacknowledged permit is the last *)
(* the call asked for.  In particular a dispatched effect resolves no      *)
(* secret of its own.                                                      *)
OpenPermitIsLast ==
    \A i \in 1..Len(permits) : permits[i].outcome = "open" => i = Len(permits)

(* What the port has on record, also after a crash, is what was done: each *)
(* provider call under a permit of its own, one at a time.                 *)
PermitsCoverIo == IoAdmitted /\ OpenPermitIsLast

(* A directory made for TLS material does not stay on disk: the failing    *)
(* acquisition, the release or the finaliser removes it.  Only a removal   *)
(* the file system refuses leaves it, which nothing tries again; the       *)
(* caller then gets no definite result.                                    *)
TlsMaterialRemoved ==
    directory = "present" ~>
        \/ directory = "removed"
        \/ directory = "stuck" /\ pc = "done" /\ end \in Raised \cup {"uncertain"}

=============================================================================
