----------------------------- MODULE HealthRead -----------------------------
(***************************************************************************)
(* One signed read through a gateway.                                      *)
(*                                                                         *)
(*   "gateway"  DockerManagedHealthReader.observe through the public       *)
(*              gateway: selection, signing, DNS, one POST                 *)
(*   "local"    the same through the runtime-private gateway: no DNS       *)
(*   "probe"    SignedGatewayProbeClient.dispatch: synchronous, without    *)
(*              permits, deadline or window check                          *)
(*                                                                         *)
(* Two clocks run under a read: the wall clock, which the grants' validity *)
(* window is compared with and which may be set, and the event loop's,     *)
(* which the deadline is compared with.  The reader is suspended at every  *)
(* await, where its deadline may expire and its task may be cancelled.     *)
(*                                                                         *)
(* httpx has a third clock: its timeout is of one operation on the socket  *)
(* and starts again with every byte that arrives.  It is all the probe has *)
(* against a gateway that is slow.                                         *)
(***************************************************************************)
EXTENDS Naturals, Sequences

CONSTANTS
    MaxWall,              \* bound: the wall clock's readings are 0..MaxWall
    NotBefore, ExpiresAt, \* the window both grants share
    Timeout,              \* timeout_seconds
    MaxBody,              \* MAX_NODE_HEALTH_READ_RESULT_BYTES, in chunks
    MaxChunk              \* bound: the largest chunk

ASSUME HealthAssumption ==
    /\ MaxWall \in Nat /\ NotBefore \in Nat /\ ExpiresAt \in Nat
    /\ Timeout \in Nat \ {0} /\ MaxBody \in Nat /\ MaxChunk \in Nat \ {0}

VARIABLES
    task,     \* which of the three reads
    ported,   \* an invocation port is configured
    wall,     \* the wall clock
    elapsed,  \* event loop time since the deadline was set
    expired,  \* the deadline's cancellation has been delivered
    cancelled,\* history: the task was cancelled from outside
    pc,
    stage,    \* signing: number of finished steps
    permits,  \* the outcome recorded for each permit
    open,     \* connections that are open: the client's, the response's
    silent,   \* nothing has arrived since the current socket operation began
    status,   \* what the gateway answered
    body,     \* length of the body read so far
    pending,  \* the outcome dispatch is leaving with
    result,
    sent,     \* history: the clocks at each credential-bearing send
    readAt    \* history: event loop time at which the body had been read

vars == <<task, ported, wall, elapsed, expired, cancelled, pc, stage, permits, open, silent,
          status, body, pending, result, sent, readAt>>

Signing ==
    IF task = "probe" THEN <<"key", "token">>
    ELSE <<"transit-key", "workload-key", "transit-token", "workload-token">>

Keys == {"key", "transit-key", "workload-key"}
Permits == {"transit-key", "workload-key", "transport"}

Managed == task # "probe"
Late == Managed /\ elapsed >= Timeout

(* The validity window; the probe client leaves it to the gateway.         *)
window == NotBefore <= wall /\ wall < ExpiresAt
Valid == Managed => window

-----------------------------------------------------------------------------
(* How a step ends.                                                        *)

Time == <<task, ported, wall, elapsed, expired, cancelled>>
Wire == <<open, silent, status, body, sent, readAt>>

(* observe ends before it has a connection.                                *)
End(code) == pc' = "done" /\ result' = code /\ UNCHANGED <<stage, pending>>

Goto(label) == pc' = label /\ UNCHANGED <<stage, pending, result>>

(* dispatch returns or raises: its context managers are left first.        *)
Leave(code) == pc' = "exit" /\ pending' = code /\ UNCHANGED <<stage, result>>

(* The deadline check after the result has been computed.                  *)
LeaveInTime(code) == Leave(IF Late THEN "TIMED_OUT" ELSE code)

Unsigned == IF Managed THEN "INVALID_CONTEXT" ELSE "raised"

-----------------------------------------------------------------------------
(* Selection, checked before any key is resolved.                          *)

Select ==
    /\ pc = "select"
    /\ \/ Goto(IF Managed THEN "sign" ELSE "authorize")
       \/ End(IF Managed THEN "REFUSED" ELSE "raised")
       \/ ~ported /\ End("raised")  \* a required port is missing
    /\ UNCHANGED <<Time, permits, Wire>>

(* The probe's address is authorised before its key is resolved, for a     *)
(* public name with an answer of the synchronous resolver it was given.    *)
AuthorizeProbe ==
    /\ pc = "authorize"
    /\ Goto("sign") \/ End("raised")
    /\ UNCHANGED <<Time, permits, Wire>>

(* Both grants are verified, then each key is resolved under a permit of   *)
(* its own.                                                                *)
ResolveKey ==
    /\ pc = "sign" /\ stage < Len(Signing) /\ Signing[stage + 1] \in Keys
    /\ \/ /\ stage = 0 /\ End(Unsigned) /\ UNCHANGED permits
       \/ /\ stage > 0 \/ Valid
          /\ \/ Goto("resolving")
                /\ permits' = IF ported /\ Managed
                              THEN [permits EXCEPT ![Signing[stage + 1]] = "open"] ELSE permits
             \/ ported /\ Managed /\ End("control") /\ UNCHANGED permits
    /\ UNCHANGED <<Time, Wire>>

(* The permit's outcome is recorded and the window is checked again.  A    *)
(* control error of the port passes through and records nothing.           *)
KeyResolved ==
    LET key == Signing[stage + 1]
        recorded(outcome) == IF ported /\ Managed THEN [permits EXCEPT ![key] = outcome] ELSE permits
    IN
    /\ pc = "resolving"
    /\ \/ /\ permits' = recorded("returned")
          /\ IF Valid THEN pc' = "sign" /\ stage' = stage + 1 /\ UNCHANGED <<pending, result>>
                      ELSE End(Unsigned)
       \/ permits' = recorded("unknown") /\ End(Unsigned)
       \/ ported /\ Managed /\ permits' = recorded("unacknowledged") /\ End("control")
       \/ ported /\ Managed /\ UNCHANGED permits /\ End("control")
    /\ UNCHANGED <<Time, Wire>>

Encode ==
    /\ pc = "sign" /\ stage < Len(Signing) /\ Signing[stage + 1] \notin Keys
    /\ \/ Valid /\ pc' = "sign" /\ stage' = stage + 1 /\ UNCHANGED <<pending, result>>
       \/ End(Unsigned)
    /\ UNCHANGED <<Time, permits, Wire>>

(* The signed pair is dispatched under the third permit.                   *)
AdmitTransport ==
    /\ pc = "sign" /\ stage = Len(Signing)
    /\ \/ /\ Goto(IF Managed THEN "dispatch" ELSE "send")
          /\ permits' = IF ported /\ Managed THEN [permits EXCEPT !["transport"] = "open"] ELSE permits
       \/ ported /\ Managed /\ End("control") /\ UNCHANGED permits
    /\ UNCHANGED <<Time, Wire>>

-----------------------------------------------------------------------------
(* dispatch.                                                               *)

(* Selection, pair, window and destination are checked once more.          *)
Dispatch ==
    /\ pc = "dispatch"
    /\ \/ Valid /\ Goto(IF task = "gateway" THEN "dns" ELSE "send")
       \/ Leave("INVALID_CONTEXT")
       \/ task = "gateway" /\ \E code \in {"DESTINATION_REJECTED", "REFUSED"} : Leave(code)
    /\ UNCHANGED <<Time, permits, Wire>>

(* The resolver answers.                                                   *)
Resolved ==
    /\ pc = "dns"
    /\ IF Late THEN Leave("TIMED_OUT") \/ Leave("DESTINATION_REJECTED")
       ELSE Goto("send") \/ \E code \in {"DESTINATION_REJECTED", "TIMED_OUT"} : Leave(code)
    /\ UNCHANGED <<Time, permits, Wire>>

(* Mutant: the window is not checked again after the DNS answer.           *)
SendUnchecked ==
    /\ pc = "send"
    /\ open' = {"client"}
    /\ IF Late THEN Leave("TIMED_OUT") /\ UNCHANGED sent
       ELSE Goto("connect") /\ sent' = Append(sent, [wall |-> wall, elapsed |-> elapsed])
    /\ UNCHANGED <<Time, permits, silent, status, body, readAt>>

(* The request is built, window and deadline are checked, and it is handed *)
(* to httpx, which connects before it writes.                              *)
Send ==
    /\ pc = "send"
    /\ \/ /\ ~Late /\ task = "gateway"  \* the body is larger than the relay accepts
          /\ Leave("INVALID_CONTEXT") /\ UNCHANGED <<open, sent>>
       \/ /\ open' = {"client"}
          /\ IF ~Valid THEN Leave("INVALID_CONTEXT") /\ UNCHANGED sent
             ELSE IF Late THEN Leave("TIMED_OUT") /\ UNCHANGED sent
             ELSE Goto("connect") /\ sent' = Append(sent, [wall |-> wall, elapsed |-> elapsed])
    /\ UNCHANGED <<Time, permits, silent, status, body, readAt>>

(* Connection and TLS are up; the credentials leave now.                   *)
Connected ==
    /\ pc = "connect"
    /\ Goto("response")
    /\ silent' = FALSE
    /\ UNCHANGED <<Time, permits, open, status, body, sent, readAt>>

(* What a status other than success means.                                 *)
Rejection(answer) ==
    CASE answer = "refused"     -> IF Managed THEN "GATEWAY_REJECTED" ELSE "REJECTED"
      [] answer = "timeout"     -> IF Managed THEN "TIMED_OUT" ELSE "TRANSPORT_FAILED"
      [] answer = "error"       -> "TRANSPORT_FAILED"
      [] answer = "unexpected"  -> "MALFORMED_RESPONSE"

Answers == {"ok", "refused", "timeout", "error", "unexpected"}

(* The gateway's status arrives.  The probe client reads every body.       *)
Respond ==
    /\ pc = "response"
    /\ \E answer \in Answers :
        /\ status' = answer
        /\ IF answer = "ok" \/ ~Managed THEN Goto("body") ELSE LeaveInTime(Rejection(answer))
    /\ open' = open \cup {"response"} /\ silent' = FALSE
    /\ UNCHANGED <<Time, permits, body, sent, readAt>>

OnSocket == pc \in {"connect", "response", "body"}

(* Leaving the context managers closes the response, then the client.  A   *)
(* close that is interrupted or fails is not tried again.                  *)
Closing == pc = "exit" /\ open # {}
Closed == IF "response" \in open THEN {"client"} ELSE {}
CloseAbandoned == open' = IF Closing THEN Closed ELSE open

(* The connection fails, also while it is closed: the error then takes the *)
(* place of the outcome, a cancellation included.                          *)
Break ==
    /\ OnSocket \/ Closing
    /\ Leave("TRANSPORT_FAILED") \/ (~Managed /\ Leave("raised"))
    /\ CloseAbandoned
    /\ UNCHANGED <<Time, permits, silent, status, body, sent, readAt>>

(* Time passes on a socket on which nothing arrives.                       *)
Silence ==
    /\ OnSocket /\ ~silent
    /\ silent' = TRUE
    /\ UNCHANGED <<Time, pc, stage, permits, open, status, body, pending, result, sent, readAt>>

(* Bytes that are no part of an answer: of headers or an informational     *)
(* response; or, since only the probe accepts and decodes a compressed     *)
(* body, bytes of one that decode to nothing.                              *)
Trickle ==
    /\ pc = "response" \/ (pc = "body" /\ ~Managed)
    /\ silent
    /\ silent' = FALSE
    /\ UNCHANGED <<Time, pc, stage, permits, open, status, body, pending, result, sent, readAt>>

(* httpx gives up on one silent operation.                                 *)
ReadTimesOut ==
    /\ OnSocket /\ silent
    /\ Leave("TIMED_OUT")
    /\ UNCHANGED <<Time, permits, Wire>>

(* A chunk of the body, decoded for the probe.  The health client measures *)
(* before it appends.                                                      *)
Chunk ==
    /\ pc = "body"
    /\ \E n \in 1..MaxChunk :
        IF body + n > MaxBody
        THEN LeaveInTime("OVERSIZED_RESPONSE") /\ body' = IF Managed THEN body ELSE body + n
        ELSE Goto("body") /\ body' = body + n
    /\ silent' = FALSE
    /\ UNCHANGED <<Time, permits, open, status, sent, readAt>>

(* Mutant: the deadline is not checked after the body.                     *)
BodyEndsWhenever ==
    /\ pc = "body"
    /\ readAt' = elapsed
    /\ Leave("RECEIVED") \/ Leave("MALFORMED_RESPONSE")
    /\ UNCHANGED <<Time, permits, open, silent, status, body, sent>>

(* The body is complete and is decoded; the probe client looks at the      *)
(* status only now.                                                        *)
BodyEnds ==
    /\ pc = "body"
    /\ readAt' = elapsed
    /\ IF status # "ok" THEN Leave(Rejection(status))
       ELSE LeaveInTime(IF Managed THEN "RECEIVED" ELSE "SUCCEEDED") \/ LeaveInTime("MALFORMED_RESPONSE")
    /\ UNCHANGED <<Time, permits, open, silent, status, body, sent>>

-----------------------------------------------------------------------------
(* Interruptions of a suspended reader, and the way out.                   *)

(* Leaving the response and the client awaits them.                        *)
Suspended == Managed /\ (pc = "dns" \/ OnSocket \/ Closing)

(* Mutant: the deadline's scope begins after the DNS answer.               *)
ExpireAfterDns ==
    /\ Suspended /\ Late /\ ~expired /\ pc # "dns"
    /\ Leave(IF pending = "cancelled" THEN "cancelled" ELSE "TIMED_OUT")
    /\ expired' = TRUE
    /\ CloseAbandoned
    /\ UNCHANGED <<task, ported, wall, elapsed, cancelled, permits, silent, status, body, sent, readAt>>

(* asyncio.timeout_at: the deadline's one cancellation becomes             *)
(* TimeoutError, unless the task was cancelled from outside as well.       *)
Expire ==
    /\ Suspended /\ Late /\ ~expired
    /\ Leave(IF pending = "cancelled" THEN "cancelled" ELSE "TIMED_OUT")
    /\ expired' = TRUE
    /\ CloseAbandoned
    /\ UNCHANGED <<task, ported, wall, elapsed, cancelled, permits, silent, status, body, sent, readAt>>

Cancel ==
    /\ Suspended
    /\ Leave("cancelled")
    /\ cancelled' = TRUE
    /\ CloseAbandoned
    /\ UNCHANGED <<task, ported, wall, elapsed, expired, permits, silent, status, body, sent, readAt>>

(* The response, or the client after it, is closed.                        *)
CloseConnection ==
    /\ Closing
    /\ open' = Closed
    /\ UNCHANGED <<Time, pc, stage, permits, silent, status, body, pending, result, sent, readAt>>

(* Mutant: a cancelled read is acknowledged as a returned one.             *)
ExitReturned ==
    /\ pc = "exit" /\ open = {}
    /\ permits' = IF ported /\ Managed THEN [permits EXCEPT !["transport"] = "returned"] ELSE permits
    /\ pc' = "done" /\ result' = pending /\ UNCHANGED <<stage, pending>>
    /\ UNCHANGED <<Time, Wire>>

(* Everything is closed and the transport permit's outcome recorded.  The  *)
(* acknowledgement of a cancelled call may fail silently; of another one   *)
(* the failure replaces the result.                                        *)
Exit ==
    /\ pc = "exit" /\ open = {}
    /\ \/ /\ permits' = IF ported /\ Managed
                        THEN [permits EXCEPT !["transport"] =
                                IF pending = "cancelled" THEN "unknown" ELSE "returned"]
                        ELSE permits
          /\ pc' = "done" /\ result' = pending
       \/ /\ ported /\ Managed
          /\ permits' = [permits EXCEPT !["transport"] = "unacknowledged"]
          /\ pc' = "done" /\ result' = IF pending = "cancelled" THEN "cancelled" ELSE "control"
    /\ UNCHANGED <<Time, stage, pending, Wire>>

-----------------------------------------------------------------------------
(* The clocks.                                                             *)

Tick ==
    /\ pc \in {"dns", "send", "connect", "response", "body", "exit"} /\ Managed /\ ~Late
    /\ elapsed' = elapsed + 1
    /\ UNCHANGED <<task, ported, wall, expired, cancelled, pc, stage, permits, pending, result, Wire>>

WallMoves ==
    /\ pc # "done"
    /\ wall' \in (0..MaxWall) \ {wall}
    /\ UNCHANGED <<task, ported, elapsed, expired, cancelled, pc, stage, permits, pending, result, Wire>>

Init ==
    /\ task \in {"gateway", "local", "probe"} /\ ported \in BOOLEAN
    /\ wall \in 0..MaxWall /\ elapsed = 0 /\ expired = FALSE /\ cancelled = FALSE
    /\ pc = "select" /\ stage = 0
    /\ permits = [p \in Permits |-> "none"]
    /\ open = {} /\ silent = FALSE /\ status = "none" /\ body = 0
    /\ pending = "none" /\ result = "none"
    /\ sent = <<>> /\ readAt = 0

(* The reader's own steps, none of which waits for anyone: closing aborts  *)
(* a connection.                                                           *)
Step ==
    \/ Select \/ ResolveKey \/ Encode \/ AdmitTransport \/ Dispatch \/ Send
    \/ CloseConnection \/ Exit

(* Calls of the probe's address resolver and of the secret resolver.  They *)
(* are synchronous and nothing here interrupts them.                       *)
Callee == AuthorizeProbe \/ KeyResolved

(* What the gateway and the health client's resolver do, if anything.      *)
Peer == Resolved \/ Connected \/ Respond \/ Break \/ Trickle \/ Chunk \/ BodyEnds

Next == Step \/ Callee \/ Peer \/ Silence \/ ReadTimesOut \/ Expire \/ Cancel \/ Tick \/ WallMoves

(* The resolvers a reader is given return or raise; clocks run and timers  *)
(* that are due fire.  Nothing is assumed of Peer, and httpx's timeout is  *)
(* only due while the socket stays silent.                                 *)
Fairness ==
    /\ WF_vars(Step) /\ WF_vars(Callee)
    /\ WF_vars(Silence) /\ WF_vars(ReadTimesOut)
    /\ WF_vars(Expire) /\ WF_vars(Tick)

Spec == Init /\ [][Next]_vars /\ Fairness

-----------------------------------------------------------------------------
(* Properties.                                                             *)

Codes == {"none", "raised", "control", "cancelled", "REFUSED", "INVALID_CONTEXT",
          "DESTINATION_REJECTED", "GATEWAY_REJECTED", "REJECTED", "TIMED_OUT", "TRANSPORT_FAILED",
          "MALFORMED_RESPONSE", "OVERSIZED_RESPONSE", "RECEIVED", "SUCCEEDED"}

(* The values every variable may take.                                     *)
TypeOK ==
    /\ task \in {"gateway", "local", "probe"} /\ ported \in BOOLEAN
    /\ wall \in 0..MaxWall /\ elapsed \in 0..Timeout
    /\ expired \in BOOLEAN /\ cancelled \in BOOLEAN /\ silent \in BOOLEAN
    /\ pc \in {"select", "authorize", "sign", "resolving", "dispatch", "dns", "send", "connect",
               "response", "body", "exit", "done"}
    /\ stage \in 0..Len(Signing)
    /\ permits \in [Permits -> {"none", "open", "returned", "unknown", "unacknowledged"}]
    /\ open \subseteq {"client", "response"}
    /\ status \in Answers \cup {"none"}
    /\ body \in Nat
    /\ pending \in Codes /\ result \in Codes
    /\ sent \in Seq([wall: 0..MaxWall, elapsed: 0..Timeout])
    /\ readAt \in 0..Timeout

(* A managed read hands its credentials to the connection at most once,    *)
(* inside the validity window of the grants and before its deadline,       *)
(* however long the keys and the DNS answer took and however the wall      *)
(* clock was set meanwhile.  Once the connection is up they leave; the     *)
(* deadline covers that wait, the window is not looked at again.           *)
SentOnceInWindow ==
    /\ Len(sent) <= 1
    /\ Managed => \A i \in DOMAIN sent :
            /\ NotBefore <= sent[i].wall /\ sent[i].wall < ExpiresAt
            /\ sent[i].elapsed < Timeout

(* RECEIVED is only said of a whole answer that was within the size limit  *)
(* and had been read before the deadline; INVALID_CONTEXT and              *)
(* DESTINATION_REJECTED are only said when nothing was sent.               *)
CodesTrue ==
    /\ result = "RECEIVED" => status = "ok" /\ body <= MaxBody /\ readAt < Timeout
    /\ result \in {"REFUSED", "INVALID_CONTEXT", "DESTINATION_REJECTED"} => sent = <<>>

(* However a read ends, cancelled included, the response and the client    *)
(* were both left, even when closing the first failed or was interrupted,  *)
(* and a permit without an outcome is reported by a control error.  A read *)
(* that ends cancelled is never acknowledged as one that returned.         *)
ReadSettled ==
    pc = "done" =>
        /\ open = {}
        /\ \A p \in Permits : permits[p] = "open" => result = "control"
        /\ result = "cancelled" => permits["transport"] \in {"none", "unknown", "unacknowledged"}
        /\ \A p \in Permits : permits[p] = "unacknowledged" => result \in {"control", "cancelled"}

(* "CancelledError propagates": a read whose task was cancelled ends as    *)
(* cancelled.                                                              *)
CancellationPropagates == pc = "done" /\ cancelled => result = "cancelled"

(* Every managed read ends, although neither the resolver nor the gateway  *)
(* has to answer and bytes may keep arriving: the deadline covers every    *)
(* await.  The probe has no deadline; it ends too, by a silent socket's    *)
(* timeout or by the size limit, unless the gateway keeps sending bytes    *)
(* for ever that are no part of an answer, which neither of them sees.     *)
EveryReadEnds == <>(pc = "done") \/ (~Managed /\ []<><<Trickle>>_vars)
=============================================================================
