-------------------------- MODULE HealthReadProofs --------------------------
(***************************************************************************)
(* The safety properties of a signed read, for every window, deadline,     *)
(* size limit and clock.                                                   *)
(***************************************************************************)
EXTENDS HealthRead, TLAPS

Before == {"select", "authorize", "sign", "resolving", "dispatch", "dns", "send"}
NotSent == {"REFUSED", "INVALID_CONTEXT", "DESTINATION_REJECTED"}
UnderTransport == {"dispatch", "dns", "send", "connect", "response", "body", "exit"}

(* What a step relies on from the one before it.                           *)
Positions ==
    /\ pc = "resolving" => stage < Len(Signing) /\ Signing[stage + 1] \in Keys
    /\ pc = "body" => status \in Answers

(* Nothing is sent, opened or decided before the request goes out.         *)
SendsLast ==
    /\ pc \in Before => sent = <<>> /\ open = {} /\ pending = "none"
    /\ pc = "exit" /\ pending \in NotSent => sent = <<>>
    /\ pc = "done" /\ result \in NotSent => sent = <<>>
    /\ pc \in {"connect", "response", "body"} => pending = "none"
    /\ pc # "done" => result = "none"
    /\ pc = "done" => open = {}

(* What the outcome a read is leaving with says of its answer.             *)
Whole(code) == code = "RECEIVED" => status = "ok" /\ body <= MaxBody /\ readAt < Timeout

AnswerKept ==
    /\ pc \in Before \cup {"connect", "response"} => body = 0
    /\ pc = "body" => body <= MaxBody
    /\ pc = "exit" => Whole(pending)
    /\ pc = "done" => Whole(result)

(* Which permits may be open at which step.                                *)
PermitsInOrder ==
    /\ ~(ported /\ Managed) => \A p \in Permits : permits[p] = "none"
    /\ \A p \in Permits : permits[p] = "open" =>
            \/ pc = "resolving" /\ p = Signing[stage + 1]
            \/ p = "transport" /\ pc \in UnderTransport
            \/ pc = "done" /\ result = "control"
    /\ \A p \in Permits : permits[p] = "unacknowledged" =>
            pc = "done" /\ result \in {"control", "cancelled"}
    /\ pc \in UnderTransport => permits["transport"] \in {"none", "open"}
    /\ pc = "done" /\ result = "cancelled" =>
            permits["transport"] \in {"none", "unknown", "unacknowledged"}

HealthInv ==
    /\ TypeOK
    /\ Positions
    /\ SentOnceInWindow
    /\ SendsLast
    /\ AnswerKept
    /\ PermitsInOrder

-----------------------------------------------------------------------------
(* The two signing programs, step by step.                                 *)
LEMMA SigningSteps ==
    /\ Managed => /\ Len(Signing) = 4
                  /\ Signing[1] = "transit-key" /\ Signing[2] = "workload-key"
                  /\ Signing[3] = "transit-token" /\ Signing[4] = "workload-token"
    /\ ~Managed => Len(Signing) = 2 /\ Signing[1] = "key" /\ Signing[2] = "token"
BY DEF Managed, Signing

(* A read stays the read it is.                                            *)
LEMMA Steady ==
    ASSUME [Next]_vars
    PROVE  task' = task /\ ported' = ported /\ Signing' = Signing /\ (Managed' <=> Managed)
<1>1. task' = task /\ ported' = ported
    BY DEF Next, Step, Callee, Peer, Select, AuthorizeProbe, ResolveKey, KeyResolved, Encode,
         AdmitTransport, Dispatch, Resolved, Send, Connected, Respond, Break, Silence, Trickle,
         ReadTimesOut, Chunk, BodyEnds, Expire, Cancel, CloseConnection, Exit, Tick, WallMoves,
         Time, vars
<1> QED
  BY <1>1 DEF Signing, Managed

(* A status other than success is never taken for an answer, for a         *)
(* cancellation or for a request that was not sent.                        *)
LEMMA RejectionCodes ==
    ASSUME NEW answer \in Answers, answer # "ok"
    PROVE  Rejection(answer) \in {"GATEWAY_REJECTED", "REJECTED", "TIMED_OUT", "TRANSPORT_FAILED",
                                  "MALFORMED_RESPONSE"}
BY DEF Answers, Rejection

(* A sequence extended by one more of its elements.                        *)
LEMMA Appended ==
    ASSUME NEW S, NEW seq \in Seq(S), NEW e \in S
    PROVE  Append(seq, e) \in Seq(S)
OBVIOUS

(* Types.                                                                  *)
LEMMA TypeNext ==
    ASSUME TypeOK, Positions, [Next]_vars
    PROVE  TypeOK'
<1> USE HealthAssumption, SigningSteps, Steady DEF TypeOK, Codes, Permits, Keys, Time, Wire,
       End, Goto, Leave, LeaveInTime, Unsigned, Suspended, Late, OnSocket, Closing, Closed, CloseAbandoned
<1>1. CASE Select
  BY <1>1 DEF Select
<1>2. CASE ResolveKey
  <2>1. pc' \in {"resolving", "done"} /\ stage' = stage /\ pending' = pending /\ result' \in Codes
    BY <1>2 DEF ResolveKey
  <2>2. permits' \in [Permits -> {"none", "open", "returned", "unknown", "unacknowledged"}]
    BY <1>2 DEF ResolveKey
  <2>3. UNCHANGED <<Time, Wire>>
    BY <1>2 DEF ResolveKey
  <2> QED
    BY <2>1, <2>2, <2>3
<1>3. CASE KeyResolved
  <2>1. stage + 1 \in 1..Len(Signing) /\ Signing[stage + 1] \in Keys
    BY <1>3 DEF KeyResolved, Positions
  <2>2. Managed => stage + 1 \in {1, 2}
    <3> SUFFICES ASSUME Managed PROVE stage + 1 \in {1, 2}
      OBVIOUS
    <3>1. Len(Signing) = 4
      BY SigningSteps
    <3> HIDE SigningSteps, Steady
    <3>2. stage \in 0..4 /\ stage + 1 \in 1..4
      BY <2>1, <3>1
    <3>3. stage + 1 = 1 \/ stage + 1 = 2 \/ stage + 1 = 3 \/ stage + 1 = 4
      BY <3>2
    <3> QED
      BY <2>1, <3>3, SigningSteps
  <2>3. Managed => Signing[stage + 1] \in Permits
    BY <2>2
  <2>4. permits' \in [Permits -> {"none", "open", "returned", "unknown", "unacknowledged"}]
    BY <1>3, <2>3 DEF KeyResolved
  <2>5. stage' \in 0..Len(Signing')
    <3>1. stage' = stage \/ stage' = stage + 1
      BY <1>3 DEF KeyResolved
    <3> QED
      BY <2>1, <3>1
  <2>6. pc' \in {"sign", "done"} /\ pending' = pending /\ result' \in Codes
    BY <1>3 DEF KeyResolved
  <2>7. UNCHANGED <<Time, Wire>>
    BY <1>3 DEF KeyResolved
  <2> QED
    BY <2>4, <2>5, <2>6, <2>7
<1>4. CASE Encode
  BY <1>4 DEF Encode
<1>5. CASE AdmitTransport
  BY <1>5 DEF AdmitTransport
<1>6. CASE Dispatch
  BY <1>6 DEF Dispatch
<1>7. CASE Send
  <2>1. [wall |-> wall, elapsed |-> elapsed] \in [wall: 0..MaxWall, elapsed: 0..Timeout]
    OBVIOUS
  <2>2. sent' \in Seq([wall: 0..MaxWall, elapsed: 0..Timeout])
    <3>1. sent' = sent \/ sent' = Append(sent, [wall |-> wall, elapsed |-> elapsed])
      BY <1>7 DEF Send
    <3>2. Append(sent, [wall |-> wall, elapsed |-> elapsed])
            \in Seq([wall: 0..MaxWall, elapsed: 0..Timeout])
      <4> DEFINE S == [wall: 0..MaxWall, elapsed: 0..Timeout]
                 e == [wall |-> wall, elapsed |-> elapsed]
      <4>1. sent \in Seq(S) /\ e \in S
        BY <2>1
      <4> HIDE DEF S, e
      <4>2. Append(sent, e) \in Seq(S)
        BY <4>1, Appended
      <4> QED
        BY <4>2 DEF S, e
    <3> QED
      BY <3>1, <3>2
  <2>3. pc' \in {"exit", "connect"} /\ stage' = stage /\ result' = result /\ pending' \in Codes
    BY <1>7 DEF Send
  <2>4. open' \subseteq {"client", "response"}
    BY <1>7 DEF Send
  <2>5. UNCHANGED <<Time, permits, silent, status, body, readAt>>
    BY <1>7 DEF Send
  <2> QED
    BY <2>2, <2>3, <2>4, <2>5
<1>8. CASE Exit
  BY <1>8 DEF Exit
<1>9. CASE Resolved
  BY <1>9 DEF Resolved
<1>10. CASE Respond
  <2>1. PICK answer \in Answers :
            /\ status' = answer
            /\ IF answer = "ok" \/ ~Managed THEN Goto("body") ELSE LeaveInTime(Rejection(answer))
    BY <1>10 DEF Respond
  <2>2. answer # "ok" => Rejection(answer) \in Codes
    BY RejectionCodes
  <2>3. pc' \in {"body", "exit"} /\ stage' = stage /\ result' = result /\ pending' \in Codes
    BY <2>1, <2>2
  <2>4. open' \subseteq {"client", "response"} /\ UNCHANGED <<Time, permits, body, sent, readAt>>
    BY <1>10 DEF Respond
  <2>5. silent' \in BOOLEAN
    BY <1>10, Zenon DEF Respond
  <2> QED
    BY <2>1, <2>3, <2>4, <2>5
<1>11. CASE Break
  BY <1>11 DEF Break
<1>12. CASE Chunk
  <2>1. PICK n \in 1..MaxChunk :
            IF body + n > MaxBody
            THEN LeaveInTime("OVERSIZED_RESPONSE") /\ body' = IF Managed THEN body ELSE body + n
            ELSE Goto("body") /\ body' = body + n
    BY <1>12 DEF Chunk
  <2>2. body' \in Nat
    BY <2>1
  <2>3. pc' \in {"exit", "body"} /\ stage' = stage /\ result' = result /\ pending' \in Codes
    BY <2>1
  <2> QED
    BY <1>12, <2>2, <2>3 DEF Chunk
<1>13. CASE BodyEnds
  <2>1. CASE status # "ok"
    <3>1. Rejection(status) \in Codes
      BY <1>13, <2>1, RejectionCodes DEF BodyEnds, Positions
    <3> QED
      BY <1>13, <2>1, <3>1 DEF BodyEnds
  <2>2. CASE status = "ok"
    BY <1>13, <2>2 DEF BodyEnds
  <2> QED
    BY <2>1, <2>2
<1>14. CASE ReadTimesOut
  BY <1>14 DEF ReadTimesOut
<1>15. CASE Expire
  BY <1>15 DEF Expire
<1>16. CASE Cancel
  BY <1>16 DEF Cancel
<1>17. CASE Tick
  BY <1>17 DEF Tick
<1>18. CASE WallMoves
  BY <1>18 DEF WallMoves
<1>19. CASE UNCHANGED vars
  BY <1>19 DEF vars
<1>20. CASE AuthorizeProbe
  BY <1>20 DEF AuthorizeProbe
<1>21. CASE Connected
  <2>1. silent' \in BOOLEAN
    BY <1>21, Zenon DEF Connected
  <2> QED
    BY <1>21, <2>1 DEF Connected
<1>22. CASE Silence
  BY <1>22 DEF Silence
<1>23. CASE Trickle
  <2>1. silent' \in BOOLEAN
    BY <1>23, Zenon DEF Trickle
  <2> QED
    BY <1>23, <2>1 DEF Trickle
<1>24. CASE CloseConnection
  BY <1>24 DEF CloseConnection
<1> QED
    BY <1>1, <1>2, <1>3, <1>4, <1>5, <1>6, <1>7, <1>8, <1>9, <1>10, <1>11, <1>12, <1>13, <1>14,
     <1>15, <1>16, <1>17, <1>18, <1>19, <1>20, <1>21, <1>22, <1>23, <1>24
     DEF Next, Step, Callee, Peer

(* Keys are resolved in their turn, and a body follows a status.           *)
LEMMA PositionsNext ==
    ASSUME TypeOK, Positions, [Next]_vars
    PROVE  Positions'
<1> USE HealthAssumption, SigningSteps, Steady DEF TypeOK, Positions, Keys, Time, Wire, End,
       Goto, Leave, LeaveInTime, Unsigned, Suspended, Late, OnSocket, Closing, Closed, CloseAbandoned
<1>1. CASE Select
  BY <1>1 DEF Select
<1>2. CASE ResolveKey
  BY <1>2 DEF ResolveKey
<1>3. CASE KeyResolved
  BY <1>3 DEF KeyResolved
<1>4. CASE Encode
  BY <1>4 DEF Encode
<1>5. CASE AdmitTransport
  BY <1>5 DEF AdmitTransport
<1>6. CASE Dispatch
  BY <1>6 DEF Dispatch
<1>7. CASE Send
  BY <1>7 DEF Send
<1>8. CASE Exit
  BY <1>8 DEF Exit
<1>9. CASE Resolved
  BY <1>9 DEF Resolved
<1>10. CASE Respond
  BY <1>10 DEF Respond, Answers
<1>11. CASE Break
  BY <1>11 DEF Break
<1>12. CASE Chunk
  BY <1>12 DEF Chunk
<1>13. CASE BodyEnds
  BY <1>13 DEF BodyEnds
<1>14. CASE ReadTimesOut
  BY <1>14 DEF ReadTimesOut
<1>15. CASE Expire
  BY <1>15 DEF Expire
<1>16. CASE Cancel
  BY <1>16 DEF Cancel
<1>17. CASE Tick
  BY <1>17 DEF Tick, Answers
<1>18. CASE WallMoves
  BY <1>18 DEF WallMoves
<1>19. CASE UNCHANGED vars
  BY <1>19 DEF vars
<1>20. CASE AuthorizeProbe
  BY <1>20 DEF AuthorizeProbe
<1>21. CASE Connected
  BY <1>21 DEF Connected
<1>22. CASE Silence
  BY <1>22 DEF Silence
<1>23. CASE Trickle
  BY <1>23 DEF Trickle
<1>24. CASE CloseConnection
  BY <1>24 DEF CloseConnection
<1> QED
    BY <1>1, <1>2, <1>3, <1>4, <1>5, <1>6, <1>7, <1>8, <1>9, <1>10, <1>11, <1>12, <1>13, <1>14,
     <1>15, <1>16, <1>17, <1>18, <1>19, <1>20, <1>21, <1>22, <1>23, <1>24
     DEF Next, Step, Callee, Peer

(* At most one send, the last thing before the answer, inside the window.  *)
LEMMA SentNext ==
    ASSUME TypeOK, Positions, SendsLast, SentOnceInWindow, [Next]_vars
    PROVE  (SendsLast /\ SentOnceInWindow)'
<1> USE HealthAssumption, SigningSteps, Steady DEF TypeOK, Positions, SendsLast,
       SentOnceInWindow, Before, NotSent, Valid, window, Time, Wire, End, Goto, Leave,
       LeaveInTime, Unsigned, Suspended, Late, OnSocket, Closing, Closed, CloseAbandoned
<1>1. CASE Select
  BY <1>1 DEF Select
<1>2. CASE ResolveKey
  BY <1>2 DEF ResolveKey
<1>3. CASE KeyResolved
  BY <1>3 DEF KeyResolved
<1>4. CASE Encode
  BY <1>4 DEF Encode
<1>5. CASE AdmitTransport
  BY <1>5 DEF AdmitTransport
<1>6. CASE Dispatch
  BY <1>6 DEF Dispatch
<1>7. CASE Send
  <2>1. CASE sent' = Append(sent, [wall |-> wall, elapsed |-> elapsed])
    <3>1. sent' = <<[wall |-> wall, elapsed |-> elapsed]>>
      BY <1>7, <2>1 DEF Send
    <3>2. Len(sent') = 1 /\ DOMAIN sent' = {1} /\ sent'[1].wall = wall /\ sent'[1].elapsed = elapsed
      BY <3>1
    <3>3. sent # sent'
      <4>1. sent = <<>>
        BY <1>7 DEF Send
      <4>2. Len(sent) = 0
        BY <4>1
      <4> QED
        BY <3>2, <4>2
    <3>4. Valid /\ ~Late /\ Goto("connect")
      BY <1>7, <3>3 DEF Send
    <3>5. Managed => NotBefore <= wall /\ wall < ExpiresAt /\ elapsed < Timeout
      BY <3>4
    <3> QED
      BY <1>7, <3>2, <3>4, <3>5 DEF Send
  <2>2. CASE sent' = sent /\ pc' = "exit"
    BY <1>7, <2>2 DEF Send
  <2> QED
    BY <1>7, <2>1, <2>2 DEF Send
<1>8. CASE Exit
  BY <1>8 DEF Exit
<1>9. CASE Resolved
  BY <1>9 DEF Resolved
<1>10. CASE Respond
  <2>1. PICK answer \in Answers :
            IF answer = "ok" \/ ~Managed THEN Goto("body") ELSE LeaveInTime(Rejection(answer))
    BY <1>10 DEF Respond
  <2>2. answer # "ok" => Rejection(answer) \notin NotSent
    BY RejectionCodes
  <2> QED
    BY <1>10, <2>1, <2>2 DEF Respond
<1>11. CASE Break
  BY <1>11 DEF Break
<1>12. CASE Chunk
  BY <1>12 DEF Chunk
<1>13. CASE BodyEnds
  <2>1. CASE status # "ok"
    <3>1. Rejection(status) \notin NotSent
      BY <1>13, <2>1, RejectionCodes DEF BodyEnds
    <3> QED
      BY <1>13, <2>1, <3>1 DEF BodyEnds
  <2>2. CASE status = "ok"
    BY <1>13, <2>2 DEF BodyEnds
  <2> QED
    BY <2>1, <2>2
<1>14. CASE ReadTimesOut
  BY <1>14 DEF ReadTimesOut
<1>15. CASE Expire
  BY <1>15 DEF Expire
<1>16. CASE Cancel
  BY <1>16 DEF Cancel
<1>17. CASE Tick
  BY <1>17 DEF Tick
<1>18. CASE WallMoves
  BY <1>18 DEF WallMoves
<1>19. CASE UNCHANGED vars
  BY <1>19 DEF vars
<1>20. CASE AuthorizeProbe
  BY <1>20 DEF AuthorizeProbe
<1>21. CASE Connected
  BY <1>21 DEF Connected
<1>22. CASE Silence
  BY <1>22 DEF Silence
<1>23. CASE Trickle
  BY <1>23 DEF Trickle
<1>24. CASE CloseConnection
  BY <1>24 DEF CloseConnection
<1> QED
    BY <1>1, <1>2, <1>3, <1>4, <1>5, <1>6, <1>7, <1>8, <1>9, <1>10, <1>11, <1>12, <1>13, <1>14,
     <1>15, <1>16, <1>17, <1>18, <1>19, <1>20, <1>21, <1>22, <1>23, <1>24
     DEF Next, Step, Callee, Peer

(* RECEIVED is said of a whole answer.                                     *)
LEMMA AnswerNext ==
    ASSUME TypeOK, Positions, SendsLast, AnswerKept, [Next]_vars
    PROVE  AnswerKept'
<1> USE HealthAssumption, SigningSteps, Steady DEF TypeOK, Positions, SendsLast, Whole,
       AnswerKept, Before, Managed, Time, Wire, End, Goto, Leave, LeaveInTime, Unsigned,
       Suspended, Late, OnSocket, Closing, Closed, CloseAbandoned
<1>1. CASE Select
  BY <1>1 DEF Select
<1>2. CASE ResolveKey
  BY <1>2 DEF ResolveKey
<1>3. CASE KeyResolved
  BY <1>3 DEF KeyResolved
<1>4. CASE Encode
  BY <1>4 DEF Encode
<1>5. CASE AdmitTransport
  BY <1>5 DEF AdmitTransport
<1>6. CASE Dispatch
  BY <1>6 DEF Dispatch
<1>7. CASE Send
  BY <1>7 DEF Send
<1>8. CASE Exit
  BY <1>8 DEF Exit
<1>9. CASE Resolved
  BY <1>9 DEF Resolved
<1>10. CASE Respond
  <2>1. PICK answer \in Answers :
            IF answer = "ok" \/ ~Managed THEN Goto("body") ELSE LeaveInTime(Rejection(answer))
    BY <1>10 DEF Respond
  <2>2. answer # "ok" => Rejection(answer) # "RECEIVED"
    BY RejectionCodes
  <2> QED
    BY <1>10, <2>1, <2>2 DEF Respond
<1>11. CASE Break
  BY <1>11 DEF Break
<1>12. CASE Chunk
  BY <1>12 DEF Chunk
<1>13. CASE BodyEnds
  <2>1. CASE status # "ok"
    <3>1. Rejection(status) # "RECEIVED"
      BY <1>13, <2>1, RejectionCodes DEF BodyEnds
    <3> QED
      BY <1>13, <2>1, <3>1 DEF BodyEnds
  <2>2. CASE status = "ok"
    BY <1>13, <2>2 DEF BodyEnds
  <2> QED
    BY <2>1, <2>2
<1>14. CASE ReadTimesOut
  BY <1>14 DEF ReadTimesOut
<1>15. CASE Expire
  BY <1>15 DEF Expire
<1>16. CASE Cancel
  BY <1>16 DEF Cancel
<1>17. CASE Tick
  BY <1>17 DEF Tick
<1>18. CASE WallMoves
  BY <1>18 DEF WallMoves
<1>19. CASE UNCHANGED vars
  BY <1>19 DEF vars
<1>20. CASE AuthorizeProbe
  BY <1>20 DEF AuthorizeProbe
<1>21. CASE Connected
  BY <1>21 DEF Connected
<1>22. CASE Silence
  BY <1>22 DEF Silence
<1>23. CASE Trickle
  BY <1>23 DEF Trickle
<1>24. CASE CloseConnection
  BY <1>24 DEF CloseConnection
<1> QED
    BY <1>1, <1>2, <1>3, <1>4, <1>5, <1>6, <1>7, <1>8, <1>9, <1>10, <1>11, <1>12, <1>13, <1>14,
     <1>15, <1>16, <1>17, <1>18, <1>19, <1>20, <1>21, <1>22, <1>23, <1>24
     DEF Next, Step, Callee, Peer

(* Permits are opened and recorded one at a time.                          *)
LEMMA PermitsNext ==
    ASSUME TypeOK, Positions, SendsLast, PermitsInOrder, [Next]_vars
    PROVE  PermitsInOrder'
<1> USE HealthAssumption, SigningSteps, Steady DEF TypeOK, Positions, SendsLast, PermitsInOrder,
       Permits, Keys, UnderTransport, Before, Time, Wire, End, Goto, Leave, LeaveInTime,
       Unsigned, Suspended, Late, OnSocket, Closing, Closed, CloseAbandoned
<1>1. CASE Select
  BY <1>1 DEF Select
<1>2. CASE ResolveKey
  BY <1>2 DEF ResolveKey
<1>3. CASE KeyResolved
  BY <1>3 DEF KeyResolved
<1>4. CASE Encode
  BY <1>4 DEF Encode
<1>5. CASE AdmitTransport
  BY <1>5 DEF AdmitTransport
<1>6. CASE Dispatch
  <2>1. pc \in UnderTransport /\ pc' \in UnderTransport /\ permits' = permits
    BY <1>6 DEF Dispatch
  <2> QED
    BY <2>1
<1>7. CASE Send
  <2>1. pc \in UnderTransport /\ pc' \in UnderTransport /\ permits' = permits
    BY <1>7 DEF Send
  <2> QED
    BY <2>1
<1>8. CASE Exit
  BY <1>8 DEF Exit
<1>9. CASE Resolved
  <2>1. pc \in UnderTransport /\ pc' \in UnderTransport /\ permits' = permits
    BY <1>9 DEF Resolved
  <2> QED
    BY <2>1
<1>10. CASE Respond
  <2>1. pc \in UnderTransport /\ pc' \in UnderTransport /\ permits' = permits
    BY <1>10 DEF Respond
  <2> QED
    BY <2>1
<1>11. CASE Break
  <2>1. pc \in UnderTransport /\ pc' \in UnderTransport /\ permits' = permits
    BY <1>11 DEF Break
  <2> QED
    BY <2>1
<1>12. CASE Chunk
  <2>1. pc \in UnderTransport /\ pc' \in UnderTransport /\ permits' = permits
    BY <1>12 DEF Chunk
  <2> QED
    BY <2>1
<1>13. CASE BodyEnds
  <2>1. pc \in UnderTransport /\ pc' \in UnderTransport /\ permits' = permits
    BY <1>13 DEF BodyEnds
  <2> QED
    BY <2>1
<1>14. CASE ReadTimesOut
  <2>1. pc \in UnderTransport /\ pc' \in UnderTransport /\ permits' = permits
    BY <1>14 DEF ReadTimesOut
  <2> QED
    BY <2>1
<1>15. CASE Expire
  <2>1. pc \in UnderTransport /\ pc' \in UnderTransport /\ permits' = permits
    BY <1>15 DEF Expire
  <2> QED
    BY <2>1
<1>16. CASE Cancel
  <2>1. pc \in UnderTransport /\ pc' \in UnderTransport /\ permits' = permits
    BY <1>16 DEF Cancel
  <2> QED
    BY <2>1
<1>17. CASE Tick
  BY <1>17 DEF Tick
<1>18. CASE WallMoves
  BY <1>18 DEF WallMoves
<1>19. CASE UNCHANGED vars
  BY <1>19 DEF vars
<1>20. CASE AuthorizeProbe
  BY <1>20 DEF AuthorizeProbe
<1>21. CASE Connected
  BY <1>21 DEF Connected
<1>22. CASE Silence
  BY <1>22 DEF Silence
<1>23. CASE Trickle
  BY <1>23 DEF Trickle
<1>24. CASE CloseConnection
  BY <1>24 DEF CloseConnection
<1> QED
    BY <1>1, <1>2, <1>3, <1>4, <1>5, <1>6, <1>7, <1>8, <1>9, <1>10, <1>11, <1>12, <1>13, <1>14,
     <1>15, <1>16, <1>17, <1>18, <1>19, <1>20, <1>21, <1>22, <1>23, <1>24
     DEF Next, Step, Callee, Peer

(* Every step keeps the invariant, and the read begins in it.              *)
LEMMA HealthNext ==
    ASSUME HealthInv, [Next]_vars
    PROVE  HealthInv'
BY TypeNext, PositionsNext, SentNext, AnswerNext, PermitsNext DEF HealthInv

LEMMA HealthInit ==
    ASSUME Init
    PROVE  HealthInv
<1> USE HealthAssumption, SigningSteps DEF Init
<1>1. TypeOK
  <2>1. 0 \in 0..Len(Signing)
    BY SigningSteps
  <2>2. expired \in BOOLEAN /\ cancelled \in BOOLEAN /\ silent \in BOOLEAN
    BY Zenon
  <2>3. sent \in Seq([wall: 0..MaxWall, elapsed: 0..Timeout])
    OBVIOUS
  <2> QED
    BY <2>1, <2>2, <2>3 DEF TypeOK, Codes, Permits
<1>2. Positions /\ SentOnceInWindow /\ SendsLast /\ AnswerKept
  BY DEF Positions, SentOnceInWindow, SendsLast, AnswerKept, Before, Whole
<1>3. PermitsInOrder
  BY DEF PermitsInOrder, Permits, UnderTransport
<1> QED
  BY <1>1, <1>2, <1>3 DEF HealthInv

LEMMA HealthAlways == Spec => []HealthInv
BY HealthInit, HealthNext, PTL DEF Spec

-----------------------------------------------------------------------------
(* The variables keep their types.                                         *)
THEOREM HealthTypeCorrect == Spec => []TypeOK
BY HealthAlways, PTL DEF HealthInv

(* health_transport.dispatch hands a read's credentials to the connection  *)
(* at most once, inside the validity window of its grants and before its   *)
(* deadline, for every window, deadline and movement of the wall clock.    *)
THEOREM SendsInWindow == Spec => []SentOnceInWindow
BY HealthAlways, PTL DEF HealthInv

(* What a result code says of the request and of the answer is so.         *)
THEOREM CodesAreTrue == Spec => []CodesTrue
<1>1. HealthInv => CodesTrue
  BY DEF HealthInv, TypeOK, SendsLast, AnswerKept, Whole, NotSent, CodesTrue
<1> QED
  BY <1>1, HealthAlways, PTL

(* A read that has ended holds no connection and left no permit without an *)
(* outcome that is not reported.                                           *)
THEOREM ReadsSettle == Spec => []ReadSettled
<1>1. HealthInv => ReadSettled
  BY DEF HealthInv, TypeOK, SendsLast, PermitsInOrder, UnderTransport, Permits, ReadSettled
<1> QED
  BY <1>1, HealthAlways, PTL
=============================================================================
