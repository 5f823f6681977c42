------------------------------ MODULE Exchange -----------------------------
(***************************************************************************)
(* One intercepted connection after its handshakes: the request loop of    *)
(* capture and Proxy.forward (agent/internal/proxy/capture.go, forward.go),*)
(* with the WebSocket it may become and the session streams it carries.    *)
(*                                                                         *)
(* A response is a head, units and an end.  What the upstream has produced *)
(* may be read any time later.                                             *)
(***************************************************************************)
EXTENDS Socket, SessionStream

CONSTANTS
  InFlight,      \* bound: units on their way from the upstream
  MaxSize,       \* bound: the size of a request, and the units of a response
  Requests,      \* the endpoints the connection's client uses
  Interim        \* whether an upstream may send an interim response (1xx) first

ASSUME ExchangeAssumption ==
  InFlight \in Nat /\ MaxSize \in Nat /\ Requests \subseteq Endpoints /\ Interim \in BOOLEAN

VARIABLES
  phase,         \* where the connection's goroutine is
  number,        \* requests served
  request, response,
  produced,      \* units of the response the upstream has written
  got,           \* units of the response forward has read
  seen,          \* the units of the response the client has
  waiting,       \* the client has no complete response to its last request
  copy           \* respCopy

httpVars == <<phase, number, request, response, produced, got, seen, waiting, copy>>
vars == <<httpVars, socketVars, streamVars, ends, recorded>>

NoRequest == [endpoint |-> "none"]
NoResponse == [kind |-> "none", ended |-> FALSE]
Request == [endpoint : Requests, turn : 0..MaxPrompts, size : 1..MaxSize]

Init ==
  /\ ends = Sides /\ recorded = {}
  /\ phase = "reading" /\ number = 0
  /\ request = NoRequest /\ response = NoResponse
  /\ produced = 0 /\ got = 0 /\ seen = <<>> /\ waiting = FALSE /\ copy = <<>>
  /\ SocketInit /\ StreamInit

AtLeast(a, b) == IF a < b THEN a ELSE b

-----------------------------------------------------------------------------
(* The client and the upstream.                                            *)

(* The client asks when it has been answered, and ReadRequest returns.     *)
(* Bounds: a connection that becomes a socket carries nothing before, and  *)
(* a second stream is opened when the first one's decoder is through.      *)
ClientRequests ==
  /\ phase = "reading" /\ "client" \in ends /\ ~waiting
  /\ number < MaxRequests /\ number' = number + 1
  /\ \E r \in Request :
       /\ r.endpoint # "conversation" => r.size = 1
       /\ r.endpoint = "socket" => number = 0
       /\ r.endpoint = "stream" => \A k \in 1..number : streams[k].decoder \in {"off", "ended"}
       /\ r.turn \in CASE r.endpoint = "message"      -> {Nobody} \cup 1..MaxPrompts
                        [] r.endpoint = "conversation" -> {1}
                        [] OTHER                       -> {Nobody}
       /\ request' = r
  /\ waiting' = TRUE /\ phase' = "sending"
  /\ response' = NoResponse /\ produced' = 0 /\ got' = 0 /\ seen' = <<>> /\ copy' = <<>>
  /\ UNCHANGED <<socketVars, streamVars, ends, recorded>>

ResponseKinds ==
  {"final"} \cup (IF request.endpoint = "socket" THEN {"switching"} ELSE {})
            \cup (IF Interim THEN {"interim"} ELSE {})

UpstreamResponds ==
  /\ phase = "awaiting" /\ "upstream" \in ends /\ response = NoResponse
  /\ \E kind \in ResponseKinds : response' = [NoResponse EXCEPT !.kind = kind]
  /\ UNCHANGED <<phase, number, request, produced, got, seen, waiting, copy, socketVars,
                 streamVars, ends, recorded>>

(* A session's event can be sent when the session has it.                  *)
UpstreamProduces ==
  /\ phase = "streaming" /\ "upstream" \in ends /\ ~response.ended
  /\ produced - got < InFlight
  /\ \/ /\ produced < (IF request.endpoint = "stream" THEN Len(log) ELSE MaxSize)
        /\ produced' = produced + 1 /\ UNCHANGED response
     \/ response' = [response EXCEPT !.ended = TRUE] /\ UNCHANGED produced
  /\ UNCHANGED <<phase, number, request, got, seen, waiting, copy, socketVars, streamVars,
                 ends, recorded>>

CaughtUp == phase = "streaming" /\ request.endpoint = "stream" /\ produced = Len(log)
                       /\ ~response.ended

EndGoes(side) ==
  /\ side \in ends /\ phase # "done" /\ ends' = ends \ {side}
  /\ UNCHANGED <<httpVars, socketVars, streamVars, recorded>>

-----------------------------------------------------------------------------
(* forward.                                                                *)

(* The connection is over: capture returns and closes both sides.          *)
Over == phase' = "done" /\ ends' = {}

ClientLeft ==
  /\ phase = "reading" /\ "client" \notin ends /\ Over
  /\ UNCHANGED <<number, request, response, produced, got, seen, waiting, copy, socketVars,
                 streamVars, recorded>>

(* req.Write, which also copies the body, and ReadResponse.                *)
Send ==
  /\ phase = "sending"
  /\ IF ends = Sides THEN phase' = "awaiting" /\ UNCHANGED ends ELSE Over
  /\ UNCHANGED <<number, request, response, produced, got, seen, waiting, copy, socketVars,
                 streamVars, recorded>>

NoAnswer ==
  /\ phase = "awaiting" /\ "upstream" \notin ends /\ Over
  /\ UNCHANGED <<number, request, response, produced, got, seen, waiting, copy, socketVars,
                 streamVars, recorded>>

(* The interaction that is recorded when the body is over, one way or      *)
(* another; what was copied cannot be read in an unknown encoding.         *)
Interaction(question, answer) ==
  [endpoint |-> request.endpoint, method |-> "HTTP", key |-> number, turn |-> request.turn,
   size |-> request.size, copied |-> AtLeast(request.size, RequestCap),
   readable |-> question, answer |-> IF answer THEN copy ELSE <<>>]

(* forward records, closes the stream's channel and returns; after a       *)
(* failure, or with Connection: close, the connection is over.             *)
Finish(ok) ==
  /\ \E question, answer \in BOOLEAN :
       recorded' = recorded \cup Events(Interaction(question, answer))
  /\ streams' = [streams EXCEPT ![number].closed = @ \/ request.endpoint = "stream"]
  /\ \/ ok /\ phase' = "reading" /\ UNCHANGED ends
     \/ Over

(* The head goes to the client.  A 101 turns the connection over to the    *)
(* relay; an interim response has no body, so that it ends at once.        *)
ForwardHead ==
  /\ phase = "awaiting" /\ response # NoResponse
  /\ CASE "client" \notin ends -> Over /\ UNCHANGED <<socketVars, streams, recorded>>
       [] "client" \in ends /\ response.kind = "switching" ->
            /\ phase' = "relaying" /\ \E parsed \in BOOLEAN : Upgrade(parsed)
            /\ UNCHANGED <<said, pump, asked, telling, heard, oversize, turn, pending,
                           streams, ends, recorded>>
       [] "client" \in ends /\ response.kind = "interim" ->
            Finish(TRUE) /\ UNCHANGED socketVars
       [] OTHER ->
            /\ phase' = "streaming"
            /\ \E readable \in BOOLEAN :
                 streams' = IF request.endpoint = "stream"
                            THEN [streams EXCEPT ![number] = Opened(readable)] ELSE streams
            /\ UNCHANGED <<socketVars, ends, recorded>>
  /\ waiting' = (waiting /\ response.kind # "switching")
  /\ UNCHANGED <<number, request, response, produced, got, seen, copy, log>>

Unit == IF request.endpoint = "stream" THEN log[got + 1] ELSE Piece(request.turn, got + 1)
HasUnit == got < produced

(* limitedWriter                                                           *)
Copied(unit) == IF Len(copy) < ResponseCap THEN Append(copy, unit) ELSE copy

(* Slip: the chunk waits for room in the channel.                          *)
ForwardUnitWhenRoom ==
  /\ phase = "streaming" /\ HasUnit /\ "client" \in ends
  /\ Len(streams[number].channel) < Backlog
  /\ seen' = Append(seen, Unit) /\ got' = got + 1 /\ copy' = Copied(Unit)
  /\ streams' = [streams EXCEPT ![number] =
                   IF request.endpoint = "stream" THEN Fed(@, Unit) ELSE @]
  /\ UNCHANGED <<phase, number, request, response, produced, waiting, socketVars, log,
                 ends, recorded>>

(* Slip: our copy is taken before the client has the chunk.                *)
ForwardUnitCopiedFirst ==
  /\ phase = "streaming" /\ HasUnit
  /\ got' = got + 1 /\ copy' = Copied(Unit)
  /\ IF "client" \in ends
     THEN seen' = Append(seen, Unit) /\ UNCHANGED <<phase, streams, ends, recorded>>
     ELSE /\ Over /\ UNCHANGED <<seen, streams>>
          /\ recorded' = recorded \cup Events([Interaction(TRUE, TRUE) EXCEPT !.answer = Copied(Unit)])
  /\ UNCHANGED <<number, request, response, produced, waiting, socketVars, log>>

(* streamBody, one chunk: the client first, then our copy, then the tap.   *)
ForwardUnit ==
  /\ phase = "streaming" /\ HasUnit /\ "client" \in ends
  /\ seen' = Append(seen, Unit) /\ got' = got + 1 /\ copy' = Copied(Unit)
  /\ streams' = [streams EXCEPT ![number] =
                   IF request.endpoint = "stream" THEN Fed(@, Unit) ELSE @]
  /\ UNCHANGED <<phase, number, request, response, produced, waiting, socketVars, log,
                 ends, recorded>>

(* The last chunk is out and the message is ended for the client, or a     *)
(* read or a write failed: either way the exchange is recorded.  For a     *)
(* client that left after the last chunk there may be nothing more to      *)
(* write, and the connection goes on to the next request.                  *)
ForwardEnd ==
  /\ phase = "streaming"
  /\ \/ /\ got = produced /\ response.ended
        /\ waiting' = (waiting /\ "client" \notin ends) /\ Finish(TRUE)
     \/ /\ ("client" \notin ends /\ got < produced) \/ "upstream" \notin ends
        /\ Finish(FALSE) /\ UNCHANGED waiting
  /\ UNCHANGED <<number, request, response, produced, got, seen, copy, socketVars, log>>

RelayReturns ==
  /\ phase = "relaying" /\ socket.state = "over" /\ Over
  /\ UNCHANGED <<number, request, response, produced, got, seen, waiting, copy, socketVars,
                 streamVars, recorded>>

Forward == Send \/ NoAnswer \/ ForwardHead \/ ForwardUnit \/ ForwardEnd \/ ClientLeft \/ RelayReturns

Next ==
  \/ ClientRequests \/ UpstreamResponds \/ UpstreamProduces \/ Forward
  \/ \E side \in Sides : EndGoes(side)
  \/ SocketNext /\ UNCHANGED <<httpVars, streamVars>>
  \/ SessionGoesOn /\ CaughtUp /\ UNCHANGED <<httpVars, socketVars>>
  \/ DecoderNext /\ UNCHANGED <<httpVars, socketVars>>

(* The goroutine of the connection and the two pumps run; nothing is       *)
(* assumed of the client, the upstream, the decoder or the sink.           *)
Fairness ==
  /\ WF_vars(Forward)
  /\ \A side \in Sides :
       WF_vars((Read(side) \/ Pass(side) \/ PumpEnds(side)) /\ UNCHANGED <<httpVars, streamVars>>)
  /\ WF_vars(RelayEnds /\ UNCHANGED <<httpVars, streamVars>>)

Spec == Init /\ [][Next]_vars /\ Fairness

-----------------------------------------------------------------------------

ExchangeTypeOK ==
  /\ ends \subseteq Sides
  /\ phase \in {"reading", "sending", "awaiting", "streaming", "relaying", "done"}
  /\ number \in 0..MaxRequests /\ got <= produced
  /\ Len(copy) <= ResponseCap /\ Len(seen) <= MaxLog + MaxSize
  /\ turn.open => turn.request \in 1..asked
  /\ \A k \in DOMAIN streams :
       /\ Len(streams[k].channel) <= Backlog /\ Len(streams[k].turn) <= MaxTurnEvents
       /\ streams[k].broken => streams[k].closed

(* What is stored of an exchange is what its client got, up to the cap:    *)
(* never a byte that was not delivered, also when a read or a write failed *)
(* half-way, and a prompt that was cut off says so (forward, streamBody,   *)
(* record).                                                                *)
AsSeen ==
  \A e \in recorded : e.id = <<"HTTP", number>> =>
    /\ IsPrefix(e.answer, seen)
    /\ request.size > RequestCap => e.noted

(* Each answer on a socket is recorded with the request it answers: the    *)
(* two pumps race, and a recorded turn still holds its own messages only,  *)
(* in their order and as they were sent (relayWebSocket, wsTurns).  Only   *)
(* the answer to a request that was itself too large to copy may stand in  *)
(* another turn, one whose end was too large.                              *)
TurnsPaired ==
  \A e \in recorded : e.method = "SOCKET" =>
    \A i \in 1..Len(e.answer) :
      LET piece == e.answer[i]
      IN /\ piece.turn = e.prompt \/ <<"create", piece.turn, 0>> \in oversize
         /\ piece.text
         /\ i > 1 /\ e.answer[i - 1].turn = piece.turn => e.answer[i - 1].n < piece.n

(* A turn whose end the client has got is not lost and lacks nothing: it   *)
(* is recorded, or about to be, with every message of its answer, unless   *)
(* one of them was too large to copy ("a turn loses its answer",           *)
(* websocket.go:217-221).                                                  *)
Whole(k) == [i \in 1..heard["client"][k] |-> Piece(k, i)]
NoTurnLost ==
  socket.parsed /\ pump["upstream"].pc \in {"reading", "ended"} =>
    \A k \in 1..Len(heard["client"]) :
      \/ \E m \in oversize : m[2] = k
      \/ [request |-> k, events |-> Whole(k)] \in pending
      \/ \E e \in recorded : e.method = "SOCKET" /\ e.prompt = k /\ e.answer = Whole(k)

(* A turn of a cloud session is recorded with its whole answer and nothing *)
(* of another turn, whatever the channel dropped and wherever the replay   *)
(* began; only a turn too long to keep ends early (feed, CoworkTurns.Add). *)
AnswerInLog(t) == [i \in 1..Said(t) |-> Piece(t, i)]
NoGap ==
  \A e \in recorded : e.method = "TURN" =>
    IF Cardinality({i \in 1..Len(log) : log[i].turn = e.prompt}) <= MaxTurnEvents
    THEN e.answer = AnswerInLog(e.prompt)
    ELSE IsPrefix(e.answer, AnswerInLog(e.prompt))

(* A message typed into a cloud session crosses the proxy as a POST and in *)
(* every replay of the stream, and the stream is itself an exchange.       *)
(* Whatever is recorded of a turn with its prompt has the turn's one event *)
(* id, and every replay gives it the same answer; a POST never brings an   *)
(* answer, and one that could not be read has neither prompt nor the id of *)
(* a turn, so that it cannot take a turn's place (ClaudeCowork.Parse).     *)
OneEventPerTurn ==
  /\ \A e \in recorded : e.endpoint \in {"message", "stream"} =>
       IF e.prompt # Nobody THEN e.id = <<"cowork", e.prompt>>
       ELSE e.endpoint = "message" /\ e.id[1] = "HTTP"
  /\ \A e \in recorded : e.endpoint = "message" => e.answer = <<>>
  /\ \A e, f \in recorded : e.method = "TURN" /\ f.method = "TURN" /\ e.id = f.id => e = f

(* Rule 6: what the upstream has sent reaches the client while both are    *)
(* there.  Nothing is assumed of the decoder or of the sink's goroutines,  *)
(* so neither may hold the client up (streamBody, feed, finishLocked).     *)
NothingHeldBack ==
  /\ phase = "streaming" => got = produced /\ ~response.ended
  /\ phase = "awaiting" => response = NoResponse
  /\ phase = "relaying" => \A s \in Sides : said[s] = <<>> /\ pump[s].pc = "reading"
NeverHeldUp == []<>(ends # Sides \/ NothingHeldBack)

(* A connection goes on to its next request only when the client has its   *)
(* response ("the client always receives every byte regardless",           *)
(* forward.go:20-22).                                                      *)
AnsweredFirst == phase = "reading" /\ ends = Sides => ~waiting

=============================================================================
