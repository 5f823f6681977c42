------------------------------ MODULE Socket -------------------------------
(***************************************************************************)
(* A WebSocket on an intercepted connection: relayWebSocket, wsReader and  *)
(* wsTurns (agent/internal/proxy/websocket.go).                            *)
(*                                                                         *)
(* Two pumps copy frames, one per direction, and note each message in the  *)
(* turns they share.  Frames of control, pieces of a message before its    *)
(* last byte and messages that are not JSON are only passed on.            *)
(***************************************************************************)
EXTENDS Recording

CONSTANTS
  MaxTurns, MaxPieces,   \* bounds: turns, and pieces of an answer before its end
  Agreements,            \* what the upstream may agree to: "plain", "fresh" or "takeover"
  MaxOversize,           \* bound: messages larger than the copy's cap
  Impatient              \* whether the client asks again before it is answered

ASSUME SocketAssumption ==
  {MaxTurns, MaxPieces, MaxOversize} \subseteq Nat /\ Impatient \in BOOLEAN

VARIABLES
  socket,    \* state, the agreed extension, and whether a parser claims the path
  said,      \* messages on their way to the proxy, per side
  pump,      \* the pump that reads a side: what it holds, and a gap in its window
  asked,     \* how many turns the client has asked for
  telling,   \* the turn the upstream is answering and its pieces so far
  heard,     \* requests the upstream has got; answers the client has, by length
  oversize,  \* history: the messages too large to copy
  turn,      \* wsTurns: the turn that is being assembled
  pending    \* turns handed to a goroutine of their own

socketVars == <<socket, said, pump, asked, telling, heard, oversize, turn, pending>>

Other(side) == IF side = "client" THEN "upstream" ELSE "client"
NoTurn == [open |-> FALSE, request |-> Nobody, events |-> <<>>]
NoMessage == [kind |-> "none"]
Message(kind, t, n, big) == [kind |-> kind, turn |-> t, n |-> n, big |-> big, text |-> TRUE]
Heard(m) == IF m.kind \in {"create", "end"} THEN <<m.n>> ELSE <<>>
Relaying == socket.state = "relaying"

SocketInit ==
  /\ socket = [state |-> "off", agreed |-> "plain", parsed |-> FALSE]
  /\ said = [s \in Sides |-> <<>>]
  /\ pump = [s \in Sides |-> [pc |-> "reading", held |-> NoMessage, gap |-> FALSE]]
  /\ asked = 0 /\ telling = [turn |-> 0, n |-> 0]
  /\ heard = [s \in Sides |-> <<>>]
  /\ oversize = {} /\ turn = NoTurn /\ pending = {}

(* The relay starts when the client has the 101.                           *)
Upgrade(parsed) ==
  \E agreed \in Agreements :
    socket' = [state |-> "relaying", agreed |-> agreed, parsed |-> parsed]

-----------------------------------------------------------------------------
(* The two ends.  A client asks for its next turn when it has the answer,  *)
(* the upstream answers turn after turn.                                   *)

Say(side, kind, t, n) ==
  \E big \in BOOLEAN :
    /\ big => Cardinality(oversize) < MaxOversize
    /\ said' = [said EXCEPT ![side] = Append(@, Message(kind, t, n, big))]
    /\ oversize' = IF big THEN oversize \cup {<<kind, t, n>>} ELSE oversize
    /\ UNCHANGED <<socket, pump, heard, turn, pending, ends, recorded>>

ClientAsks ==
  /\ Relaying /\ "client" \in ends
  /\ asked < MaxTurns /\ (asked = Len(heard["client"]) \/ Impatient)
  /\ asked' = asked + 1
  /\ Say("client", "create", asked + 1, 0)
  /\ UNCHANGED telling

UpstreamAnswers ==
  /\ Relaying /\ "upstream" \in ends
  /\ telling.turn < Len(heard["upstream"])
  /\ \/ /\ telling.n < MaxPieces
        /\ telling' = [telling EXCEPT !.n = @ + 1]
        /\ Say("upstream", "piece", telling.turn + 1, telling.n + 1)
     \/ /\ telling' = [turn |-> telling.turn + 1, n |-> 0]
        /\ Say("upstream", "end", telling.turn + 1, telling.n + 1)
  /\ UNCHANGED asked

-----------------------------------------------------------------------------
(* The turns, under their mutex.                                           *)

(* finishLocked: an open turn goes to a goroutine of its own.              *)
Finished(t) == IF t.open THEN {[request |-> t.request, events |-> t.events]} ELSE {}

(* Slip: a new request does not finish the turn that never completed.      *)
FromClientMerging(m) ==
  IF m.kind # "create" THEN UNCHANGED <<turn, pending>>
  ELSE /\ turn' = [open |-> TRUE, request |-> m.turn, events |-> turn.events]
       /\ UNCHANGED pending

(* message, from the client: a request opens a turn.                       *)
FromClient(m) ==
  IF m.kind # "create" THEN UNCHANGED <<turn, pending>>
  ELSE /\ pending' = pending \cup Finished(turn)
       /\ turn' = [open |-> TRUE, request |-> m.turn, events |-> <<>>]

(* message, from the upstream: an event of the open turn, or its last.     *)
FromUpstream(m) ==
  LET more == [turn EXCEPT !.events = Append(@, [turn |-> m.turn, n |-> m.n, text |-> m.text])]
  IN IF ~turn.open THEN UNCHANGED <<turn, pending>>
     ELSE IF m.kind = "end" THEN turn' = NoTurn /\ pending' = pending \cup Finished(more)
     ELSE turn' = more /\ UNCHANGED pending

(* complete: what a finished message reads as.  One that is too big is     *)
(* left out, and with a kept window (context takeover) everything that is  *)
(* inflated after it may refer back to what the window lacks: it fails,    *)
(* comes out as another text, or happens not to refer there.               *)
Completed(side, m) ==
  IF m.big THEN {NoMessage}
  ELSE IF pump[side].gap THEN {m, NoMessage, [m EXCEPT !.text = FALSE]}
  ELSE {m}

(* What a finished message does to the turns.                              *)
Noted(side) ==
  \E m \in Completed(side, Head(said[side])) :
    IF ~socket.parsed \/ m = NoMessage THEN UNCHANGED <<turn, pending>>
    ELSE IF side = "client" THEN FromClient(m) ELSE FromUpstream(m)

(* Slip: a message is noted when it has been forwarded.                    *)
ReadUnnoted(side) ==
  /\ Relaying /\ pump[side].pc = "reading" /\ said[side] # <<>>
  /\ pump' = [pump EXCEPT ![side].pc = "passing", ![side].held = Head(said[side])]
  /\ heard' = [heard EXCEPT ![Other(side)] =
                 @ \o Heard(Head(said[side]))]
  /\ UNCHANGED <<socket, said, asked, telling, oversize, turn, pending, ends, recorded>>

NotedLate(side) ==
  \/ ReadUnnoted(side)
  \/ /\ pump[side].pc = "passing"
     /\ pump' = [pump EXCEPT ![side].pc = "reading"]
     /\ Noted(side)
     /\ said' = [said EXCEPT ![side] = Tail(@)]
     /\ UNCHANGED <<socket, asked, telling, heard, oversize, ends, recorded>>

(* wsReader.pump, up to the last byte of a message: it is noted when that  *)
(* byte is read ...                                                        *)
Read(side) ==
  /\ Relaying /\ pump[side].pc = "reading" /\ said[side] # <<>>
  /\ pump' = [pump EXCEPT ![side] =
       [pc |-> "holding", held |-> Head(said[side]),
        gap |-> pump[side].gap \/ (Head(said[side]).big /\ socket.agreed = "takeover")]]
  /\ Noted(side)
  /\ said' = [said EXCEPT ![side] = Tail(@)]
  /\ UNCHANGED <<socket, asked, telling, heard, oversize, ends, recorded>>

(* ... and only then passed on.  A pump that cannot write closes both      *)
(* connections.                                                            *)
Pass(side) ==
  /\ Relaying /\ pump[side].pc = "holding"
  /\ LET m == pump[side].held
     IN IF Other(side) \in ends
        THEN /\ pump' = [pump EXCEPT ![side].pc = "reading", ![side].held = NoMessage]
             /\ heard' = [heard EXCEPT ![Other(side)] =
                            @ \o Heard(m)]
             /\ UNCHANGED ends
        ELSE /\ pump' = [pump EXCEPT ![side].pc = "ended", ![side].held = NoMessage]
             /\ ends' = {} /\ UNCHANGED heard
  /\ UNCHANGED <<socket, said, asked, telling, oversize, turn, pending, recorded>>

PumpEnds(side) ==
  /\ Relaying /\ pump[side].pc = "reading" /\ side \notin ends
  /\ pump' = [pump EXCEPT ![side].pc = "ended"]
  /\ ends' = {}
  /\ UNCHANGED <<socket, said, asked, telling, heard, oversize, turn, pending, recorded>>

(* relayWebSocket returns when both pumps have: a turn that was cut off is *)
(* still a turn.                                                           *)
RelayEnds ==
  /\ Relaying /\ \A s \in Sides : pump[s].pc = "ended"
  /\ socket' = [socket EXCEPT !.state = "over"]
  /\ pending' = pending \cup Finished(turn) /\ turn' = NoTurn
  /\ UNCHANGED <<said, pump, asked, telling, heard, oversize, ends, recorded>>

RecordTurn(t) ==
  /\ t \in pending /\ pending' = pending \ {t}
  /\ recorded' = recorded \cup
       Events([endpoint |-> "socket", method |-> "SOCKET", key |-> t.request, turn |-> t.request,
               size |-> 0, copied |-> 0, readable |-> TRUE, answer |-> t.events])
  /\ UNCHANGED <<socket, said, pump, asked, telling, heard, oversize, turn, ends>>

SocketNext ==
  \/ ClientAsks \/ UpstreamAnswers \/ RelayEnds
  \/ \E side \in Sides : Read(side) \/ Pass(side) \/ PumpEnds(side)
  \/ \E t \in pending : RecordTurn(t)

=============================================================================
