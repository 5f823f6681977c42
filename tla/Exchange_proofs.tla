-------------------------- MODULE Exchange_proofs --------------------------
(***************************************************************************)
(* Proofs about one intercepted connection, for any caps, sizes and        *)
(* numbers of requests, turns and events: types, what is recorded of an    *)
(* exchange, the turns of a socket and the turns of a session's stream.    *)
(***************************************************************************)
EXTENDS Exchange, FiniteSetTheorems, SequenceTheorems, WellFoundedInduction, TLAPS

-----------------------------------------------------------------------------
(* Sequences.                                                              *)

LEMMA Prefix ==
  ASSUME NEW S, NEW s \in Seq(S), NEW t \in Seq(S)
  PROVE  IsPrefix(s, t) <=> Len(s) <= Len(t) /\ \A i \in 1..Len(s) : s[i] = t[i]
<1>1. ASSUME Len(s) <= Len(t)
      PROVE  /\ SubSeq(s, 1, Len(s)) \in Seq(S) /\ SubSeq(t, 1, Len(s)) \in Seq(S)
             /\ Len(SubSeq(s, 1, Len(s))) = Len(s) /\ Len(SubSeq(t, 1, Len(s))) = Len(s)
             /\ \A i \in 1..Len(s) : SubSeq(s, 1, Len(s))[i] = s[i]
             /\ \A i \in 1..Len(s) : SubSeq(t, 1, Len(s))[i] = t[i]
  BY <1>1
<1>2. ASSUME Len(s) <= Len(t), \A i \in 1..Len(s) : s[i] = t[i]
      PROVE  SubSeq(s, 1, Len(s)) = SubSeq(t, 1, Len(s))
  BY <1>1, <1>2, SeqEqual
<1>3. ASSUME Len(s) <= Len(t), SubSeq(s, 1, Len(s)) = SubSeq(t, 1, Len(s)), NEW i \in 1..Len(s)
      PROVE  s[i] = t[i]
  BY <1>1, <1>3
<1>. QED  BY <1>2, <1>3 DEF IsPrefix

LEMMA PrefixGrows ==
  ASSUME NEW S, NEW s \in Seq(S), NEW t \in Seq(S), NEW x \in S, IsPrefix(s, t)
  PROVE  IsPrefix(s, Append(t, x))
<1>1. /\ Append(t, x) \in Seq(S) /\ Len(Append(t, x)) = Len(t) + 1
      /\ \A i \in 1..Len(t) : Append(t, x)[i] = t[i]
  OBVIOUS
<1>2. Len(s) <= Len(t) /\ \A i \in 1..Len(s) : s[i] = t[i]
  BY Prefix
<1>3. Len(s) <= Len(Append(t, x)) /\ \A i \in 1..Len(s) : s[i] = Append(t, x)[i]
  BY <1>1, <1>2
<1>. QED  BY <1>1, <1>3, Prefix

LEMMA EmptyPrefix == ASSUME NEW S, NEW t \in Seq(S) PROVE IsPrefix(<<>>, t)
<1>1. PICK s \in Seq(S) : s = <<>>
  BY EmptySeq
<1>2. Len(s) <= Len(t) /\ \A i \in 1..Len(s) : s[i] = t[i]
  BY <1>1
<1>. QED  BY <1>1, <1>2, Prefix

LEMMA Appended ==
  ASSUME NEW S, NEW s \in Seq(S), NEW x \in S
  PROVE  /\ Append(s, x) \in Seq(S) /\ Len(Append(s, x)) = Len(s) + 1 /\ Len(s) \in Nat
         /\ \A i \in 1..Len(s) : Append(s, x)[i] = s[i]
         /\ Append(s, x)[Len(s) + 1] = x
OBVIOUS

LEMMA Taken ==
  ASSUME NEW S, NEW s \in Seq(S), s # <<>>
  PROVE  /\ Len(s) \in Nat \ {0} /\ Head(s) = s[1] /\ Head(s) \in S
         /\ Tail(s) \in Seq(S) /\ Len(Tail(s)) = Len(s) - 1
         /\ \A i \in 1..Len(s) - 1 : Tail(s)[i] = s[i + 1]
BY HeadTailProperties, EmptySeq

-----------------------------------------------------------------------------
(* Types.                                                                  *)

LogEvent == [kind : Kinds, turn : Nat, n : Nat]
PieceOf  == [turn : Nat, n : Nat, text : BOOLEAN]
Text     == LogEvent \cup PieceOf
Messages == [kind : {"create", "piece", "end"}, turn : Nat, n : Nat, big : BOOLEAN, text : BOOLEAN]
Assembled == [request : Nat, events : Seq(PieceOf)]

StreamState ==
  [channel : Seq(LogEvent), broken : BOOLEAN, closed : BOOLEAN,
   decoder : {"off", "decoding", "draining", "ended"},
   turn : Seq(LogEvent), sawAssistant : BOOLEAN]
StreamOK(s) ==
  /\ s \in StreamState /\ Len(s.channel) <= Backlog /\ Len(s.turn) <= MaxTurnEvents
  /\ s.broken => s.closed

PumpState ==
  [pc : {"reading", "holding", "ended"}, held : Messages \cup {NoMessage}, gap : BOOLEAN]

SocketTypes ==
  /\ socket \in [state : {"off", "relaying", "over"}, agreed : Agreements \cup {"plain"},
                 parsed : BOOLEAN]
  /\ said \in [Sides -> Seq(Messages)] /\ pump \in [Sides -> PumpState]
  /\ \A s \in Sides : pump[s].pc = "holding" => pump[s].held \in Messages
  /\ asked \in Nat /\ telling \in [turn : Nat, n : Nat] /\ heard \in [Sides -> Seq(Nat)]
  /\ turn \in [open : BOOLEAN, request : Nat, events : Seq(PieceOf)]
  /\ pending \subseteq Assembled
  /\ \A i \in 1..Len(said["client"]) :
       said["client"][i].kind = "create" /\ said["client"][i].turn \in 1..asked
  /\ turn.open => turn.request \in 1..asked

StreamTypes ==
  /\ log \in Seq(LogEvent) /\ Len(log) <= MaxLog
  /\ streams \in [1..MaxRequests -> StreamState]
  /\ \A k \in 1..MaxRequests : StreamOK(streams[k])

HttpTypes ==
  /\ ends \subseteq Sides
  /\ phase \in {"reading", "sending", "awaiting", "streaming", "relaying", "done"}
  /\ number \in 0..MaxRequests
  /\ request \in Request \cup {NoRequest}
  /\ number = 0 => phase \in {"reading", "done"}
  /\ number > 0 => request \in Request
  /\ response \in [kind : {"none", "final", "switching", "interim"}, ended : BOOLEAN]
  /\ produced \in Nat /\ got \in 0..produced
  /\ produced <= IF request.endpoint = "stream" THEN Len(log) ELSE MaxSize
  /\ seen \in Seq(Text) /\ Len(seen) = got
  /\ copy \in Seq(Text) /\ Len(copy) <= ResponseCap

TypeInv == HttpTypes /\ StreamTypes /\ SocketTypes

LEMMA TypeInvImplies == TypeInv => ExchangeTypeOK
<1> SUFFICES ASSUME TypeInv PROVE ExchangeTypeOK
  OBVIOUS
<1>1. DOMAIN streams = 1..MaxRequests
  BY DEF TypeInv, StreamTypes
<1>2. \A k \in DOMAIN streams :
        /\ Len(streams[k].channel) <= Backlog /\ Len(streams[k].turn) <= MaxTurnEvents
        /\ streams[k].broken => streams[k].closed
  BY <1>1 DEF TypeInv, StreamTypes, StreamOK
<1>3. got <= produced /\ Len(seen) <= MaxLog + MaxSize
  BY ExchangeAssumption, StreamAssumption DEF TypeInv, HttpTypes, StreamTypes
<1>. QED  BY <1>2, <1>3 DEF TypeInv, HttpTypes, SocketTypes, ExchangeTypeOK

LEMMA NoStreamOK == StreamOK(NoStream)
BY StreamAssumption DEF StreamOK, NoStream, StreamState, Kinds, LogEvent

LEMMA InitTypes == Init => TypeInv
<1> SUFFICES ASSUME Init PROVE TypeInv
  OBVIOUS
<1>1. HttpTypes
  BY ExchangeAssumption, StreamAssumption, CapAssumption
     DEF Init, StreamInit, HttpTypes, NoRequest, NoResponse
<1>2. StreamTypes
  BY NoStreamOK, StreamAssumption DEF Init, StreamInit, StreamTypes, StreamOK
<1>3. SocketTypes
  BY DEF Init, SocketInit, SocketTypes, PumpState, NoTurn, Nobody, NoMessage, Sides
<1>. QED  BY <1>1, <1>2, <1>3 DEF TypeInv

(* The steps of the socket.                                                *)

LEMMA SayTypes ==
  ASSUME SocketTypes, NEW side \in Sides, NEW kind \in {"create", "piece", "end"},
         NEW t \in Nat, NEW n \in Nat, Say(side, kind, t, n)
  PROVE  /\ said' \in [Sides -> Seq(Messages)]
         /\ \A s \in Sides \ {side} : said'[s] = said[s]
         /\ \E big \in BOOLEAN :
              /\ said'[side] = Append(said[side], Message(kind, t, n, big))
              /\ Message(kind, t, n, big) \in Messages
              /\ oversize' = IF big THEN oversize \cup {<<kind, t, n>>} ELSE oversize
         /\ UNCHANGED <<socket, pump, heard, turn, pending, ends, recorded>>
<1>1. PICK big \in BOOLEAN :
        /\ said' = [said EXCEPT ![side] = Append(@, Message(kind, t, n, big))]
        /\ oversize' = IF big THEN oversize \cup {<<kind, t, n>>} ELSE oversize
        /\ UNCHANGED <<socket, pump, heard, turn, pending, ends, recorded>>
  BY DEF Say
<1>2. Message(kind, t, n, big) \in Messages
  BY DEF Message, Messages
<1>. QED  BY <1>1, <1>2 DEF SocketTypes

LEMMA AsksTypes == ASSUME SocketTypes, ClientAsks PROVE SocketTypes'
<1>1. Say("client", "create", asked + 1, 0) /\ asked' = asked + 1 /\ UNCHANGED telling
  BY DEF ClientAsks
<1>2. "client" \in Sides /\ asked \in Nat
  BY DEF Sides, SocketTypes
<1>3. PICK big \in BOOLEAN :
        /\ said' \in [Sides -> Seq(Messages)]
        /\ said'["client"] = Append(said["client"], Message("create", asked + 1, 0, big))
        /\ UNCHANGED <<socket, pump, heard, turn, pending, ends, recorded>>
  BY <1>1, <1>2, SayTypes
<1>4. \A i \in 1..Len(said'["client"]) :
        said'["client"][i].kind = "create" /\ said'["client"][i].turn \in 1..asked'
  <2>1. said["client"] \in Seq(Messages) /\ Message("create", asked + 1, 0, big) \in Messages
    BY <1>2 DEF SocketTypes, Message, Messages
  <2>2. /\ Message("create", asked + 1, 0, big).kind = "create"
        /\ Message("create", asked + 1, 0, big).turn = asked + 1
    BY DEF Message
  <2>3. /\ Len(said'["client"]) = Len(said["client"]) + 1 /\ Len(said["client"]) \in Nat
        /\ \A i \in 1..Len(said["client"]) : said'["client"][i] = said["client"][i]
        /\ said'["client"][Len(said["client"]) + 1] = Message("create", asked + 1, 0, big)
    BY <1>3, <2>1, Appended
  <2>4. \A i \in 1..Len(said["client"]) :
          said["client"][i].kind = "create" /\ said["client"][i].turn \in 1..asked
    BY DEF SocketTypes
  <2>5. ASSUME NEW i \in 1..Len(said'["client"])
        PROVE  i \in 1..Len(said["client"]) \/ i = Len(said["client"]) + 1
    BY <2>3
  <2>6. \A j \in 1..asked : j \in 1..asked + 1
    BY <1>2
  <2>7. asked + 1 \in 1..asked + 1
    BY <1>2
  <2>. QED  BY <1>1, <2>2, <2>3, <2>4, <2>5, <2>6, <2>7
<1>. QED  BY <1>1, <1>3, <1>4 DEF SocketTypes

LEMMA AnswersTypes == ASSUME SocketTypes, UpstreamAnswers PROVE SocketTypes'
<1>1. PICK kind \in {"piece", "end"} :
        /\ Say("upstream", kind, telling.turn + 1, telling.n + 1)
        /\ telling' \in [turn : Nat, n : Nat] /\ UNCHANGED asked
  BY DEF UpstreamAnswers, SocketTypes
<1>2. "upstream" \in Sides /\ "client" \in Sides /\ telling.turn + 1 \in Nat /\ telling.n + 1 \in Nat
  BY DEF Sides, SocketTypes
<1>3. /\ said' \in [Sides -> Seq(Messages)] /\ said'["client"] = said["client"]
      /\ UNCHANGED <<socket, pump, heard, turn, pending, ends, recorded>>
  BY <1>1, <1>2, SayTypes
<1>. QED  BY <1>1, <1>3 DEF SocketTypes

(* What a message does to the turns.                                       *)
TurnState == [open : BOOLEAN, request : Nat, events : Seq(PieceOf)]
PieceIn(m) == [turn |-> m.turn, n |-> m.n, text |-> m.text]
With(m) == [turn EXCEPT !.events = Append(@, PieceIn(m))]

LEMMA WithTypes ==
  ASSUME turn \in TurnState, NEW m \in Messages
  PROVE  /\ With(m) \in TurnState /\ PieceIn(m) \in PieceOf
         /\ With(m).open = turn.open /\ With(m).request = turn.request
         /\ With(m).events = Append(turn.events, PieceIn(m))
<1>1. PieceIn(m) \in PieceOf
  BY DEF PieceIn, PieceOf, Messages
<1>2. Append(turn.events, PieceIn(m)) \in Seq(PieceOf)
  BY <1>1, Appended DEF TurnState
<1>. QED  BY <1>1, <1>2 DEF With, TurnState

LEMMA FinishedTypes == ASSUME NEW t \in TurnState PROVE Finished(t) \subseteq Assembled
BY DEF TurnState, Finished, Assembled

LEMMA HeadOfSaid ==
  ASSUME SocketTypes, NEW side \in Sides, said[side] # <<>>
  PROVE  /\ Len(said[side]) \in Nat \ {0}
         /\ Head(said[side]) = said[side][1] /\ Head(said[side]) \in Messages
         /\ side = "client" => /\ Head(said[side]).kind = "create"
                               /\ Head(said[side]).turn \in 1..asked
         /\ Tail(said[side]) \in Seq(Messages) /\ Len(Tail(said[side])) = Len(said[side]) - 1
         /\ \A i \in 1..Len(said[side]) - 1 : Tail(said[side])[i] = said[side][i + 1]
<1>1. said[side] \in Seq(Messages)
  BY DEF SocketTypes
<1>2. /\ Len(said[side]) \in Nat \ {0}
      /\ Head(said[side]) = said[side][1] /\ Head(said[side]) \in Messages
      /\ Tail(said[side]) \in Seq(Messages) /\ Len(Tail(said[side])) = Len(said[side]) - 1
      /\ \A i \in 1..Len(said[side]) - 1 : Tail(said[side])[i] = said[side][i + 1]
  BY <1>1, Taken
<1>3. 1 \in 1..Len(said[side])
  BY <1>2
<1>4. side = "client" => said[side][1].kind = "create" /\ said[side][1].turn \in 1..asked
  BY <1>3 DEF SocketTypes
<1>. QED  BY <1>2, <1>4

(* What is noted of a message: nothing, a request, an event or a last one. *)
LEMMA NotedCases ==
  ASSUME SocketTypes, NEW side \in Sides, said[side] # <<>>, Noted(side)
  PROVE  \E m \in Completed(side, Head(said[side])) :
           \/ /\ ~socket.parsed \/ m = NoMessage \/ (side = "upstream" /\ ~turn.open)
              /\ UNCHANGED <<turn, pending>>
           \/ /\ socket.parsed /\ m \in Messages /\ side = "client"
              /\ pending' = pending \cup Finished(turn)
              /\ turn' = [open |-> TRUE, request |-> m.turn, events |-> <<>>]
           \/ /\ socket.parsed /\ m \in Messages /\ side = "upstream" /\ turn.open
              /\ \/ m.kind = "end" /\ turn' = NoTurn /\ pending' = pending \cup Finished(With(m))
                 \/ m.kind # "end" /\ turn' = With(m) /\ UNCHANGED pending
<1>1. PICK m \in Completed(side, Head(said[side])) :
        IF ~socket.parsed \/ m = NoMessage THEN UNCHANGED <<turn, pending>>
        ELSE IF side = "client" THEN FromClient(m) ELSE FromUpstream(m)
  BY DEF Noted
<1>2. Head(said[side]) \in Messages /\ (side = "client" => Head(said[side]).kind = "create")
  BY HeadOfSaid
<1>3. \/ m = NoMessage
      \/ m \in Messages /\ m.kind = Head(said[side]).kind
  BY <1>2 DEF Completed, Messages
<1>4. CASE ~socket.parsed \/ m = NoMessage
  BY <1>1, <1>4
<1>5. CASE socket.parsed /\ m # NoMessage /\ side = "client"
  BY <1>1, <1>2, <1>3, <1>5 DEF FromClient
<1>6. CASE socket.parsed /\ m # NoMessage /\ side # "client"
  BY <1>1, <1>3, <1>6 DEF FromUpstream, With, PieceIn, Sides
<1>. QED  BY <1>4, <1>5, <1>6

LEMMA NotedTypes ==
  ASSUME SocketTypes, NEW side \in Sides, said[side] # <<>>, Noted(side)
  PROVE  /\ turn' \in TurnState /\ pending' \subseteq Assembled
         /\ turn'.open => turn'.request \in 1..asked
<1>1. turn \in TurnState /\ pending \subseteq Assembled /\ (turn.open => turn.request \in 1..asked)
      /\ asked \in Nat
  BY DEF SocketTypes, TurnState
<1>2. Head(said[side]) \in Messages /\ (side = "client" => Head(said[side]).turn \in 1..asked)
  BY HeadOfSaid
<1>3. \A m \in Completed(side, Head(said[side])) :
        m \in Messages => m.turn = Head(said[side]).turn
  BY <1>2 DEF Completed, NoMessage, Messages
<1>4. Finished(turn) \subseteq Assembled
  BY <1>1, FinishedTypes
<1>5. \A m \in Messages : /\ With(m) \in TurnState /\ Finished(With(m)) \subseteq Assembled
                          /\ With(m).request = turn.request /\ With(m).open = turn.open
  BY <1>1, WithTypes, FinishedTypes
<1>6. NoTurn \in TurnState /\ ~NoTurn.open
  BY DEF NoTurn, TurnState, Nobody
<1>7. \A r \in 1..asked : [open |-> TRUE, request |-> r, events |-> <<>>] \in TurnState
  BY <1>1 DEF TurnState
<1>. QED  BY <1>1, <1>2, <1>3, <1>4, <1>5, <1>6, <1>7, NotedCases

LEMMA ReadTypes ==
  ASSUME SocketTypes, NEW side \in Sides, Read(side) PROVE SocketTypes'
<1>1. PICK m \in Messages, rest \in Seq(Messages) :
        /\ m = Head(said[side]) /\ rest = Tail(said[side])
        /\ Len(rest) = Len(said[side]) - 1 /\ Len(said[side]) \in Nat \ {0}
        /\ \A i \in 1..Len(said[side]) - 1 : rest[i] = said[side][i + 1]
  BY HeadOfSaid DEF Read
<1>2. /\ said' = [said EXCEPT ![side] = rest]
      /\ UNCHANGED <<socket, asked, telling, heard, oversize, ends, recorded>>
  BY <1>1 DEF Read
<1>3. said' \in [Sides -> Seq(Messages)] /\ \A s \in Sides : said'[s] = IF s = side THEN rest ELSE said[s]
  BY <1>2 DEF SocketTypes
<1>4. pump' \in [Sides -> PumpState] /\ \A s \in Sides : pump'[s].pc = "holding" => pump'[s].held \in Messages
  <2>1. pump \in [Sides -> PumpState] /\ \A s \in Sides : pump[s].pc = "holding" => pump[s].held \in Messages
    BY DEF SocketTypes
  <2>2. m.big \in BOOLEAN
    BY DEF Messages
  <2>3. /\ pump' \in [Sides -> PumpState] /\ pump'[side].held = m
        /\ \A s \in Sides \ {side} : pump'[s] = pump[s]
    BY <1>1, <2>1, <2>2 DEF Read, PumpState
  <2>. QED  BY <2>1, <2>3
<1>5. /\ turn' \in TurnState /\ pending' \subseteq Assembled
      /\ turn'.open => turn'.request \in 1..asked
  BY NotedTypes DEF Read
<1>6. \A i \in 1..Len(said'["client"]) :
        said'["client"][i].kind = "create" /\ said'["client"][i].turn \in 1..asked
  <2>1. \A i \in 1..Len(said["client"]) :
          said["client"][i].kind = "create" /\ said["client"][i].turn \in 1..asked
    BY DEF SocketTypes
  <2>2. "client" \in Sides
    BY DEF Sides
  <2>3. CASE side = "client"
    <3>1. \A i \in 1..Len(rest) : rest[i] = said["client"][i + 1] /\ i + 1 \in 1..Len(said["client"])
      BY <1>1, <2>3
    <3>. QED  BY <1>3, <2>1, <2>2, <2>3, <3>1
  <2>. QED  BY <1>3, <2>1, <2>2, <2>3
<1>. QED  BY <1>2, <1>3, <1>4, <1>5, <1>6 DEF SocketTypes, TurnState

LEMMA PassTypes ==
  ASSUME SocketTypes, NEW side \in Sides, Pass(side) PROVE SocketTypes'
<1>1. pump \in [Sides -> PumpState] /\ heard \in [Sides -> Seq(Nat)]
      /\ \A s \in Sides : pump[s].pc = "holding" => pump[s].held \in Messages
  BY DEF SocketTypes
<1>2. pump[side].held \in Messages
  BY <1>1 DEF Pass
<1>3. /\ pump' \in [Sides -> PumpState] /\ pump'[side].pc # "holding"
      /\ \A s \in Sides \ {side} : pump'[s] = pump[s]
  <2>1. PICK pc \in {"reading", "ended"} :
          pump' = [pump EXCEPT ![side].pc = pc, ![side].held = NoMessage]
    BY DEF Pass
  <2>2. pump'[side] = [pump[side] EXCEPT !.pc = pc, !.held = NoMessage]
    BY <1>1, <2>1
  <2>3. pump'[side] \in PumpState /\ pump'[side].pc = pc
    <3>1. PICK r \in PumpState : r = pump[side]
      BY <1>1
    <3>2. [r EXCEPT !.pc = pc, !.held = NoMessage] \in
            [pc : {pc}, held : {NoMessage}, gap : BOOLEAN]
      BY <3>1 DEF PumpState
    <3>3. pump'[side] \in [pc : {pc}, held : {NoMessage}, gap : BOOLEAN]
      BY <2>2, <3>1, <3>2
    <3>. QED  BY <3>3 DEF PumpState
  <2>4. /\ \A s \in Sides \ {side} : pump'[s] = pump[s]
        /\ pump' = [s \in Sides |-> pump'[s]]
    BY <1>1, <2>1
  <2>. QED  BY <1>1, <2>3, <2>4
<1>4. pump' \in [Sides -> PumpState] /\ \A s \in Sides : pump'[s].pc = "holding" => pump'[s].held \in Messages
  BY <1>1, <1>3
<1>5. heard' \in [Sides -> Seq(Nat)]
  <2>1. Heard(pump[side].held) \in Seq(Nat)
    BY <1>2 DEF Heard, Messages
  <2>2. \A s \in Sides : heard[s] \o Heard(pump[side].held) \in Seq(Nat)
    BY <1>1, <2>1
  <2>3. CASE UNCHANGED heard
    BY <1>1, <2>3
  <2>4. CASE heard' = [heard EXCEPT ![Other(side)] = @ \o Heard(pump[side].held)]
    <3>1. Other(side) \in Sides
      BY DEF Other, Sides
    <3>. QED  BY <1>1, <2>2, <2>4, <3>1
  <2>. QED  BY <2>3, <2>4 DEF Pass
<1>. QED  BY <1>4, <1>5 DEF Pass, SocketTypes

LEMMA SocketNextTypes == ASSUME SocketTypes, SocketNext PROVE SocketTypes'
<1>1. CASE RelayEnds
  <2>1. turn \in TurnState /\ NoTurn \in TurnState /\ ~NoTurn.open
    BY DEF SocketTypes, TurnState, NoTurn, Nobody
  <2>2. Finished(turn) \subseteq Assembled
    BY <2>1, FinishedTypes
  <2>. QED  BY <1>1, <2>1, <2>2 DEF RelayEnds, SocketTypes, TurnState
<1>2. ASSUME NEW side \in Sides, PumpEnds(side) PROVE SocketTypes'
  BY <1>2 DEF PumpEnds, SocketTypes, PumpState
<1>3. ASSUME NEW t \in pending, RecordTurn(t) PROVE SocketTypes'
  BY <1>3 DEF RecordTurn, SocketTypes
<1>. QED  BY <1>1, <1>2, <1>3, AsksTypes, AnswersTypes, ReadTypes, PassTypes DEF SocketNext

(* The steps of the streams.                                               *)

LEMMA ChangedTypes ==
  ASSUME NEW s \in StreamState
  PROVE  /\ \A channel \in Seq(LogEvent) : [s EXCEPT !.channel = channel] \in StreamState
         /\ \A broken, closed \in BOOLEAN :
              [s EXCEPT !.broken = broken, !.closed = closed] \in StreamState
         /\ \A t \in Seq(LogEvent), saw \in BOOLEAN :
              [s EXCEPT !.turn = t, !.sawAssistant = saw] \in StreamState
         /\ \A t \in Seq(LogEvent), decoder \in {"off", "decoding", "draining", "ended"} :
              [s EXCEPT !.decoder = decoder, !.turn = t, !.sawAssistant = FALSE] \in StreamState
BY DEF StreamState

LEMMA FedTypes ==
  ASSUME NEW s, StreamOK(s), NEW e \in LogEvent PROVE StreamOK(Fed(s, e))
<1>1. s \in StreamState /\ Backlog \in Nat /\ Len(s.channel) \in Nat
  BY StreamAssumption DEF StreamOK, StreamState
<1>2. Append(s.channel, e) \in Seq(LogEvent) /\ Len(Append(s.channel, e)) = Len(s.channel) + 1
  BY <1>1, Appended DEF StreamState
<1>3. CASE s.broken
  BY <1>3 DEF Fed
<1>4. CASE ~s.broken /\ Len(s.channel) < Backlog
  <2>a. Len(s.channel) + 1 <= Backlog
    BY <1>1, <1>4
  <2>1. PICK c \in Seq(LogEvent) : c = Append(s.channel, e) /\ Len(c) <= Backlog
    BY <1>2, <2>a
  <2>2. Fed(s, e) = [s EXCEPT !.channel = c]
    BY <1>4, <2>1 DEF Fed
  <2>3. [s EXCEPT !.channel = c] \in StreamState
    BY <1>1, ChangedTypes
  <2>. QED  BY <1>1, <1>4, <2>1, <2>2, <2>3 DEF StreamOK, StreamState
<1>5. CASE ~s.broken /\ ~(Len(s.channel) < Backlog)
  <2>1. Fed(s, e) = [s EXCEPT !.broken = TRUE, !.closed = TRUE]
    BY <1>5 DEF Fed
  <2>. QED  BY <1>1, <2>1 DEF StreamOK, StreamState
<1>. QED  BY <1>3, <1>4, <1>5

(* What the splitter keeps when it has taken an event.                     *)
LEMMA AddedTypes ==
  ASSUME NEW s, StreamOK(s), NEW e \in LogEvent
  PROVE  /\ StreamOK(Added(s, e))
         /\ Added(s, e).channel = s.channel /\ Added(s, e).decoder = s.decoder
         /\ Added(s, e).broken = s.broken /\ Added(s, e).closed = s.closed
         /\ e.kind = "user" => Added(s, e).turn = <<e>> /\ Added(s, e).sawAssistant = FALSE
         /\ e.kind # "user" /\ s.turn = <<>> => Added(s, e) = s
         /\ e.kind # "user" /\ s.turn # <<>> =>
              /\ Added(s, e).turn =
                   IF Len(s.turn) < MaxTurnEvents THEN Append(s.turn, e) ELSE s.turn
              /\ Added(s, e).sawAssistant = (s.sawAssistant \/ e.kind = "assistant")
<1>1. s \in StreamState /\ MaxTurnEvents \in Nat \ {0} /\ Len(s.turn) \in Nat
  BY StreamAssumption DEF StreamOK, StreamState
<1>2. CASE e.kind = "user"
  <2>a. <<e>> \in Seq(LogEvent) /\ Len(<<e>>) = 1
    OBVIOUS
  <2>1. PICK t \in Seq(LogEvent) : t = <<e>> /\ Len(t) = 1
    BY <2>a
  <2>2. Added(s, e) = [s EXCEPT !.turn = t, !.sawAssistant = FALSE]
    BY <1>2, <2>1 DEF Added
  <2>3. [s EXCEPT !.turn = t, !.sawAssistant = FALSE] \in StreamState
    BY <1>1, ChangedTypes
  <2>. QED  BY <1>1, <1>2, <2>1, <2>2, <2>3 DEF StreamOK, StreamState
<1>3. CASE e.kind # "user" /\ s.turn = <<>>
  BY <1>3 DEF Added
<1>4. CASE e.kind # "user" /\ s.turn # <<>>
  <2>1. PICK t \in Seq(LogEvent), saw \in BOOLEAN :
          /\ t = IF Len(s.turn) < MaxTurnEvents THEN Append(s.turn, e) ELSE s.turn
          /\ saw = (s.sawAssistant \/ e.kind = "assistant")
          /\ Len(t) <= MaxTurnEvents
    <3>1. Append(s.turn, e) \in Seq(LogEvent) /\ Len(Append(s.turn, e)) = Len(s.turn) + 1
      BY <1>1, Appended DEF StreamState
    <3>2. Len(s.turn) <= MaxTurnEvents /\ s.turn \in Seq(LogEvent)
      BY DEF StreamOK, StreamState
    <3>3. Len(s.turn) < MaxTurnEvents => Len(s.turn) + 1 <= MaxTurnEvents
      BY <1>1
    <3>4. PICK t \in Seq(LogEvent) : /\ t = IF Len(s.turn) < MaxTurnEvents THEN Append(s.turn, e) ELSE s.turn
                                    /\ Len(t) <= MaxTurnEvents
      BY <3>1, <3>2, <3>3
    <3>. QED  BY <3>4
  <2>2. Added(s, e) = [s EXCEPT !.turn = t, !.sawAssistant = saw]
    BY <1>4, <2>1 DEF Added
  <2>3. [s EXCEPT !.turn = t, !.sawAssistant = saw] \in StreamState
    BY <1>1, ChangedTypes
  <2>. QED  BY <1>1, <1>4, <2>1, <2>2, <2>3 DEF StreamOK, StreamState
<1>. QED  BY <1>2, <1>3, <1>4

(* A stream whose splitter has let go of its turn.                         *)
LEMMA LetGoTypes ==
  ASSUME NEW s, StreamOK(s), NEW decoder \in {"off", "decoding", "draining", "ended"},
         NEW t, t = [s EXCEPT !.decoder = decoder, !.turn = <<>>, !.sawAssistant = FALSE]
  PROVE  /\ StreamOK(t) /\ t.channel = s.channel /\ t.broken = s.broken /\ t.closed = s.closed
         /\ t.decoder = decoder /\ t.turn = <<>>
<1>1. s \in StreamState /\ MaxTurnEvents \in Nat
  BY StreamAssumption DEF StreamOK
<1>2. PICK none \in Seq(LogEvent) : none = <<>> /\ Len(none) = 0
  BY EmptySeq
<1>3. t = [s EXCEPT !.decoder = decoder, !.turn = none, !.sawAssistant = FALSE]
  BY <1>2
<1>4. t \in StreamState
  BY <1>1, <1>3 DEF StreamState
<1>. QED  BY <1>1, <1>2, <1>3, <1>4 DEF StreamOK, StreamState

LEMMA TookTypes ==
  ASSUME NEW s, StreamOK(s), s.channel # <<>>
  PROVE  LET took == [s EXCEPT !.channel = Tail(@)]
         IN /\ StreamOK(took) /\ Head(s.channel) \in LogEvent
            /\ took.channel = Tail(s.channel) /\ took.broken = s.broken /\ took.closed = s.closed
            /\ took.decoder = s.decoder /\ took.turn = s.turn /\ took.sawAssistant = s.sawAssistant
<1>1. s \in StreamState /\ Backlog \in Nat /\ s.channel \in Seq(LogEvent)
  BY StreamAssumption DEF StreamOK, StreamState
<1>2. /\ Len(s.channel) \in Nat \ {0} /\ Head(s.channel) \in LogEvent
      /\ Tail(s.channel) \in Seq(LogEvent) /\ Len(Tail(s.channel)) = Len(s.channel) - 1
  BY <1>1, Taken
<1>3. PICK c \in Seq(LogEvent) : c = Tail(s.channel) /\ Len(c) = Len(s.channel) - 1
  BY <1>2
<1>4. [s EXCEPT !.channel = c] \in StreamState
  BY <1>1, ChangedTypes
<1>. QED  BY <1>1, <1>2, <1>3, <1>4 DEF StreamOK, StreamState

(* One stream changes.                                                     *)
LEMMA OneStream ==
  ASSUME StreamTypes, NEW k \in 1..MaxRequests, NEW s, StreamOK(s),
         streams' = [streams EXCEPT ![k] = s], UNCHANGED log
  PROVE  StreamTypes' /\ streams'[k] = s /\ \A j \in 1..MaxRequests \ {k} : streams'[j] = streams[j]
BY DEF StreamTypes, StreamOK

(* What a decoder's step does to its stream.                               *)
LEMMA DecodeCases ==
  ASSUME StreamTypes, NEW k \in 1..MaxRequests, Decode(k)
  PROVE  /\ streams[k].decoder = "decoding" /\ streams[k].channel # <<>>
         /\ LET e    == Head(streams[k].channel)
                took == [streams[k] EXCEPT !.channel = Tail(@)]
                s    == Added(took, e)
            IN \/ /\ EndsTurn(took, e)
                  /\ recorded' = recorded \cup Events(TurnExchange(k, s.turn))
                  /\ streams' = [streams EXCEPT ![k] =
                                   [s EXCEPT !.decoder = "decoding", !.turn = <<>>, !.sawAssistant = FALSE]]
               \/ /\ ~EndsTurn(took, e) /\ streams' = [streams EXCEPT ![k] = s] /\ UNCHANGED recorded
         /\ UNCHANGED <<log, ends>>
<1> DEFINE e == Head(streams[k].channel)
           took == [streams[k] EXCEPT !.channel = Tail(@)]
<1>1. StreamOK(streams[k]) /\ streams[k].decoder = "decoding" /\ streams[k].channel # <<>>
  BY DEF Decode, StreamTypes
<1>2. StreamOK(took) /\ e \in LogEvent /\ took.decoder = "decoding"
  BY <1>1, TookTypes
<1>a. StreamOK(Added(took, e)) /\ Added(took, e).decoder = took.decoder
  BY <1>2, AddedTypes
<1>3. PICK s : s = Added(took, e) /\ StreamOK(s) /\ s.decoder = "decoding"
  BY <1>2, <1>a
<1>4. [s EXCEPT !.decoder = "decoding", !.turn = <<>>, !.sawAssistant = FALSE]
        = [s EXCEPT !.turn = <<>>, !.sawAssistant = FALSE]
  BY <1>3 DEF StreamOK, StreamState
<1>5. \/ /\ EndsTurn(took, e)
         /\ recorded' = recorded \cup Events(TurnExchange(k, s.turn))
         /\ streams' = [streams EXCEPT ![k] = [s EXCEPT !.turn = <<>>, !.sawAssistant = FALSE]]
      \/ /\ ~EndsTurn(took, e) /\ streams' = [streams EXCEPT ![k] = s] /\ UNCHANGED recorded
  BY <1>3 DEF Decode
<1>. QED  BY <1>1, <1>3, <1>4, <1>5 DEF Decode

LEMMA DecoderTypes ==
  ASSUME StreamTypes, NEW k \in 1..MaxRequests,
         Decode(k) \/ DecoderFails(k) \/ Drain(k) \/ DecoderEnds(k)
  PROVE  StreamTypes' /\ UNCHANGED <<log, ends>>
<1>1. StreamOK(streams[k])
  BY DEF StreamTypes
<1>2. CASE Decode(k)
  <2> DEFINE e == Head(streams[k].channel)
             took == [streams[k] EXCEPT !.channel = Tail(@)]
             s == Added(took, e)
  <2>1. StreamOK(s)
    BY <1>1, <1>2, TookTypes, AddedTypes DEF Decode
  <2>2. \A t : t = [s EXCEPT !.decoder = "decoding", !.turn = <<>>, !.sawAssistant = FALSE] => StreamOK(t)
    BY <2>1, LetGoTypes
  <2>3. UNCHANGED <<log, ends>>
        /\ \E t : StreamOK(t) /\ streams' = [streams EXCEPT ![k] = t]
    BY <1>2, <2>1, <2>2, DecodeCases
  <2>. QED  BY <2>3, OneStream
<1>3. CASE DecoderFails(k)
  <2>1. streams' = [streams EXCEPT ![k] =
          [streams[k] EXCEPT !.decoder = "draining", !.turn = <<>>, !.sawAssistant = FALSE]]
    BY <1>3 DEF DecoderFails, StreamTypes
  <2>2. StreamOK([streams[k] EXCEPT !.decoder = "draining", !.turn = <<>>, !.sawAssistant = FALSE])
    BY <1>1, LetGoTypes
  <2>. QED  BY <1>3, <2>1, <2>2, OneStream DEF DecoderFails
<1>4. CASE Drain(k)
  <2>1. streams' = [streams EXCEPT ![k] = [streams[k] EXCEPT !.channel = Tail(@)]]
    BY <1>4 DEF Drain, StreamTypes
  <2>. QED  BY <1>1, <1>4, <2>1, TookTypes, OneStream DEF Drain
<1>5. CASE DecoderEnds(k)
  <2>1. streams' = [streams EXCEPT ![k] =
          [streams[k] EXCEPT !.decoder = "ended", !.turn = <<>>, !.sawAssistant = FALSE]]
    BY <1>5 DEF DecoderEnds, StreamTypes
  <2>2. StreamOK([streams[k] EXCEPT !.decoder = "ended", !.turn = <<>>, !.sawAssistant = FALSE])
    BY <1>1, LetGoTypes
  <2>. QED  BY <1>5, <2>1, <2>2, OneStream DEF DecoderEnds
<1>. QED  BY <1>2, <1>3, <1>4, <1>5

(* The log only grows.                                                     *)
LEMMA TypedIsNat ==
  ASSUME StreamTypes
  PROVE  /\ Typed \in Nat /\ \A t : Said(t) \in Nat
         /\ IsFiniteSet({i \in 1..Len(log) : log[i].kind = "user"})
         /\ \A t, kind : IsFiniteSet(Of(kind, t))
<1>1. Len(log) \in Nat /\ IsFiniteSet(1..Len(log))
  BY FS_Interval DEF StreamTypes
<1>2. {i \in 1..Len(log) : log[i].kind = "user"} \subseteq 1..Len(log)
      /\ \A t, kind : Of(kind, t) \subseteq 1..Len(log)
  BY DEF Of
<1>3. IsFiniteSet({i \in 1..Len(log) : log[i].kind = "user"}) /\ \A t, kind : IsFiniteSet(Of(kind, t))
  BY <1>1, <1>2, FS_Subset
<1>. QED  BY <1>3, FS_CardinalityType DEF Typed, Said

LEMMA LogsCases ==
  ASSUME StreamTypes, SessionGoesOn
  PROVE  \E kind \in Kinds, t \in Nat, n \in Nat :
           /\ Logs(kind, t, n)
           /\ \/ kind = "user" /\ t = Typed + 1
              \/ kind = "context" /\ t = Typed
              \/ /\ kind \in {"assistant", "result"} /\ t \in 1..MaxPrompts
                 /\ t <= Typed /\ ~Ended(t) /\ (t = Typed \/ Overtaking)
                 /\ kind = "assistant" => n = Said(t) + 1
<1>1. Typed \in Nat /\ \A t : Said(t) \in Nat
  BY TypedIsNat
<1>2. MaxPrompts \in Nat
  BY StreamAssumption
<1>3. CASE PersonTypes
  BY <1>1, <1>3 DEF PersonTypes, Kinds
<1>4. CASE AppAddsContext
  BY <1>1, <1>4 DEF AppAddsContext, Kinds
<1>5. ASSUME NEW t \in 1..MaxPrompts, ModelAnswers(t)
      PROVE  \E kind \in Kinds, n \in Nat :
               /\ Logs(kind, t, n) /\ kind \in {"assistant", "result"}
               /\ t <= Typed /\ ~Ended(t) /\ (t = Typed \/ Overtaking)
               /\ kind = "assistant" => n = Said(t) + 1
  BY <1>1, <1>5 DEF ModelAnswers, Kinds
<1>. QED  BY <1>2, <1>3, <1>4, <1>5 DEF SessionGoesOn

LEMMA SessionTypes ==
  ASSUME StreamTypes, SessionGoesOn
  PROVE  /\ StreamTypes' /\ UNCHANGED <<streams, ends, recorded>>
         /\ \E e \in LogEvent : log' = Append(log, e)
         /\ Len(log') = Len(log) + 1 /\ \A i \in 1..Len(log) : log'[i] = log[i]
<1>1. PICK kind \in Kinds, t \in Nat, n \in Nat : Logs(kind, t, n)
  BY LogsCases
<1>2. PICK e \in LogEvent : log' = Append(log, e) /\ Len(log) < MaxLog /\ UNCHANGED <<streams, ends, recorded>>
  BY <1>1 DEF Logs, SessionEvent, LogEvent
<1>3. log \in Seq(LogEvent) /\ MaxLog \in Nat
  BY StreamAssumption DEF StreamTypes
<1>4. /\ log' \in Seq(LogEvent) /\ Len(log') = Len(log) + 1 /\ Len(log) \in Nat
      /\ \A i \in 1..Len(log) : log'[i] = log[i]
  BY <1>2, <1>3, Appended
<1>. QED  BY <1>2, <1>3, <1>4 DEF StreamTypes

(* The steps of the exchange itself.                                       *)

LEMMA Constants ==
  /\ RequestCap \in Nat \ {0} /\ ResponseCap \in Nat \ {0}
  /\ MaxSize \in Nat /\ MaxLog \in Nat /\ MaxRequests \in Nat /\ MaxPrompts \in Nat
  /\ "client" \in Sides /\ "upstream" \in Sides
BY CapAssumption, ExchangeAssumption, StreamAssumption DEF Sides

LEMMA RequestOK ==
  ASSUME HttpTypes, number > 0
  PROVE  request.endpoint \in Requests /\ request.turn \in Nat /\ request.size \in Nat \ {0}
BY Constants DEF HttpTypes, Request

LEMMA FinishCases ==
  ASSUME HttpTypes, StreamTypes, number > 0, NEW ok \in BOOLEAN, Finish(ok), UNCHANGED log
  PROVE  /\ StreamTypes' /\ ends' \in {ends, {}} /\ phase' \in {"reading", "done"}
         /\ phase' = "reading" => ok
         /\ \E question, answer \in BOOLEAN :
              recorded' = recorded \cup Events(Interaction(question, answer))
         /\ \A k \in 1..MaxRequests :
              /\ streams'[k].channel = streams[k].channel /\ streams'[k].broken = streams[k].broken
              /\ streams'[k].decoder = streams[k].decoder /\ streams'[k].turn = streams[k].turn
              /\ streams'[k].sawAssistant = streams[k].sawAssistant
<1>1. number \in 1..MaxRequests /\ StreamOK(streams[number])
  BY Constants DEF HttpTypes, StreamTypes
<1>2. PICK closed \in BOOLEAN : closed = (streams[number].closed \/ request.endpoint = "stream")
  OBVIOUS
<1>3. PICK s : s = [streams[number] EXCEPT !.closed = closed]
  OBVIOUS
<1>4. streams[number] \in StreamState
  BY <1>1 DEF StreamOK
<1>5. StreamOK(s) /\ s.channel = streams[number].channel /\ s.broken = streams[number].broken
      /\ s.decoder = streams[number].decoder /\ s.turn = streams[number].turn
      /\ s.sawAssistant = streams[number].sawAssistant
  BY <1>1, <1>2, <1>3, <1>4 DEF StreamOK, StreamState
<1>6. streams' = [streams EXCEPT ![number] = s]
  BY <1>1, <1>2, <1>3 DEF Finish, StreamTypes
<1>7. StreamTypes' /\ streams'[number] = s /\ \A j \in 1..MaxRequests \ {number} : streams'[j] = streams[j]
  BY <1>1, <1>5, <1>6, OneStream
<1>8. /\ ends' \in {ends, {}} /\ phase' \in {"reading", "done"} /\ (phase' = "reading" => ok)
      /\ \E question, answer \in BOOLEAN :
           recorded' = recorded \cup Events(Interaction(question, answer))
  BY DEF Finish, Over
<1>. QED  BY <1>5, <1>7, <1>8

LEMMA OpenedTypes ==
  ASSUME NEW readable \in BOOLEAN
  PROVE  /\ StreamOK(Opened(readable)) /\ Opened(readable).channel = <<>>
         /\ ~Opened(readable).broken /\ Opened(readable).turn = <<>>
<1>1. PICK decoder \in {"decoding", "draining"} : Opened(readable) = [NoStream EXCEPT !.decoder = decoder]
  BY DEF Opened
<1>2. NoStream \in StreamState /\ StreamOK(NoStream) /\ NoStream.channel = <<>> /\ ~NoStream.broken
      /\ NoStream.turn = <<>>
  BY NoStreamOK DEF StreamOK, NoStream
<1>3. /\ Opened(readable) \in StreamState /\ Opened(readable).channel = NoStream.channel
      /\ Opened(readable).turn = NoStream.turn /\ Opened(readable).broken = NoStream.broken
      /\ Opened(readable).closed = NoStream.closed
  BY <1>1, <1>2 DEF StreamState
<1>. QED  BY <1>2, <1>3 DEF StreamOK

(* The outcomes of a head.                                                 *)
HeadSwitches ==
  /\ phase' = "relaying" /\ (\E parsed \in BOOLEAN : Upgrade(parsed))
  /\ response.kind = "switching"
  /\ UNCHANGED <<said, pump, asked, telling, heard, oversize, turn, pending, streams, ends, recorded>>
HeadStreams ==
  /\ phase' = "streaming"
  /\ \E readable \in BOOLEAN :
       streams' = IF request.endpoint = "stream"
                  THEN [streams EXCEPT ![number] = Opened(readable)] ELSE streams
  /\ UNCHANGED <<socketVars, ends, recorded>>
LEMMA HeadCases ==
  ASSUME ForwardHead
  PROVE  /\ phase = "awaiting"
         /\ UNCHANGED <<number, request, response, produced, got, seen, copy, log>>
         /\ \/ Over /\ UNCHANGED <<socketVars, streams, recorded>>
            \/ HeadSwitches
            \/ Finish(TRUE) /\ UNCHANGED socketVars
            \/ HeadStreams
<1>1. CASE "client" \notin ends
  BY <1>1 DEF ForwardHead
<1>2. CASE "client" \in ends /\ response.kind = "switching"
  BY <1>2 DEF ForwardHead, HeadSwitches
<1>3. CASE "client" \in ends /\ response.kind = "interim"
  BY <1>3 DEF ForwardHead
<1>4. CASE "client" \in ends /\ response.kind \notin {"switching", "interim"}
  BY <1>4 DEF ForwardHead, HeadStreams
<1>. QED  BY <1>1, <1>2, <1>3, <1>4

(* A unit on its way to the client.                                        *)
LEMMA UnitTypes ==
  ASSUME HttpTypes, StreamTypes, phase = "streaming", HasUnit
  PROVE  /\ number \in 1..MaxRequests /\ Unit \in Text
         /\ request.endpoint = "stream" => Unit \in LogEvent /\ got + 1 \in 1..Len(log) /\ Unit = log[got + 1]
<1>1. number \in 1..MaxRequests /\ number > 0 /\ got \in Nat /\ produced \in Nat
  BY Constants DEF HttpTypes
<1>2. request.turn \in Nat
  BY <1>1, RequestOK
<1>3. CASE request.endpoint = "stream"
  <2>1. got + 1 \in 1..Len(log) /\ log \in Seq(LogEvent)
    BY <1>1, <1>3 DEF HttpTypes, HasUnit, StreamTypes
  <2>2. log[got + 1] \in LogEvent
    BY <2>1, ElementOfSeq
  <2>. QED  BY <1>1, <1>3, <2>1, <2>2 DEF Unit, Text
<1>4. CASE request.endpoint # "stream"
  <2>1. Piece(request.turn, got + 1) \in PieceOf
    BY <1>1, <1>2 DEF Piece, PieceOf
  <2>. QED  BY <1>1, <1>4, <2>1 DEF Unit, Text
<1>. QED  BY <1>3, <1>4

LEMMA UnitCases ==
  ASSUME HttpTypes, StreamTypes, ForwardUnit
  PROVE  /\ number \in 1..MaxRequests /\ StreamTypes'
         /\ seen' \in Seq(Text) /\ seen' = Append(seen, Unit) /\ Len(seen') = got'
         /\ copy' \in Seq(Text) /\ Len(copy') <= ResponseCap /\ copy' = Copied(Unit)
         /\ streams' = [streams EXCEPT ![number] =
              IF request.endpoint = "stream" THEN Fed(streams[number], Unit) ELSE streams[number]]
<1>1. number \in 1..MaxRequests /\ Unit \in Text /\ (request.endpoint = "stream" => Unit \in LogEvent)
  BY UnitTypes DEF ForwardUnit
<1>2. StreamOK(streams[number])
  BY <1>1 DEF StreamTypes
<1>3. PICK s : /\ s = IF request.endpoint = "stream" THEN Fed(streams[number], Unit) ELSE streams[number]
               /\ StreamOK(s)
  BY <1>1, <1>2, FedTypes
<1>4. streams' = [streams EXCEPT ![number] = s]
  BY <1>1, <1>3 DEF ForwardUnit, StreamTypes
<1>5. StreamTypes'
  BY <1>1, <1>3, <1>4, OneStream DEF ForwardUnit
<1>6. seen' \in Seq(Text) /\ seen' = Append(seen, Unit) /\ Len(seen') = got'
  <2>1. seen \in Seq(Text) /\ Len(seen) = got
    BY DEF HttpTypes
  <2>. QED  BY <1>1, <2>1, Appended DEF ForwardUnit
<1>7. copy' \in Seq(Text) /\ Len(copy') <= ResponseCap
  <2>1. copy \in Seq(Text) /\ Len(copy) <= ResponseCap /\ copy' = Copied(Unit)
    BY DEF HttpTypes, ForwardUnit
  <2>2. Append(copy, Unit) \in Seq(Text) /\ Len(Append(copy, Unit)) = Len(copy) + 1 /\ Len(copy) \in Nat
    BY <1>1, <2>1, Appended
  <2>3. Len(copy) < ResponseCap => Len(copy) + 1 <= ResponseCap
    BY <2>2, Constants
  <2>. QED  BY <2>1, <2>2, <2>3 DEF Copied
<1>. QED  BY <1>1, <1>3, <1>4, <1>5, <1>6, <1>7 DEF ForwardUnit

LEMMA HttpStepTypes ==
  ASSUME TypeInv,
         \/ ClientRequests \/ UpstreamResponds \/ UpstreamProduces \/ Forward
         \/ \E side \in Sides : EndGoes(side)
  PROVE  TypeInv'
<1>0. HttpTypes /\ StreamTypes /\ SocketTypes
  BY DEF TypeInv
<1>2. CASE ForwardHead
  <2>1. /\ number > 0 /\ number \in 1..MaxRequests
        /\ UNCHANGED <<number, request, response, produced, got, seen, copy, log>>
    BY <1>0, <1>2, HeadCases, Constants DEF HttpTypes
  <2>2. /\ StreamTypes' /\ ends' \in {ends, {}}
        /\ phase' \in {"reading", "done", "streaming", "relaying"}
    <3>1. CASE Over /\ UNCHANGED <<socketVars, streams, recorded>>
      BY <1>0, <2>1, <3>1 DEF Over, StreamTypes, StreamOK
    <3>2. CASE HeadSwitches
      BY <1>0, <2>1, <3>2 DEF HeadSwitches, StreamTypes, StreamOK
    <3>3. CASE Finish(TRUE)
      BY <1>0, <2>1, <3>3, FinishCases
    <3>4. CASE HeadStreams
      <4>1. CASE UNCHANGED streams
        BY <1>0, <2>1, <3>4, <4>1 DEF HeadStreams, StreamTypes, StreamOK
      <4>2. ASSUME NEW readable \in BOOLEAN, streams' = [streams EXCEPT ![number] = Opened(readable)]
            PROVE  StreamTypes'
        BY <1>0, <2>1, <4>2, OpenedTypes, OneStream
      <4>. QED  BY <3>4, <4>1, <4>2 DEF HeadStreams
    <3>. QED  BY <1>2, <3>1, <3>2, <3>3, <3>4, HeadCases
  <2>3. SocketTypes'
    <3>1. CASE UNCHANGED socketVars
      BY <1>0, <3>1 DEF SocketTypes, socketVars
    <3>2. CASE HeadSwitches
      <4>1. socket' \in [state : {"off", "relaying", "over"}, agreed : Agreements \cup {"plain"},
                         parsed : BOOLEAN]
        BY <3>2 DEF HeadSwitches, Upgrade
      <4>. QED  BY <1>0, <3>2, <4>1 DEF HeadSwitches, SocketTypes
    <3>. QED  BY <1>2, <3>1, <3>2, HeadCases DEF HeadStreams
  <2>. QED  BY <1>0, <2>1, <2>2, <2>3 DEF HttpTypes, TypeInv
<1>3. CASE ForwardUnit
  <2>1. SocketTypes'
    BY <1>0, <1>3 DEF ForwardUnit, SocketTypes, socketVars
  <2>2. got' \in 0..produced /\ got \in Nat
    BY <1>0, <1>3 DEF ForwardUnit, HttpTypes, HasUnit
  <2>. QED  BY <1>0, <1>3, <2>1, <2>2, UnitCases DEF ForwardUnit, HttpTypes, TypeInv
<1>4. CASE ForwardEnd
  <2>1. SocketTypes' /\ UNCHANGED <<number, request, response, produced, got, seen, copy, log>>
    BY <1>0, <1>4 DEF ForwardEnd, SocketTypes, socketVars
  <2>2. number > 0
    BY <1>0, <1>4 DEF ForwardEnd, HttpTypes
  <2>3. Finish(TRUE) \/ Finish(FALSE)
    BY <1>4 DEF ForwardEnd
  <2>4. StreamTypes' /\ ends' \in {ends, {}} /\ phase' \in {"reading", "done"}
    BY <1>0, <2>1, <2>2, <2>3, FinishCases
  <2>. QED  BY <1>0, <2>1, <2>2, <2>4 DEF HttpTypes, TypeInv
<1>5. \/ UNCHANGED socketVars /\ UNCHANGED streamVars
      \/ ForwardHead \/ ForwardUnit \/ ForwardEnd
  BY DEF ClientRequests, UpstreamResponds, UpstreamProduces, EndGoes, Forward, Send, NoAnswer,
         ClientLeft, RelayReturns
<1>6. CASE UNCHANGED socketVars /\ UNCHANGED streamVars
  <2>1. StreamTypes' /\ SocketTypes'
    BY <1>0, <1>6 DEF StreamTypes, SocketTypes, streamVars, socketVars, StreamOK
  <2>2. CASE ClientRequests
    <3>1. number' \in 1..MaxRequests /\ request' \in Request
      BY <1>0, <2>2, Constants DEF ClientRequests, HttpTypes
    <3>2. NoResponse \in [kind : {"none", "final", "switching", "interim"}, ended : BOOLEAN]
      BY DEF NoResponse
    <3>3. 0 <= IF request'.endpoint = "stream" THEN Len(log') ELSE MaxSize
      BY <2>1, Constants DEF StreamTypes
    <3>. QED  BY <1>0, <2>1, <2>2, <3>1, <3>2, <3>3, Constants DEF ClientRequests, HttpTypes, TypeInv
  <2>3. CASE UpstreamResponds
    <3>1. response' \in [kind : {"none", "final", "switching", "interim"}, ended : BOOLEAN]
      BY <2>3 DEF UpstreamResponds, NoResponse, ResponseKinds
    <3>. QED  BY <1>0, <1>6, <2>1, <2>3, <3>1 DEF UpstreamResponds, HttpTypes, TypeInv, streamVars
  <2>4. CASE UpstreamProduces
    <3>1. response' \in [kind : {"none", "final", "switching", "interim"}, ended : BOOLEAN]
      BY <1>0, <2>4 DEF UpstreamProduces, HttpTypes
    <3>2. /\ produced' \in Nat /\ got' \in 0..produced'
          /\ produced' <= IF request.endpoint = "stream" THEN Len(log) ELSE MaxSize
      <4>1. Len(log) \in Nat
        BY <1>0 DEF StreamTypes
      <4>. QED  BY <1>0, <2>4, <4>1, Constants DEF UpstreamProduces, HttpTypes
    <3>. QED  BY <1>0, <1>6, <2>1, <2>4, <3>1, <3>2 DEF UpstreamProduces, HttpTypes, TypeInv, streamVars
  <2>5. CASE \E side \in Sides : EndGoes(side)
    BY <1>0, <1>6, <2>1, <2>5 DEF EndGoes, HttpTypes, TypeInv, streamVars, httpVars
  <2>6. CASE Send \/ NoAnswer \/ ClientLeft \/ RelayReturns
    <3>1. /\ ends' \subseteq Sides /\ phase' \in {"awaiting", "done"}
          /\ phase' = "awaiting" => phase = "sending"
          /\ UNCHANGED <<number, request, response, produced, got, seen, copy, log>>
      BY <1>0, <1>6, <2>6 DEF Send, NoAnswer, ClientLeft, RelayReturns, Over, HttpTypes, streamVars
    <3>. QED  BY <1>0, <2>1, <3>1 DEF HttpTypes, TypeInv
  <2>. QED  BY <1>6, <2>2, <2>3, <2>4, <2>5, <2>6, <1>2, <1>3, <1>4 DEF Forward
<1>. QED  BY <1>2, <1>3, <1>4, <1>5, <1>6

LEMMA NextCases ==
  ASSUME [Next]_vars
  PROVE  \/ ClientRequests \/ UpstreamResponds \/ UpstreamProduces \/ Forward
         \/ \E side \in Sides : EndGoes(side)
         \/ SocketNext /\ UNCHANGED <<httpVars, streamVars>>
         \/ SessionGoesOn /\ CaughtUp /\ UNCHANGED <<httpVars, socketVars>>
         \/ (\E k \in 1..MaxRequests : Decode(k) \/ DecoderFails(k) \/ Drain(k) \/ DecoderEnds(k))
              /\ UNCHANGED <<httpVars, socketVars>>
         \/ UNCHANGED <<httpVars, socketVars, streamVars, ends, recorded>>
BY DEF Next, DecoderNext, vars

LEMMA SocketNextOutside ==
  ASSUME SocketNext
  PROVE  /\ ends' \in {ends, {}}
         /\ \/ UNCHANGED recorded
            \/ \E t \in pending : RecordTurn(t)
<1>1. CASE ClientAsks \/ UpstreamAnswers
  BY <1>1 DEF ClientAsks, UpstreamAnswers, Say
<1>2. CASE RelayEnds
  BY <1>2 DEF RelayEnds
<1>3. ASSUME NEW side \in Sides, Read(side) \/ Pass(side) \/ PumpEnds(side)
      PROVE  ends' \in {ends, {}} /\ UNCHANGED recorded
  BY <1>3 DEF Read, Pass, PumpEnds
<1>4. ASSUME NEW t \in pending, RecordTurn(t) PROVE UNCHANGED ends
  BY <1>4 DEF RecordTurn
<1>. QED  BY <1>1, <1>2, <1>3, <1>4 DEF SocketNext

LEMMA NextTypes ==
  ASSUME TypeInv, [Next]_vars PROVE TypeInv'
<1>0. HttpTypes /\ StreamTypes /\ SocketTypes
  BY DEF TypeInv
<1>1. CASE SocketNext /\ UNCHANGED <<httpVars, streamVars>>
  <2>1. ends' \in {ends, {}} /\ SocketTypes'
    BY <1>0, <1>1, SocketNextOutside, SocketNextTypes
  <2>2. StreamTypes'
    BY <1>0, <1>1 DEF streamVars, StreamTypes, StreamOK
  <2>3. HttpTypes'
    BY <1>0, <1>1, <2>1 DEF streamVars, httpVars, HttpTypes
  <2>. QED  BY <2>1, <2>2, <2>3 DEF TypeInv
<1>2. CASE SessionGoesOn /\ UNCHANGED <<httpVars, socketVars>>
  <2>1. StreamTypes' /\ UNCHANGED ends /\ Len(log') = Len(log) + 1
    BY <1>0, <1>2, SessionTypes
  <2>2. SocketTypes'
    BY <1>0, <1>2 DEF socketVars, SocketTypes
  <2>3. Len(log) \in Nat
    BY <1>0 DEF StreamTypes
  <2>4. HttpTypes'
    BY <1>0, <1>2, <2>1, <2>3 DEF httpVars, HttpTypes
  <2>. QED  BY <2>1, <2>2, <2>4 DEF TypeInv
<1>3. ASSUME NEW k \in 1..MaxRequests, Decode(k) \/ DecoderFails(k) \/ Drain(k) \/ DecoderEnds(k),
             UNCHANGED <<httpVars, socketVars>>
      PROVE  TypeInv'
  <2>1. StreamTypes' /\ UNCHANGED <<log, ends>>
    BY <1>0, <1>3, DecoderTypes
  <2>2. SocketTypes'
    BY <1>0, <1>3 DEF socketVars, SocketTypes
  <2>3. HttpTypes'
    BY <1>0, <1>3, <2>1 DEF httpVars, HttpTypes
  <2>. QED  BY <2>1, <2>2, <2>3 DEF TypeInv
<1>4. CASE UNCHANGED <<httpVars, socketVars, streamVars, ends, recorded>>
  BY <1>4 DEF httpVars, socketVars, streamVars, TypeInv, HttpTypes, StreamTypes, StreamOK, SocketTypes
<1>. QED  BY <1>1, <1>2, <1>3, <1>4, HttpStepTypes, NextCases

(* Types, and that no queue, copy or turn is longer than it may be: the    *)
(* channel beside a stream, the copy of a response, a turn that is         *)
(* assembled, whatever arrives in whatever order.                          *)
THEOREM TypesHold == Spec => []ExchangeTypeOK
<1>1. TypeInv /\ [Next]_vars => TypeInv'
  BY NextTypes
<1>. QED  BY <1>1, InitTypes, TypeInvImplies, PTL DEF Spec

-----------------------------------------------------------------------------
(* What is recorded of an exchange.                                        *)

LEMMA EventCases ==
  ASSUME NEW in, NEW e \in Events(in)
  PROVE  /\ ~Skips(in) /\ HasParser(in.endpoint)
         /\ e.id = EventId(in) /\ e.endpoint = in.endpoint /\ e.method = in.method
         /\ e.prompt = Prompt(in) /\ e.answer = Answer(in) /\ e.noted = IsNoted(in)
BY DEF Events, Event

LEMMA TurnRecorded ==
  ASSUME NEW t \in pending, RecordTurn(t),
         NEW e \in recorded' \ recorded
  PROVE  /\ e.id = <<"SOCKET", t.request>> /\ e.endpoint = "socket" /\ e.method = "SOCKET"
         /\ e.prompt = t.request /\ e.answer = t.events
<1> DEFINE in == [endpoint |-> "socket", method |-> "SOCKET", key |-> t.request, turn |-> t.request,
                  size |-> 0, copied |-> 0, readable |-> TRUE, answer |-> t.events]
<1>1. e \in Events(in)
  BY DEF RecordTurn
<1>2. Readable(in)
  BY Constants DEF Readable
<1>. QED  BY <1>1, <1>2, EventCases DEF EventId, Prompt, Answer

(* Without a pending turn recorded, the socket records nothing.            *)
LEMMA TurnRecords ==
  ASSUME pending \subseteq Assembled, NEW t \in pending, RecordTurn(t)
  PROVE  /\ recorded \subseteq recorded'
         /\ \E e \in recorded' : e.method = "SOCKET" /\ e.prompt = t.request /\ e.answer = t.events
<1> DEFINE in == [endpoint |-> "socket", method |-> "SOCKET", key |-> t.request, turn |-> t.request,
                  size |-> 0, copied |-> 0, readable |-> TRUE, answer |-> t.events]
<1>1. recorded' = recorded \cup Events(in)
  BY DEF RecordTurn
<1>2. Readable(in)
  BY Constants DEF Readable
<1>3. Event(in) \in Events(in)
  BY DEF Events, HasParser, Skips
<1>4. Event(in).method = "SOCKET" /\ Event(in).prompt = t.request /\ Event(in).answer = t.events
  BY <1>2 DEF Event, Prompt, Answer
<1>. QED  BY <1>1, <1>3, <1>4

LEMMA InteractionRecorded ==
  ASSUME HttpTypes, number > 0, NEW question \in BOOLEAN, NEW answer \in BOOLEAN,
         NEW e \in Events(Interaction(question, answer))
  PROVE  /\ e.method = "HTTP" /\ e.endpoint = request.endpoint /\ e.endpoint # "stream"
         /\ e.answer \in {copy, <<>>} /\ (request.size > RequestCap => e.noted)
         /\ e.id = <<"HTTP", number>> \/ (e.id = <<"cowork", e.prompt>> /\ e.prompt # Nobody)
         /\ e.endpoint = "message" =>
              /\ e.answer = <<>>
              /\ e.id = IF e.prompt # Nobody THEN <<"cowork", e.prompt>> ELSE <<"HTTP", number>>
<1> DEFINE in == Interaction(question, answer)
<1>1. request.size \in Nat
  BY RequestOK
<1>2. /\ ~Skips(in) /\ e.id = EventId(in) /\ e.endpoint = in.endpoint /\ e.method = in.method
      /\ e.prompt = Prompt(in) /\ e.answer = Answer(in) /\ e.noted = IsNoted(in)
  BY EventCases
<1>3. /\ in.method = "HTTP" /\ in.endpoint = request.endpoint /\ in.answer \in {copy, <<>>}
      /\ in.copied = AtLeast(request.size, RequestCap) /\ in.key = number
  BY DEF Interaction
<1>4. in.endpoint # "stream"
  BY <1>2, <1>3 DEF Skips
<1>5. request.size > RequestCap => IsNoted(in)
  BY <1>1, <1>3, Constants DEF IsNoted, AtLeast
<1>. HIDE DEF in
<1>. QED  BY <1>2, <1>3, <1>4, <1>5 DEF EventId, Answer

(* What the copy is to what the client has, and what is recorded of the    *)
(* exchanges so far.                                                       *)
CopyOK == IsPrefix(copy, seen) /\ (Len(copy) < ResponseCap => Len(copy) = Len(seen))
SeenOK ==
  \A e \in recorded : \A k : e.id = <<"HTTP", k>> =>
    /\ k \in 1..number
    /\ k = number => IsPrefix(e.answer, seen) /\ (request.size > RequestCap => e.noted)
AnswersOK == \A e \in recorded : e.id[1] = "HTTP" => e.answer \in Seq(Text)
SeenInv == TypeInv /\ CopyOK /\ SeenOK /\ AnswersOK

LEMMA CopyGrows ==
  ASSUME TypeInv, CopyOK, ForwardUnit PROVE CopyOK'
<1>1. /\ seen \in Seq(Text) /\ copy \in Seq(Text) /\ Unit \in Text
      /\ copy' = Copied(Unit) /\ seen' = Append(seen, Unit)
  BY UnitTypes, UnitCases DEF TypeInv, HttpTypes, ForwardUnit
<1>2. PICK unit \in Text : unit = Unit
  BY <1>1
<1>3. /\ seen' \in Seq(Text) /\ Len(seen') = Len(seen) + 1 /\ Len(seen) \in Nat
      /\ \A i \in 1..Len(seen) : seen'[i] = seen[i]
      /\ seen'[Len(seen) + 1] = unit
  BY <1>1, <1>2, Appended
<1>4. Len(copy) \in Nat /\ Len(copy) <= Len(seen) /\ \A i \in 1..Len(copy) : copy[i] = seen[i]
  BY <1>1, Prefix DEF CopyOK
<1>5. CASE Len(copy) < ResponseCap
  <2>1. /\ copy' \in Seq(Text) /\ Len(copy') = Len(copy) + 1
        /\ \A i \in 1..Len(copy) : copy'[i] = copy[i]
        /\ copy'[Len(copy) + 1] = unit
    BY <1>1, <1>2, <1>5, Appended DEF Copied
  <2>2. Len(copy) = Len(seen)
    BY <1>5 DEF CopyOK
  <2>3. Len(copy') <= Len(seen') /\ \A i \in 1..Len(copy') : copy'[i] = seen'[i]
    BY <1>3, <1>4, <2>1, <2>2
  <2>4. IsPrefix(copy', seen')
    BY <1>3, <2>1, <2>3, Prefix
  <2>. QED  BY <1>3, <2>1, <2>2, <2>4 DEF CopyOK
<1>6. CASE ~(Len(copy) < ResponseCap)
  <2>1. copy' = copy
    BY <1>1, <1>6 DEF Copied
  <2>. QED  BY <1>1, <1>2, <1>6, <2>1, PrefixGrows DEF CopyOK
<1>. QED  BY <1>5, <1>6

(* Nothing of an exchange is recorded, and its client gets nothing more.   *)
LEMMA SeenStays ==
  ASSUME SeenInv, TypeInv', UNCHANGED <<number, request, seen, copy>>,
         \A e \in recorded' \ recorded : \A k : e.id # <<"HTTP", k>>,
         \A e \in recorded' \ recorded : e.id[1] # "HTTP"
  PROVE  SeenInv'
BY DEF SeenInv, CopyOK, SeenOK, AnswersOK

LEMMA FinishSeen ==
  ASSUME SeenInv, TypeInv', number > 0, UNCHANGED <<number, request, seen, copy>>,
         NEW question \in BOOLEAN, NEW answer \in BOOLEAN,
         recorded' = recorded \cup Events(Interaction(question, answer))
  PROVE  SeenInv'
<1>1. HttpTypes /\ copy \in Seq(Text) /\ seen \in Seq(Text) /\ <<>> \in Seq(Text) /\ number \in 1..number
  BY DEF SeenInv, TypeInv, HttpTypes
<1>2. IsPrefix(copy, seen) /\ IsPrefix(<<>>, seen)
  BY <1>1, EmptyPrefix DEF SeenInv, CopyOK
<1>3. ASSUME NEW e \in recorded', e \notin recorded
      PROVE  /\ e.answer \in Seq(Text) /\ IsPrefix(e.answer, seen)
             /\ request.size > RequestCap => e.noted
             /\ e.id = <<"HTTP", number>> \/ e.id = <<"cowork", e.prompt>>
  BY <1>1, <1>2, <1>3, InteractionRecorded
<1>4. \A k, p : <<"HTTP", k>> # <<"cowork", p>> /\ (<<"HTTP", k>> = <<"HTTP", number>> => k = number)
  OBVIOUS
<1>. QED  BY <1>1, <1>3, <1>4 DEF SeenInv, CopyOK, SeenOK, AnswersOK

LEMMA DecodeRecorded ==
  ASSUME StreamTypes, NEW k \in 1..MaxRequests, Decode(k), NEW e \in recorded' \ recorded
  PROVE  /\ EndsTurn([streams[k] EXCEPT !.channel = Tail(@)], Head(streams[k].channel))
         /\ LET s == Added([streams[k] EXCEPT !.channel = Tail(@)], Head(streams[k].channel))
            IN e \in Events(TurnExchange(k, s.turn))
BY DecodeCases

LEMMA TurnEvent ==
  ASSUME NEW k, NEW t, NEW e \in Events(TurnExchange(k, t))
  PROVE  /\ e.method = "TURN" /\ e.endpoint = "stream"
         /\ e.prompt = t[1].turn /\ e.answer = AnswerOf(t) /\ e.noted = FALSE
         /\ e.id = IF t[1].turn # Nobody THEN <<"cowork", t[1].turn>> ELSE <<"TURN", k>>
<1> DEFINE in == TurnExchange(k, t)
<1>1. Readable(in) /\ in.turn = t[1].turn /\ in.endpoint = "stream" /\ in.method = "TURN"
      /\ in.answer = AnswerOf(t) /\ ~IsNoted(in) /\ in.key = k
  BY Constants DEF Readable, TurnExchange, IsNoted
<1>2. /\ e.id = EventId(in) /\ e.endpoint = in.endpoint /\ e.method = in.method
      /\ e.prompt = Prompt(in) /\ e.answer = Answer(in) /\ e.noted = IsNoted(in)
  BY EventCases
<1>3. IsNoted(in) \in BOOLEAN
  BY DEF IsNoted
<1>. HIDE DEF in
<1>. QED  BY <1>1, <1>2, <1>3 DEF EventId, Prompt, Answer

LEMMA NextSeen ==
  ASSUME SeenInv, [Next]_vars PROVE SeenInv'
<1>0. TypeInv /\ TypeInv' /\ HttpTypes /\ StreamTypes /\ SocketTypes
  BY NextTypes DEF SeenInv, TypeInv
<1>1. CASE UNCHANGED <<number, request, seen, copy, recorded>>
  BY <1>0, <1>1, SeenStays
<1>2. CASE ClientRequests
  <2>1. /\ number' = number + 1 /\ seen' = <<>> /\ copy' = <<>> /\ UNCHANGED recorded /\ number \in Nat
    BY <1>0, <1>2, Constants DEF ClientRequests, HttpTypes
  <2>2. PICK none \in Seq(Text) : none = <<>> /\ IsPrefix(none, none) /\ Len(none) = 0
    BY EmptyPrefix, EmptySeq
  <2>3. CopyOK' /\ AnswersOK'
    BY <2>1, <2>2 DEF CopyOK, AnswersOK, SeenInv
  <2>4. SeenOK'
    BY <2>1 DEF SeenOK, SeenInv
  <2>. QED  BY <1>0, <2>3, <2>4 DEF SeenInv
<1>3. CASE ForwardUnit
  <2>1. CopyOK'
    BY <1>0, <1>3, CopyGrows DEF SeenInv
  <2>2. /\ UNCHANGED <<number, request, recorded>> /\ seen' = Append(seen, Unit)
        /\ Unit \in Text /\ seen \in Seq(Text)
    BY <1>0, <1>3, UnitTypes DEF ForwardUnit, HttpTypes
  <2>3. ASSUME NEW e \in recorded, e.id = <<"HTTP", number>> PROVE IsPrefix(e.answer, seen')
    <3>1. e.answer \in Seq(Text) /\ IsPrefix(e.answer, seen)
      BY <2>3 DEF SeenInv, SeenOK, AnswersOK
    <3>. QED  BY <2>2, <3>1, PrefixGrows
  <2>4. SeenOK' /\ AnswersOK'
    BY <2>2, <2>3 DEF SeenInv, SeenOK, AnswersOK
  <2>. QED  BY <1>0, <2>1, <2>4 DEF SeenInv
<1>4. ASSUME NEW question \in BOOLEAN, NEW answer \in BOOLEAN, number > 0,
             UNCHANGED <<number, request, seen, copy>>,
             recorded' = recorded \cup Events(Interaction(question, answer))
      PROVE  SeenInv'
  BY <1>0, <1>4, FinishSeen
<1>5. CASE ForwardHead
  <2>1. number > 0 /\ UNCHANGED <<number, request, seen, copy>>
    BY <1>0, <1>5, HeadCases DEF HttpTypes
  <2>. QED  BY <1>1, <1>4, <1>5, <2>1, HeadCases DEF Finish, HeadStreams, HeadSwitches
<1>6. CASE ForwardEnd
  <2>1. number > 0 /\ UNCHANGED <<number, request, seen, copy>>
    BY <1>0, <1>6 DEF ForwardEnd, HttpTypes
  <2>. QED  BY <1>4, <1>6, <2>1 DEF ForwardEnd, Finish
<1>7. CASE SocketNext /\ UNCHANGED <<httpVars, streamVars>>
  <2>1. UNCHANGED <<number, request, seen, copy>>
    BY <1>7 DEF httpVars
  <2>2. ASSUME NEW t \in pending, RecordTurn(t), NEW e \in recorded' \ recorded
        PROVE  e.id[1] # "HTTP" /\ \A k : e.id # <<"HTTP", k>>
    BY <2>2, TurnRecorded
  <2>. QED  BY <1>0, <1>1, <1>7, <2>1, <2>2, SeenStays, SocketNextOutside
<1>8. ASSUME NEW k \in 1..MaxRequests, Decode(k), UNCHANGED <<httpVars, socketVars>>
      PROVE  SeenInv'
  <2>1. UNCHANGED <<number, request, seen, copy>>
    BY <1>8 DEF httpVars
  <2>2. ASSUME NEW e \in recorded' \ recorded
        PROVE  e.id[1] # "HTTP" /\ \A j : e.id # <<"HTTP", j>>
    <3>1. PICK t : e \in Events(TurnExchange(k, t))
      BY <1>0, <1>8, <2>2, DecodeRecorded
    <3>2. e.id \in {<<"cowork", t[1].turn>>, <<"TURN", k>>}
      BY <3>1, TurnEvent
    <3>. QED  BY <3>2
  <2>. QED  BY <1>0, <2>1, <2>2, SeenStays
<1>9. ASSUME NEW k \in 1..MaxRequests, DecoderFails(k) \/ Drain(k) \/ DecoderEnds(k),
             UNCHANGED <<httpVars, socketVars>>
      PROVE  SeenInv'
  BY <1>1, <1>9 DEF DecoderFails, Drain, DecoderEnds, httpVars
<1>10. CASE SessionGoesOn /\ UNCHANGED <<httpVars, socketVars>>
  BY <1>0, <1>1, <1>10, SessionTypes DEF httpVars
<1>11. \/ UNCHANGED <<number, request, seen, copy, recorded>>
       \/ ClientRequests \/ ForwardUnit \/ ForwardHead \/ ForwardEnd
       \/ SocketNext /\ UNCHANGED <<httpVars, streamVars>>
       \/ SessionGoesOn /\ UNCHANGED <<httpVars, socketVars>>
       \/ (\E k \in 1..MaxRequests : Decode(k) \/ DecoderFails(k) \/ Drain(k) \/ DecoderEnds(k))
            /\ UNCHANGED <<httpVars, socketVars>>
  BY NextCases DEF UpstreamResponds, UpstreamProduces, EndGoes, Forward, Send, NoAnswer, ClientLeft,
                   RelayReturns, httpVars
<1>. QED  BY <1>1, <1>2, <1>3, <1>5, <1>6, <1>7, <1>8, <1>9, <1>10, <1>11

LEMMA InitSeen == Init => SeenInv
<1> SUFFICES ASSUME Init PROVE SeenInv
  OBVIOUS
<1>1. PICK none \in Seq(Text) : none = <<>> /\ IsPrefix(none, none) /\ Len(none) = 0
  BY EmptyPrefix, EmptySeq
<1>. QED  BY <1>1, InitTypes DEF Init, SeenInv, CopyOK, SeenOK, AnswersOK

(* Of the exchange that is under way, or was the last, nothing is recorded *)
(* that its client did not get, wherever a read or a write failed, and a   *)
(* request that was cut off is noted as such.                              *)
THEOREM RecordedAsSeen == Spec => []AsSeen
<1>1. SeenInv /\ [Next]_vars => SeenInv'
  BY NextSeen
<1>2. SeenInv => AsSeen
  BY DEF SeenInv, SeenOK, AsSeen
<1>. QED  BY <1>1, <1>2, InitSeen, PTL DEF Spec

-----------------------------------------------------------------------------
(* The turns of a socket.                                                  *)

(* A client that asks when it has been answered, and a window that is not  *)
(* kept from one message to the next.                                      *)
Polite == ~Impatient /\ "takeover" \notin Agreements

Delivered == Len(heard["client"])
Reached == Len(heard["upstream"])
Answering == Delivered < Reached
Coming == said["upstream"]

(* Nothing has happened on a socket that is not relayed yet, and there is  *)
(* one socket.                                                             *)
Untouched ==
  /\ socket.agreed # "takeover"
  /\ \A side \in Sides : ~pump[side].gap
  /\ socket.state # "off" => phase \in {"relaying", "done"}
  /\ socket.state = "off" => SocketInit

(* The two sides take turns.                                               *)
Alternating ==
  /\ Delivered <= Reached /\ Reached <= asked /\ asked <= Delivered + 1
  /\ telling.turn \in {Delivered, Reached}
  /\ telling.turn = Reached => telling.n = 0

(* At most one request is under way, the current one.                      *)
Requesting ==
  /\ Len(said["client"]) <= 1
  /\ said["client"] # <<>> =>
       /\ Reached < asked /\ pump["client"].pc # "holding"
       /\ said["client"][1].turn = asked
       /\ said["client"][1].big => <<"create", asked, 0>> \in oversize
  /\ pump["client"].pc = "holding" => Reached < asked /\ pump["client"].held.kind = "create"

(* What is under way to the client is the rest of the current answer, in   *)
(* its order and with its end last.                                        *)
Answers ==
  /\ Coming # <<>> \/ pump["upstream"].pc = "holding" => Answering
  /\ \A i \in 1..Len(Coming) :
       /\ Coming[i].turn = asked /\ Coming[i].text /\ Coming[i].kind # "create"
       /\ Coming[i].n = Coming[1].n + i - 1 /\ Coming[i].n > 0
       /\ Coming[i].big => <<Coming[i].kind, asked, Coming[i].n>> \in oversize
       /\ Coming[i].kind = "end" <=> i = Len(Coming) /\ telling.turn = asked
       /\ i = Len(Coming) /\ telling.turn # asked => Coming[i].n = telling.n
  /\ pump["upstream"].pc = "holding" =>
       /\ pump["upstream"].held.kind # "create"
       /\ pump["upstream"].held.kind = "end" <=> Coming = <<>> /\ telling.turn = asked

Dialogue == Untouched /\ Alternating /\ Requesting /\ Answers

(* What a turn may hold: see TurnsPaired.                                  *)
Holds(r, events) ==
  \A i \in 1..Len(events) :
    /\ events[i].turn = r \/ <<"create", events[i].turn, 0>> \in oversize
    /\ events[i].text /\ events[i].turn \in 1..asked
    /\ i > 1 /\ events[i - 1].turn = events[i].turn => events[i - 1].n < events[i].n

Pairing ==
  /\ \A e \in recorded : e.method = "SOCKET" => Holds(e.prompt, e.answer)
  /\ \A t \in pending : Holds(t.request, t.events)
  /\ turn.open =>
       /\ socket.parsed /\ Holds(turn.request, turn.events)
       /\ said["client"] = <<>> => turn.request = asked \/ <<"create", asked, 0>> \in oversize
       /\ \A i \in 1..Len(turn.events) : turn.events[i].turn = asked =>
            /\ \A j \in 1..Len(Coming) : turn.events[i].n < Coming[j].n
            /\ telling.turn # asked => turn.events[i].n <= telling.n

(* A turn is kept when something of it was too large, or it is on its way. *)
Pieces(k, n) == [i \in 1..n |-> Piece(k, i)]
Oversized(k) == \E m \in oversize : m[2] = k
Kept(k, n) ==
  \/ Oversized(k)
  \/ [request |-> k, events |-> Pieces(k, n)] \in pending
  \/ \E e \in recorded : e.method = "SOCKET" /\ e.prompt = k /\ e.answer = Pieces(k, n)
NotedSoFar == IF Coming # <<>> THEN Coming[1].n - 1 ELSE telling.n
EndNoted == telling.turn = asked /\ Coming = <<>>

Keeping ==
  socket.parsed =>
    /\ \A k \in 1..Delivered : Kept(k, heard["client"][k])
    /\ Relaying /\ Delivered < asked /\ said["client"] = <<>> /\ ~Oversized(asked) =>
         IF EndNoted
         THEN pump["upstream"].pc = "holding" => Kept(asked, pump["upstream"].held.n)
         ELSE turn.open /\ turn.request = asked /\ turn.events = Pieces(asked, NotedSoFar)

PairInv == TypeInv /\ Dialogue /\ Pairing /\ Keeping

LEMMA DialogueTypes ==
  ASSUME SocketTypes
  PROVE  /\ asked \in Nat /\ Delivered \in Nat /\ Reached \in Nat
         /\ telling.turn \in Nat /\ telling.n \in Nat
         /\ Coming \in Seq(Messages) /\ Len(Coming) \in Nat
         /\ said["client"] \in Seq(Messages) /\ Len(said["client"]) \in Nat
         /\ \A i \in 1..Len(Coming) : Coming[i] \in Messages /\ Coming[i].n \in Nat /\ Coming[i].turn \in Nat
         /\ turn \in TurnState /\ pending \subseteq Assembled
         /\ "client" \in Sides /\ "upstream" \in Sides
         /\ Coming # <<>> <=> Len(Coming) > 0
         /\ said["client"] # <<>> <=> Len(said["client"]) > 0
<1>1. "client" \in Sides /\ "upstream" \in Sides
  BY DEF Sides
<1>2. /\ heard["client"] \in Seq(Nat) /\ heard["upstream"] \in Seq(Nat)
      /\ Coming \in Seq(Messages) /\ said["client"] \in Seq(Messages)
  BY <1>1 DEF SocketTypes, Coming
<1>3. /\ Coming # <<>> <=> Len(Coming) > 0
      /\ said["client"] # <<>> <=> Len(said["client"]) > 0
  BY <1>2, EmptySeq
<1>4. \A i \in 1..Len(Coming) : Coming[i] \in Messages
  BY <1>2, ElementOfSeq
<1>5. \A m \in Messages : m.n \in Nat /\ m.turn \in Nat
  BY DEF Messages
<1>. QED  BY <1>1, <1>2, <1>3, <1>4, <1>5 DEF Delivered, Reached, SocketTypes, TurnState

LEMMA MessageTypes ==
  ASSUME NEW kind \in {"create", "piece", "end"}, NEW t \in Nat, NEW n \in Nat, NEW big \in BOOLEAN
  PROVE  LET m == Message(kind, t, n, big)
         IN m \in Messages /\ m.kind = kind /\ m.turn = t /\ m.n = n /\ m.big = big /\ m.text
BY DEF Message, Messages

(* Nothing of a turn that is under way changes: what is recorded and about *)
(* to be recorded stays, and what is too large to copy only grows.         *)
LEMMA HoldsStays ==
  ASSUME NEW r, NEW events, Holds(r, events), asked \in Nat, asked' \in Nat, asked <= asked',
         oversize \subseteq oversize'
  PROVE  Holds(r, events)'
<1>1. \A t \in 1..asked : t \in 1..asked'
  OBVIOUS
<1>. QED  BY <1>1 DEF Holds

LEMMA KeptStays ==
  ASSUME NEW k, NEW n, Kept(k, n), oversize \subseteq oversize', pending \subseteq pending',
         recorded \subseteq recorded'
  PROVE  Kept(k, n)'
BY DEF Kept, Oversized

LEMMA AsksPaired ==
  ASSUME Polite, PairInv, ClientAsks, UNCHANGED phase
  PROVE  (Dialogue /\ Pairing /\ Keeping)'
<1>1. SocketTypes /\ Relaying /\ asked' = asked + 1 /\ UNCHANGED telling
      /\ Say("client", "create", asked + 1, 0) /\ asked = Delivered
  BY DEF PairInv, TypeInv, ClientAsks, Polite, Delivered
<1>2. PICK big \in BOOLEAN :
        /\ said'["client"] = Append(said["client"], Message("create", asked + 1, 0, big))
        /\ Message("create", asked + 1, 0, big) \in Messages
        /\ oversize' = IF big THEN oversize \cup {<<"create", asked + 1, 0>>} ELSE oversize
        /\ UNCHANGED <<socket, pump, heard, turn, pending, ends, recorded>>
        /\ said'["upstream"] = said["upstream"]
  <2>1. "client" \in Sides /\ "upstream" \in Sides \ {"client"} /\ asked + 1 \in Nat /\ 0 \in Nat
    BY <1>1, DialogueTypes
  <2>. QED  BY <1>1, <2>1, SayTypes
<1>3. Reached = asked /\ said["client"] = <<>> /\ Coming = <<>> /\ ~Answering
      /\ pump["client"].pc # "holding" /\ pump["upstream"].pc # "holding"
  BY <1>1, DialogueTypes DEF PairInv, Dialogue, Alternating, Requesting, Answers, Answering
<1>4. PICK m \in Messages : /\ m = Message("create", asked + 1, 0, big)
                           /\ m.turn = asked + 1 /\ m.big = big /\ m.kind = "create"
  BY <1>1, DialogueTypes, MessageTypes
<1>5. /\ Len(said'["client"]) = 1 /\ said'["client"][1] = m /\ said'["client"] # <<>>
  BY <1>2, <1>3, <1>4, DialogueTypes, <1>1
<1>6. UNCHANGED <<Delivered, Reached, Coming, Answering>>
  BY <1>2 DEF Delivered, Reached, Coming, Answering
<1>7. asked \in Nat /\ Delivered \in Nat /\ Reached \in Nat /\ Len(Coming) = 0
      /\ telling.turn = Delivered /\ telling.n = 0 /\ Len(Coming') = 0
  BY <1>1, <1>3, <1>6, DialogueTypes DEF PairInv, Dialogue, Alternating
<1>8. Untouched'
  BY <1>1, <1>2 DEF PairInv, Dialogue, Untouched, Relaying
<1>9. Alternating'
  BY <1>1, <1>3, <1>6, <1>7 DEF Alternating
<1>10. Requesting'
  BY <1>1, <1>2, <1>3, <1>4, <1>5, <1>6, <1>7 DEF Requesting
<1>11. Answers'
  BY <1>1, <1>2, <1>3, <1>6, <1>7 DEF Answers
<1>12. oversize \subseteq oversize' /\ asked' \in Nat /\ asked <= asked'
  BY <1>1, <1>2, <1>7
<1>13. Pairing'
  <2>1. \A r, events : Holds(r, events) => Holds(r, events)'
    BY <1>7, <1>12, HoldsStays
  <2>2. ASSUME NEW i \in 1..Len(turn.events), turn.open PROVE turn.events[i].turn # asked'
    <3>1. turn.events[i].turn \in 1..asked
      BY <2>2 DEF PairInv, Pairing, Holds
    <3>. QED  BY <1>1, <1>7, <3>1
  <2>. QED  BY <1>1, <1>2, <1>5, <2>1, <2>2 DEF PairInv, Pairing
<1>14. Keeping'
  <2>1. \A k, n : Kept(k, n) => Kept(k, n)'
    BY <1>2, <1>12, KeptStays
  <2>. QED  BY <1>1, <1>2, <1>5, <1>6, <2>1 DEF PairInv, Keeping
<1>. QED  BY <1>8, <1>9, <1>10, <1>11, <1>13, <1>14 DEF Dialogue

LEMMA AnswersPaired ==
  ASSUME PairInv, UpstreamAnswers, UNCHANGED phase
  PROVE  (Dialogue /\ Pairing /\ Keeping)'
<1>1. SocketTypes /\ Relaying /\ UNCHANGED asked /\ telling.turn < Reached
  BY DEF PairInv, TypeInv, UpstreamAnswers, Reached
<1>2. /\ asked \in Nat /\ Delivered \in Nat /\ Reached = asked /\ asked = Delivered + 1 /\ Answering
      /\ telling.turn = Delivered /\ telling.n \in Nat
      /\ Coming \in Seq(Messages) /\ Len(Coming) \in Nat /\ (Coming # <<>> <=> Len(Coming) > 0)
      /\ said["client"] = <<>> /\ pump["client"].pc # "holding"
  <2>1. /\ asked \in Nat /\ Delivered \in Nat /\ Reached \in Nat /\ telling.n \in Nat
        /\ Coming \in Seq(Messages) /\ Len(Coming) \in Nat /\ (Coming # <<>> <=> Len(Coming) > 0)
    BY <1>1, DialogueTypes
  <2>2. /\ Delivered <= Reached /\ Reached <= asked /\ asked <= Delivered + 1
        /\ telling.turn \in {Delivered, Reached}
    BY DEF PairInv, Dialogue, Alternating
  <2>3. Reached = asked /\ asked = Delivered + 1 /\ telling.turn = Delivered /\ Delivered < Reached
    BY <1>1, <2>1, <2>2
  <2>4. said["client"] = <<>> /\ pump["client"].pc # "holding"
    BY <2>1, <2>3 DEF PairInv, Dialogue, Requesting
  <2>. QED  BY <2>1, <2>3, <2>4 DEF Answering
<1>3. PICK kind \in {"piece", "end"} :
        /\ Say("upstream", kind, asked, telling.n + 1)
        /\ telling'.turn = IF kind = "end" THEN asked ELSE telling.turn
        /\ telling'.n = IF kind = "end" THEN 0 ELSE telling.n + 1
  <2>1. telling.turn + 1 = asked /\ telling \in [turn : Nat, n : Nat]
    BY <1>1, <1>2 DEF SocketTypes
  <2>2. \/ telling' = [telling EXCEPT !.n = @ + 1] /\ Say("upstream", "piece", asked, telling.n + 1)
        \/ telling' = [turn |-> asked, n |-> 0] /\ Say("upstream", "end", asked, telling.n + 1)
    BY <2>1 DEF UpstreamAnswers
  <2>3. CASE telling' = [telling EXCEPT !.n = @ + 1] /\ Say("upstream", "piece", asked, telling.n + 1)
    <3>1. telling'.turn = telling.turn /\ telling'.n = telling.n + 1
      BY <2>1, <2>3
    <3>. QED  BY <2>3, <3>1
  <2>4. CASE telling' = [turn |-> asked, n |-> 0] /\ Say("upstream", "end", asked, telling.n + 1)
    <3>1. telling'.turn = asked /\ telling'.n = 0
      BY <2>4
    <3>. QED  BY <2>4, <3>1
  <2>. QED  BY <2>2, <2>3, <2>4
<1>4. PICK big \in BOOLEAN :
        /\ Coming' = Append(Coming, Message(kind, asked, telling.n + 1, big))
        /\ oversize' = IF big THEN oversize \cup {<<kind, asked, telling.n + 1>>} ELSE oversize
        /\ UNCHANGED <<socket, pump, heard, turn, pending, ends, recorded>>
        /\ said'["client"] = said["client"]
  <2>1. "upstream" \in Sides /\ "client" \in Sides \ {"upstream"} /\ asked \in Nat /\ telling.n + 1 \in Nat
        /\ kind \in {"create", "piece", "end"}
    BY <1>1, <1>2, DialogueTypes
  <2>. QED  BY <1>1, <1>3, <2>1, SayTypes DEF Coming
<1>5. PICK m \in Messages : /\ m = Message(kind, asked, telling.n + 1, big) /\ m.text
                           /\ m.turn = asked /\ m.big = big /\ m.kind = kind /\ m.n = telling.n + 1
  BY <1>2, MessageTypes
<1>6. /\ Len(Coming') = Len(Coming) + 1 /\ Coming' # <<>>
      /\ \A i \in 1..Len(Coming) : Coming'[i] = Coming[i]
      /\ Coming'[Len(Coming) + 1] = m
  <2>1. Coming' = Append(Coming, m)
    BY <1>4, <1>5
  <2>. QED  BY <1>2, <2>1, Appended
<1>7. UNCHANGED <<Delivered, Reached, Answering>>
  BY <1>4 DEF Delivered, Reached, Answering
<1>8. Untouched'
  BY <1>1, <1>4 DEF PairInv, Dialogue, Untouched, Relaying
<1>9. Alternating'
  BY <1>1, <1>2, <1>3, <1>7 DEF Alternating
<1>10. Requesting'
  BY <1>1, <1>2, <1>4, <1>7 DEF Requesting
<1>11. oversize \subseteq oversize' /\ (big => <<kind, asked, telling.n + 1>> \in oversize')
  BY <1>4
<1>12. \A i \in 1..Len(Coming) :
         /\ Coming[i].turn = asked /\ Coming[i].text /\ Coming[i].kind # "create"
         /\ Coming[i].n = Coming[1].n + i - 1 /\ Coming[i].n > 0
         /\ Coming[i].big => <<Coming[i].kind, asked, Coming[i].n>> \in oversize'
         /\ Coming[i].kind # "end"
         /\ i = Len(Coming) => Coming[i].n = telling.n
         /\ Coming[i].n \in Nat
  BY <1>1, <1>2, <1>11, DialogueTypes DEF PairInv, Dialogue, Answers
<1>13. Coming # <<>> => telling.n = Coming[1].n + Len(Coming) - 1 /\ Coming[1].n \in Nat
  <2>1. ASSUME Coming # <<>> PROVE 1 \in 1..Len(Coming) /\ Len(Coming) \in 1..Len(Coming)
    BY <1>2, <2>1
  <2>. QED  BY <1>12, <2>1
<1>14. Coming # <<>> => Coming'[1] = Coming[1]
  BY <1>2, <1>6
<1>15. Answers'
  <2>1. ASSUME NEW i \in 1..Len(Coming')
        PROVE  /\ Coming'[i].turn = asked' /\ Coming'[i].text /\ Coming'[i].kind # "create"
               /\ Coming'[i].n = Coming'[1].n + i - 1 /\ Coming'[i].n > 0
               /\ Coming'[i].big => <<Coming'[i].kind, asked', Coming'[i].n>> \in oversize'
               /\ Coming'[i].kind = "end" <=> i = Len(Coming') /\ telling'.turn = asked'
               /\ i = Len(Coming') /\ telling'.turn # asked' => Coming'[i].n = telling'.n
    <3>1. CASE i \in 1..Len(Coming)
      <4>1. Coming # <<>> /\ i # Len(Coming')
        BY <1>2, <1>6, <3>1
      <4>. QED  BY <1>1, <1>6, <1>12, <1>14, <3>1, <4>1
    <3>2. CASE i = Len(Coming')
      <4>1. Coming'[i] = m
        BY <1>6, <3>2
      <4>2. m.n = Coming'[1].n + i - 1
        <5>1. CASE Coming = <<>>
          BY <1>2, <1>5, <1>6, <3>2, <5>1
        <5>2. CASE Coming # <<>>
          BY <1>2, <1>5, <1>6, <1>13, <1>14, <3>2, <5>2
        <5>. QED  BY <5>1, <5>2
      <4>3. m.n > 0 /\ (kind = "end" <=> telling'.turn = asked) /\ (kind # "end" => m.n = telling'.n)
        BY <1>2, <1>3, <1>5
      <4>4. m.big => <<m.kind, asked, m.n>> \in oversize'
        BY <1>5, <1>11
      <4>. QED  BY <1>1, <1>5, <3>2, <4>1, <4>2, <4>3, <4>4
    <3>. QED  BY <1>2, <1>6, <3>1, <3>2
  <2>2. pump'["upstream"].pc = "holding" =>
          pump'["upstream"].held.kind # "create" /\ pump'["upstream"].held.kind # "end"
    BY <1>2, <1>4 DEF PairInv, Dialogue, Answers
  <2>. QED  BY <1>2, <1>6, <1>7, <2>1, <2>2 DEF Answers
<1>16. Pairing'
  <2>1. \A r, events : Holds(r, events) => Holds(r, events)'
    BY <1>1, <1>2, <1>11, HoldsStays
  <2>2. ASSUME NEW i \in 1..Len(turn.events), turn.open, turn.events[i].turn = asked
        PROVE  /\ \A j \in 1..Len(Coming') : turn.events[i].n < Coming'[j].n
               /\ telling'.turn # asked => turn.events[i].n <= telling'.n
    <3>1. /\ \A j \in 1..Len(Coming) : turn.events[i].n < Coming[j].n
          /\ turn.events[i].n <= telling.n
      BY <1>2, <2>2 DEF PairInv, Pairing
    <3>2. turn.events[i].n \in Nat
      <4>1. turn.events \in Seq(PieceOf)
        BY <1>1 DEF SocketTypes
      <4>2. turn.events[i] \in PieceOf
        BY <4>1, ElementOfSeq
      <4>. QED  BY <4>2 DEF PieceOf
    <3>3. turn.events[i].n < m.n
      BY <1>2, <1>5, <3>1, <3>2
    <3>4. \A j \in 1..Len(Coming') : j \in 1..Len(Coming) \/ j = Len(Coming) + 1
      BY <1>2, <1>6
    <3>5. ASSUME telling'.turn # asked PROVE turn.events[i].n <= telling'.n
      <4>1. telling'.n = telling.n + 1
        BY <1>3, <3>5
      <4>2. turn.events[i].n <= telling.n + 1
        BY <1>2, <3>1, <3>2
      <4>. QED  BY <4>1, <4>2
    <3>. QED  BY <1>6, <3>1, <3>3, <3>4, <3>5
  <2>3. turn.open => turn.request = asked \/ <<"create", asked, 0>> \in oversize'
    BY <1>2, <1>11 DEF PairInv, Pairing
  <2>. QED  BY <1>1, <1>4, <2>1, <2>2, <2>3 DEF PairInv, Pairing
<1>17. Keeping'
  <2>1. \A k, n : Kept(k, n) => Kept(k, n)'
    BY <1>4, <1>11, KeptStays
  <2>2. ASSUME socket.parsed, ~Oversized(asked)'
        PROVE  turn.open /\ turn.request = asked /\ turn.events = Pieces(asked, NotedSoFar)
    <3>1. ~Oversized(asked)
      BY <1>1, <1>11, <2>2 DEF Oversized
    <3>. QED  BY <1>1, <1>2, <2>2, <3>1 DEF PairInv, Keeping, EndNoted
  <2>3. NotedSoFar' = NotedSoFar
    <3>1. CASE Coming = <<>>
      <4>1. Coming'[1].n = telling.n + 1
        BY <1>2, <1>5, <1>6, <3>1
      <4>. QED  BY <1>2, <1>6, <3>1, <4>1 DEF NotedSoFar
    <3>2. CASE Coming # <<>>
      BY <1>6, <1>14, <3>2 DEF NotedSoFar
    <3>. QED  BY <3>1, <3>2
  <2>4. ~EndNoted'
    BY <1>6 DEF EndNoted
  <2>5. \A n : Pieces(asked, n)' = Pieces(asked', n)
    BY DEF Pieces, Piece
  <2>. QED  BY <1>1, <1>2, <1>4, <1>7, <2>1, <2>2, <2>3, <2>4, <2>5 DEF PairInv, Keeping
<1>. QED  BY <1>8, <1>9, <1>10, <1>15, <1>16, <1>17 DEF Dialogue

LEMMA ReadCases ==
  ASSUME SocketTypes, Untouched, NEW side \in Sides, Read(side)
  PROVE  LET m == said[side][1]
         IN /\ Relaying /\ said[side] # <<>> /\ m \in Messages
            /\ pump[side].pc = "reading"
            /\ pump'[side] = [pc |-> "holding", held |-> m, gap |-> FALSE]
            /\ \A s \in Sides \ {side} : pump'[s] = pump[s] /\ said'[s] = said[s]
            /\ said'[side] = Tail(said[side])
            /\ IF ~socket.parsed \/ m.big \/ (side = "upstream" /\ ~turn.open)
               THEN UNCHANGED <<turn, pending>>
               ELSE IF side = "client"
               THEN /\ pending' = pending \cup Finished(turn)
                    /\ turn' = [open |-> TRUE, request |-> m.turn, events |-> <<>>]
               ELSE IF m.kind = "end" THEN turn' = NoTurn /\ pending' = pending \cup Finished(With(m))
               ELSE turn' = With(m) /\ UNCHANGED pending
            /\ UNCHANGED <<socket, asked, telling, heard, oversize, ends, recorded>>
<1> DEFINE m == Head(said[side])
<1>1. m = said[side][1] /\ m \in Messages /\ m.big \in BOOLEAN
  BY HeadOfSaid DEF Read, Messages
<1>2. ~pump[side].gap /\ socket.agreed # "takeover"
  BY DEF Untouched
<1>3. Completed(side, m) = IF m.big THEN {NoMessage} ELSE {m}
  BY <1>1, <1>2 DEF Completed
<1>4. NoMessage \notin Messages
  BY DEF NoMessage, Messages
<1>5. /\ pump' = [pump EXCEPT ![side] = [pc |-> "holding", held |-> m, gap |-> FALSE]]
      /\ said' = [said EXCEPT ![side] = Tail(said[side])]
      /\ Relaying /\ pump[side].pc = "reading" /\ said[side] # <<>> /\ Noted(side)
      /\ UNCHANGED <<socket, asked, telling, heard, oversize, ends, recorded>>
  BY <1>1, <1>2 DEF Read
<1>6. /\ pump'[side] = [pc |-> "holding", held |-> m, gap |-> FALSE]
      /\ \A s \in Sides \ {side} : pump'[s] = pump[s] /\ said'[s] = said[s]
      /\ said'[side] = Tail(said[side])
  BY <1>5 DEF SocketTypes
<1>7. IF ~socket.parsed \/ m.big \/ (side = "upstream" /\ ~turn.open)
      THEN UNCHANGED <<turn, pending>>
      ELSE IF side = "client"
      THEN /\ pending' = pending \cup Finished(turn)
           /\ turn' = [open |-> TRUE, request |-> m.turn, events |-> <<>>]
      ELSE IF m.kind = "end" THEN turn' = NoTurn /\ pending' = pending \cup Finished(With(m))
      ELSE turn' = With(m) /\ UNCHANGED pending
  <2>1. PICK x \in Completed(side, m) :
           \/ /\ ~socket.parsed \/ x = NoMessage \/ (side = "upstream" /\ ~turn.open)
              /\ UNCHANGED <<turn, pending>>
           \/ /\ socket.parsed /\ x \in Messages /\ side = "client"
              /\ pending' = pending \cup Finished(turn)
              /\ turn' = [open |-> TRUE, request |-> x.turn, events |-> <<>>]
           \/ /\ socket.parsed /\ x \in Messages /\ side = "upstream" /\ turn.open
              /\ \/ x.kind = "end" /\ turn' = NoTurn /\ pending' = pending \cup Finished(With(x))
                 \/ x.kind # "end" /\ turn' = With(x) /\ UNCHANGED pending
    BY <1>5, NotedCases
  <2>2. x = IF m.big THEN NoMessage ELSE m
    BY <1>3, <2>1
  <2>3. socket.parsed \in BOOLEAN /\ turn.open \in BOOLEAN
    BY DEF SocketTypes
  <2>. HIDE DEF m
  <2>4. CASE m.big
    BY <1>4, <2>1, <2>2, <2>4
  <2>5. CASE ~m.big
    BY <1>1, <1>4, <2>1, <2>2, <2>3, <2>5
  <2>. QED  BY <2>4, <2>5
<1>. HIDE DEF m
<1>. QED  BY <1>1, <1>5, <1>6, <1>7

(* What is said of the turns when they are finished.                       *)
LEMMA FinishedHolds ==
  ASSUME NEW t \in TurnState, t.open => Holds(t.request, t.events)
  PROVE  \A f \in Finished(t) : Holds(f.request, f.events)
BY DEF Finished

LEMMA ReadClientPaired ==
  ASSUME PairInv, Read("client"), UNCHANGED phase
  PROVE  (Dialogue /\ Pairing /\ Keeping)'
<1>1. SocketTypes /\ Untouched /\ "client" \in Sides /\ "upstream" \in Sides \ {"client"}
  BY DEF PairInv, TypeInv, Dialogue, Sides
<1> DEFINE m == said["client"][1]
<1>2. /\ Relaying /\ said["client"] # <<>> /\ m \in Messages
      /\ pump'["client"] = [pc |-> "holding", held |-> m, gap |-> FALSE]
      /\ pump'["upstream"] = pump["upstream"] /\ said'["upstream"] = said["upstream"]
      /\ said'["client"] = Tail(said["client"])
      /\ IF ~socket.parsed \/ m.big
         THEN UNCHANGED <<turn, pending>>
         ELSE /\ pending' = pending \cup Finished(turn)
              /\ turn' = [open |-> TRUE, request |-> m.turn, events |-> <<>>]
      /\ UNCHANGED <<socket, asked, telling, heard, oversize, ends, recorded>>
  BY <1>1, ReadCases
<1>3. /\ Len(said["client"]) = 1 /\ Reached < asked /\ m.turn = asked /\ m.kind = "create"
      /\ m.big => <<"create", asked, 0>> \in oversize
  <2>1. /\ said["client"] \in Seq(Messages) /\ Len(said["client"]) \in Nat
        /\ (said["client"] # <<>> <=> Len(said["client"]) > 0)
    BY <1>1, DialogueTypes
  <2>2. /\ Len(said["client"]) <= 1 /\ Reached < asked /\ m.turn = asked
        /\ m.big => <<"create", asked, 0>> \in oversize
    BY <1>2 DEF PairInv, Dialogue, Requesting
  <2>3. Len(said["client"]) = 1 /\ 1 \in 1..Len(said["client"])
    <3>1. PICK n \in Nat : n = Len(said["client"])
      BY <2>1
    <3>2. n > 0 /\ n <= 1
      BY <1>2, <2>1, <2>2, <3>1
    <3>3. n = 1
      BY <3>2
    <3>. QED  BY <3>1, <3>3
  <2>4. m.kind = "create"
    BY <1>1, <2>3 DEF SocketTypes
  <2>. QED  BY <2>2, <2>3, <2>4
<1>4. said'["client"] = <<>> /\ Len(said'["client"]) = 0
  <2>1. Len(Tail(said["client"])) = 0 /\ Tail(said["client"]) \in Seq(Messages)
    BY <1>1, <1>2, <1>3, HeadOfSaid
  <2>. QED  BY <1>2, <2>1, EmptySeq
<1>. HIDE DEF m
<1>5. UNCHANGED <<Delivered, Reached, Answering, Coming>>
  BY <1>2 DEF Delivered, Reached, Answering, Coming
<1>6. /\ asked \in Nat /\ Reached \in Nat /\ Delivered \in Nat
      /\ Reached = Delivered /\ asked = Delivered + 1
      /\ telling.turn = Delivered /\ telling.turn # asked /\ telling.n = 0
      /\ ~Answering /\ Coming = <<>> /\ Len(Coming) = 0
      /\ turn \in TurnState
  <2>1. /\ asked \in Nat /\ Delivered \in Nat /\ Reached \in Nat /\ turn \in TurnState
        /\ (Coming # <<>> <=> Len(Coming) > 0) /\ Len(Coming) \in Nat
    BY <1>1, DialogueTypes
  <2>2. /\ Delivered <= Reached /\ Reached <= asked /\ asked <= Delivered + 1
        /\ telling.turn \in {Delivered, Reached} /\ (telling.turn = Reached => telling.n = 0)
    BY DEF PairInv, Dialogue, Alternating
  <2>3. Reached = Delivered /\ asked = Delivered + 1 /\ ~(Delivered < Reached) /\ telling.turn # asked
    BY <1>3, <2>1, <2>2
  <2>4. Coming = <<>>
    BY <2>3 DEF PairInv, Dialogue, Answers, Answering
  <2>. QED  BY <2>1, <2>2, <2>3, <2>4 DEF Answering
<1>7. Untouched'
  <2>1. \A side \in Sides : ~pump'[side].gap
    BY <1>1, <1>2 DEF Untouched, Sides
  <2>. QED  BY <1>1, <1>2, <2>1 DEF Untouched, Relaying
<1>8. Alternating'
  BY <1>2, <1>5 DEF PairInv, Dialogue, Alternating
<1>9. Requesting'
  <2>1. pump'["client"].held.kind = "create" /\ Reached' < asked'
    BY <1>2, <1>3, <1>5
  <2>. QED  BY <1>4, <2>1 DEF Requesting
<1>10. Answers'
  BY <1>2, <1>5 DEF PairInv, Dialogue, Answers
<1>11. \A r, events : Holds(r, events) => Holds(r, events)'
  BY <1>2 DEF Holds
<1>12. \A t \in pending' : Holds(t.request, t.events)
  BY <1>2, <1>6, FinishedHolds DEF PairInv, Pairing
<1>13. Pairing'
  <2>1. CASE ~socket.parsed \/ m.big
    <3>1. ~socket.parsed => ~turn.open
      BY DEF PairInv, Pairing
    <3>2. UNCHANGED <<turn, pending, recorded, asked, oversize, telling, socket>>
      BY <1>2, <2>1
    <3>3. turn.open => <<"create", asked, 0>> \in oversize
      BY <1>3, <2>1, <3>1
    <3>. QED  BY <1>5, <1>11, <3>2, <3>3 DEF PairInv, Pairing
  <2>2. CASE ~(~socket.parsed \/ m.big)
    <3>1. /\ turn'.request = asked /\ turn'.events = <<>> /\ UNCHANGED <<recorded, asked, socket>>
      BY <1>2, <1>3, <2>2
    <3>2. Len(turn'.events) = 0
      BY <3>1, EmptySeq
    <3>3. Holds(turn.request, turn.events)'
      BY <3>2 DEF Holds
    <3>4. \A t \in pending' : Holds(t.request, t.events)'
      BY <1>11, <1>12
    <3>5. \A e \in recorded : e.method = "SOCKET" => Holds(e.prompt, e.answer)'
      BY <1>11 DEF PairInv, Pairing
    <3>. QED  BY <2>2, <3>1, <3>2, <3>3, <3>4, <3>5 DEF Pairing
  <2>. QED  BY <2>1, <2>2
<1>14. Keeping'
  <2>1. oversize \subseteq oversize' /\ pending \subseteq pending' /\ recorded \subseteq recorded'
    BY <1>2
  <2>2. \A k, n : Kept(k, n) => Kept(k, n)'
    BY <2>1, KeptStays
  <2>3. ASSUME socket.parsed, ~Oversized(asked)
        PROVE  turn'.open /\ turn'.request = asked /\ turn'.events = Pieces(asked, 0)
    <3>1. ~m.big
      BY <1>3, <2>3 DEF Oversized
    <3>2. Pieces(asked, 0) = <<>>
      BY DEF Pieces
    <3>. QED  BY <1>2, <1>3, <2>3, <3>1, <3>2
  <2>4. ~EndNoted' /\ NotedSoFar' = 0 /\ Oversized(asked)' = Oversized(asked)
        /\ Pieces(asked, NotedSoFar)' = Pieces(asked, 0)
    BY <1>2, <1>5, <1>6 DEF EndNoted, NotedSoFar, Oversized, Pieces, Piece
  <2>. QED  BY <1>2, <1>5, <2>2, <2>3, <2>4 DEF PairInv, Keeping
<1>. QED  BY <1>7, <1>8, <1>9, <1>10, <1>13, <1>14 DEF Dialogue

LEMMA PiecesGrow ==
  ASSUME NEW k \in Nat, NEW n \in Nat \ {0}
  PROVE  /\ Pieces(k, n - 1) \in Seq(PieceOf) /\ Pieces(k, n) \in Seq(PieceOf)
         /\ Append(Pieces(k, n - 1), Piece(k, n)) = Pieces(k, n)
<1>1. \A i \in 1..n : Piece(k, i) \in PieceOf
  BY DEF Piece, PieceOf
<1>2. Pieces(k, n - 1) \in Seq(PieceOf) /\ Len(Pieces(k, n - 1)) = n - 1
  BY <1>1 DEF Pieces
<1>3. Pieces(k, n) \in Seq(PieceOf) /\ Len(Pieces(k, n)) = n
  BY <1>1 DEF Pieces
<1>4. n \in 1..n
  OBVIOUS
<1>5. /\ Append(Pieces(k, n - 1), Piece(k, n)) \in Seq(PieceOf)
      /\ Len(Append(Pieces(k, n - 1), Piece(k, n))) = n - 1 + 1
      /\ \A i \in 1..n - 1 : Append(Pieces(k, n - 1), Piece(k, n))[i] = Pieces(k, n - 1)[i]
      /\ Append(Pieces(k, n - 1), Piece(k, n))[n - 1 + 1] = Piece(k, n)
  BY <1>1, <1>2, <1>4, Appended
<1>6. \A i \in 1..n : Append(Pieces(k, n - 1), Piece(k, n))[i] = Pieces(k, n)[i]
  BY <1>5 DEF Pieces
<1>. QED  BY <1>2, <1>3, <1>5, <1>6, SeqEqual

(* A message that comes after all that a turn has of its answer.           *)
LEMMA HoldsMore ==
  ASSUME NEW r, NEW events \in Seq(PieceOf), NEW p \in PieceOf, Holds(r, events), asked \in Nat,
         p.turn = asked, p.text, asked > 0, r = asked \/ <<"create", asked, 0>> \in oversize,
         \A i \in 1..Len(events) : events[i].turn = asked => events[i].n < p.n
  PROVE  Holds(r, Append(events, p))
<1> DEFINE more == Append(events, p)
<1>1. /\ more \in Seq(PieceOf) /\ Len(more) = Len(events) + 1 /\ Len(events) \in Nat
      /\ \A i \in 1..Len(events) : more[i] = events[i]
      /\ more[Len(events) + 1] = p
  BY Appended
<1>. HIDE DEF more
<1>2. SUFFICES ASSUME NEW i \in 1..Len(more)
               PROVE  /\ more[i].turn = r \/ <<"create", more[i].turn, 0>> \in oversize
                      /\ more[i].text /\ more[i].turn \in 1..asked
                      /\ i > 1 /\ more[i - 1].turn = more[i].turn => more[i - 1].n < more[i].n
  BY DEF Holds, more
<1>3. CASE i \in 1..Len(events)
  <2>1. i > 1 => more[i - 1] = events[i - 1]
    BY <1>1, <1>3
  <2>. QED  BY <1>1, <1>3, <2>1 DEF Holds
<1>4. CASE i = Len(events) + 1
  <2>1. more[i] = p
    BY <1>1, <1>4
  <2>2. ASSUME i > 1 PROVE i - 1 \in 1..Len(events) /\ more[i - 1] = events[i - 1]
    BY <1>1, <1>4, <2>2
  <2>3. asked \in 1..asked
    OBVIOUS
  <2>. QED  BY <2>1, <2>2, <2>3
<1>. QED  BY <1>1, <1>2, <1>3, <1>4

(* What is known when there is something to read from the upstream.        *)
LEMMA AnswerUnderWay ==
  ASSUME SocketTypes, Dialogue, Coming # <<>> \/ pump["upstream"].pc = "holding"
  PROVE  /\ asked \in Nat \ {0} /\ Delivered \in Nat /\ Reached = asked /\ asked = Delivered + 1
         /\ Answering /\ said["client"] = <<>> /\ pump["client"].pc # "holding"
<1>1. asked \in Nat /\ Delivered \in Nat /\ Reached \in Nat
  BY DialogueTypes
<1>2. Answering /\ Delivered <= Reached /\ Reached <= asked /\ asked <= Delivered + 1
  BY DEF Dialogue, Alternating, Answers
<1>3. Reached = asked /\ asked = Delivered + 1
  BY <1>1, <1>2 DEF Answering
<1>4. ~(Reached < asked)
  BY <1>1, <1>3
<1>. QED  BY <1>1, <1>2, <1>3, <1>4 DEF Dialogue, Requesting

LEMMA EventTypes ==
  ASSUME turn \in TurnState
  PROVE  turn.events \in Seq(PieceOf) /\ \A i \in 1..Len(turn.events) : turn.events[i].n \in Nat
<1>1. turn.events \in Seq(PieceOf)
  BY DEF TurnState
<1>2. \A i \in 1..Len(turn.events) : turn.events[i] \in PieceOf
  BY <1>1, ElementOfSeq
<1>. QED  BY <1>1, <1>2 DEF PieceOf

LEMMA ReadUpstreamPaired ==
  ASSUME PairInv, Read("upstream"), UNCHANGED phase
  PROVE  (Dialogue /\ Pairing /\ Keeping)'
<1>1. /\ SocketTypes /\ Untouched /\ Dialogue
      /\ "upstream" \in Sides /\ "client" \in Sides \ {"upstream"} /\ "upstream" # "client"
  BY DEF PairInv, TypeInv, Dialogue, Sides
<1>a. PICK m : m = Coming[1]
  OBVIOUS
<1>2. /\ Relaying /\ Coming # <<>> /\ m \in Messages
      /\ pump'["upstream"] = [pc |-> "holding", held |-> m, gap |-> FALSE]
      /\ pump'["client"] = pump["client"] /\ said'["client"] = said["client"]
      /\ Coming' = Tail(Coming)
      /\ IF ~socket.parsed \/ m.big \/ ~turn.open THEN UNCHANGED <<turn, pending>>
         ELSE IF m.kind = "end" THEN turn' = NoTurn /\ pending' = pending \cup Finished(With(m))
         ELSE turn' = With(m) /\ UNCHANGED pending
      /\ UNCHANGED <<socket, asked, telling, heard, oversize, ends, recorded>>
  BY <1>1, <1>a, ReadCases DEF Coming
<1>3. /\ asked \in Nat \ {0} /\ Delivered \in Nat /\ Reached = asked /\ asked = Delivered + 1
      /\ Answering /\ said["client"] = <<>> /\ pump["client"].pc # "holding"
  BY <1>1, <1>2, AnswerUnderWay
<1>4. /\ Coming \in Seq(Messages) /\ Len(Coming) \in Nat \ {0} /\ 1 \in 1..Len(Coming)
      /\ Coming' \in Seq(Messages) /\ Len(Coming') = Len(Coming) - 1
      /\ \A i \in 1..Len(Coming') : Coming'[i] = Coming[i + 1] /\ i + 1 \in 1..Len(Coming)
      /\ Coming' = <<>> <=> Len(Coming) = 1
  <2>1. /\ Coming \in Seq(Messages) /\ Len(Coming) \in Nat \ {0}
        /\ Coming' \in Seq(Messages) /\ Len(Coming') = Len(Coming) - 1
        /\ \A i \in 1..Len(Coming) - 1 : Coming'[i] = Coming[i + 1]
    BY <1>1, <1>2, HeadOfSaid, DialogueTypes DEF Coming
  <2>2. Coming' = <<>> <=> Len(Coming') = 0
    BY <2>1, EmptySeq
  <2>. QED  BY <2>1, <2>2
<1>5. UNCHANGED <<Delivered, Reached, Answering>>
  BY <1>2 DEF Delivered, Reached, Answering
<1>6. \A i \in 1..Len(Coming) :
       /\ Coming[i].turn = asked /\ Coming[i].text /\ Coming[i].kind # "create"
       /\ Coming[i].n = m.n + i - 1 /\ Coming[i].n > 0
       /\ Coming[i].big => <<Coming[i].kind, asked, Coming[i].n>> \in oversize
       /\ Coming[i].kind = "end" <=> i = Len(Coming) /\ telling.turn = asked
       /\ i = Len(Coming) /\ telling.turn # asked => Coming[i].n = telling.n
  BY <1>1, <1>a DEF Dialogue, Answers
<1>7. /\ m.turn = asked /\ m.text /\ m.kind # "create" /\ m.n \in Nat \ {0}
      /\ m.big => <<m.kind, asked, m.n>> \in oversize
      /\ m.kind = "end" <=> Coming' = <<>> /\ telling.turn = asked
  <2>1. m.n \in Nat
    BY <1>2 DEF Messages
  <2>2. 1 = Len(Coming) <=> Coming' = <<>>
    BY <1>4
  <2>3. /\ m.turn = asked /\ m.text /\ m.kind # "create" /\ m.n > 0
        /\ m.big => <<m.kind, asked, m.n>> \in oversize
        /\ m.kind = "end" <=> 1 = Len(Coming) /\ telling.turn = asked
    BY <1>a, <1>4, <1>6
  <2>4. m.n \in Nat \ {0}
    BY <2>1, <2>3
  <2>. QED  BY <2>2, <2>3, <2>4
<1>8. telling.turn # asked => telling.n = m.n + Len(Coming) - 1
  <2>1. Len(Coming) \in 1..Len(Coming)
    BY <1>4
  <2>. QED  BY <1>6, <2>1
<1>9. ASSUME NEW i \in 1..Len(Coming') PROVE Coming'[i].n = m.n + i
  <2>1. Coming'[i].n = m.n + (i + 1) - 1
    BY <1>4, <1>6
  <2>. QED  BY <1>4, <1>7, <2>1
<1>10. Untouched'
  <2>1. \A side \in Sides : ~pump'[side].gap
    BY <1>1, <1>2 DEF Untouched, Sides
  <2>. QED  BY <1>1, <1>2, <2>1 DEF Untouched, Relaying
<1>11. Alternating'
  BY <1>1, <1>2, <1>5 DEF Dialogue, Alternating
<1>12. Requesting'
  BY <1>1, <1>2, <1>5 DEF Dialogue, Requesting
<1>13. Answers'
  <2>1. ASSUME NEW i \in 1..Len(Coming')
        PROVE  /\ Coming'[i].turn = asked' /\ Coming'[i].text /\ Coming'[i].kind # "create"
               /\ Coming'[i].n = Coming'[1].n + i - 1 /\ Coming'[i].n > 0
               /\ Coming'[i].big => <<Coming'[i].kind, asked', Coming'[i].n>> \in oversize'
               /\ Coming'[i].kind = "end" <=> i = Len(Coming') /\ telling'.turn = asked'
               /\ i = Len(Coming') /\ telling'.turn # asked' => Coming'[i].n = telling'.n
    <3>1. Coming'[i] = Coming[i + 1] /\ i + 1 \in 1..Len(Coming) /\ 1 \in 1..Len(Coming')
          /\ (i = Len(Coming') <=> i + 1 = Len(Coming))
      BY <1>4
    <3>2. Coming'[i].n = Coming'[1].n + i - 1
      <4>1. Coming'[i].n = m.n + i /\ Coming'[1].n = m.n + 1
        BY <1>9, <3>1
      <4>2. i \in Nat /\ m.n \in Nat
        BY <1>4, <1>7
      <4>3. m.n + i = m.n + 1 + i - 1
        BY <4>2
      <4>. QED  BY <4>1, <4>3
    <3>. QED  BY <1>2, <1>6, <3>1, <3>2
  <2>2. /\ pump'["upstream"].held.kind # "create"
        /\ pump'["upstream"].held.kind = "end" <=> Coming' = <<>> /\ telling'.turn = asked'
    BY <1>2, <1>7
  <2>. QED  BY <1>3, <1>5, <2>1, <2>2 DEF Answers
<1>14. /\ turn \in TurnState /\ With(m) \in TurnState /\ PieceIn(m) \in PieceOf
       /\ With(m).open = turn.open /\ With(m).request = turn.request
       /\ With(m).events = Append(turn.events, PieceIn(m))
       /\ PieceIn(m).turn = asked /\ PieceIn(m).n = m.n /\ PieceIn(m).text
       /\ turn.events \in Seq(PieceOf) /\ \A i \in 1..Len(turn.events) : turn.events[i].n \in Nat
  <2>1. turn \in TurnState
    BY <1>1, DialogueTypes
  <2>2. PieceIn(m).turn = m.turn /\ PieceIn(m).n = m.n /\ PieceIn(m).text = m.text
    BY DEF PieceIn
  <2>. QED  BY <1>2, <1>7, <2>1, <2>2, WithTypes, EventTypes
<1>15. ASSUME turn.open
       PROVE  /\ Holds(turn.request, turn.events) /\ socket.parsed
              /\ turn.request = asked \/ <<"create", asked, 0>> \in oversize
              /\ \A i \in 1..Len(turn.events) : turn.events[i].turn = asked =>
                   /\ turn.events[i].n < m.n
                   /\ \A j \in 1..Len(Coming') : turn.events[i].n < Coming'[j].n
                   /\ telling.turn # asked => turn.events[i].n <= telling.n
              /\ Holds(turn.request, With(m).events)
  <2>1. /\ Holds(turn.request, turn.events) /\ socket.parsed
        /\ turn.request = asked \/ <<"create", asked, 0>> \in oversize
        /\ \A i \in 1..Len(turn.events) : turn.events[i].turn = asked =>
             /\ \A j \in 1..Len(Coming) : turn.events[i].n < Coming[j].n
             /\ telling.turn # asked => turn.events[i].n <= telling.n
    BY <1>3, <1>15 DEF PairInv, Pairing
  <2>2. \A i \in 1..Len(turn.events) : turn.events[i].turn = asked => turn.events[i].n < m.n
    BY <1>4, <1>a, <2>1
  <2>3. Holds(turn.request, With(m).events)
    <3>1. PICK p \in PieceOf : p = PieceIn(m) /\ p.turn = asked /\ p.text /\ p.n = m.n
      BY <1>14
    <3>2. asked \in Nat /\ asked > 0
      BY <1>3
    <3>3. Holds(turn.request, Append(turn.events, p))
      BY <1>14, <2>1, <2>2, <3>1, <3>2, HoldsMore
    <3>. QED  BY <1>14, <3>1, <3>3
  <2>. QED  BY <1>4, <2>1, <2>2, <2>3
<1>16. \A r, events : Holds(r, events) => Holds(r, events)'
  BY <1>2 DEF Holds
<1>17. Pairing'
  <2>1. \A e \in recorded' : e.method = "SOCKET" => Holds(e.prompt, e.answer)'
    BY <1>2, <1>16 DEF PairInv, Pairing
  <2>2. CASE UNCHANGED <<turn, pending>>
    <3>1. \A t \in pending : Holds(t.request, t.events)'
      BY <1>16 DEF PairInv, Pairing
    <3>. QED  BY <1>2, <1>15, <1>16, <2>1, <2>2, <3>1 DEF Pairing
  <2>3. CASE turn.open /\ turn' = NoTurn /\ pending' = pending \cup Finished(With(m))
    <3>1. \A t \in pending' : Holds(t.request, t.events)
      BY <1>14, <1>15, <2>3, FinishedHolds DEF PairInv, Pairing
    <3>2. \A t \in pending' : Holds(t.request, t.events)'
      BY <1>16, <3>1
    <3>3. ~turn'.open
      BY <2>3 DEF NoTurn
    <3>. QED  BY <2>1, <3>2, <3>3 DEF Pairing
  <2>4. CASE turn.open /\ turn' = With(m) /\ UNCHANGED pending
    <3>1. \A t \in pending' : Holds(t.request, t.events)'
      BY <1>16, <2>4 DEF PairInv, Pairing
    <3>2. Holds(turn.request, turn.events)' /\ socket'.parsed
          /\ (turn'.request = asked' \/ <<"create", asked', 0>> \in oversize')
      BY <1>2, <1>14, <1>15, <1>16, <2>4
    <3>3. ASSUME NEW i \in 1..Len(turn'.events), turn'.events[i].turn = asked
          PROVE  /\ \A j \in 1..Len(Coming') : turn'.events[i].n < Coming'[j].n
                 /\ telling.turn # asked => turn'.events[i].n <= telling.n
      <4>1. /\ Len(turn'.events) = Len(turn.events) + 1 /\ Len(turn.events) \in Nat
            /\ \A k \in 1..Len(turn.events) : turn'.events[k] = turn.events[k]
            /\ turn'.events[Len(turn.events) + 1] = PieceIn(m)
        BY <1>14, <2>4, Appended
      <4>2. CASE i \in 1..Len(turn.events)
        BY <1>15, <2>4, <3>3, <4>1, <4>2
      <4>3. CASE i = Len(turn.events) + 1
        <5>1. turn'.events[i].n = m.n
          BY <1>14, <4>1, <4>3
        <5>2. \A j \in 1..Len(Coming') : m.n < Coming'[j].n
          BY <1>4, <1>7, <1>9
        <5>3. telling.turn # asked => m.n <= telling.n
          BY <1>4, <1>7, <1>8
        <5>. QED  BY <5>1, <5>2, <5>3
      <4>. QED  BY <4>1, <4>2, <4>3
    <3>. QED  BY <1>2, <2>1, <3>1, <3>2, <3>3 DEF Pairing
  <2>. QED  BY <1>2, <2>2, <2>3, <2>4
<1>18. Keeping'
  <2>1. oversize \subseteq oversize' /\ pending \subseteq pending' /\ recorded \subseteq recorded'
    BY <1>2
  <2>2. \A k, n : Kept(k, n) => Kept(k, n)'
    BY <2>1, KeptStays
  <2>3. ASSUME socket.parsed, ~Oversized(asked)
        PROVE  IF EndNoted' THEN Kept(asked, m.n)'
               ELSE turn'.open /\ turn'.request = asked /\ turn'.events = Pieces(asked, NotedSoFar')
    <3>1. ~m.big
      BY <1>7, <2>3 DEF Oversized
    <3>2. turn.open /\ turn.request = asked /\ turn.events = Pieces(asked, m.n - 1)
      BY <1>a, <1>2, <1>3, <2>3 DEF PairInv, Keeping, EndNoted, NotedSoFar
    <3>3. PieceIn(m) = Piece(asked, m.n)
      BY <1>7, <3>1 DEF PieceIn, Piece, Messages
    <3>4. With(m).events = Pieces(asked, m.n)
      <4>1. Append(Pieces(asked, m.n - 1), Piece(asked, m.n)) = Pieces(asked, m.n)
        BY <1>3, <1>7, PiecesGrow
      <4>. QED  BY <1>14, <3>2, <3>3, <4>1
    <3>5. CASE m.kind = "end"
      <4>1. EndNoted'
        BY <1>2, <1>7, <3>5 DEF EndNoted
      <4>2. [request |-> asked, events |-> Pieces(asked, m.n)] \in pending'
        BY <1>2, <1>14, <2>3, <3>1, <3>2, <3>4, <3>5 DEF Finished
      <4>3. Pieces(asked, m.n)' = Pieces(asked, m.n)
        BY <1>2 DEF Pieces, Piece
      <4>4. Kept(asked, m.n)'
        BY <1>2, <4>2, <4>3 DEF Kept
      <4>. QED  BY <4>1, <4>4
    <3>6. CASE m.kind # "end"
      <4>1. ~EndNoted'
        BY <1>2, <1>7, <3>6 DEF EndNoted
      <4>2. NotedSoFar' = m.n
        <5>1. CASE Coming' = <<>>
          <6>1. telling.turn # asked /\ Len(Coming) = 1
            BY <1>4, <1>7, <3>6, <5>1
          <6>2. telling.n = m.n
            BY <1>7, <1>8, <6>1
          <6>. QED  BY <1>2, <5>1, <6>2 DEF NotedSoFar
        <5>2. CASE Coming' # <<>>
          <6>1. 1 \in 1..Len(Coming')
            BY <1>4, <5>2
          <6>2. Coming'[1].n = m.n + 1
            BY <1>9, <6>1
          <6>. QED  BY <1>7, <5>2, <6>2 DEF NotedSoFar
        <5>. QED  BY <5>1, <5>2
      <4>3. turn' = With(m)
        BY <1>2, <2>3, <3>1, <3>2, <3>6
      <4>. QED  BY <1>14, <3>2, <3>4, <4>1, <4>2, <4>3
    <3>. QED  BY <3>5, <3>6
  <2>4. UNCHANGED <<socket, asked, heard>> /\ said'["client"] = <<>> /\ Oversized(asked)' = Oversized(asked)
        /\ pump'["upstream"].held.n = m.n
        /\ \A n : Pieces(asked, n)' = Pieces(asked, n')
    BY <1>2, <1>3 DEF Oversized, Pieces, Piece
  <2>5. Pieces(asked, NotedSoFar)' = Pieces(asked, NotedSoFar')
    BY <2>4 DEF Pieces, Piece
  <2>. QED  BY <1>2, <1>5, <2>2, <2>3, <2>4, <2>5 DEF PairInv, Keeping
<1>. QED  BY <1>10, <1>11, <1>12, <1>13, <1>17, <1>18 DEF Dialogue

LEMMA PassCases ==
  ASSUME SocketTypes, NEW side \in Sides, Pass(side)
  PROVE  /\ Relaying /\ pump[side].pc = "holding" /\ pump[side].held \in Messages
         /\ pump'[side].pc \in {"reading", "ended"} /\ pump'[side].gap = pump[side].gap
         /\ \A s \in Sides \ {side} : pump'[s] = pump[s]
         /\ heard'[side] = heard[side]
         /\ \/ UNCHANGED heard
            \/ IF pump[side].held.kind \in {"create", "end"}
               THEN heard'[Other(side)] = Append(heard[Other(side)], pump[side].held.n)
               ELSE UNCHANGED heard
         /\ UNCHANGED <<socket, said, asked, telling, oversize, turn, pending, recorded>>
<1>1. /\ pump \in [Sides -> PumpState] /\ heard \in [Sides -> Seq(Nat)]
      /\ pump[side].pc = "holding" /\ pump[side].held \in Messages /\ Other(side) \in Sides \ {side}
  BY DEF SocketTypes, Pass, Other, Sides
<1>2. PICK pc \in {"reading", "ended"} :
        pump' = [pump EXCEPT ![side].pc = pc, ![side].held = NoMessage]
  BY DEF Pass
<1>3. pump'[side] = [pump[side] EXCEPT !.pc = pc, !.held = NoMessage]
  BY <1>1, <1>2
<1>4. pump'[side].pc = pc /\ pump'[side].gap = pump[side].gap
  BY <1>1, <1>3 DEF PumpState
<1>5. \A s \in Sides \ {side} : pump'[s] = pump[s]
  BY <1>1, <1>2
<1>6. \/ UNCHANGED heard
      \/ heard' = [heard EXCEPT ![Other(side)] = @ \o Heard(pump[side].held)]
  BY DEF Pass
<1>7. ASSUME heard' = [heard EXCEPT ![Other(side)] = @ \o Heard(pump[side].held)]
      PROVE  /\ heard'[side] = heard[side]
             /\ IF pump[side].held.kind \in {"create", "end"}
                THEN heard'[Other(side)] = Append(heard[Other(side)], pump[side].held.n)
                ELSE UNCHANGED heard
  <2>1. heard[Other(side)] \in Seq(Nat) /\ pump[side].held.n \in Nat
    BY <1>1 DEF Messages
  <2>2. \A q \in Seq(Nat), n \in Nat : q \o <<n>> = Append(q, n) /\ q \o <<>> = q
    OBVIOUS
  <2>3. heard[Other(side)] \o Heard(pump[side].held)
          = IF pump[side].held.kind \in {"create", "end"}
            THEN Append(heard[Other(side)], pump[side].held.n) ELSE heard[Other(side)]
    BY <2>1, <2>2 DEF Heard
  <2>. QED  BY <1>1, <1>7, <2>3
<1>. QED  BY <1>1, <1>2, <1>4, <1>5, <1>6, <1>7 DEF Pass

LEMMA PassClientPaired ==
  ASSUME PairInv, Pass("client"), UNCHANGED phase
  PROVE  (Dialogue /\ Pairing /\ Keeping)'
<1>1. /\ SocketTypes /\ Dialogue /\ "client" \in Sides /\ "upstream" \in Sides \ {"client"}
      /\ Other("client") = "upstream" /\ "client" # "upstream"
  BY DEF PairInv, TypeInv, Sides, Other
<1>2. /\ Relaying /\ pump["client"].pc = "holding" /\ pump'["client"].pc # "holding"
      /\ pump'["client"].gap = pump["client"].gap /\ pump'["upstream"] = pump["upstream"]
      /\ heard'["client"] = heard["client"]
      /\ \/ UNCHANGED heard
         \/ pump["client"].held.kind = "create" => 
              heard'["upstream"] = Append(heard["upstream"], pump["client"].held.n)
      /\ UNCHANGED <<socket, said, asked, telling, oversize, turn, pending, recorded>>
      /\ pump["client"].held \in Messages
  BY <1>1, PassCases
<1>3. /\ pump["client"].held.kind = "create" /\ Reached < asked /\ said["client"] = <<>>
  BY <1>1, <1>2 DEF Dialogue, Requesting
<1>4. /\ asked \in Nat /\ Delivered \in Nat /\ Reached \in Nat
      /\ Reached = Delivered /\ asked = Delivered + 1 /\ telling.turn = Delivered /\ ~Answering
  <2>1. asked \in Nat /\ Delivered \in Nat /\ Reached \in Nat
    BY <1>1, DialogueTypes
  <2>2. /\ Delivered <= Reached /\ Reached <= asked /\ asked <= Delivered + 1
        /\ telling.turn \in {Delivered, Reached}
    BY <1>1 DEF Dialogue, Alternating
  <2>3. Reached = Delivered /\ asked = Delivered + 1 /\ ~(Delivered < Reached)
    BY <1>3, <2>1, <2>2
  <2>. QED  BY <2>1, <2>2, <2>3 DEF Answering
<1>5. Delivered' = Delivered /\ Coming' = Coming /\ Reached' \in {Reached, Reached + 1}
  <2>1. heard["upstream"] \in Seq(Nat) /\ pump["client"].held.n \in Nat
    BY <1>1, <1>2 DEF SocketTypes, Messages
  <2>2. Len(Append(heard["upstream"], pump["client"].held.n)) = Len(heard["upstream"]) + 1
    BY <2>1, Appended
  <2>. QED  BY <1>2, <1>3, <2>2 DEF Delivered, Reached, Coming
<1>6. Coming = <<>> /\ pump["upstream"].pc # "holding" /\ Len(Coming) = 0
  <2>1. Coming = <<>> /\ pump["upstream"].pc # "holding"
    BY <1>1, <1>4 DEF Dialogue, Answers
  <2>. QED  BY <1>1, <2>1, DialogueTypes
<1>7. Untouched'
  <2>1. \A side \in Sides : ~pump'[side].gap
    BY <1>1, <1>2 DEF Dialogue, Untouched, Sides
  <2>. QED  BY <1>1, <1>2, <2>1 DEF Dialogue, Untouched, Relaying
<1>8. Alternating'
  <2>1. telling.turn = Reached' => telling.n = 0
    <3>1. telling.turn = Reached /\ telling.n = 0
      BY <1>1, <1>4 DEF Dialogue, Alternating
    <3>. QED  BY <3>1
  <2>2. /\ Delivered <= Reached' /\ Reached' <= asked
    BY <1>4, <1>5
  <2>. QED  BY <1>2, <1>4, <1>5, <2>1, <2>2 DEF Alternating
<1>9. Requesting'
  BY <1>1, <1>2, <1>3 DEF Dialogue, Requesting
<1>10. Answers'
  BY <1>2, <1>5, <1>6 DEF Answers
<1>11. Pairing'
  <2>1. \A r, events : Holds(r, events) => Holds(r, events)'
    BY <1>2 DEF Holds
  <2>. QED  BY <1>2, <1>5, <2>1 DEF PairInv, Pairing
<1>12. Keeping'
  <2>1. \A k, n : Kept(k, n) => Kept(k, n)'
    BY <1>2, KeptStays
  <2>2. UNCHANGED <<EndNoted, NotedSoFar, Relaying>> /\ Oversized(asked)' = Oversized(asked)
        /\ Pieces(asked, NotedSoFar)' = Pieces(asked, NotedSoFar)
    BY <1>2, <1>5 DEF EndNoted, NotedSoFar, Relaying, Oversized, Pieces, Piece
  <2>. QED  BY <1>2, <1>5, <1>6, <2>1, <2>2 DEF PairInv, Keeping
<1>. QED  BY <1>7, <1>8, <1>9, <1>10, <1>11, <1>12 DEF Dialogue

LEMMA PassUpstreamPaired ==
  ASSUME PairInv, Pass("upstream"), UNCHANGED phase
  PROVE  (Dialogue /\ Pairing /\ Keeping)'
<1>1. /\ SocketTypes /\ Dialogue /\ "upstream" \in Sides /\ "client" \in Sides \ {"upstream"}
      /\ Other("upstream") = "client" /\ "client" # "upstream"
  BY DEF PairInv, TypeInv, Sides, Other
<1>a. PICK m : m = pump["upstream"].held
  OBVIOUS
<1>2. /\ Relaying /\ pump["upstream"].pc = "holding" /\ pump'["upstream"].pc # "holding"
      /\ pump'["upstream"].gap = pump["upstream"].gap /\ pump'["client"] = pump["client"]
      /\ heard'["upstream"] = heard["upstream"]
      /\ \/ UNCHANGED heard
         \/ IF m.kind \in {"create", "end"} THEN heard'["client"] = Append(heard["client"], m.n)
            ELSE UNCHANGED heard
      /\ UNCHANGED <<socket, said, asked, telling, oversize, turn, pending, recorded>>
      /\ m \in Messages /\ m.n \in Nat
  BY <1>1, <1>a, PassCases DEF Messages
<1>3. /\ asked \in Nat \ {0} /\ Delivered \in Nat /\ Reached = asked /\ asked = Delivered + 1
      /\ Answering /\ said["client"] = <<>> /\ pump["client"].pc # "holding"
  BY <1>1, <1>2, AnswerUnderWay
<1>4. /\ m.kind # "create" /\ (m.kind = "end" <=> Coming = <<>> /\ telling.turn = asked)
  BY <1>1, <1>a, <1>2 DEF Dialogue, Answers
<1>5. UNCHANGED <<Coming, Reached>>
  BY <1>2 DEF Coming, Reached
<1>6. Untouched'
  <2>1. \A side \in Sides : ~pump'[side].gap
    BY <1>1, <1>2 DEF Dialogue, Untouched, Sides
  <2>. QED  BY <1>1, <1>2, <2>1 DEF Dialogue, Untouched, Relaying
<1>7. Requesting'
  BY <1>2, <1>3 DEF Requesting
<1>8. Pairing'
  <2>1. \A r, events : Holds(r, events) => Holds(r, events)'
    BY <1>2 DEF Holds
  <2>. QED  BY <1>2, <1>5, <2>1 DEF PairInv, Pairing
<1>9. \A k, n : Kept(k, n) => Kept(k, n)'
  BY <1>2, KeptStays
<1>10. CASE UNCHANGED heard
  <2>1. UNCHANGED <<Delivered, Answering>>
    BY <1>10 DEF Delivered, Answering, Reached
  <2>2. Alternating'
    BY <1>1, <1>2, <1>5, <2>1 DEF Dialogue, Alternating
  <2>3. Answers'
    BY <1>1, <1>2, <1>5, <2>1 DEF Dialogue, Answers
  <2>4. UNCHANGED <<EndNoted, NotedSoFar, Relaying>> /\ Oversized(asked)' = Oversized(asked)
        /\ Pieces(asked, NotedSoFar)' = Pieces(asked, NotedSoFar)
    BY <1>2, <1>5 DEF EndNoted, NotedSoFar, Relaying, Oversized, Pieces, Piece
  <2>5. Keeping'
    BY <1>2, <1>5, <1>9, <1>10, <2>1, <2>4 DEF PairInv, Keeping
  <2>. QED  BY <1>6, <1>7, <1>8, <2>2, <2>3, <2>5 DEF Dialogue
<1>11. CASE m.kind = "end" /\ heard'["client"] = Append(heard["client"], m.n)
  <2>1. heard["client"] \in Seq(Nat)
    BY <1>1 DEF SocketTypes
  <2>2. /\ Delivered' = asked /\ heard'["client"][asked] = m.n
        /\ \A k \in 1..Delivered : heard'["client"][k] = heard["client"][k]
    BY <1>2, <1>3, <1>11, <2>1, Appended DEF Delivered
  <2>3. Alternating'
    <3>1. telling.turn = Reached /\ telling.n = 0
      BY <1>1, <1>3, <1>4, <1>11 DEF Dialogue, Alternating
    <3>2. asked \in Nat /\ Reached' = asked
      BY <1>2, <1>3, <1>5
    <3>. QED  BY <1>2, <1>3, <2>2, <3>1, <3>2 DEF Alternating
  <2>4. Answers'
    <3>1. Coming = <<>> /\ Len(Coming) = 0
      BY <1>1, <1>4, <1>11, DialogueTypes
    <3>. QED  BY <1>2, <1>5, <3>1 DEF Answers
  <2>5. Keeping'
    <3>1. ASSUME socket.parsed PROVE Kept(asked, m.n)
      <4>1. CASE Oversized(asked)
        BY <4>1 DEF Kept
      <4>2. CASE ~Oversized(asked)
        <5>1. Delivered < asked
          BY <1>3
        <5>. QED  BY <1>a, <1>2, <1>3, <1>4, <1>11, <3>1, <4>2, <5>1 DEF PairInv, Keeping, EndNoted
      <4>. QED  BY <4>1, <4>2
    <3>3. ASSUME socket.parsed, NEW k \in 1..Delivered' PROVE Kept(k, heard["client"][k])'
      <4>1. k \in 1..Delivered \/ k = asked
        BY <1>3, <2>2
      <4>2. CASE k \in 1..Delivered
        <5>1. Kept(k, heard["client"][k])
          BY <3>3, <4>2 DEF PairInv, Keeping
        <5>2. heard'["client"][k] = heard["client"][k]
          BY <2>2, <4>2
        <5>3. PICK n : n = heard["client"][k]
          OBVIOUS
        <5>4. Kept(k, n)'
          BY <1>9, <5>1, <5>3
        <5>5. n = heard'["client"][k]
          BY <5>2, <5>3
        <5>. QED  BY <5>4, <5>5 DEF Kept, Pieces, Piece
      <4>3. CASE k = asked
        <5>1. Kept(k, m.n)'
          BY <1>9, <3>1, <3>3, <4>3
        <5>2. m.n = heard'["client"][k]
          BY <2>2, <4>3
        <5>. QED  BY <5>1, <5>2 DEF Kept, Pieces, Piece
      <4>. QED  BY <4>1, <4>2, <4>3
    <3>4. ~(Delivered' < asked')
      BY <1>2, <1>3, <2>2
    <3>. QED  BY <1>2, <3>3, <3>4 DEF Keeping
  <2>. QED  BY <1>6, <1>7, <1>8, <2>3, <2>4, <2>5 DEF Dialogue
<1>. QED  BY <1>2, <1>4, <1>10, <1>11

LEMMA PumpEndsPaired ==
  ASSUME PairInv, NEW side \in Sides, PumpEnds(side), UNCHANGED phase
  PROVE  (Dialogue /\ Pairing /\ Keeping)'
<1>1. /\ SocketTypes /\ Dialogue /\ pump \in [Sides -> PumpState]
      /\ "client" \in Sides /\ "upstream" \in Sides
  BY DEF PairInv, TypeInv, Sides, SocketTypes
<1>2. /\ pump' = [pump EXCEPT ![side].pc = "ended"]
      /\ Relaying /\ UNCHANGED <<socket, said, asked, telling, heard, oversize, turn, pending, recorded>>
  BY DEF PumpEnds
<1>3. \A s \in Sides : /\ pump'[s].gap = pump[s].gap
                       /\ pump'[s].pc = "holding" => pump'[s] = pump[s]
  BY <1>1, <1>2 DEF PumpState
<1>4. UNCHANGED <<Delivered, Reached, Answering, Coming, EndNoted, NotedSoFar, Relaying>>
  BY <1>2 DEF Delivered, Reached, Answering, Coming, EndNoted, NotedSoFar, Relaying
<1>5. Untouched'
  BY <1>1, <1>2, <1>3 DEF Dialogue, Untouched, Relaying
<1>6. Alternating' /\ Requesting' /\ Answers'
  BY <1>1, <1>2, <1>3, <1>4 DEF Dialogue, Alternating, Requesting, Answers
<1>7. Pairing'
  <2>1. \A r, events : Holds(r, events) => Holds(r, events)'
    BY <1>2 DEF Holds
  <2>. QED  BY <1>2, <1>4, <2>1 DEF PairInv, Pairing
<1>8. Keeping'
  <2>1. \A k, n : Kept(k, n) => Kept(k, n)'
    BY <1>2, KeptStays
  <2>2. Oversized(asked)' = Oversized(asked) /\ Pieces(asked, NotedSoFar)' = Pieces(asked, NotedSoFar)
    BY <1>2, <1>4 DEF Oversized, Pieces, Piece
  <2>3. pump'["upstream"].pc = "holding" => pump["upstream"].pc = "holding" /\ pump'["upstream"] = pump["upstream"]
    BY <1>1, <1>3
  <2>4. \A k \in 1..Delivered : socket.parsed => Kept(k, heard["client"][k])'
    BY <1>2, <2>1 DEF PairInv, Keeping
  <2>5. ASSUME pump'["upstream"].pc = "holding", Kept(asked, pump["upstream"].held.n)
        PROVE  Kept(asked, pump["upstream"].held.n)'
    <3>1. PICK n : n = pump["upstream"].held.n
      OBVIOUS
    <3>2. n = pump'["upstream"].held.n
      BY <2>3, <2>5, <3>1
    <3>3. PICK k : k = asked
      OBVIOUS
    <3>4. Kept(k, n)' /\ k = asked'
      BY <1>2, <2>1, <2>5, <3>1, <3>3
    <3>. QED  BY <3>2, <3>4 DEF Kept, Pieces, Piece
  <2>. QED  BY <1>2, <1>4, <2>2, <2>3, <2>4, <2>5 DEF PairInv, Keeping
<1>. QED  BY <1>5, <1>6, <1>7, <1>8 DEF Dialogue

LEMMA RelayEndsPaired ==
  ASSUME PairInv, RelayEnds, UNCHANGED phase
  PROVE  (Dialogue /\ Pairing /\ Keeping)'
<1>1. SocketTypes /\ Dialogue /\ turn \in TurnState
  BY DialogueTypes DEF PairInv, TypeInv
<1>2. /\ socket' = [socket EXCEPT !.state = "over"] /\ Relaying
      /\ pending' = pending \cup Finished(turn) /\ turn' = NoTurn
      /\ UNCHANGED <<said, pump, asked, telling, heard, oversize, recorded>>
  BY DEF RelayEnds
<1>3. /\ socket'.state = "over" /\ socket'.agreed = socket.agreed /\ socket'.parsed = socket.parsed
      /\ ~turn'.open
  BY <1>1, <1>2 DEF SocketTypes, NoTurn
<1>4. UNCHANGED <<Delivered, Reached, Answering, Coming>>
  BY <1>2 DEF Delivered, Reached, Answering, Coming
<1>5. Untouched'
  BY <1>1, <1>2, <1>3 DEF Dialogue, Untouched, Relaying
<1>6. Alternating' /\ Requesting' /\ Answers'
  BY <1>1, <1>2, <1>4 DEF Dialogue, Alternating, Requesting, Answers
<1>7. Pairing'
  <2>1. \A r, events : Holds(r, events) => Holds(r, events)'
    BY <1>2 DEF Holds
  <2>2. \A t \in pending' : Holds(t.request, t.events)
    BY <1>1, <1>2, FinishedHolds DEF PairInv, Pairing
  <2>3. \A t \in pending' : Holds(t.request, t.events)'
    BY <2>1, <2>2
  <2>. QED  BY <1>2, <1>3, <2>1, <2>3 DEF PairInv, Pairing
<1>8. Keeping'
  <2>1. \A k, n : Kept(k, n) => Kept(k, n)'
    BY <1>2, KeptStays
  <2>2. ~Relaying'
    BY <1>3 DEF Relaying
  <2>3. \A k \in 1..Delivered : socket.parsed => Kept(k, heard["client"][k])'
    BY <1>2, <2>1 DEF PairInv, Keeping
  <2>. QED  BY <1>3, <1>4, <2>2, <2>3 DEF Keeping
<1>. QED  BY <1>5, <1>6, <1>7, <1>8 DEF Dialogue

LEMMA RecordTurnPaired ==
  ASSUME PairInv, NEW t \in pending, RecordTurn(t), UNCHANGED phase
  PROVE  (Dialogue /\ Pairing /\ Keeping)'
<1>1. SocketTypes /\ Dialogue /\ pending \subseteq Assembled
  BY DialogueTypes DEF PairInv, TypeInv
<1>2. /\ pending' = pending \ {t}
      /\ UNCHANGED <<socket, said, pump, asked, telling, heard, oversize, turn>>
  BY DEF RecordTurn
<1>3. UNCHANGED <<Delivered, Reached, Answering, Coming, EndNoted, NotedSoFar, Relaying>>
  BY <1>2 DEF Delivered, Reached, Answering, Coming, EndNoted, NotedSoFar, Relaying
<1>4. socket.state # "off"
  BY <1>1 DEF Dialogue, Untouched, SocketInit
<1>5. Untouched'
  BY <1>1, <1>2, <1>4 DEF Dialogue, Untouched
<1>6. Alternating' /\ Requesting' /\ Answers'
  BY <1>1, <1>2, <1>3 DEF Dialogue, Alternating, Requesting, Answers
<1>7. Pairing'
  <2>1. \A r, events : Holds(r, events) => Holds(r, events)'
    BY <1>2 DEF Holds
  <2>2. ASSUME NEW e \in recorded', e.method = "SOCKET" PROVE Holds(e.prompt, e.answer)'
    <3>1. CASE e \in recorded
      BY <2>1, <2>2, <3>1 DEF PairInv, Pairing
    <3>2. CASE e \notin recorded
      <4>1. e.prompt = t.request /\ e.answer = t.events
        BY <2>2, <3>2, TurnRecorded
      <4>. QED  BY <2>1, <4>1 DEF PairInv, Pairing
    <3>. QED  BY <3>1, <3>2
  <2>. QED  BY <1>2, <1>3, <2>1, <2>2 DEF PairInv, Pairing
<1>8. Keeping'
  <2>1. ASSUME NEW k, NEW n, Kept(k, n) PROVE Kept(k, n)'
    <3>1. Pieces(k, n)' = Pieces(k, n) /\ Oversized(k)' = Oversized(k)
      BY <1>2 DEF Pieces, Piece, Oversized
    <3>2. /\ recorded \subseteq recorded'
          /\ \E e \in recorded' : e.method = "SOCKET" /\ e.prompt = t.request /\ e.answer = t.events
      BY <1>1, TurnRecords
    <3>3. CASE t = [request |-> k, events |-> Pieces(k, n)]
      <4>1. t.request = k /\ t.events = Pieces(k, n)
        BY <3>3
      <4>. QED  BY <3>1, <3>2, <4>1 DEF Kept
    <3>4. CASE t # [request |-> k, events |-> Pieces(k, n)]
      BY <1>2, <2>1, <3>1, <3>2, <3>4 DEF Kept
    <3>. QED  BY <3>3, <3>4
  <2>2. Oversized(asked)' = Oversized(asked) /\ Pieces(asked, NotedSoFar)' = Pieces(asked, NotedSoFar)
    BY <1>2, <1>3 DEF Oversized, Pieces, Piece
  <2>3. \A k \in 1..Delivered : socket.parsed => Kept(k, heard["client"][k])'
    BY <1>2, <2>1 DEF PairInv, Keeping
  <2>4. Kept(asked, pump["upstream"].held.n) => Kept(asked, pump["upstream"].held.n)'
    BY <1>2, <2>1
  <2>. QED  BY <1>2, <1>3, <2>2, <2>3, <2>4 DEF PairInv, Keeping
<1>. QED  BY <1>5, <1>6, <1>7, <1>8 DEF Dialogue

(* Everything else leaves the socket alone, but for its beginning.         *)
LEMMA OutsidePaired ==
  ASSUME PairInv, UNCHANGED <<said, pump, asked, telling, heard, oversize, turn, pending>>,
         recorded \subseteq recorded', \A e \in recorded' \ recorded : e.method # "SOCKET",
         \/ UNCHANGED socket /\ (phase \in {"relaying", "done"} => phase' \in {"relaying", "done"})
         \/ socket.state = "off" /\ socket'.agreed # "takeover" /\ phase' = "relaying" /\ socket'.state # "off"
  PROVE  (Dialogue /\ Pairing /\ Keeping)'
<1>1. SocketTypes /\ Dialogue
  BY DEF PairInv, TypeInv
<1>3. UNCHANGED <<Delivered, Reached, Answering, Coming, EndNoted, NotedSoFar>>
  BY DEF Delivered, Reached, Answering, Coming, EndNoted, NotedSoFar
<1>5. Untouched'
  BY <1>1 DEF Dialogue, Untouched, SocketInit
<1>6. Alternating' /\ Requesting' /\ Answers'
  BY <1>1, <1>3 DEF Dialogue, Alternating, Requesting, Answers
<1>a. socket' = socket \/ (~turn.open /\ asked = 0 /\ Delivered = 0)
  BY <1>1, EmptySeq DEF Dialogue, Untouched, SocketInit, NoTurn, Delivered, Sides
<1>7. Pairing'
  <2>1. \A r, events : Holds(r, events) => Holds(r, events)'
    BY DEF Holds
  <2>. QED  BY <1>3, <1>a, <2>1 DEF PairInv, Pairing
<1>8. Keeping'
  <2>1. \A k, n : Kept(k, n) => Kept(k, n)'
    BY KeptStays
  <2>2. Oversized(asked)' = Oversized(asked) /\ Pieces(asked, NotedSoFar)' = Pieces(asked, NotedSoFar)
    BY <1>3 DEF Oversized, Pieces, Piece
  <2>3. \A k \in 1..Delivered : socket.parsed => Kept(k, heard["client"][k])'
    BY <2>1 DEF PairInv, Keeping
  <2>4. Kept(asked, pump["upstream"].held.n) => Kept(asked, pump["upstream"].held.n)'
    BY <2>1
  <2>5. CASE socket' = socket
    BY <1>3, <2>2, <2>3, <2>4, <2>5 DEF PairInv, Keeping, Relaying
  <2>6. CASE asked = 0 /\ Delivered = 0
    BY <1>3, <2>6 DEF Keeping
  <2>. QED  BY <1>a, <2>5, <2>6
<1>. QED  BY <1>5, <1>6, <1>7, <1>8 DEF Dialogue

LEMMA SocketNextPaired ==
  ASSUME PairInv, SocketNext, UNCHANGED phase, Polite
  PROVE  (Dialogue /\ Pairing /\ Keeping)'
<1>1. ASSUME NEW side \in Sides, Read(side) \/ Pass(side) \/ PumpEnds(side)
      PROVE  (Dialogue /\ Pairing /\ Keeping)'
  <2>1. side \in {"client", "upstream"}
    BY DEF Sides
  <2>. QED  BY <1>1, <2>1, ReadClientPaired, ReadUpstreamPaired, PassClientPaired,
               PassUpstreamPaired, PumpEndsPaired
<1>. QED  BY <1>1, AsksPaired, AnswersPaired, RelayEndsPaired, RecordTurnPaired DEF SocketNext

(* What a step outside the socket records is no turn of it.                *)
LEMMA FinishOutside ==
  ASSUME HttpTypes, number > 0, NEW ok \in BOOLEAN, Finish(ok)
  PROVE  recorded \subseteq recorded' /\ \A e \in recorded' \ recorded : e.method # "SOCKET"
<1>1. PICK question, answer \in BOOLEAN :
        recorded' = recorded \cup Events(Interaction(question, answer))
  BY DEF Finish
<1>2. \A e \in Events(Interaction(question, answer)) : e.method = "HTTP"
  BY InteractionRecorded
<1>. QED  BY <1>1, <1>2

LEMMA DecodeOutside ==
  ASSUME StreamTypes, NEW k \in 1..MaxRequests,
         Decode(k) \/ DecoderFails(k) \/ Drain(k) \/ DecoderEnds(k)
  PROVE  recorded \subseteq recorded' /\ \A e \in recorded' \ recorded : e.method # "SOCKET"
<1>1. CASE Decode(k)
  <2>1. recorded \subseteq recorded'
    BY <1>1 DEF Decode
  <2>2. ASSUME NEW e \in recorded' \ recorded PROVE e.method # "SOCKET"
    <3>1. PICK t : e \in Events(TurnExchange(k, t))
      BY <1>1, <2>2, DecodeRecorded
    <3>. QED  BY <3>1, TurnEvent
  <2>. QED  BY <2>1, <2>2
<1>2. CASE DecoderFails(k) \/ Drain(k) \/ DecoderEnds(k)
  BY <1>2 DEF DecoderFails, Drain, DecoderEnds
<1>. QED  BY <1>1, <1>2

LEMMA NextPaired ==
  ASSUME PairInv, [Next]_vars, Polite PROVE PairInv'
<1>0. TypeInv /\ TypeInv' /\ HttpTypes /\ StreamTypes /\ SocketTypes /\ Dialogue
  BY NextTypes DEF PairInv, TypeInv
<1>1. CASE SocketNext /\ UNCHANGED <<httpVars, streamVars>>
  BY <1>0, <1>1, SocketNextPaired DEF httpVars, PairInv
<1>2. CASE /\ UNCHANGED socketVars /\ recorded \subseteq recorded'
           /\ \A e \in recorded' \ recorded : e.method # "SOCKET"
           /\ phase \in {"relaying", "done"} => phase' \in {"relaying", "done"}
  BY <1>0, <1>2, OutsidePaired DEF socketVars, PairInv
<1>3. CASE ForwardHead
  <2>1. phase = "awaiting" /\ number > 0
    BY <1>0, <1>3, HeadCases DEF HttpTypes
  <2>2. socket.state = "off"
    BY <1>0, <2>1 DEF Dialogue, Untouched
  <2>3. CASE HeadSwitches
    <3>1. PICK parsed \in BOOLEAN, agreed \in Agreements :
            socket' = [state |-> "relaying", agreed |-> agreed, parsed |-> parsed]
      BY <2>3 DEF HeadSwitches, Upgrade
    <3>2. socket'.agreed # "takeover" /\ socket'.state # "off"
      BY <3>1 DEF Polite
    <3>. QED  BY <1>0, <2>2, <2>3, <3>2, OutsidePaired DEF HeadSwitches, PairInv
  <2>4. CASE Finish(TRUE) /\ UNCHANGED socketVars
    BY <1>0, <1>2, <2>1, <2>4, FinishOutside
  <2>. QED  BY <1>2, <1>3, <2>1, <2>3, <2>4, HeadCases DEF HeadStreams
<1>4. CASE ForwardEnd
  <2>1. number > 0 /\ phase = "streaming" /\ UNCHANGED socketVars /\ (Finish(TRUE) \/ Finish(FALSE))
    <3>1. phase = "streaming" /\ UNCHANGED socketVars /\ (Finish(TRUE) \/ Finish(FALSE))
      BY <1>4 DEF ForwardEnd
    <3>2. number \in 0..MaxRequests /\ MaxRequests \in Nat /\ number # 0
      BY <1>0, <3>1, Constants DEF HttpTypes
    <3>3. number > 0
      BY <3>2
    <3>. QED  BY <3>1, <3>3
  <2>. QED  BY <1>0, <1>2, <2>1, FinishOutside
<1>5. CASE (\E k \in 1..MaxRequests : Decode(k) \/ DecoderFails(k) \/ Drain(k) \/ DecoderEnds(k))
             /\ UNCHANGED <<httpVars, socketVars>>
  BY <1>0, <1>2, <1>5, DecodeOutside DEF httpVars
<1>6. CASE SessionGoesOn /\ UNCHANGED <<httpVars, socketVars>>
  BY <1>0, <1>2, <1>6, SessionTypes DEF httpVars
<1>7. CASE \/ ClientRequests \/ UpstreamResponds \/ UpstreamProduces \/ Send \/ NoAnswer
           \/ ForwardUnit \/ ClientLeft \/ RelayReturns \/ \E side \in Sides : EndGoes(side)
  BY <1>2, <1>7 DEF ClientRequests, UpstreamResponds, UpstreamProduces, Send, NoAnswer, ForwardUnit,
                    ClientLeft, RelayReturns, EndGoes, Over, httpVars
<1>8. CASE UNCHANGED <<httpVars, socketVars, streamVars, ends, recorded>>
  BY <1>2, <1>8 DEF httpVars
<1>. QED  BY <1>1, <1>3, <1>4, <1>5, <1>6, <1>7, <1>8, NextCases DEF Forward

LEMMA InitPaired == ASSUME Init, Polite PROVE PairInv
<1>1. TypeInv /\ SocketTypes
  BY InitTypes DEF TypeInv
<1>2. /\ socket = [state |-> "off", agreed |-> "plain", parsed |-> FALSE]
      /\ said["client"] = <<>> /\ Coming = <<>> /\ heard["client"] = <<>> /\ heard["upstream"] = <<>>
      /\ \A s \in Sides : pump[s].pc = "reading" /\ ~pump[s].gap
      /\ pump["client"].pc = "reading" /\ pump["upstream"].pc = "reading"
      /\ asked = 0 /\ telling = [turn |-> 0, n |-> 0]
      /\ turn = NoTurn /\ pending = {} /\ recorded = {}
  BY DEF Init, SocketInit, Coming, Sides
<1>3. Delivered = 0 /\ Reached = 0 /\ Len(Coming) = 0 /\ Len(said["client"]) = 0
  BY <1>2, EmptySeq DEF Delivered, Reached
<1>4. Untouched
  BY <1>2 DEF Untouched, Init
<1>5. Alternating /\ Requesting /\ Answers
  BY <1>2, <1>3 DEF Alternating, Requesting, Answers
<1>6. Pairing /\ Keeping
  BY <1>2, <1>3 DEF Pairing, Keeping, NoTurn
<1>. QED  BY <1>1, <1>4, <1>5, <1>6 DEF PairInv, Dialogue

(* The answers on a socket are recorded with the requests they answer, in  *)
(* their order, however the pumps race and wherever a side is lost.        *)
THEOREM TurnsArePaired == ASSUME Polite PROVE Spec => []TurnsPaired
<1>1. PairInv => TurnsPaired
  BY DEF PairInv, Pairing, Holds, TurnsPaired
<1>2. Init => PairInv
  BY InitPaired
<1>3. PairInv /\ [Next]_vars => PairInv'
  BY NextPaired
<1>. QED  BY <1>1, <1>2, <1>3, PTL DEF Spec

(* No turn is lost whose end the client has, and it has its whole answer,  *)
(* unless something of it was too large to copy.                           *)
THEOREM TurnsAreKept == ASSUME Polite PROVE Spec => []NoTurnLost
<1>1. PairInv => NoTurnLost
  <2>1. \A k : Pieces(k, heard["client"][k]) = Whole(k)
    BY DEF Pieces, Whole
  <2>. QED  BY <2>1 DEF PairInv, Keeping, Kept, Oversized, NoTurnLost, Delivered
<1>2. Init => PairInv
  BY InitPaired
<1>3. PairInv /\ [Next]_vars => PairInv'
  BY NextPaired
<1>. QED  BY <1>1, <1>2, <1>3, PTL DEF Spec

-----------------------------------------------------------------------------
(* What the parser reads as the answer.                                    *)

Told(e, answer) == IF e.kind = "assistant" THEN Append(answer, Piece(e.turn, e.n)) ELSE answer
Reads(f, events, m) ==
  f = [i \in 0..m |-> IF i = 0 THEN <<>>
                      ELSE IF events[i].kind = "assistant"
                           THEN Append(f[i - 1], Piece(events[i].turn, events[i].n))
                           ELSE f[i - 1]]

LEMMA ReadsValues ==
  ASSUME NEW f, NEW events, NEW m \in Nat, Reads(f, events, m)
  PROVE  f[0] = <<>> /\ \A i \in 1..m : f[i] = Told(events[i], f[i - 1])
<1>1. \A i \in 0..m : f[i] = IF i = 0 THEN <<>>
                             ELSE IF events[i].kind = "assistant"
                                  THEN Append(f[i - 1], Piece(events[i].turn, events[i].n))
                                  ELSE f[i - 1]
  BY DEF Reads
<1>2. 0 \in 0..m /\ \A i \in 1..m : i \in 0..m /\ i # 0
  OBVIOUS
<1>. QED  BY <1>1, <1>2 DEF Told

LEMMA Least ==
  ASSUME NEW T, T \subseteq Nat, T # {}
  PROVE  \E x \in T : \A y \in T : x <= y
<1>1. PICK x \in T : \A y \in T : ~(<<y, x>> \in OpToRel(<, Nat))
  <2>1. IsWellFoundedOn(OpToRel(<, Nat), Nat)
    BY NatLessThanWellFounded
  <2>. QED  BY ONLY <2>1, T \subseteq Nat, T # {}, WFMin
<1>2. \A y \in T : x \in Nat /\ y \in Nat /\ ~(y < x)
  BY <1>1 DEF OpToRel
<1>. QED  BY <1>2

LEMMA ReadsExists ==
  ASSUME NEW events, NEW m \in Nat PROVE \E f : Reads(f, events, m)
<1> DEFINE Bad == {k \in Nat : ~\E f : Reads(f, events, k)}
<1>1. SUFFICES ASSUME Bad # {} PROVE FALSE
  OBVIOUS
<1>2. PICK k \in Bad : \A y \in Bad : k <= y
  BY <1>1, Least
<1>3. k # 0
  <2>1. Reads([i \in 0..0 |-> <<>>], events, 0)
    BY DEF Reads
  <2>. QED  BY <2>1
<1>4. k - 1 \in Nat /\ k - 1 \notin Bad
  BY <1>2, <1>3
<1>5. PICK f : Reads(f, events, k - 1)
  BY <1>4
<1> DEFINE g == [i \in 0..k |-> IF i = k THEN Told(events[k], f[k - 1]) ELSE f[i]]
<1>6. \A i \in 0..k - 1 : g[i] = f[i]
  BY <1>2
<1>7. Reads(g, events, k)
  <2>1. \A i \in 0..k : g[i] = IF i = 0 THEN <<>>
                               ELSE IF events[i].kind = "assistant"
                                    THEN Append(g[i - 1], Piece(events[i].turn, events[i].n))
                                    ELSE g[i - 1]
    <3>1. ASSUME NEW i \in 0..k, i # k
          PROVE  g[i] = IF i = 0 THEN <<>> ELSE Told(events[i], g[i - 1])
      <4>1. g[i] = f[i] /\ (i # 0 => g[i - 1] = f[i - 1])
        BY <1>2, <1>6, <3>1
      <4>2. f[0] = <<>> /\ \A j \in 1..k - 1 : f[j] = Told(events[j], f[j - 1])
        BY <1>4, <1>5, ReadsValues
      <4>3. i = 0 \/ i \in 1..k - 1
        BY <1>2, <3>1
      <4>. QED  BY <4>1, <4>2, <4>3
    <3>2. g[k] = Told(events[k], g[k - 1])
      BY <1>2, <1>3, <1>4, <1>6
    <3>. HIDE DEF g
    <3>. QED  BY <1>3, <3>1, <3>2 DEF Told
  <2>2. g = [i \in 0..k |-> g[i]]
    OBVIOUS
  <2>. HIDE DEF g
  <2>. QED  BY <2>1, <2>2 DEF Reads
<1>. QED  BY <1>2, <1>7

(* Two readings agree as far as the events do.                             *)
LEMMA ReadsAgree ==
  ASSUME NEW f, NEW g, NEW events, NEW more, NEW m \in Nat, NEW n \in Nat, m <= n,
         Reads(f, events, m), Reads(g, more, n), \A i \in 1..m : events[i] = more[i]
  PROVE  \A i \in 0..m : f[i] = g[i]
<1> DEFINE Bad == {k \in 0..m : f[k] # g[k]}
<1>1. SUFFICES ASSUME Bad # {} PROVE FALSE
  OBVIOUS
<1>2. PICK k \in Bad : \A y \in Bad : k <= y
  <2>1. Bad \subseteq Nat
    OBVIOUS
  <2>. QED  BY <1>1, <2>1, Least
<1>3. /\ f[0] = <<>> /\ \A i \in 1..m : f[i] = Told(events[i], f[i - 1])
      /\ g[0] = <<>> /\ \A i \in 1..n : g[i] = Told(more[i], g[i - 1])
  BY ReadsValues
<1>4. k \in 1..m /\ k \in 1..n /\ k - 1 \in 0..m /\ k - 1 \notin Bad
  BY <1>2, <1>3
<1>5. f[k - 1] = g[k - 1]
  BY <1>4
<1>6. f[k] = g[k]
  BY <1>3, <1>4, <1>5
<1>. QED  BY <1>2, <1>6

LEMMA AnswerRead ==
  ASSUME NEW events, Len(events) \in Nat
  PROVE  \E f : Reads(f, events, Len(events)) /\ AnswerOf(events) = f[Len(events)]
<1>1. PICK f : /\ f = CHOOSE g : Reads(g, events, Len(events))
               /\ Reads(f, events, Len(events))
  BY ReadsExists
<1>2. AnswerOf(events) = f[Len(events)]
  BY <1>1 DEF AnswerOf, Reads
<1>. QED  BY <1>1, <1>2

LEMMA AnswerOfMore ==
  ASSUME NEW events \in Seq(LogEvent), NEW e \in LogEvent
  PROVE  AnswerOf(Append(events, e)) = Told(e, AnswerOf(events))
<1>1. PICK more \in Seq(LogEvent) :
        /\ more = Append(events, e) /\ Len(more) = Len(events) + 1 /\ Len(events) \in Nat
        /\ \A i \in 1..Len(events) : events[i] = more[i]
        /\ more[Len(events) + 1] = e
  BY Appended
<1>2. PICK m \in Nat : m = Len(events)
  BY <1>1
<1>3. PICK f : Reads(f, events, m) /\ AnswerOf(events) = f[m]
  BY <1>2, AnswerRead
<1>4. PICK g : Reads(g, more, m + 1) /\ AnswerOf(more) = g[m + 1]
  <2>1. Len(more) = m + 1 /\ Len(more) \in Nat
    BY <1>1, <1>2
  <2>. QED  BY <2>1, AnswerRead
<1>5. f[m] = g[m]
  <2>1. \A i \in 1..m : events[i] = more[i]
    BY <1>1, <1>2
  <2>2. m + 1 \in Nat /\ m <= m + 1 /\ m \in 0..m
    OBVIOUS
  <2>. QED  BY <1>3, <1>4, <2>1, <2>2, ReadsAgree
<1>6. g[m + 1] = Told(e, g[m])
  <2>1. m + 1 \in 1..m + 1 /\ m + 1 \in Nat /\ m + 1 - 1 = m
    OBVIOUS
  <2>2. \A i \in 1..m + 1 : g[i] = Told(more[i], g[i - 1])
    BY <1>4, <2>1, ReadsValues
  <2>. QED  BY <1>1, <1>2, <2>1, <2>2
<1>. QED  BY <1>1, <1>3, <1>4, <1>5, <1>6

LEMMA AnswerOfOne ==
  ASSUME NEW e \in LogEvent, e.kind # "assistant" PROVE AnswerOf(<<e>>) = <<>>
<1>1. <<e>>[1] = e /\ Len(<<e>>) = 1 /\ 1 \in Nat
  OBVIOUS
<1>2. PICK f : Reads(f, <<e>>, 1) /\ AnswerOf(<<e>>) = f[1]
  BY <1>1, AnswerRead
<1>3. f[0] = <<>> /\ f[1] = Told(<<e>>[1], f[1 - 1])
  <2>1. 1 \in 1..1
    OBVIOUS
  <2>. QED  BY <1>2, <2>1, ReadsValues
<1>. QED  BY <1>1, <1>2, <1>3 DEF Told
-----------------------------------------------------------------------------
(* The turns of a session's stream.                                        *)

(* What had been said of a turn when the session had so many events.       *)
SaidAt(t, w) == {i \in 1..w : log[i].kind = "assistant" /\ log[i].turn = t}
SaidBy(t, w) == Cardinality(SaidAt(t, w))
AtMost(a, b) == IF a < b THEN a ELSE b

(* A session's events when nobody types before the answer is over: turn    *)
(* after turn, each begun by what the person typed, its answer numbered    *)
(* and over with the first result that comes after something was said.     *)
InOrder ==
  /\ Typed = IF log = <<>> THEN 0 ELSE log[Len(log)].turn
  /\ \A i \in 1..Len(log) :
       /\ log[i].kind = "user" => log[i].turn > 0
       /\ i > 1 => log[i].turn = IF log[i].kind = "user" THEN log[i - 1].turn + 1 ELSE log[i - 1].turn
       /\ \A j \in 1..i : log[j].turn <= log[i].turn
       /\ log[i].kind = "user" => \A j \in 1..i - 1 : log[j].turn < log[i].turn
Numbered ==
  \A i \in 1..Len(log) : log[i].kind = "assistant" =>
    /\ log[i].n = SaidBy(log[i].turn, i)
    /\ \E j \in 1..i : log[j] = SessionEvent("assistant", log[i].turn, 1)
OverOnce ==
  \A i, j, k \in 1..Len(log) :
    i < j /\ j < k /\ log[i].kind = "assistant" /\ log[j].kind = "result"
      /\ log[i].turn = log[k].turn /\ log[j].turn = log[k].turn
      => log[k].kind \notin {"assistant", "result"}
LogInv == InOrder /\ Numbered /\ OverOnce

(* A turn that is assembled, from the event its prompt is, with all its    *)
(* events there was room for.                                              *)
Assembling(s, u, p) ==
  /\ log[u].kind = "user" /\ s.turn[1] = log[u]
  /\ \A j \in u..p : log[j].turn = log[u].turn
  /\ Len(s.turn) = AtMost(p - u + 1, MaxTurnEvents)
  /\ AnswerOf(s.turn) = Pieces(log[u].turn, SaidBy(log[u].turn, u + Len(s.turn) - 1))
  /\ s.sawAssistant => \E a \in u..p : log[a].kind = "assistant"

(* What a decoder has not taken yet are the session's events from its next *)
(* one on, without a gap.                                                  *)
Fresh(k) == k = number /\ phase = "streaming" /\ request.endpoint = "stream" /\ ~streams[k].broken
ReadsOn(k, p) ==
  /\ p + Len(streams[k].channel) <= Len(log)
  /\ \A i \in 1..Len(streams[k].channel) : streams[k].channel[i] = log[p + i]
  /\ Fresh(k) => p + Len(streams[k].channel) = got
  /\ streams[k].turn # <<>> => \E u \in 1..p : Assembling(streams[k], u, p)
Reading ==
  /\ phase \in {"sending", "awaiting"} => got = 0
  /\ \A k \in 1..MaxRequests : streams[k].decoder = "decoding" => \E p \in Nat : ReadsOn(k, p)

(* What is recorded of a turn reaches from its prompt to its last result.  *)
Spans(e, u, r) ==
  /\ u < r /\ log[u].kind = "user" /\ log[r].kind = "result"
  /\ log[u].turn = e.prompt /\ log[r].turn = e.prompt
  /\ \E a \in u..r : a < r /\ log[a].kind = "assistant"
  /\ e.answer = Pieces(e.prompt, SaidBy(e.prompt, AtMost(r, u + MaxTurnEvents - 1)))
Recorded(e) ==
  /\ e.endpoint = "message" =>
       /\ e.answer = <<>>
       /\ IF e.prompt # Nobody THEN e.id = <<"cowork", e.prompt>> ELSE e.id[1] = "HTTP"
  /\ e.endpoint = "stream" => e.method = "TURN"
  /\ e.method = "TURN" =>
       /\ e = [id |-> <<"cowork", e.prompt>>, endpoint |-> "stream", method |-> "TURN",
               prompt |-> e.prompt, answer |-> e.answer, noted |-> FALSE]
       /\ e.prompt # Nobody
       /\ \E u, r \in 1..Len(log) : Spans(e, u, r)
TurnsRecorded == \A e \in recorded : Recorded(e)
ReadInv == LogInv /\ Reading /\ TurnsRecorded

LEMMA SaidByTypes ==
  ASSUME NEW t, NEW w \in Nat
  PROVE  /\ IsFiniteSet(SaidAt(t, w)) /\ SaidBy(t, w) \in Nat
         /\ \A v \in 0..w : /\ SaidAt(t, v) \subseteq SaidAt(t, w)
                            /\ SaidBy(t, v) \in Nat /\ SaidBy(t, v) <= SaidBy(t, w)
<1>1. IsFiniteSet(1..w)
  BY FS_Interval
<1>2. SaidAt(t, w) \subseteq 1..w
  BY DEF SaidAt
<1>3. IsFiniteSet(SaidAt(t, w))
  BY <1>1, <1>2, FS_Subset
<1>4. ASSUME NEW v \in 0..w
      PROVE  /\ SaidAt(t, v) \subseteq SaidAt(t, w)
             /\ SaidBy(t, v) \in Nat /\ SaidBy(t, v) <= SaidBy(t, w)
  <2>1. SaidAt(t, v) \subseteq SaidAt(t, w)
    BY DEF SaidAt
  <2>. QED  BY <1>3, <2>1, FS_Subset, FS_CardinalityType DEF SaidBy
<1>. QED  BY <1>3, <1>4, FS_CardinalityType DEF SaidBy

LEMMA SaidByNext ==
  ASSUME NEW t, NEW w \in Nat
  PROVE  SaidBy(t, w + 1) = IF log[w + 1].kind = "assistant" /\ log[w + 1].turn = t
                            THEN SaidBy(t, w) + 1 ELSE SaidBy(t, w)
<1>1. IsFiniteSet(SaidAt(t, w)) /\ w + 1 \notin SaidAt(t, w)
  BY SaidByTypes DEF SaidAt
<1>2. 1..w + 1 = (1..w) \cup {w + 1}
  OBVIOUS
<1>3. CASE log[w + 1].kind = "assistant" /\ log[w + 1].turn = t
  <2>1. SaidAt(t, w + 1) = SaidAt(t, w) \cup {w + 1}
    BY <1>2, <1>3 DEF SaidAt
  <2>. QED  BY <1>1, <1>3, <2>1, FS_AddElement DEF SaidBy
<1>4. CASE ~(log[w + 1].kind = "assistant" /\ log[w + 1].turn = t)
  <2>1. SaidAt(t, w + 1) = SaidAt(t, w)
    BY <1>2, <1>4 DEF SaidAt
  <2>. QED  BY <1>4, <2>1 DEF SaidBy
<1>. QED  BY <1>3, <1>4

(* The session's next event changes nothing of what it had.                *)
LEMMA SaidByStays ==
  ASSUME NEW t, NEW w \in Nat, w <= Len(log), Len(log) \in Nat,
         \A i \in 1..Len(log) : log'[i] = log[i]
  PROVE  SaidBy(t, w)' = SaidBy(t, w) /\ SaidAt(t, w)' = SaidAt(t, w)
<1>1. \A i \in 1..w : i \in 1..Len(log)
  OBVIOUS
<1>2. SaidAt(t, w)' = SaidAt(t, w)
  BY <1>1 DEF SaidAt
<1>. QED  BY <1>2 DEF SaidBy

LEMMA SaidIsSaidBy ==
  \A t : Said(t) = SaidBy(t, Len(log)) /\ Of("assistant", t) = SaidAt(t, Len(log))
BY DEF Said, Of, SaidBy, SaidAt

LEMMA SaidByGrows ==
  ASSUME NEW L \in Nat, log \in Seq(LogEvent), L = Len(log), NEW e \in LogEvent, log' = Append(log, e)
  PROVE  \A t : /\ \A w \in 0..L : SaidBy(t, w)' = SaidBy(t, w)
                /\ SaidBy(t, L + 1)' = IF e.kind = "assistant" /\ e.turn = t
                                       THEN SaidBy(t, L) + 1 ELSE SaidBy(t, L)
<1>1. (\A i \in 1..L : log'[i] = log[i]) /\ log'[L + 1] = e
  BY Appended
<1>2. TAKE t
<1>3. ASSUME NEW w \in 0..L PROVE SaidBy(t, w)' = SaidBy(t, w)
  BY <1>1, SaidByStays
<1>4. IsFiniteSet(SaidAt(t, L)) /\ L + 1 \notin SaidAt(t, L)
  <2>1. L + 1 \notin 1..L
    OBVIOUS
  <2>2. L + 1 \notin SaidAt(t, L)
    BY <2>1 DEF SaidAt
  <2>. QED  BY <2>2, SaidByTypes
<1>5. 1..L + 1 = (1..L) \cup {L + 1}
  OBVIOUS
<1>6. CASE e.kind = "assistant" /\ e.turn = t
  <2>1. SaidAt(t, L + 1)' = SaidAt(t, L) \cup {L + 1}
    BY <1>1, <1>5, <1>6 DEF SaidAt
  <2>. QED  BY <1>3, <1>4, <1>6, <2>1, FS_AddElement DEF SaidBy
<1>7. CASE ~(e.kind = "assistant" /\ e.turn = t)
  <2>1. SaidAt(t, L + 1)' = SaidAt(t, L)
    BY <1>1, <1>5, <1>7 DEF SaidAt
  <2>. QED  BY <1>3, <1>7, <2>1 DEF SaidBy
<1>. QED  BY <1>3, <1>6, <1>7

(* A session's event, when nobody types before the answer is over.         *)
LEMMA NextEvent ==
  ASSUME ~Overtaking, StreamTypes, SessionGoesOn
  PROVE  \E kind \in Kinds, t \in Nat, n \in Nat :
           /\ log' = Append(log, SessionEvent(kind, t, n)) /\ SessionEvent(kind, t, n) \in LogEvent
           /\ t = IF kind = "user" THEN Typed + 1 ELSE Typed
           /\ kind \in {"assistant", "result"} => ~Ended(t) /\ t > 0
           /\ kind = "assistant" => n = Said(t) + 1
<1>1. PICK kind \in Kinds, t \in Nat, n \in Nat :
        /\ Logs(kind, t, n)
        /\ \/ kind = "user" /\ t = Typed + 1
           \/ kind = "context" /\ t = Typed
           \/ /\ kind \in {"assistant", "result"} /\ t \in 1..MaxPrompts
              /\ t <= Typed /\ ~Ended(t) /\ (t = Typed \/ Overtaking)
              /\ kind = "assistant" => n = Said(t) + 1
  BY LogsCases
<1>2. log' = Append(log, SessionEvent(kind, t, n)) /\ SessionEvent(kind, t, n) \in LogEvent
  BY <1>1 DEF Logs, SessionEvent, LogEvent
<1>3. kind \in {"assistant", "result"} => t \in 1..MaxPrompts /\ MaxPrompts \in Nat
  BY <1>1, Constants
<1>4. kind \in {"assistant", "result"} => t > 0
  BY <1>3
<1>. QED  BY <1>1, <1>2, <1>4

LEMMA LogGrows ==
  ASSUME ~Overtaking, StreamTypes, LogInv, SessionGoesOn PROVE LogInv'
<1>1. PICK kind \in Kinds, t \in Nat, n \in Nat :
        /\ log' = Append(log, SessionEvent(kind, t, n)) /\ SessionEvent(kind, t, n) \in LogEvent
        /\ t = IF kind = "user" THEN Typed + 1 ELSE Typed
        /\ kind \in {"assistant", "result"} => ~Ended(t) /\ t > 0
        /\ kind = "assistant" => n = Said(t) + 1
  BY NextEvent
<1>2. PICK e \in LogEvent : /\ e = SessionEvent(kind, t, n) /\ log' = Append(log, e)
                           /\ e.kind = kind /\ e.turn = t /\ e.n = n
  BY <1>1 DEF SessionEvent
<1>3. PICK L \in Nat : L = Len(log)
  BY DEF StreamTypes
<1>4. /\ log \in Seq(LogEvent) /\ Len(log') = L + 1 /\ log'[L + 1] = e
      /\ \A i \in 1..L : log'[i] = log[i]
      /\ \A i \in 1..L : log[i] \in LogEvent /\ log[i].turn \in Nat /\ log[i].n \in Nat
      /\ (log = <<>> <=> L = 0) /\ log' # <<>>
  <2>1. log \in Seq(LogEvent)
    BY DEF StreamTypes
  <2>2. /\ Len(log') = L + 1 /\ log'[L + 1] = e /\ \A i \in 1..L : log'[i] = log[i]
        /\ log' \in Seq(LogEvent)
    BY <1>2, <1>3, <2>1, Appended
  <2>3. (log = <<>> <=> L = 0) /\ log' # <<>>
    BY <1>3, <2>1, <2>2, EmptySeq
  <2>4. \A i \in 1..L : log[i] \in LogEvent
    BY <1>3, <2>1, ElementOfSeq
  <2>5. \A x \in LogEvent : x.turn \in Nat /\ x.n \in Nat
    BY DEF LogEvent
  <2>. QED  BY <2>1, <2>2, <2>3, <2>4, <2>5
<1>5. Typed \in Nat /\ Typed = (IF L = 0 THEN 0 ELSE log[L].turn)
  BY <1>3, <1>4, TypedIsNat DEF LogInv, InOrder
<1>6. \A i \in 1..L : log[i].turn <= Typed
  <2>1. ASSUME NEW i \in 1..L PROVE log[i].turn <= Typed
    <3>1. L \in 1..L /\ i \in 1..L /\ L # 0
      OBVIOUS
    <3>2. log[i].turn <= log[L].turn
      BY <1>3, <3>1 DEF LogInv, InOrder
    <3>. QED  BY <1>5, <3>1, <3>2
  <2>. QED  BY <2>1
<1>7. Typed' = t
  <2> DEFINE users == {i \in 1..Len(log) : log[i].kind = "user"}
  <2>1. IsFiniteSet(users) /\ L + 1 \notin users
    <3>1. L + 1 \notin 1..Len(log)
      BY <1>3
    <3>. QED  BY <3>1, TypedIsNat
  <2>2. {i \in 1..Len(log') : log'[i].kind = "user"}
          = IF kind = "user" THEN users \cup {L + 1} ELSE users
    <3>1. 1..Len(log') = (1..L) \cup {L + 1}
      BY <1>4
    <3>. QED  BY <1>2, <1>3, <1>4, <3>1
  <2>3. Typed = Cardinality(users) /\ Typed' = Cardinality({i \in 1..Len(log') : log'[i].kind = "user"})
    BY DEF Typed
  <2>. HIDE DEF users
  <2>. QED  BY <1>1, <2>1, <2>2, <2>3, FS_AddElement
<1>8. InOrder'
  <2>1. ASSUME NEW i \in 1..L
        PROVE  /\ log'[i].kind = "user" => log'[i].turn > 0
               /\ i > 1 => log'[i].turn = IF log'[i].kind = "user" THEN log'[i - 1].turn + 1 ELSE log'[i - 1].turn
               /\ \A j \in 1..i : log'[j].turn <= log'[i].turn
               /\ log'[i].kind = "user" => \A j \in 1..i - 1 : log'[j].turn < log'[i].turn
    <3>1. \A j \in 1..i : j \in 1..L /\ log'[j] = log[j]
      BY <1>4
    <3>2. i > 1 => log'[i - 1] = log[i - 1]
      BY <1>4
    <3>3. \A j \in 1..i - 1 : log'[j] = log[j]
      BY <1>4
    <3>4. /\ log[i].kind = "user" => log[i].turn > 0
          /\ i > 1 => log[i].turn = IF log[i].kind = "user" THEN log[i - 1].turn + 1 ELSE log[i - 1].turn
          /\ \A j \in 1..i : log[j].turn <= log[i].turn
          /\ log[i].kind = "user" => \A j \in 1..i - 1 : log[j].turn < log[i].turn
      BY <1>3 DEF LogInv, InOrder
    <3>. QED  BY <1>4, <3>1, <3>2, <3>3, <3>4
  <2>2. /\ kind = "user" => t > 0
        /\ L > 0 => t = IF kind = "user" THEN log[L].turn + 1 ELSE log[L].turn
        /\ \A j \in 1..L : log[j].turn <= t
        /\ kind = "user" => \A j \in 1..L : log[j].turn < t
    <3>1. L > 0 => t = IF kind = "user" THEN log[L].turn + 1 ELSE log[L].turn
      BY <1>1, <1>5
    <3>2. /\ kind = "user" => t > 0
          /\ \A j \in 1..L : log[j].turn <= t
          /\ kind = "user" => \A j \in 1..L : log[j].turn < t
      BY <1>1, <1>4, <1>5, <1>6
    <3>. QED  BY <3>1, <3>2
  <2>3. /\ log'[L + 1].kind = "user" => log'[L + 1].turn > 0
        /\ L + 1 > 1 => log'[L + 1].turn = IF log'[L + 1].kind = "user"
                                          THEN log'[L + 1 - 1].turn + 1 ELSE log'[L + 1 - 1].turn
        /\ \A j \in 1..L + 1 : log'[j].turn <= log'[L + 1].turn
        /\ log'[L + 1].kind = "user" => \A j \in 1..L + 1 - 1 : log'[j].turn < log'[L + 1].turn
    <3>1. L + 1 > 1 => log'[L + 1 - 1] = log[L]
      BY <1>4
    <3>2. L + 1 - 1 = L /\ (L + 1 > 1 => L > 0)
      OBVIOUS
    <3>3. \A j \in 1..L + 1 : j \in 1..L \/ j = L + 1
      OBVIOUS
    <3>4. \A j \in 1..L + 1 : log'[j].turn <= log'[L + 1].turn
      BY <1>2, <1>4, <2>2, <3>3
    <3>5. kind = "user" => \A j \in 1..L : log'[j].turn < t
      BY <1>4, <2>2
    <3>6. L > 0 => log'[L + 1].turn = IF kind = "user" THEN log[L].turn + 1 ELSE log[L].turn
      BY <1>2, <1>4, <2>2
    <3>. QED  BY <1>2, <1>4, <2>2, <3>1, <3>2, <3>4, <3>5, <3>6
  <2>4. \A i \in 1..Len(log') : i \in 1..L \/ i = L + 1
    BY <1>4
  <2>5. Typed' = IF log' = <<>> THEN 0 ELSE log'[Len(log')].turn
    BY <1>2, <1>4, <1>7
  <2>. QED  BY <2>1, <2>3, <2>4, <2>5 DEF InOrder
<1>9. Numbered'
  <2>1. ASSUME NEW i \in 1..L, log[i].kind = "assistant"
        PROVE  (/\ log[i].n = SaidBy(log[i].turn, i)
                /\ \E j \in 1..i : log[j] = SessionEvent("assistant", log[i].turn, 1))'
    <3>1. PICK s : s = log[i].turn
      OBVIOUS
    <3>2. SaidBy(s, i)' = SaidBy(s, i) /\ log'[i] = log[i]
      <4>1. i \in Nat /\ i <= Len(log) /\ Len(log) \in Nat /\ \A j \in 1..Len(log) : log'[j] = log[j]
        BY <1>3, <1>4
      <4>. QED  BY <1>3, <4>1, SaidByStays
    <3>3. log[i].n = SaidBy(s, i) /\ \E j \in 1..i : log[j] = SessionEvent("assistant", s, 1)
      BY <1>3, <2>1, <3>1 DEF LogInv, Numbered
    <3>4. \A j \in 1..i : log'[j] = log[j]
      BY <1>4
    <3>5. log'[i].turn = s
      BY <3>1, <3>2
    <3>. QED  BY <3>2, <3>3, <3>4, <3>5 DEF SaidBy, SaidAt
  <2>2. ASSUME kind = "assistant"
        PROVE  /\ n = SaidBy(t, L + 1)'
               /\ \E j \in 1..L + 1 : log'[j] = SessionEvent("assistant", t, 1)
    <3>1. SaidBy(t, L + 1)' = SaidBy(t, L) + 1 /\ n = Said(t) + 1 /\ Said(t) = SaidBy(t, L)
      BY <1>1, <1>2, <1>3, <1>4, <2>2, SaidByGrows, SaidIsSaidBy
    <3>2. CASE SaidBy(t, L) = 0
      <4>1. log'[L + 1] = SessionEvent("assistant", t, 1) /\ L + 1 \in 1..L + 1
        BY <1>2, <1>4, <2>2, <3>1, <3>2
      <4>. QED  BY <3>1, <4>1
    <3>3. CASE SaidBy(t, L) # 0
      <4>1. PICK i \in 1..L : log[i].kind = "assistant" /\ log[i].turn = t
        <5>1. SaidAt(t, L) # {}
          BY <3>3, FS_EmptySet DEF SaidBy
        <5>. QED  BY <5>1 DEF SaidAt
      <4>2. PICK j \in 1..i : log[j] = SessionEvent("assistant", t, 1)
        BY <1>3, <4>1 DEF LogInv, Numbered
      <4>3. j \in 1..L + 1 /\ log'[j] = log[j]
        BY <1>4
      <4>. QED  BY <3>1, <4>2, <4>3
    <3>. QED  BY <3>2, <3>3
  <2>3. \A i \in 1..Len(log') : i \in 1..L \/ i = L + 1
    BY <1>4
  <2>4. \A i \in 1..L : log'[i].kind = log[i].kind
    BY <1>4
  <2>5. ASSUME log'[L + 1].kind = "assistant"
        PROVE  (/\ log[L + 1].n = SaidBy(log[L + 1].turn, L + 1)
                /\ \E j \in 1..L + 1 : log[j] = SessionEvent("assistant", log[L + 1].turn, 1))'
    <3>1. log'[L + 1].turn = t /\ log'[L + 1].n = n /\ kind = "assistant"
      BY <1>2, <1>4, <2>5
    <3>. QED  BY <2>2, <3>1 DEF SaidBy, SaidAt
  <2>. QED  BY <2>1, <2>3, <2>4, <2>5 DEF Numbered, SaidBy, SaidAt
<1>10. OverOnce'
  <2>1. SUFFICES ASSUME NEW i \in 1..L + 1, NEW j \in 1..L + 1, NEW k \in 1..L + 1, i < j, j < k,
                        log'[i].kind = "assistant", log'[j].kind = "result",
                        log'[i].turn = log'[k].turn, log'[j].turn = log'[k].turn
                 PROVE  log'[k].kind \notin {"assistant", "result"}
    BY <1>4 DEF OverOnce
  <2>2. i \in 1..L /\ j \in 1..L /\ log'[i] = log[i] /\ log'[j] = log[j]
    BY <1>4, <2>1
  <2>3. CASE k \in 1..L
    BY <1>3, <1>4, <2>1, <2>2, <2>3 DEF LogInv, OverOnce
  <2>4. CASE k = L + 1
    <3>1. log'[k].kind = kind /\ log'[k].turn = t
      BY <1>2, <1>4, <2>4
    <3>2. PICK f \in 1..i : log[f] = SessionEvent("assistant", t, 1)
      BY <1>3, <2>1, <2>2, <3>1 DEF LogInv, Numbered
    <3>3. f \in 1..L /\ f < j
      BY <2>1, <2>2
    <3>4. Ended(t)
      BY <1>3, <2>1, <2>2, <3>1, <3>2, <3>3 DEF Ended
    <3>. QED  BY <1>1, <3>1, <3>4
  <2>. QED  BY <2>3, <2>4
<1>. QED  BY <1>8, <1>9, <1>10 DEF LogInv

LEMMA LogAt ==
  ASSUME StreamTypes
  PROVE  /\ log \in Seq(LogEvent) /\ Len(log) \in Nat /\ MaxTurnEvents \in Nat \ {0}
         /\ \A i \in 1..Len(log) : log[i] \in LogEvent /\ log[i].turn \in Nat /\ log[i].n \in Nat
<1>1. log \in Seq(LogEvent) /\ Len(log) \in Nat
  BY DEF StreamTypes
<1>2. \A i \in 1..Len(log) : log[i] \in LogEvent
  BY <1>1, ElementOfSeq
<1>3. \A x \in LogEvent : x.turn \in Nat /\ x.n \in Nat
  BY DEF LogEvent
<1>. QED  BY <1>1, <1>2, <1>3, StreamAssumption

LEMMA AssemblingTypes ==
  ASSUME StreamTypes, NEW s, NEW u, NEW p, Assembling(s, u, p), u \in 1..p, p \in 1..Len(log),
         StreamOK(s)
  PROVE  /\ Len(s.turn) \in 1..MaxTurnEvents /\ s.turn \in Seq(LogEvent) /\ s.turn # <<>>
         /\ u + Len(s.turn) - 1 \in u..p /\ u \in Nat /\ p \in Nat
         /\ Len(s.turn) < MaxTurnEvents => u + Len(s.turn) - 1 = p
         /\ u + Len(s.turn) - 1 = AtMost(p, u + MaxTurnEvents - 1)
<1>1. /\ Len(log) \in Nat /\ MaxTurnEvents \in Nat \ {0}
  BY LogAt
<1>2. u \in Nat /\ p \in Nat /\ u <= p /\ u > 0
  BY <1>1
<1>3. Len(s.turn) = AtMost(p - u + 1, MaxTurnEvents)
  BY DEF Assembling
<1>4. s.turn \in Seq(LogEvent)
  BY DEF StreamOK, StreamState
<1>5. Len(s.turn) \in 1..MaxTurnEvents
  BY <1>1, <1>2, <1>3 DEF AtMost
<1>6. /\ u + Len(s.turn) - 1 \in u..p
      /\ Len(s.turn) < MaxTurnEvents => u + Len(s.turn) - 1 = p
      /\ u + Len(s.turn) - 1 = AtMost(p, u + MaxTurnEvents - 1)
  BY <1>1, <1>2, <1>3 DEF AtMost
<1>7. s.turn # <<>>
  BY <1>4, <1>5, EmptySeq
<1>. QED  BY <1>2, <1>4, <1>5, <1>6, <1>7

(* The next event joins the turn that is assembled.                        *)
LEMMA TurnGoesOn ==
  ASSUME StreamTypes, LogInv, NEW s, StreamOK(s), NEW p, p + 1 \in 1..Len(log), NEW u \in 1..p,
         p \in 1..Len(log), Assembling(s, u, p), log[p + 1].kind # "user"
  PROVE  Assembling(Added(s, log[p + 1]), u, p + 1)
<1>1. PICK e : e = log[p + 1]
  OBVIOUS
<1>2. PICK t : t = log[u].turn
  OBVIOUS
<1>3. /\ Len(log) \in Nat /\ MaxTurnEvents \in Nat \ {0} /\ p \in Nat /\ u \in Nat
      /\ e \in LogEvent /\ e.kind # "user" /\ e.turn \in Nat /\ t \in Nat
  <2>1. Len(log) \in Nat /\ MaxTurnEvents \in Nat \ {0} /\ u \in 1..Len(log)
    BY LogAt
  <2>. QED  BY <1>1, <1>2, <2>1, LogAt
<1>4. /\ Len(s.turn) \in 1..MaxTurnEvents /\ s.turn \in Seq(LogEvent) /\ s.turn # <<>>
      /\ u + Len(s.turn) - 1 \in u..p
      /\ Len(s.turn) < MaxTurnEvents => u + Len(s.turn) - 1 = p
  BY AssemblingTypes
<1>5. PICK more : more = Added(s, e)
  OBVIOUS
<1>6. /\ more.turn = IF Len(s.turn) < MaxTurnEvents THEN Append(s.turn, e) ELSE s.turn
      /\ more.sawAssistant = (s.sawAssistant \/ e.kind = "assistant")
  BY <1>3, <1>4, <1>5, AddedTypes
<1>7. e.turn = t
  <2>1. p + 1 > 1 /\ p + 1 - 1 = p
    BY <1>3
  <2>2. log[p + 1].turn = log[p].turn
    BY <1>1, <1>3, <2>1 DEF LogInv, InOrder
  <2>3. p \in u..p
    BY <1>3
  <2>. QED  BY <1>1, <1>2, <2>2, <2>3 DEF Assembling
<1>8. /\ log[u].kind = "user" /\ s.turn[1] = log[u] /\ \A j \in u..p : log[j].turn = t
      /\ Len(s.turn) = AtMost(p - u + 1, MaxTurnEvents)
      /\ AnswerOf(s.turn) = Pieces(t, SaidBy(t, u + Len(s.turn) - 1))
      /\ s.sawAssistant => \E a \in u..p : log[a].kind = "assistant"
  BY <1>2 DEF Assembling
<1>9. \A j \in u..p + 1 : log[j].turn = t
  <2>1. \A j \in u..p + 1 : j \in u..p \/ j = p + 1
    BY <1>3
  <2>. QED  BY <1>1, <1>7, <1>8, <2>1
<1>10. more.sawAssistant => \E a \in u..p + 1 : log[a].kind = "assistant"
  <2>1. (\A a \in u..p : a \in u..p + 1) /\ p + 1 \in u..p + 1
    BY <1>3
  <2>. QED  BY <1>1, <1>6, <1>8, <2>1
<1>11. CASE Len(s.turn) < MaxTurnEvents
  <2>1. /\ more.turn = Append(s.turn, e) /\ Len(more.turn) = Len(s.turn) + 1
        /\ more.turn[1] = s.turn[1]
    <3>1. 1 \in 1..Len(s.turn)
      BY <1>3, <1>4
    <3>2. Append(s.turn, e)[1] = s.turn[1] /\ Len(Append(s.turn, e)) = Len(s.turn) + 1
      BY <1>3, <1>4, <3>1, Appended
    <3>. QED  BY <1>6, <1>11, <3>2
  <2>2. u + Len(s.turn) - 1 = p /\ u + Len(more.turn) - 1 = p + 1
    BY <1>3, <1>4, <1>11, <2>1
  <2>3. Len(more.turn) = AtMost(p + 1 - u + 1, MaxTurnEvents)
    <3>1. Len(s.turn) = p - u + 1 /\ p - u + 1 < MaxTurnEvents
      BY <1>3, <1>4, <1>11, <2>2
    <3>2. PICK d \in Nat : d = Len(s.turn)
      BY <1>4
    <3>3. d = p - u + 1 /\ d < MaxTurnEvents /\ Len(more.turn) = d + 1
      BY <2>1, <3>1, <3>2
    <3>4. p + 1 - u + 1 = d + 1 /\ d + 1 <= MaxTurnEvents
      BY <1>3, <3>3
    <3>. QED  BY <1>3, <3>3, <3>4 DEF AtMost
  <2>4. AnswerOf(more.turn) = Pieces(t, SaidBy(t, p + 1))
    <3>1. PICK c \in Nat : c = SaidBy(t, p)
      BY <1>3, SaidByTypes
    <3>2. AnswerOf(more.turn) = Told(e, Pieces(t, c))
      <4>1. AnswerOf(Append(s.turn, e)) = Told(e, AnswerOf(s.turn))
        BY <1>3, <1>4, AnswerOfMore
      <4>. QED  BY <1>8, <2>1, <2>2, <3>1, <4>1
    <3>3. SaidBy(t, p + 1) = IF e.kind = "assistant" THEN c + 1 ELSE c
      BY <1>1, <1>3, <1>7, <3>1, SaidByNext
    <3>4. CASE e.kind = "assistant"
      <4>1. e.n = c + 1
        <5>1. log[p + 1].n = SaidBy(log[p + 1].turn, p + 1)
          BY <1>1, <3>4 DEF LogInv, Numbered
        <5>. QED  BY <1>1, <1>7, <3>3, <3>4, <5>1
      <4>2. Append(Pieces(t, c), Piece(t, c + 1)) = Pieces(t, c + 1)
        <5>1. PICK m \in Nat \ {0} : m = c + 1 /\ m - 1 = c
          OBVIOUS
        <5>2. Append(Pieces(t, m - 1), Piece(t, m)) = Pieces(t, m)
          BY <1>3, <5>1, PiecesGrow
        <5>. QED  BY <5>1, <5>2
      <4>. QED  BY <1>7, <3>2, <3>3, <3>4, <4>1, <4>2 DEF Told
    <3>5. CASE e.kind # "assistant"
      BY <3>2, <3>3, <3>5 DEF Told
    <3>. QED  BY <3>4, <3>5
  <2>5. AnswerOf(more.turn) = Pieces(log[u].turn, SaidBy(log[u].turn, u + Len(more.turn) - 1))
    BY <1>2, <2>2, <2>4
  <2>6. more.turn[1] = log[u] /\ \A j \in u..p + 1 : log[j].turn = log[u].turn
    BY <1>2, <1>8, <1>9, <2>1
  <2>7. Added(s, log[p + 1]) = more
    BY <1>1, <1>5
  <2>. QED  BY <1>8, <1>10, <2>3, <2>5, <2>6, <2>7 DEF Assembling
<1>12. CASE ~(Len(s.turn) < MaxTurnEvents)
  <2>1. more.turn = s.turn /\ Len(s.turn) = MaxTurnEvents
    BY <1>3, <1>4, <1>6, <1>12
  <2>2. Len(s.turn) = AtMost(p + 1 - u + 1, MaxTurnEvents)
    <3>1. p - u + 1 >= MaxTurnEvents
      BY <1>3, <1>4, <2>1
    <3>2. ~(p + 1 - u + 1 < MaxTurnEvents)
      BY <1>3, <3>1
    <3>. QED  BY <2>1, <3>2 DEF AtMost
  <2>. QED  BY <1>1, <1>2, <1>5, <1>8, <1>9, <1>10, <2>1, <2>2 DEF Assembling
<1>. QED  BY <1>11, <1>12

(* What the person typed begins a turn.                                    *)
LEMMA TurnBegins ==
  ASSUME StreamTypes, LogInv, NEW s, StreamOK(s), NEW q \in 1..Len(log), log[q].kind = "user"
  PROVE  Assembling(Added(s, log[q]), q, q)
<1>1. PICK e : e = log[q]
  OBVIOUS
<1>2. PICK t : t = e.turn
  OBVIOUS
<1>3. /\ Len(log) \in Nat /\ MaxTurnEvents \in Nat \ {0} /\ q \in Nat
      /\ e \in LogEvent /\ e.kind = "user" /\ t \in Nat
  BY <1>1, <1>2, LogAt
<1>4. PICK more : more = Added(s, e)
  OBVIOUS
<1>5. more.turn = <<e>> /\ more.sawAssistant = FALSE
  BY <1>3, <1>4, AddedTypes
<1>6. Len(<<e>>) = 1 /\ <<e>>[1] = e
  OBVIOUS
<1>7. AnswerOf(<<e>>) = <<>>
  BY <1>3, AnswerOfOne
<1>8. SaidBy(t, q) = 0
  <2>1. ASSUME NEW i \in 1..q, log[i].kind = "assistant", log[i].turn = t PROVE FALSE
    <3>1. i # q
      BY <1>1, <1>3, <2>1
    <3>2. i \in 1..q - 1
      BY <1>3, <3>1
    <3>3. log[i].turn < log[q].turn
      BY <3>2 DEF LogInv, InOrder
    <3>. QED  BY <1>1, <1>2, <1>3, <2>1, <3>3
  <2>2. SaidAt(t, q) = {}
    BY <2>1 DEF SaidAt
  <2>. QED  BY <2>2, FS_EmptySet DEF SaidBy
<1>9. Pieces(t, 0) = <<>>
  BY DEF Pieces
<1>10. q - q + 1 = 1 /\ q + 1 - 1 = q /\ AtMost(1, MaxTurnEvents) = 1 /\ \A j \in q..q : j = q
  BY <1>3 DEF AtMost
<1>11. AnswerOf(more.turn) = Pieces(t, SaidBy(t, q + Len(more.turn) - 1))
  BY <1>5, <1>6, <1>7, <1>8, <1>9, <1>10
<1>. QED  BY <1>1, <1>2, <1>3, <1>4, <1>5, <1>6, <1>10, <1>11 DEF Assembling

(* What a session has logged stays where it is.                            *)
LogKept == Len(log) <= Len(log') /\ \A i \in 1..Len(log) : log'[i] = log[i]

LEMMA AssemblingStays ==
  ASSUME StreamTypes, LogKept, NEW s, StreamOK(s), NEW p \in 1..Len(log), NEW u \in 1..p,
         Assembling(s, u, p)
  PROVE  Assembling(s, u, p)'
<1>1. PICK t : t = log[u].turn
  OBVIOUS
<1>2. PICK w : w = u + Len(s.turn) - 1
  OBVIOUS
<1>3. w \in u..p /\ u \in Nat /\ p \in Nat /\ p <= Len(log) /\ Len(log) \in Nat /\ MaxTurnEvents \in Nat
  <2>1. w \in u..p /\ u \in Nat /\ p \in Nat
    BY <1>2, AssemblingTypes
  <2>. QED  BY <2>1, LogAt
<1>4. w \in Nat /\ w <= Len(log)
  BY <1>3
<1>5. SaidBy(t, w)' = SaidBy(t, w)
  BY <1>3, <1>4, SaidByStays DEF LogKept
<1>6. \A j \in u..p : log'[j] = log[j]
  BY <1>3 DEF LogKept
<1>7. log'[u] = log[u]
  BY <1>3, <1>6
<1>8. /\ log[u].kind = "user" /\ s.turn[1] = log[u] /\ \A j \in u..p : log[j].turn = t
      /\ Len(s.turn) = AtMost(p - u + 1, MaxTurnEvents)
      /\ AnswerOf(s.turn) = Pieces(t, SaidBy(t, w))
      /\ s.sawAssistant => \E a \in u..p : log[a].kind = "assistant"
  BY <1>1, <1>2 DEF Assembling
<1>9. s.sawAssistant => \E a \in u..p : log'[a].kind = "assistant"
  BY <1>6, <1>8
<1>10. \A j \in u..p : log'[j].turn = t
  BY <1>6, <1>8
<1>11. AnswerOf(s.turn) = Pieces(t, SaidBy(t, w)')
  BY <1>5, <1>8
<1>. HIDE DEF LogKept
<1>. QED  BY <1>1, <1>2, <1>7, <1>8, <1>9, <1>10, <1>11 DEF Assembling, SaidBy, SaidAt

LEMMA SpansStays ==
  ASSUME StreamTypes, LogKept, NEW e, NEW u \in 1..Len(log), NEW r \in 1..Len(log), Spans(e, u, r)
  PROVE  Spans(e, u, r)'
<1>1. PICK w : w = AtMost(r, u + MaxTurnEvents - 1)
  OBVIOUS
<1>2. u \in Nat /\ r \in Nat /\ u < r /\ r <= Len(log) /\ Len(log) \in Nat /\ MaxTurnEvents \in Nat \ {0}
  <2>1. Len(log) \in Nat /\ MaxTurnEvents \in Nat \ {0}
    BY LogAt
  <2>. QED  BY <2>1 DEF Spans
<1>3. w \in Nat /\ w <= Len(log)
  BY <1>1, <1>2 DEF AtMost
<1>4. PICK t : t = e.prompt
  OBVIOUS
<1>5. SaidBy(t, w)' = SaidBy(t, w)
  BY <1>2, <1>3, SaidByStays DEF LogKept
<1>6. log'[u] = log[u] /\ log'[r] = log[r] /\ \A a \in u..r : log'[a] = log[a]
  BY <1>2 DEF LogKept
<1>7. PICK a \in u..r : a < r /\ log[a].kind = "assistant"
  BY DEF Spans
<1>8. e.answer = Pieces(t, SaidBy(t, w)')
  BY <1>1, <1>4, <1>5 DEF Spans
<1>9. \E b \in u..r : b < r /\ log'[b].kind = "assistant"
  BY <1>6, <1>7
<1>. QED  BY <1>1, <1>2, <1>4, <1>6, <1>8, <1>9 DEF Spans, SaidBy, SaidAt

(* A stream of which a step takes and gives nothing.                       *)
Same(k) ==
  /\ streams[k].decoder = "decoding"
  /\ streams'[k].channel = streams[k].channel /\ streams'[k].turn = streams[k].turn
  /\ streams'[k].sawAssistant = streams[k].sawAssistant
  /\ Fresh(k)' => Fresh(k) /\ got' = got

LEMMA ReadsOnTypes ==
  ASSUME StreamTypes, NEW k \in 1..MaxRequests, NEW p \in Nat, ReadsOn(k, p)
  PROVE  /\ StreamOK(streams[k]) /\ streams[k].channel \in Seq(LogEvent)
         /\ streams[k].turn \in Seq(LogEvent)
         /\ Len(streams[k].channel) \in Nat /\ Len(log) \in Nat /\ p <= Len(log)
         /\ \A u \in 1..p : p \in 1..Len(log)
<1>1. StreamOK(streams[k])
  BY DEF StreamTypes
<1>2. streams[k].channel \in Seq(LogEvent) /\ streams[k].turn \in Seq(LogEvent)
  BY <1>1 DEF StreamOK, StreamState
<1>3. Len(streams[k].channel) \in Nat /\ Len(log) \in Nat
  BY <1>2, LogAt
<1>4. p + Len(streams[k].channel) <= Len(log)
  BY DEF ReadsOn
<1>5. p <= Len(log)
  BY <1>3, <1>4
<1>. QED  BY <1>1, <1>2, <1>3, <1>5

LEMMA ReadsOnStays ==
  ASSUME StreamTypes, LogKept, NEW k \in 1..MaxRequests, Same(k), NEW p \in Nat, ReadsOn(k, p)
  PROVE  ReadsOn(k, p)'
<1>1. /\ StreamOK(streams[k]) /\ Len(streams[k].channel) \in Nat /\ Len(log) \in Nat
      /\ \A u \in 1..p : p \in 1..Len(log)
  BY ReadsOnTypes
<1>2. PICK n \in Nat : n = Len(streams[k].channel)
  BY <1>1
<1>3. /\ p + n <= Len(log) /\ \A i \in 1..n : streams[k].channel[i] = log[p + i]
      /\ Fresh(k) => p + n = got
      /\ streams[k].turn # <<>> => \E u \in 1..p : Assembling(streams[k], u, p)
  BY <1>2 DEF ReadsOn
<1>4. Len(streams'[k].channel) = n /\ (Fresh(k)' => p + n = got')
  BY <1>2, <1>3 DEF Same
<1>5. p + n <= Len(log')
  <2>1. Len(log) <= Len(log')
    BY DEF LogKept
  <2>. QED  BY <1>3, <2>1, <1>1
<1>6. \A i \in 1..n : p + i \in 1..Len(log)
  BY <1>1, <1>3
<1>7. \A i \in 1..n : streams'[k].channel[i] = log'[p + i]
  BY <1>3, <1>6 DEF Same, LogKept
<1>8. ASSUME NEW u \in 1..p, Assembling(streams[k], u, p) PROVE Assembling(streams[k], u, p)'
  <2>1. PICK s : s = streams[k]
    OBVIOUS
  <2>2. Assembling(s, u, p)'
    BY <1>1, <1>8, <2>1, AssemblingStays
  <2>3. s.turn = streams'[k].turn /\ s.sawAssistant = streams'[k].sawAssistant
    BY <2>1 DEF Same
  <2>. QED  BY <2>2, <2>3 DEF Assembling
<1>9. streams'[k].turn # <<>> => \E u \in 1..p : Assembling(streams[k], u, p)'
  BY <1>3, <1>8 DEF Same
<1>. QED  BY <1>4, <1>5, <1>7, <1>9 DEF ReadsOn

(* The decoders read on when one stream at most is given to or taken from. *)
LEMMA ReadingStays ==
  ASSUME StreamTypes, Reading, LogKept,
         \A k \in 1..MaxRequests : streams'[k].decoder = "decoding" =>
           Same(k) \/ \E p \in Nat : ReadsOn(k, p)',
         phase' \in {"sending", "awaiting"} => got' = 0
  PROVE  Reading'
<1>1. ASSUME NEW k \in 1..MaxRequests, streams'[k].decoder = "decoding"
      PROVE  \E p \in Nat : ReadsOn(k, p)'
  <2>1. CASE Same(k)
    <3>1. PICK p \in Nat : ReadsOn(k, p)
      BY <2>1 DEF Reading, Same
    <3>. QED  BY <2>1, <3>1, ReadsOnStays
  <2>. QED  BY <1>1, <2>1
<1>. QED  BY <1>1 DEF Reading

(* A chunk for the decoder: it follows what the channel holds, or there is *)
(* no room and nothing comes any more.                                     *)
LEMMA UnitReading ==
  ASSUME HttpTypes, StreamTypes, StreamTypes', Reading, ForwardUnit PROVE Reading'
<1>1. /\ number \in 1..MaxRequests /\ phase = "streaming" /\ phase' = phase
      /\ UNCHANGED <<number, request, log>> /\ got' = got + 1 /\ got \in Nat
      /\ streams' = [streams EXCEPT ![number] =
           IF request.endpoint = "stream" THEN Fed(streams[number], Unit) ELSE streams[number]]
  BY UnitCases DEF ForwardUnit, HttpTypes
<1>2. LogKept
  BY <1>1, LogAt DEF LogKept
<1>3. StreamOK(streams[number]) /\ streams \in [1..MaxRequests -> StreamState]
  BY <1>1 DEF StreamTypes
<1>4. ASSUME NEW k \in 1..MaxRequests, k # number \/ request.endpoint # "stream",
             streams'[k].decoder = "decoding"
      PROVE  Same(k)
  <2>1. streams'[k] = streams[k]
    BY <1>1, <1>3, <1>4
  <2>2. ~Fresh(k)'
    BY <1>1, <1>4 DEF Fresh
  <2>. QED  BY <1>4, <2>1, <2>2 DEF Same
<1>5. ASSUME request.endpoint = "stream", streams'[number].decoder = "decoding"
      PROVE  Same(number) \/ \E p \in Nat : ReadsOn(number, p)'
  <2>1. PICK s : s = streams[number]
    OBVIOUS
  <2>2. PICK e \in LogEvent : e = Unit /\ e = log[got + 1] /\ got + 1 \in 1..Len(log)
    BY <1>5, UnitTypes DEF ForwardUnit
  <2>3. s \in StreamState /\ streams'[number] = Fed(s, e)
    BY <1>1, <1>3, <1>5, <2>1, <2>2 DEF StreamOK
  <2>4. CASE s.broken
    <3>1. streams'[number] = s
      BY <2>3, <2>4 DEF Fed
    <3>2. ~Fresh(number)'
      BY <1>1, <2>4, <3>1 DEF Fresh
    <3>. QED  BY <1>5, <2>1, <3>1, <3>2 DEF Same
  <2>5. CASE ~s.broken /\ ~(Len(s.channel) < Backlog)
    <3>1. streams'[number] = [s EXCEPT !.broken = TRUE, !.closed = TRUE]
      BY <2>3, <2>5 DEF Fed
    <3>2. /\ streams'[number].broken /\ streams'[number].decoder = s.decoder
          /\ streams'[number].channel = s.channel /\ streams'[number].turn = s.turn
          /\ streams'[number].sawAssistant = s.sawAssistant
      BY <2>3, <3>1 DEF StreamState
    <3>3. ~Fresh(number)'
      BY <1>1, <3>2 DEF Fresh
    <3>. QED  BY <1>5, <2>1, <3>2, <3>3 DEF Same
  <2>6. CASE ~s.broken /\ Len(s.channel) < Backlog
    <3>1. streams'[number] = [s EXCEPT !.channel = Append(s.channel, e)]
      BY <2>3, <2>6 DEF Fed
    <3>2. /\ streams'[number].decoder = s.decoder /\ streams'[number].turn = s.turn
          /\ streams'[number].channel = Append(s.channel, e)
          /\ streams'[number].sawAssistant = s.sawAssistant
      BY <2>3, <3>1 DEF StreamState
    <3>3. PICK p \in Nat : ReadsOn(number, p)
      BY <1>1, <1>5, <2>1, <3>2 DEF Reading
    <3>4. PICK n \in Nat : n = Len(s.channel)
      BY <2>3 DEF StreamState
    <3>5. /\ s.channel \in Seq(LogEvent) /\ p + n = got
          /\ \A i \in 1..n : s.channel[i] = log[p + i]
          /\ s.turn # <<>> => \E u \in 1..p : Assembling(streams[number], u, p)
      <4>1. Fresh(number)
        BY <1>1, <1>5, <2>1, <2>6 DEF Fresh
      <4>. QED  BY <2>1, <2>3, <3>3, <3>4, <4>1 DEF ReadsOn, StreamState
    <3>6. /\ Len(Append(s.channel, e)) = n + 1 /\ Append(s.channel, e)[n + 1] = e
          /\ \A i \in 1..n : Append(s.channel, e)[i] = s.channel[i]
      BY <3>4, <3>5, Appended
    <3>7. \A i \in 1..n + 1 : streams'[number].channel[i] = log'[p + i]
      <4>1. log[p + (n + 1)] = e
        <5>1. p + (n + 1) = got + 1
          BY <3>5
        <5>. QED  BY <2>2, <5>1
      <4>2. \A i \in 1..n + 1 : i \in 1..n \/ i = n + 1
        OBVIOUS
      <4>. QED  BY <1>1, <3>2, <3>5, <3>6, <4>1, <4>2
    <3>8. Len(streams'[number].channel) = n + 1 /\ p + (n + 1) = got' /\ p + (n + 1) <= Len(log')
      BY <1>1, <2>2, <3>2, <3>5, <3>6
    <3>9. PICK k : k = number /\ number' = k /\ k \in 1..MaxRequests
      BY <1>1
    <3>10. streams'[k].turn # <<>> => \E u \in 1..p : Assembling(streams[k], u, p)'
      <4>1. ASSUME NEW u \in 1..p, Assembling(streams[k], u, p) PROVE Assembling(streams[k], u, p)'
        BY <1>1, <2>1, <3>2, <3>9, <4>1 DEF Assembling, SaidBy, SaidAt
      <4>. QED  BY <2>1, <3>2, <3>5, <3>9, <4>1
    <3>11. ReadsOn(k, p)'
      BY <3>7, <3>8, <3>9, <3>10 DEF ReadsOn
    <3>. QED  BY <3>9, <3>11
  <2>. QED  BY <2>4, <2>5, <2>6
<1>6. \A k \in 1..MaxRequests : streams'[k].decoder = "decoding" =>
        Same(k) \/ \E p \in Nat : ReadsOn(k, p)'
  <2>1. ASSUME NEW k \in 1..MaxRequests, k = number, request.endpoint = "stream",
               streams'[k].decoder = "decoding"
        PROVE  Same(k) \/ \E p \in Nat : ReadsOn(k, p)'
    <3>1. k = number'
      BY <1>1, <2>1
    <3>2. CASE \E p \in Nat : ReadsOn(number, p)'
      <4>1. PICK p \in Nat : ReadsOn(number, p)'
        BY <3>2
      <4>2. ReadsOn(k, p)'
        BY <3>1, <4>1
      <4>. QED  BY <4>2
    <3>3. CASE Same(number)
      BY <2>1, <3>3
    <3>. QED  BY <1>5, <2>1, <3>2, <3>3
  <2>. QED  BY <1>4, <2>1
<1>. QED  BY <1>1, <1>2, <1>6, ReadingStays

(* The streams are as they were, and no stream that is over is fresh.      *)
LEMMA QuietReading ==
  ASSUME StreamTypes, Reading, UNCHANGED log,
         \A k \in 1..MaxRequests :
           /\ streams'[k].decoder = streams[k].decoder
           /\ streams'[k].channel = streams[k].channel /\ streams'[k].turn = streams[k].turn
           /\ streams'[k].sawAssistant = streams[k].sawAssistant
           /\ Fresh(k)' => Fresh(k) /\ got' = got,
         phase' \in {"sending", "awaiting"} => got' = 0
  PROVE  Reading'
<1>1. LogKept
  BY LogAt DEF LogKept
<1>. QED  BY <1>1, ReadingStays DEF Same

(* A stream is opened at its first unit.                                   *)
LEMMA OpenReading ==
  ASSUME HttpTypes, StreamTypes, Reading, ForwardHead, HeadStreams PROVE Reading'
<1>1. /\ phase = "awaiting" /\ got = 0 /\ phase' = "streaming"
      /\ UNCHANGED <<number, request, got, log>> /\ number \in 1..MaxRequests
  <2>1. phase = "awaiting" /\ UNCHANGED <<number, request, got, log>>
    BY HeadCases
  <2>. QED  BY <2>1, Constants DEF HeadStreams, Reading, HttpTypes
<1>2. LogKept
  BY <1>1, LogAt DEF LogKept
<1>3. PICK readable \in BOOLEAN :
        streams' = IF request.endpoint = "stream"
                   THEN [streams EXCEPT ![number] = Opened(readable)] ELSE streams
  BY DEF HeadStreams
<1>4. ASSUME NEW k \in 1..MaxRequests, k # number \/ request.endpoint # "stream",
             streams'[k].decoder = "decoding"
      PROVE  Same(k)
  <2>1. streams'[k] = streams[k]
    BY <1>1, <1>3, <1>4 DEF StreamTypes
  <2>2. ~Fresh(k)'
    BY <1>1, <1>4 DEF Fresh
  <2>. QED  BY <1>4, <2>1, <2>2 DEF Same
<1>5. ASSUME NEW k \in 1..MaxRequests, k = number, request.endpoint = "stream"
      PROVE  ReadsOn(k, 0)'
  <2>1. streams'[k] = Opened(readable)
    BY <1>1, <1>3, <1>5 DEF StreamTypes
  <2>2. streams'[k].channel = <<>> /\ streams'[k].turn = <<>>
    BY <2>1, OpenedTypes
  <2>3. Len(streams'[k].channel) = 0 /\ Len(log') \in Nat
    BY <1>1, <2>2, EmptySeq, LogAt
  <2>4. 0 + Len(streams'[k].channel) = 0 /\ 0 <= Len(log')
    BY <2>3
  <2>. QED  BY <1>1, <2>2, <2>3, <2>4 DEF ReadsOn
<1>6. \A k \in 1..MaxRequests : streams'[k].decoder = "decoding" =>
        Same(k) \/ \E p \in Nat : ReadsOn(k, p)'
  <2>1. 0 \in Nat
    OBVIOUS
  <2>. QED  BY <1>4, <1>5, <2>1
<1>. QED  BY <1>1, <1>2, <1>6, ReadingStays

(* What a decoder has after the next event, before it hands a turn over.   *)
LEMMA EventRead ==
  ASSUME StreamTypes, LogInv, NEW k \in 1..MaxRequests, streams[k].channel # <<>>,
         NEW p \in Nat, ReadsOn(k, p), NEW s,
         s = Added([streams[k] EXCEPT !.channel = Tail(@)], Head(streams[k].channel))
  PROVE  /\ p + 1 \in 1..Len(log) /\ Head(streams[k].channel) = log[p + 1]
         /\ StreamOK(s) /\ s.channel = Tail(streams[k].channel)
         /\ s.decoder = streams[k].decoder /\ s.broken = streams[k].broken
         /\ s.turn # <<>> => \E u \in 1..p + 1 : Assembling(s, u, p + 1)
<1> DEFINE took == [streams[k] EXCEPT !.channel = Tail(@)]
<1>1. /\ StreamOK(streams[k]) /\ streams[k].channel \in Seq(LogEvent)
      /\ Len(streams[k].channel) \in Nat /\ Len(log) \in Nat
      /\ \A u \in 1..p : p \in 1..Len(log)
  BY ReadsOnTypes
<1>2. PICK n \in Nat \ {0} : n = Len(streams[k].channel) /\ Head(streams[k].channel) = streams[k].channel[1]
  BY <1>1, Taken
<1>3. PICK e \in LogEvent : e = Head(streams[k].channel) /\ e = log[p + 1] /\ p + 1 \in 1..Len(log)
  <2>1. 1 \in 1..n
    OBVIOUS
  <2>2. streams[k].channel[1] = log[p + 1] /\ p + n <= Len(log)
    BY <1>2, <2>1 DEF ReadsOn
  <2>3. p + 1 \in 1..Len(log)
    BY <1>1, <2>2
  <2>. QED  BY <1>1, <1>2, <2>2, <2>3, LogAt
<1>4. PICK t : t = took /\ StreamOK(t)
        /\ t.channel = Tail(streams[k].channel) /\ t.decoder = streams[k].decoder
        /\ t.broken = streams[k].broken
        /\ t.turn = streams[k].turn /\ t.sawAssistant = streams[k].sawAssistant
  BY <1>1, TookTypes
<1>5. s = Added(t, e)
  BY <1>3, <1>4
<1>6. /\ StreamOK(s) /\ s.channel = t.channel /\ s.decoder = t.decoder /\ s.broken = t.broken
      /\ e.kind # "user" /\ t.turn = <<>> => s = t
  <2>1. /\ StreamOK(Added(t, e)) /\ Added(t, e).channel = t.channel
        /\ Added(t, e).decoder = t.decoder /\ Added(t, e).broken = t.broken
    BY <1>4, AddedTypes
  <2>2. e.kind # "user" /\ t.turn = <<>> => Added(t, e) = t
    BY <1>4, AddedTypes
  <2>. QED  BY <1>5, <2>1, <2>2
<1>7. ASSUME s.turn # <<>> PROVE \E u \in 1..p + 1 : Assembling(s, u, p + 1)
  <2>1. CASE e.kind = "user"
    <3>1. PICK q \in 1..Len(log) : q = p + 1
      BY <1>3
    <3>2. Assembling(Added(t, log[q]), q, q)
      BY <1>3, <1>4, <2>1, <3>1, TurnBegins
    <3>3. p + 1 \in 1..p + 1
      OBVIOUS
    <3>. QED  BY <1>3, <1>5, <3>1, <3>2, <3>3
  <2>2. CASE e.kind # "user"
    <3>1. t.turn # <<>>
      BY <1>6, <1>7, <2>2
    <3>2. PICK u \in 1..p : Assembling(streams[k], u, p)
      BY <1>4, <3>1 DEF ReadsOn
    <3>3. Assembling(t, u, p)
      BY <1>4, <3>2 DEF Assembling
    <3>4. p \in 1..Len(log) /\ u \in 1..p + 1
      BY <1>1, <3>2
    <3>5. Assembling(Added(t, log[p + 1]), u, p + 1)
      BY <1>3, <1>4, <2>2, <3>3, <3>4, TurnGoesOn
    <3>. QED  BY <1>3, <1>5, <3>4, <3>5
  <2>. QED  BY <2>1, <2>2
<1>. QED  BY <1>3, <1>4, <1>6, <1>7

(* An event read moves its decoder one event on.                           *)
LEMMA DecodeReading ==
  ASSUME StreamTypes, LogInv, Reading, NEW k \in 1..MaxRequests, Decode(k),
         UNCHANGED <<httpVars, socketVars>>
  PROVE  Reading'
<1> DEFINE took == [streams[k] EXCEPT !.channel = Tail(@)]
           e == Head(streams[k].channel)
<1>1. /\ streams[k].decoder = "decoding" /\ streams[k].channel # <<>>
      /\ UNCHANGED <<log, phase, number, request, got>>
  BY DecodeCases DEF httpVars
<1>2. LogKept
  BY <1>1, LogAt DEF LogKept
<1>3. PICK p \in Nat : ReadsOn(k, p)
  BY <1>1 DEF Reading
<1>4. PICK s : s = Added(took, e)
  OBVIOUS
<1>5. /\ p + 1 \in 1..Len(log) /\ StreamOK(s) /\ s.channel = Tail(streams[k].channel)
      /\ s.decoder = "decoding" /\ s.broken = streams[k].broken
      /\ s.turn # <<>> => \E u \in 1..p + 1 : Assembling(s, u, p + 1)
  BY <1>1, <1>3, <1>4, EventRead
<1>6. PICK t : /\ streams' = [streams EXCEPT ![k] = t] /\ StreamOK(t)
               /\ t.channel = s.channel /\ t.broken = s.broken
               /\ (t.turn = s.turn /\ t.sawAssistant = s.sawAssistant) \/ t.turn = <<>>
  <2>1. \/ streams' = [streams EXCEPT ![k] =
                         [s EXCEPT !.decoder = "decoding", !.turn = <<>>, !.sawAssistant = FALSE]]
        \/ streams' = [streams EXCEPT ![k] = s]
    BY <1>4, DecodeCases
  <2>2. PICK over : over = [s EXCEPT !.decoder = "decoding", !.turn = <<>>, !.sawAssistant = FALSE]
    OBVIOUS
  <2>3. StreamOK(over) /\ over.channel = s.channel /\ over.broken = s.broken /\ over.turn = <<>>
    <3>1. StreamOK(s) /\ "decoding" \in {"off", "decoding", "draining", "ended"}
      BY <1>5
    <3>2. s \in StreamState
      BY <3>1 DEF StreamOK
    <3>3. over.channel = s.channel /\ over.broken = s.broken /\ over.turn = <<>>
      BY <2>2, <3>2 DEF StreamState
    <3>4. \A v : v = [s EXCEPT !.decoder = "decoding", !.turn = <<>>, !.sawAssistant = FALSE] => StreamOK(v)
      BY <3>1, LetGoTypes
    <3>. QED  BY <2>2, <3>3, <3>4
  <2>4. CASE streams' = [streams EXCEPT ![k] = s]
    BY <1>5, <2>4
  <2>5. CASE streams' = [streams EXCEPT ![k] = over]
    BY <2>3, <2>5
  <2>. QED  BY <2>1, <2>2, <2>4, <2>5
<1>7. streams'[k] = t /\ \A j \in 1..MaxRequests \ {k} : streams'[j] = streams[j]
  BY <1>1, <1>6, OneStream
<1>8. ASSUME NEW j \in 1..MaxRequests, j # k, streams'[j].decoder = "decoding" PROVE Same(j)
  <2>1. streams'[j] = streams[j]
    BY <1>7, <1>8
  <2>2. Fresh(j)' => Fresh(j)
    BY <1>1, <2>1 DEF Fresh
  <2>. QED  BY <1>1, <1>8, <2>1, <2>2 DEF Same
<1>9. ReadsOn(k, p + 1)'
  <2>1. PICK n \in Nat \ {0} :
          /\ n = Len(streams[k].channel) /\ p + n <= Len(log)
          /\ \A i \in 1..n : streams[k].channel[i] = log[p + i]
          /\ Fresh(k) => p + n = got
          /\ Len(Tail(streams[k].channel)) = n - 1
          /\ \A i \in 1..n - 1 : Tail(streams[k].channel)[i] = streams[k].channel[i + 1]
    <3>1. streams[k].channel \in Seq(LogEvent)
      BY <1>3, ReadsOnTypes
    <3>2. /\ Len(streams[k].channel) \in Nat \ {0}
          /\ Len(Tail(streams[k].channel)) = Len(streams[k].channel) - 1
          /\ \A i \in 1..Len(streams[k].channel) - 1 :
               Tail(streams[k].channel)[i] = streams[k].channel[i + 1]
      BY <1>1, <3>1, Taken
    <3>3. PICK n \in Nat \ {0} : n = Len(streams[k].channel)
      BY <3>2
    <3>. QED  BY <1>3, <3>2, <3>3 DEF ReadsOn
  <2>2. streams'[k].channel = Tail(streams[k].channel) /\ streams'[k].broken = streams[k].broken
    BY <1>5, <1>6, <1>7
  <2>a. n \in Nat \ {0}
    BY <2>1
  <2>b. Len(streams'[k].channel) = n - 1
    BY <2>1, <2>2
  <2>3. p + 1 + Len(streams'[k].channel) = p + n /\ log' = log
    <3>1. p + 1 + (n - 1) = p + n
      BY <2>a
    <3>. QED  BY <1>1, <2>b, <3>1
  <2>4. \A i \in 1..n - 1 : streams'[k].channel[i] = log'[p + 1 + i]
    <3>1. ASSUME NEW i \in 1..n - 1 PROVE streams'[k].channel[i] = log'[p + 1 + i]
      <4>1. i + 1 \in 1..n /\ p + 1 + i = p + (i + 1)
        BY <2>a
      <4>2. streams[k].channel[i + 1] = log[p + (i + 1)]
        BY <2>1, <4>1
      <4>. QED  BY <1>1, <2>1, <2>2, <4>1, <4>2
    <3>. QED  BY <3>1
  <2>5. Fresh(k)' => p + 1 + Len(streams'[k].channel) = got'
    <3>1. Fresh(k)' => Fresh(k)
      BY <1>1, <2>2 DEF Fresh
    <3>. QED  BY <1>1, <2>1, <2>3, <3>1
  <2>6. streams'[k].turn # <<>> => \E u \in 1..p + 1 : Assembling(streams[k], u, p + 1)'
    <3>1. ASSUME t.turn # <<>>, NEW u \in 1..p + 1, Assembling(s, u, p + 1)
          PROVE  Assembling(streams[k], u, p + 1)'
      <4>1. Assembling(t, u, p + 1)
        BY <1>6, <3>1 DEF Assembling
      <4>2. Assembling(t, u, p + 1)'
        BY <1>1, <4>1 DEF Assembling, SaidBy, SaidAt
      <4>. QED  BY <1>7, <4>2
    <3>. QED  BY <1>5, <1>6, <1>7, <3>1
  <2>7. Len(streams'[k].channel) = n - 1 /\ p + 1 + Len(streams'[k].channel) <= Len(log')
    BY <2>1, <2>2, <2>3
  <2>. QED  BY <2>4, <2>5, <2>6, <2>7 DEF ReadsOn
<1>10. \A j \in 1..MaxRequests : streams'[j].decoder = "decoding" =>
         Same(j) \/ \E q \in Nat : ReadsOn(j, q)'
  <2>1. p + 1 \in Nat
    OBVIOUS
  <2>. QED  BY <1>8, <1>9, <2>1
<1>11. phase' \in {"sending", "awaiting"} => got' = 0
  BY <1>1 DEF Reading
<1>. QED  BY <1>2, <1>10, <1>11, ReadingStays

LEMMA NextReading ==
  ASSUME TypeInv, TypeInv', LogInv, Reading, [Next]_vars PROVE Reading'
<1>0. HttpTypes /\ StreamTypes /\ StreamTypes' /\ streams \in [1..MaxRequests -> StreamState]
  BY DEF TypeInv, StreamTypes
<1>1. CASE UNCHANGED streamVars /\ UNCHANGED <<phase, number, request, got>>
  <2>1. \A k \in 1..MaxRequests : Fresh(k)' => Fresh(k)
    BY <1>1 DEF streamVars, Fresh
  <2>. QED  BY <1>0, <1>1, <2>1, QuietReading DEF streamVars, Reading
<1>2. CASE ClientRequests
  <2>1. UNCHANGED streamVars /\ phase' = "sending" /\ got' = 0
    BY <1>2 DEF ClientRequests
  <2>2. \A k \in 1..MaxRequests : ~Fresh(k)'
    BY <2>1 DEF Fresh
  <2>. QED  BY <1>0, <2>1, <2>2, QuietReading DEF streamVars
<1>3. CASE Send \/ NoAnswer \/ ClientLeft \/ RelayReturns
  <2>1. /\ UNCHANGED streamVars /\ phase' \in {"awaiting", "done"} /\ got' = got
        /\ phase' = "awaiting" => phase = "sending"
    BY <1>3 DEF Send, NoAnswer, ClientLeft, RelayReturns, Over
  <2>2. \A k \in 1..MaxRequests : ~Fresh(k)'
    BY <2>1 DEF Fresh
  <2>. QED  BY <1>0, <2>1, <2>2, QuietReading DEF streamVars, Reading
<1>4. ASSUME number > 0, NEW ok \in BOOLEAN, Finish(ok), UNCHANGED log
      PROVE  Reading'
  <2>1. /\ phase' \in {"reading", "done"}
        /\ \A k \in 1..MaxRequests :
             /\ streams'[k].channel = streams[k].channel
             /\ streams'[k].decoder = streams[k].decoder /\ streams'[k].turn = streams[k].turn
             /\ streams'[k].sawAssistant = streams[k].sawAssistant
    BY <1>0, <1>4, FinishCases
  <2>2. \A k \in 1..MaxRequests : ~Fresh(k)'
    BY <2>1 DEF Fresh
  <2>. QED  BY <1>0, <1>4, <2>1, <2>2, QuietReading
<1>5. CASE ForwardHead
  <2>1. phase = "awaiting" /\ number > 0 /\ UNCHANGED log
    BY <1>0, <1>5, HeadCases DEF HttpTypes
  <2>2. CASE HeadStreams
    BY <1>0, <1>5, <2>2, OpenReading
  <2>3. CASE (Over \/ HeadSwitches) /\ UNCHANGED streams
    <3>1. phase' \in {"done", "relaying"}
      BY <2>3 DEF Over, HeadSwitches
    <3>2. \A k \in 1..MaxRequests : ~Fresh(k)'
      BY <3>1 DEF Fresh
    <3>. QED  BY <1>0, <2>1, <2>3, <3>1, <3>2, QuietReading
  <2>. QED  BY <1>4, <1>5, <2>1, <2>2, <2>3, HeadCases DEF HeadSwitches
<1>6. CASE ForwardUnit
  BY <1>0, <1>6, UnitReading
<1>7. CASE ForwardEnd
  <2>1. phase = "streaming" /\ UNCHANGED log /\ (Finish(TRUE) \/ Finish(FALSE))
    BY <1>7 DEF ForwardEnd
  <2>2. number \in 0..MaxRequests /\ MaxRequests \in Nat /\ number # 0
    BY <1>0, <2>1, Constants DEF HttpTypes
  <2>3. number > 0
    BY <2>2
  <2>. QED  BY <1>4, <2>1, <2>3
<1>8. ASSUME NEW k \in 1..MaxRequests, Decode(k), UNCHANGED <<httpVars, socketVars>>
      PROVE  Reading'
  BY <1>0, <1>8, DecodeReading
<1>9. ASSUME NEW k \in 1..MaxRequests, DecoderFails(k) \/ Drain(k) \/ DecoderEnds(k),
             UNCHANGED <<httpVars, socketVars>>
      PROVE  Reading'
  <2>1. UNCHANGED <<log, phase, number, request, got>>
    BY <1>9 DEF DecoderFails, Drain, DecoderEnds, httpVars
  <2>2. \A j \in 1..MaxRequests \ {k} : streams'[j] = streams[j]
    BY <1>0, <1>9 DEF DecoderFails, Drain, DecoderEnds
  <2>3. streams'[k].decoder # "decoding"
    <3>1. streams[k] \in StreamState
      BY <1>0
    <3>2. CASE DecoderFails(k) \/ DecoderEnds(k)
      <4>1. PICK decoder \in {"draining", "ended"} :
              streams' = [streams EXCEPT ![k] =
                [streams[k] EXCEPT !.decoder = decoder, !.turn = <<>>, !.sawAssistant = FALSE]]
        BY <1>0, <3>2 DEF DecoderFails, DecoderEnds
      <4>2. streams'[k].decoder = decoder
        BY <1>0, <3>1, <4>1 DEF StreamState
      <4>. QED  BY <4>1, <4>2
    <3>3. CASE Drain(k)
      BY <1>0, <3>1, <3>3 DEF Drain, StreamState
    <3>. QED  BY <1>9, <3>2, <3>3
  <2>4. ASSUME NEW j \in 1..MaxRequests, streams'[j].decoder = "decoding" PROVE Same(j)
    <3>1. streams'[j] = streams[j]
      BY <2>2, <2>3, <2>4
    <3>2. Fresh(j)' => Fresh(j)
      BY <2>1, <3>1 DEF Fresh
    <3>. QED  BY <2>1, <2>4, <3>1, <3>2 DEF Same
  <2>5. LogKept
    BY <1>0, <2>1, LogAt DEF LogKept
  <2>6. phase' \in {"sending", "awaiting"} => got' = 0
    BY <2>1 DEF Reading
  <2>. QED  BY <1>0, <2>4, <2>5, <2>6, ReadingStays
<1>10. CASE SessionGoesOn /\ UNCHANGED <<httpVars, socketVars>>
  <2>1. LogKept /\ UNCHANGED streams /\ UNCHANGED <<phase, number, request, got>>
    <3>1. /\ Len(log') = Len(log) + 1 /\ (\A i \in 1..Len(log) : log'[i] = log[i])
          /\ UNCHANGED streams /\ Len(log) \in Nat
      BY <1>0, <1>10, SessionTypes, LogAt
    <3>. QED  BY <1>10, <3>1 DEF LogKept, httpVars
  <2>2. \A k \in 1..MaxRequests : Fresh(k)' => Fresh(k)
    BY <2>1 DEF Fresh
  <2>3. \A k \in 1..MaxRequests : streams'[k].decoder = "decoding" => Same(k)
    BY <2>1, <2>2 DEF Same
  <2>4. phase' \in {"sending", "awaiting"} => got' = 0
    BY <2>1 DEF Reading
  <2>. QED  BY <1>0, <2>1, <2>3, <2>4, ReadingStays
<1>11. CASE UpstreamResponds \/ UpstreamProduces \/ \E side \in Sides : EndGoes(side)
  BY <1>1, <1>11 DEF UpstreamResponds, UpstreamProduces, EndGoes, httpVars
<1>12. CASE SocketNext /\ UNCHANGED <<httpVars, streamVars>>
  BY <1>1, <1>12 DEF httpVars
<1>13. CASE UNCHANGED <<httpVars, socketVars, streamVars, ends, recorded>>
  BY <1>1, <1>13 DEF httpVars
<1>. QED  BY <1>2, <1>3, <1>5, <1>6, <1>7, <1>8, <1>9, <1>10, <1>11, <1>12, <1>13, NextCases DEF Forward

(* What is recorded remains as it is when the session goes on.             *)
LEMMA RecordedStays ==
  ASSUME StreamTypes, LogKept, StreamTypes', NEW e, Recorded(e) PROVE Recorded(e)'
<1>1. Len(log) \in Nat /\ Len(log') \in Nat /\ Len(log) <= Len(log')
  BY LogAt DEF LogKept, StreamTypes
<1>2. \A i \in 1..Len(log) : i \in 1..Len(log')
  BY <1>1
<1>3. ASSUME NEW u \in 1..Len(log), NEW r \in 1..Len(log), Spans(e, u, r)
      PROVE  Spans(e, u, r)'
  BY <1>3, SpansStays
<1>4. (\E u, r \in 1..Len(log) : Spans(e, u, r)) => (\E u, r \in 1..Len(log) : Spans(e, u, r))'
  BY <1>2, <1>3
<1>. QED  BY <1>4 DEF Recorded

LEMMA RecordedSoFar ==
  ASSUME StreamTypes, StreamTypes', LogKept, TurnsRecorded,
         \A e \in recorded' \ recorded : Recorded(e)'
  PROVE  TurnsRecorded'
<1>1. \A e \in recorded : Recorded(e)
  BY DEF TurnsRecorded
<1>2. \A e \in recorded : Recorded(e)'
  BY <1>1, RecordedStays
<1>3. \A e \in recorded' : Recorded(e)'
  BY <1>2
<1>. QED  BY <1>3 DEF TurnsRecorded

(* The turn an event ends, when an answer has come before it.              *)
LEMMA TurnIsRecorded ==
  ASSUME StreamTypes, LogInv, Reading, NEW k \in 1..MaxRequests, Decode(k),
         NEW e \in recorded' \ recorded
  PROVE  Recorded(e)
<1> DEFINE took == [streams[k] EXCEPT !.channel = Tail(@)]
           next == Head(streams[k].channel)
<1>1. streams[k].decoder = "decoding" /\ streams[k].channel # <<>> /\ StreamOK(streams[k])
  BY DecodeCases DEF StreamTypes
<1>2. PICK p \in Nat : ReadsOn(k, p)
  BY <1>1 DEF Reading
<1>3. PICK s : s = Added(took, next)
  OBVIOUS
<1>4. EndsTurn(took, next) /\ e \in Events(TurnExchange(k, s.turn))
  BY <1>3, DecodeRecorded
<1>5. /\ p + 1 \in 1..Len(log) /\ next = log[p + 1] /\ StreamOK(s)
      /\ s.turn # <<>> => \E u \in 1..p + 1 : Assembling(s, u, p + 1)
  BY <1>1, <1>2, <1>3, EventRead
<1>6. /\ next.kind = "result" /\ took.turn # <<>> /\ took.sawAssistant
      /\ StreamOK(took) /\ next \in LogEvent
  BY <1>1, <1>4, TookTypes DEF EndsTurn
<1>7. s.turn # <<>> /\ s.sawAssistant
  <2>1. /\ s.turn = IF Len(took.turn) < MaxTurnEvents THEN Append(took.turn, next) ELSE took.turn
        /\ s.sawAssistant = (took.sawAssistant \/ next.kind = "assistant")
    <3>1. next.kind # "user"
      BY <1>6
    <3>. HIDE DEF took, next
    <3>. QED  BY <1>3, <1>6, <3>1, AddedTypes
  <2>2. took.turn \in Seq(LogEvent)
    BY <1>6 DEF StreamOK, StreamState
  <2>3. Len(Append(took.turn, next)) = Len(took.turn) + 1 /\ Len(took.turn) \in Nat
    BY <1>6, <2>2, Appended
  <2>4. Append(took.turn, next) # <<>>
    BY <2>3
  <2>. QED  BY <1>6, <2>1, <2>4
<1>8. PICK r \in 1..Len(log) : r = p + 1
  BY <1>5
<1>9. PICK u \in 1..r : Assembling(s, u, r)
  BY <1>5, <1>7, <1>8
<1>10. PICK t : t = log[u].turn
  OBVIOUS
<1>11. /\ Len(log) \in Nat /\ u \in 1..Len(log) /\ u \in Nat /\ r \in Nat /\ u <= r /\ t \in Nat
  <2>1. Len(log) \in Nat
    BY LogAt
  <2>2. u \in 1..Len(log) /\ u \in Nat /\ r \in Nat /\ u <= r
    BY <2>1
  <2>. QED  BY <1>10, <2>1, <2>2, LogAt
<1>12. /\ log[u].kind = "user" /\ s.turn[1] = log[u] /\ log[r].turn = t
       /\ AnswerOf(s.turn) = Pieces(t, SaidBy(t, AtMost(r, u + MaxTurnEvents - 1)))
       /\ \E a \in u..r : log[a].kind = "assistant"
  <2>1. u + Len(s.turn) - 1 = AtMost(r, u + MaxTurnEvents - 1)
    BY <1>5, <1>9, AssemblingTypes
  <2>2. r \in u..r
    BY <1>11
  <2>. QED  BY <1>7, <1>9, <1>10, <2>1, <2>2 DEF Assembling
<1>13. t > 0 /\ t # Nobody
  <2>1. t > 0
    BY <1>10, <1>11, <1>12 DEF LogInv, InOrder
  <2>. QED  BY <2>1, <1>11 DEF Nobody
<1>14. /\ e.method = "TURN" /\ e.endpoint = "stream" /\ e.prompt = t
       /\ e.answer = AnswerOf(s.turn) /\ e.noted = FALSE /\ e.id = <<"cowork", t>>
  <2>1. s.turn[1].turn = t
    BY <1>10, <1>12
  <2>2. e \in Events(TurnExchange(k, s.turn))
    BY <1>4
  <2>3. /\ e.method = "TURN" /\ e.endpoint = "stream"
        /\ e.prompt = s.turn[1].turn /\ e.answer = AnswerOf(s.turn) /\ e.noted = FALSE
        /\ e.id = IF s.turn[1].turn # Nobody THEN <<"cowork", s.turn[1].turn>> ELSE <<"TURN", k>>
    BY <2>2, TurnEvent
  <2>. QED  BY <1>13, <2>1, <2>3
<1>15. e = [id |-> <<"cowork", e.prompt>>, endpoint |-> "stream", method |-> "TURN",
            prompt |-> e.prompt, answer |-> e.answer, noted |-> FALSE]
  <2>1. e = Event(TurnExchange(k, s.turn))
    BY <1>4 DEF Events
  <2>2. e = [id |-> e.id, endpoint |-> e.endpoint, method |-> e.method,
             prompt |-> e.prompt, answer |-> e.answer, noted |-> e.noted]
    BY <2>1 DEF Event
  <2>. QED  BY <1>14, <2>2
<1>16. Spans(e, u, r)
  <2>1. log[r].kind = "result"
    BY <1>5, <1>6, <1>8
  <2>2. PICK a \in u..r : log[a].kind = "assistant"
    BY <1>12
  <2>3. a # r /\ u # r
    BY <1>12, <2>1, <2>2
  <2>4. a < r /\ u < r
    BY <1>11, <2>3
  <2>. QED  BY <1>10, <1>12, <1>14, <2>1, <2>2, <2>4 DEF Spans
<1>. QED  BY <1>11, <1>13, <1>14, <1>15, <1>16 DEF Recorded

LEMMA NextRecorded ==
  ASSUME TypeInv, TypeInv', LogInv, Reading, TurnsRecorded, [Next]_vars PROVE TurnsRecorded'
<1>0. HttpTypes /\ StreamTypes /\ StreamTypes' /\ SocketTypes
  BY DEF TypeInv
<1>1. UNCHANGED log => LogKept
  BY <1>0, LogAt DEF LogKept
<1>2. CASE UNCHANGED <<log, recorded>>
  BY <1>0, <1>1, <1>2, RecordedSoFar
<1>3. ASSUME number > 0, NEW ok \in BOOLEAN, Finish(ok), UNCHANGED log
      PROVE  TurnsRecorded'
  <2>1. PICK question, answer \in BOOLEAN :
          recorded' = recorded \cup Events(Interaction(question, answer))
    BY <1>3 DEF Finish
  <2>2. ASSUME NEW e \in recorded' \ recorded PROVE Recorded(e)'
    <3>1. /\ e.method = "HTTP" /\ e.endpoint # "stream"
          /\ e.endpoint = "message" =>
               /\ e.answer = <<>>
               /\ e.id = IF e.prompt # Nobody THEN <<"cowork", e.prompt>> ELSE <<"HTTP", number>>
      BY <1>0, <1>3, <2>1, <2>2, InteractionRecorded
    <3>. QED  BY <3>1 DEF Recorded
  <2>. QED  BY <1>0, <1>1, <1>3, <2>2, RecordedSoFar
<1>4. CASE ForwardHead
  <2>1. number > 0 /\ UNCHANGED log
    BY <1>0, <1>4, HeadCases DEF HttpTypes
  <2>. QED  BY <1>2, <1>3, <1>4, <2>1, HeadCases DEF HeadStreams, HeadSwitches
<1>5. CASE ForwardEnd
  <2>1. phase = "streaming" /\ UNCHANGED log /\ (Finish(TRUE) \/ Finish(FALSE))
    BY <1>5 DEF ForwardEnd
  <2>2. number \in 0..MaxRequests /\ MaxRequests \in Nat /\ number # 0
    BY <1>0, <2>1, Constants DEF HttpTypes
  <2>3. number > 0
    BY <2>2
  <2>. QED  BY <1>3, <2>1, <2>3
<1>6. ASSUME NEW k \in 1..MaxRequests, Decode(k)
      PROVE  TurnsRecorded'
  <2>1. UNCHANGED log
    BY <1>0, <1>6, DecodeCases
  <2>2. ASSUME NEW e \in recorded' \ recorded PROVE Recorded(e)'
    <3>1. Recorded(e)
      BY <1>0, <1>6, <2>2, TurnIsRecorded
    <3>. QED  BY <1>0, <1>1, <2>1, <3>1, RecordedStays
  <2>. QED  BY <1>0, <1>1, <2>1, <2>2, RecordedSoFar
<1>7. CASE SessionGoesOn /\ UNCHANGED <<httpVars, socketVars>>
  <2>1. LogKept /\ UNCHANGED recorded
    <3>1. /\ Len(log') = Len(log) + 1 /\ (\A i \in 1..Len(log) : log'[i] = log[i])
          /\ UNCHANGED recorded /\ Len(log) \in Nat
      BY <1>0, <1>7, SessionTypes, LogAt
    <3>. QED  BY <3>1 DEF LogKept
  <2>. QED  BY <1>0, <2>1, RecordedSoFar
<1>8. CASE SocketNext /\ UNCHANGED <<httpVars, streamVars>>
  <2>1. UNCHANGED log
    BY <1>8 DEF streamVars
  <2>2. ASSUME NEW t \in pending, RecordTurn(t), NEW e \in recorded' \ recorded
        PROVE  Recorded(e)'
    <3>1. e.endpoint = "socket" /\ e.method = "SOCKET"
      BY <2>2, TurnRecorded
    <3>. QED  BY <3>1 DEF Recorded
  <2>. QED  BY <1>0, <1>1, <1>2, <1>8, <2>1, <2>2, RecordedSoFar, SocketNextOutside
<1>9. ASSUME NEW k \in 1..MaxRequests, DecoderFails(k) \/ Drain(k) \/ DecoderEnds(k)
      PROVE  TurnsRecorded'
  BY <1>2, <1>9 DEF DecoderFails, Drain, DecoderEnds
<1>10. CASE \/ ClientRequests \/ UpstreamResponds \/ UpstreamProduces \/ Send \/ NoAnswer
            \/ ForwardUnit \/ ClientLeft \/ RelayReturns \/ \E side \in Sides : EndGoes(side)
  BY <1>2, <1>10 DEF ClientRequests, UpstreamResponds, UpstreamProduces, Send, NoAnswer, ForwardUnit,
                     ClientLeft, RelayReturns, EndGoes, streamVars
<1>11. CASE UNCHANGED <<httpVars, socketVars, streamVars, ends, recorded>>
  BY <1>2, <1>11 DEF streamVars
<1>. QED  BY <1>4, <1>5, <1>6, <1>7, <1>8, <1>9, <1>10, <1>11, NextCases DEF Forward

LEMMA LogStays ==
  ASSUME LogInv, UNCHANGED log PROVE LogInv'
BY DEF LogInv, InOrder, Numbered, OverOnce, Typed, SaidBy, SaidAt

LEMMA NextRead ==
  ASSUME TypeInv, ReadInv, [Next]_vars, ~Overtaking PROVE TypeInv' /\ ReadInv'
<1>1. TypeInv' /\ StreamTypes /\ LogInv /\ Reading /\ TurnsRecorded
  BY NextTypes DEF TypeInv, ReadInv
<1>2. LogInv'
  <2>1. CASE SessionGoesOn
    BY <1>1, <2>1, LogGrows
  <2>2. CASE UNCHANGED log
    BY <1>1, <2>2, LogStays
  <2>3. ForwardHead => UNCHANGED log
    BY HeadCases
  <2>4. \A k \in 1..MaxRequests : Decode(k) => UNCHANGED log
    BY <1>1, DecodeCases
  <2>. QED  BY <2>1, <2>2, <2>3, <2>4, NextCases
            DEF ClientRequests, UpstreamResponds, UpstreamProduces, EndGoes, Forward, Send, NoAnswer,
                ForwardUnit, ForwardEnd, ClientLeft, RelayReturns, DecoderFails, Drain, DecoderEnds,
                streamVars
<1>. QED  BY <1>1, <1>2, NextReading, NextRecorded DEF ReadInv

LEMMA InitRead == Init => ReadInv
<1> SUFFICES ASSUME Init PROVE ReadInv
  OBVIOUS
<1>1. log = <<>> /\ Len(log) = 0 /\ recorded = {} /\ phase = "reading"
  BY EmptySeq DEF Init, StreamInit
<1>2. Typed = 0
  <2>1. {i \in 1..Len(log) : log[i].kind = "user"} = {}
    BY <1>1
  <2>. QED  BY <2>1, FS_EmptySet DEF Typed
<1>3. LogInv
  BY <1>1, <1>2 DEF LogInv, InOrder, Numbered, OverOnce
<1>4. \A k \in 1..MaxRequests : streams[k].decoder = "off"
  BY DEF Init, StreamInit, NoStream
<1>. QED  BY <1>1, <1>3, <1>4 DEF ReadInv, Reading, TurnsRecorded

(* Between its prompt and its last result there is only the turn itself.   *)
LEMMA SpanTurns ==
  ASSUME StreamTypes, LogInv, NEW e, NEW u \in 1..Len(log), NEW r \in 1..Len(log), Spans(e, u, r)
  PROVE  /\ Len(log) \in Nat /\ u \in Nat /\ r \in Nat /\ u < r /\ e.prompt \in Nat
         /\ \A j \in u..r : log[j].turn = e.prompt
         /\ \E a \in 1..Len(log) : a < r /\ log[a].kind = "assistant" /\ log[a].turn = e.prompt
         /\ \A i \in 1..Len(log) : i > r /\ log[i].turn = e.prompt =>
              log[i].kind \notin {"assistant", "result"}
<1>1. PICK t : t = e.prompt
  OBVIOUS
<1>2. /\ u < r /\ log[u].turn = t /\ log[r].turn = t /\ log[r].kind = "result"
      /\ \E a \in u..r : a < r /\ log[a].kind = "assistant"
  BY <1>1 DEF Spans
<1>3. Len(log) \in Nat /\ u \in Nat /\ r \in Nat /\ t \in Nat
  BY <1>2, LogAt
<1>4. ASSUME NEW j \in u..r PROVE log[j].turn = t
  <2>1. j \in 1..Len(log) /\ u \in 1..j /\ j \in 1..r
    BY <1>3
  <2>2. log[u].turn <= log[j].turn /\ log[j].turn <= log[r].turn /\ log[j].turn \in Nat
    BY <2>1, LogAt DEF LogInv, InOrder
  <2>. QED  BY <1>2, <1>3, <2>2
<1>5. PICK a \in 1..Len(log) : a < r /\ log[a].kind = "assistant" /\ log[a].turn = t
  <2>1. PICK a \in u..r : a < r /\ log[a].kind = "assistant"
    BY <1>2
  <2>2. a \in 1..Len(log) /\ log[a].turn = t
    BY <1>3, <1>4, <2>1
  <2>. QED  BY <2>1, <2>2
<1>6. ASSUME NEW i \in 1..Len(log), i > r, log[i].turn = t
      PROVE  log[i].kind \notin {"assistant", "result"}
  <2>1. r < i
    BY <1>3, <1>6
  <2>. QED  BY <1>2, <1>5, <1>6, <2>1 DEF LogInv, OverOnce
<1>. QED  BY <1>1, <1>2, <1>3, <1>4, <1>5, <1>6

LEMMA TurnsWhole == ASSUME TypeInv, ReadInv PROVE NoGap
<1>1. StreamTypes /\ LogInv /\ TurnsRecorded
  BY DEF TypeInv, ReadInv
<1>2. SUFFICES ASSUME NEW e \in recorded, e.method = "TURN"
               PROVE  IF Cardinality({i \in 1..Len(log) : log[i].turn = e.prompt}) <= MaxTurnEvents
                      THEN e.answer = AnswerInLog(e.prompt)
                      ELSE IsPrefix(e.answer, AnswerInLog(e.prompt))
  BY DEF NoGap
<1>3. PICK u, r \in 1..Len(log) : Spans(e, u, r)
  BY <1>1, <1>2 DEF TurnsRecorded, Recorded
<1>4. PICK t \in Nat : t = e.prompt
  BY <1>1, <1>3, SpanTurns
<1>5. /\ Len(log) \in Nat /\ u \in Nat /\ r \in Nat /\ u < r
      /\ \A j \in u..r : log[j].turn = t
      /\ \A i \in 1..Len(log) : i > r /\ log[i].turn = t => log[i].kind # "assistant"
  BY <1>1, <1>3, <1>4, SpanTurns
<1>6. SaidBy(t, r) = Said(t) /\ Said(t) \in Nat
  <2>1. ASSUME NEW i \in 1..Len(log), log[i].kind = "assistant", log[i].turn = t PROVE i \in 1..r
    BY <1>5, <2>1
  <2>2. \A i \in 1..r : i \in 1..Len(log)
    BY <1>5
  <2>3. SaidAt(t, r) = SaidAt(t, Len(log))
    BY <2>1, <2>2 DEF SaidAt
  <2>. QED  BY <1>1, <2>3, SaidIsSaidBy, TypedIsNat DEF SaidBy
<1>7. PICK w : w = AtMost(r, u + MaxTurnEvents - 1)
  OBVIOUS
<1>8. e.answer = Pieces(t, SaidBy(t, w)) /\ AnswerInLog(t) = Pieces(t, Said(t))
  BY <1>3, <1>4, <1>7 DEF Spans, AnswerInLog, Pieces
<1>9. MaxTurnEvents \in Nat \ {0}
  BY StreamAssumption
<1>10. w \in 0..r
  BY <1>5, <1>7, <1>9 DEF AtMost
<1> DEFINE events == {i \in 1..Len(log) : log[i].turn = t}
<1>11. ASSUME Cardinality(events) <= MaxTurnEvents PROVE w = r
  <2>1. IsFiniteSet(events)
    <3>1. IsFiniteSet(1..Len(log)) /\ events \subseteq 1..Len(log)
      BY <1>5, FS_Interval
    <3>. QED  BY <3>1, FS_Subset
  <2>2. u..r \subseteq events
    BY <1>5
  <2>3. Cardinality(u..r) = r - u + 1
    BY <1>5, FS_Interval
  <2>4. Cardinality(u..r) <= Cardinality(events) /\ Cardinality(events) \in Nat
    BY <2>1, <2>2, FS_Subset, FS_CardinalityType
  <2>5. r - u + 1 <= MaxTurnEvents
    BY <1>5, <1>9, <1>11, <2>3, <2>4
  <2>6. ~(u + MaxTurnEvents - 1 < r)
    BY <1>5, <1>9, <2>5
  <2>. QED  BY <1>5, <1>7, <1>9, <2>6 DEF AtMost
<1>12. IsPrefix(Pieces(t, SaidBy(t, w)), Pieces(t, Said(t)))
  <2>1. SaidBy(t, w) \in Nat /\ SaidBy(t, w) <= Said(t)
    BY <1>5, <1>6, <1>10, SaidByTypes
  <2>2. PICK m \in Nat, n \in Nat : m = SaidBy(t, w) /\ n = Said(t) /\ m <= n
    BY <1>6, <2>1
  <2>3. \A i \in 1..n : Piece(t, i) \in PieceOf
    BY DEF Piece, PieceOf
  <2>4. Pieces(t, m) \in Seq(PieceOf) /\ Pieces(t, n) \in Seq(PieceOf)
    BY <2>2, <2>3 DEF Pieces
  <2>5. /\ Len(Pieces(t, m)) = m /\ Len(Pieces(t, n)) = n
        /\ \A i \in 1..m : Pieces(t, m)[i] = Pieces(t, n)[i]
    BY <2>2 DEF Pieces
  <2>. QED  BY <2>2, <2>4, <2>5, Prefix
<1>13. Cardinality(events) <= MaxTurnEvents => e.answer = AnswerInLog(t)
  BY <1>6, <1>8, <1>11
<1>14. IsPrefix(e.answer, AnswerInLog(t))
  BY <1>8, <1>12
<1>. QED  BY <1>4, <1>13, <1>14

LEMMA TurnsOnce == ASSUME TypeInv, ReadInv PROVE OneEventPerTurn
<1>1. StreamTypes /\ LogInv /\ \A e \in recorded : Recorded(e)
  BY DEF TypeInv, ReadInv, TurnsRecorded
<1>2. ASSUME NEW e \in recorded, e.endpoint \in {"message", "stream"}
      PROVE  IF e.prompt # Nobody THEN e.id = <<"cowork", e.prompt>>
             ELSE e.endpoint = "message" /\ e.id[1] = "HTTP"
  <2>1. CASE e.endpoint = "message"
    BY <1>1, <2>1 DEF Recorded
  <2>2. CASE e.endpoint = "stream"
    <3>1. /\ e.prompt # Nobody
          /\ e = [id |-> <<"cowork", e.prompt>>, endpoint |-> "stream", method |-> "TURN",
                  prompt |-> e.prompt, answer |-> e.answer, noted |-> FALSE]
      BY <1>1, <2>2 DEF Recorded
    <3>. QED  BY <3>1
  <2>. QED  BY <1>2, <2>1, <2>2
<1>3. ASSUME NEW e \in recorded, NEW f \in recorded, e.method = "TURN", f.method = "TURN", e.id = f.id
      PROVE  e = f
  <2>1. /\ e = [id |-> <<"cowork", e.prompt>>, endpoint |-> "stream", method |-> "TURN",
                prompt |-> e.prompt, answer |-> e.answer, noted |-> FALSE]
        /\ \E u, r \in 1..Len(log) : Spans(e, u, r)
    BY <1>1, <1>3 DEF Recorded
  <2>2. /\ f = [id |-> <<"cowork", f.prompt>>, endpoint |-> "stream", method |-> "TURN",
                prompt |-> f.prompt, answer |-> f.answer, noted |-> FALSE]
        /\ \E u, r \in 1..Len(log) : Spans(f, u, r)
    BY <1>1, <1>3 DEF Recorded
  <2>3. e.prompt = f.prompt
    <3>1. e.id = <<"cowork", e.prompt>> /\ f.id = <<"cowork", f.prompt>>
      BY <2>1, <2>2
    <3>2. \A x, y : <<"cowork", x>> = <<"cowork", y>> => x = y
      OBVIOUS
    <3>. QED  BY <1>3, <3>1, <3>2
  <2>4. PICK u, r \in 1..Len(log) : Spans(e, u, r)
    BY <2>1
  <2>5. PICK v, q \in 1..Len(log) : Spans(f, v, q)
    BY <2>2
  <2>6. /\ u \in Nat /\ r \in Nat /\ v \in Nat /\ q \in Nat
        /\ \A i \in 1..Len(log) : i > r /\ log[i].turn = e.prompt => log[i].kind # "result"
        /\ \A i \in 1..Len(log) : i > q /\ log[i].turn = e.prompt => log[i].kind # "result"
    <3>1. /\ u \in Nat /\ r \in Nat
          /\ \A i \in 1..Len(log) : i > r /\ log[i].turn = e.prompt => log[i].kind # "result"
      BY <1>1, <2>4, SpanTurns
    <3>2. /\ v \in Nat /\ q \in Nat
          /\ \A i \in 1..Len(log) : i > q /\ log[i].turn = f.prompt => log[i].kind # "result"
      BY <1>1, <2>5, SpanTurns
    <3>. QED  BY <2>3, <3>1, <3>2
  <2>7. /\ log[u].kind = "user" /\ log[u].turn = e.prompt /\ log[r].kind = "result" /\ log[r].turn = e.prompt
        /\ log[v].kind = "user" /\ log[v].turn = e.prompt /\ log[q].kind = "result" /\ log[q].turn = e.prompt
        /\ e.answer = Pieces(e.prompt, SaidBy(e.prompt, AtMost(r, u + MaxTurnEvents - 1)))
        /\ f.answer = Pieces(e.prompt, SaidBy(e.prompt, AtMost(q, v + MaxTurnEvents - 1)))
    BY <2>3, <2>4, <2>5 DEF Spans
  <2>8. u = v
    <3>1. ASSUME NEW i \in 1..Len(log), NEW j \in 1..Len(log), i < j,
                 log[i].turn = e.prompt, log[j].turn = e.prompt, log[j].kind = "user"
          PROVE  FALSE
      <4>1. i \in 1..j - 1
        BY <3>1
      <4>2. log[i].turn < log[j].turn /\ log[i].turn \in Nat
        BY <1>1, <3>1, <4>1, LogAt DEF LogInv, InOrder
      <4>. QED  BY <3>1, <4>2
    <3>2. ~(u < v) /\ ~(v < u)
      BY <2>7, <3>1
    <3>. QED  BY <2>6, <3>2
  <2>9. r = q
    <3>1. ~(q > r) /\ ~(r > q)
      BY <2>6, <2>7
    <3>. QED  BY <2>6, <3>1
  <2>10. e.answer = f.answer
    BY <2>7, <2>8, <2>9
  <2>. QED  BY <2>1, <2>2, <2>3, <2>10
<1>4. \A e \in recorded : e.endpoint = "message" => e.answer = <<>>
  BY <1>1 DEF Recorded
<1>. QED  BY <1>2, <1>3, <1>4 DEF OneEventPerTurn

(* A turn of a cloud session is recorded whole, when nobody types before   *)
(* the answer to what was typed before is over: whatever the channel has   *)
(* dropped, and wherever a stream is opened, fails or is closed.           *)
THEOREM TurnsAreWhole == ASSUME ~Overtaking PROVE Spec => []NoGap
<1>1. Init => TypeInv /\ ReadInv
  BY InitTypes, InitRead
<1>2. TypeInv /\ ReadInv /\ [Next]_vars => (TypeInv /\ ReadInv)'
  BY NextRead
<1>3. TypeInv /\ ReadInv => NoGap
  BY TurnsWhole
<1>. QED  BY <1>1, <1>2, <1>3, PTL DEF Spec

(* Posted and replayed any number of times, a message and its answer have  *)
(* one event id and every replay is the same; a POST brings no answer, and *)
(* one that could not be read has neither prompt nor the id of a turn.     *)
THEOREM TurnsAreOne == ASSUME ~Overtaking PROVE Spec => []OneEventPerTurn
<1>1. Init => TypeInv /\ ReadInv
  BY InitTypes, InitRead
<1>2. TypeInv /\ ReadInv /\ [Next]_vars => (TypeInv /\ ReadInv)'
  BY NextRead
<1>3. TypeInv /\ ReadInv => OneEventPerTurn
  BY TurnsOnce
<1>. QED  BY <1>1, <1>2, <1>3, PTL DEF Spec

=============================================================================
