--------------------------- MODULE SessionStream ---------------------------
(***************************************************************************)
(* The event stream of a cloud session: the copy that streamTurns takes    *)
(* beside the client (agent/internal/proxy/cowork_stream.go) and the       *)
(* splitter that cuts it into turns (CoworkTurns in                        *)
(* agent/internal/parsers/claude_cowork.go).                               *)
(*                                                                         *)
(* The session has a log.  A connection to its stream replays the log from *)
(* its start and then follows it; what happens in the session before the   *)
(* stream has caught up is not told apart from what happens after.  Pieces *)
(* of text that the assistant's event repeats whole are left out: the      *)
(* splitter ignores them.                                                  *)
(***************************************************************************)
EXTENDS Recording

CONSTANTS
  Backlog,         \* streamTurnsBacklog, in events
  MaxTurnEvents,   \* the splitter keeps this many events of a turn
  MaxLog,          \* bound: the events of the session
  MaxPrompts,      \* bound: the messages its person types
  MaxRequests,     \* bound: requests on the connection
  Overtaking       \* whether an answer goes on after the next message

ASSUME StreamAssumption ==
  /\ {Backlog, MaxLog, MaxPrompts, MaxRequests} \subseteq Nat
  /\ MaxTurnEvents \in Nat \ {0} /\ Overtaking \in BOOLEAN

VARIABLES
  log,       \* the session's events
  streams    \* streamTurns and its decoder, per request of the connection

streamVars == <<log, streams>>

Kinds == {"user", "context", "assistant", "result"}
SessionEvent(kind, t, n) == [kind |-> kind, turn |-> t, n |-> n]
Of(kind, t) == {i \in 1..Len(log) : log[i].kind = kind /\ log[i].turn = t}

Typed == Cardinality({i \in 1..Len(log) : log[i].kind = "user"})
Said(t) == Cardinality(Of("assistant", t))

(* The result that ends an answer comes after something was said; one that *)
(* comes before is a queued message's and ends nothing.                    *)
Ended(t) ==
  \E i, j \in 1..Len(log) :
    i < j /\ log[i] = SessionEvent("assistant", t, 1) /\ log[j].kind = "result" /\ log[j].turn = t

NoStream ==
  [channel |-> <<>>, broken |-> FALSE, closed |-> FALSE, decoder |-> "off",
   turn |-> <<>>, sawAssistant |-> FALSE]

StreamInit ==
  /\ log = <<>>
  /\ streams = [k \in 1..MaxRequests |-> NoStream]

-----------------------------------------------------------------------------
(* The session.                                                            *)

Logs(kind, t, n) ==
  /\ Len(log) < MaxLog
  /\ log' = Append(log, SessionEvent(kind, t, n))
  /\ UNCHANGED <<streams, ends, recorded>>

PersonTypes == Typed < MaxPrompts /\ Logs("user", Typed + 1, 1)

(* Bound: once in a turn.                                                  *)
AppAddsContext == Of("context", Typed) = {} /\ Logs("context", Typed, 1)

ModelAnswers(t) ==
  /\ t <= Typed /\ ~Ended(t) /\ (t = Typed \/ Overtaking)
  /\ \/ Said(t) < 2 /\ Logs("assistant", t, Said(t) + 1)
     \/ (Said(t) > 0 \/ Of("result", t) = {}) /\ Logs("result", t, 1)

-----------------------------------------------------------------------------
(* The copy.                                                               *)

(* startStreamTurns: a body that cannot be decoded is only drained.        *)
Opened(readable) ==
  [NoStream EXCEPT !.decoder = IF readable THEN "decoding" ELSE "draining"]

(* Slip: a chunk that finds no room is passed over.                        *)
FedWithAGap(s, e) ==
  IF Len(s.channel) < Backlog THEN [s EXCEPT !.channel = Append(@, e)] ELSE s

(* Slip: giving up leaves the channel open, and its decoder waiting.       *)
FedUnclosed(s, e) ==
  IF s.broken THEN s
  ELSE IF Len(s.channel) < Backlog THEN [s EXCEPT !.channel = Append(@, e)]
  ELSE [s EXCEPT !.broken = TRUE]

(* feed: hand over one chunk the client has, or give up for good.          *)
Fed(s, e) ==
  IF s.broken THEN s
  ELSE IF Len(s.channel) < Backlog THEN [s EXCEPT !.channel = Append(@, e)]
  ELSE [s EXCEPT !.broken = TRUE, !.closed = TRUE]

(* Slip: a message typed before the answer ended joins the turn.           *)
AddedMerging(s, e) ==
  IF s.turn = <<>> /\ e.kind # "user" THEN s
  ELSE [s EXCEPT !.turn = Append(@, e), !.sawAssistant = @ \/ e.kind = "assistant"]

(* CoworkTurns.Add, but for handing the turn over: a message the person    *)
(* typed starts over, context and results before any answer belong to it.  *)
Added(s, e) ==
  IF e.kind = "user" THEN [s EXCEPT !.turn = <<e>>, !.sawAssistant = FALSE]
  ELSE IF s.turn = <<>> THEN s
  ELSE [s EXCEPT !.turn = IF Len(@) < MaxTurnEvents THEN Append(@, e) ELSE @,
                 !.sawAssistant = @ \/ e.kind = "assistant"]

(* Slip: the first result ends the turn.                                   *)
EndsTurnAtOnce(s, e) == e.kind = "result" /\ s.turn # <<>>

EndsTurn(s, e) == e.kind = "result" /\ s.turn # <<>> /\ s.sawAssistant

(* What the parser reads as the answer: the assistant's events, in order.  *)
AnswerOf(events) ==
  LET upTo[i \in 0..Len(events)] ==
        IF i = 0 THEN <<>>
        ELSE IF events[i].kind = "assistant"
             THEN Append(upTo[i - 1], Piece(events[i].turn, events[i].n))
             ELSE upTo[i - 1]
  IN upTo[Len(events)]

(* recordStreamTurn: the turn as an exchange of its own.                   *)
TurnExchange(k, turn) ==
  [endpoint |-> "stream", method |-> "TURN", key |-> k, turn |-> turn[1].turn,
   size |-> 0, copied |-> 0, readable |-> TRUE, answer |-> AnswerOf(turn)]

(* readStreamTurns takes the next event.                                   *)
Decode(k) ==
  /\ streams[k].decoder = "decoding" /\ streams[k].channel # <<>>
  /\ LET e    == Head(streams[k].channel)
         took == [streams[k] EXCEPT !.channel = Tail(@)]
         s    == Added(took, e)
     IN IF EndsTurn(took, e)
        THEN /\ recorded' = recorded \cup Events(TurnExchange(k, s.turn))
             /\ streams' = [streams EXCEPT ![k] = [s EXCEPT !.turn = <<>>, !.sawAssistant = FALSE]]
        ELSE streams' = [streams EXCEPT ![k] = s] /\ UNCHANGED recorded
  /\ UNCHANGED <<log, ends>>

(* A chunk cannot be decoded: the rest is drained, so that feed finds room.*)
DecoderFails(k) ==
  /\ streams[k].decoder = "decoding" /\ streams[k].channel # <<>>
  /\ streams' = [streams EXCEPT ![k].decoder = "draining", ![k].turn = <<>>,
                                ![k].sawAssistant = FALSE]
  /\ UNCHANGED <<log, ends, recorded>>

Drain(k) ==
  /\ streams[k].decoder = "draining" /\ streams[k].channel # <<>>
  /\ streams' = [streams EXCEPT ![k].channel = Tail(@)]
  /\ UNCHANGED <<log, ends, recorded>>

DecoderEnds(k) ==
  /\ streams[k].decoder \in {"decoding", "draining"}
  /\ streams[k].channel = <<>> /\ streams[k].closed
  /\ streams' = [streams EXCEPT ![k].decoder = "ended", ![k].turn = <<>>,
                                ![k].sawAssistant = FALSE]
  /\ UNCHANGED <<log, ends, recorded>>

SessionGoesOn ==
  PersonTypes \/ AppAddsContext \/ \E t \in 1..MaxPrompts : ModelAnswers(t)

DecoderNext ==
  \E k \in 1..MaxRequests : Decode(k) \/ DecoderFails(k) \/ Drain(k) \/ DecoderEnds(k)

=============================================================================
