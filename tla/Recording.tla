----------------------------- MODULE Recording -----------------------------
(***************************************************************************)
(* What becomes of one observed exchange: Proxy.record with the parser     *)
(* that claims it (agent/internal/proxy/event.go, agent/internal/parsers). *)
(*                                                                         *)
(* A text is told apart by the turn it belongs to and its place in it, so  *)
(* an answer is a sequence of pieces [turn, n, text]; text is FALSE when   *)
(* the piece is not what was sent.  A body is as long as its copy.         *)
(***************************************************************************)
EXTENDS Integers, Sequences, FiniteSets, SequencesExt

CONSTANTS
  RequestCap,     \* maxRequestCopyBytes
  ResponseCap     \* maxResponseCopyBytes

ASSUME CapAssumption == RequestCap \in Nat \ {0} /\ ResponseCap \in Nat \ {0}

VARIABLES
  ends,           \* the ends of the connection that are still there
  recorded        \* what the sink was given

Sides == {"client", "upstream"}

(* Where a request goes: a conversation a parser reads, the messages and   *)
(* the event stream of a cloud session, a WebSocket, anything else.        *)
Endpoints == {"conversation", "message", "stream", "socket", "other"}
HasParser(endpoint) == endpoint # "other"

Nobody == 0       \* the prompt of an event that has none

(* The turn's prompt, when the copied request can be read whole: a body in *)
(* an unknown encoding or cut off at the cap is no JSON.                   *)
Readable(in) == in.readable /\ in.size <= RequestCap
Prompt(in) == IF Readable(in) THEN in.turn ELSE Nobody

(* A request that cannot be read costs the answer too, and the response to *)
(* a posted message is no answer.                                          *)
Answer(in) == IF Readable(in) /\ in.endpoint # "message" THEN in.answer ELSE <<>>

(* Slip: a stream is recorded when it closes, like any exchange.           *)
SkipsNothing(in) == FALSE

(* Of a cloud session only a person's message and a finished turn are      *)
(* interactions; the stream itself, reads of it and what the app posts     *)
(* without a typed text are not.  A posted body that cannot be read is     *)
(* recorded all the same, for what is known of it without its text.        *)
Skips(in) ==
  \/ in.endpoint = "stream" /\ in.method # "TURN"
  \/ in.endpoint = "message" /\ Readable(in) /\ in.turn = Nobody

(* The message and its turn share one id; every other event, an unreadable *)
(* message included, has its own.                                          *)
EventId(in) ==
  IF in.endpoint \in {"message", "stream"} /\ Prompt(in) # Nobody
  THEN <<"cowork", Prompt(in)>> ELSE <<in.method, in.key>>

(* Slip: a copy is as long as the cap and never longer.                    *)
NotedBeyond(in) == in.copied > RequestCap

(* A copy that reached the cap is noted as incomplete in the stored text.  *)
IsNoted(in) == in.copied >= RequestCap

Event(in) ==
  [id |-> EventId(in), endpoint |-> in.endpoint, method |-> in.method,
   prompt |-> Prompt(in), answer |-> Answer(in), noted |-> IsNoted(in)]

(* record: the events one interaction adds.                                *)
Events(in) == IF ~HasParser(in.endpoint) \/ Skips(in) THEN {} ELSE {Event(in)}

Piece(turn, n) == [turn |-> turn, n |-> n, text |-> TRUE]

=============================================================================
