------------------------------- MODULE Events -------------------------------
(***************************************************************************)
(* What the agent records and the backend stores, reduced to what the      *)
(* delivery and retention properties tell apart.                           *)
(*                                                                         *)
(* The unit on the wire is a COPY of an event.  Most events have one copy. *)
(* A Claude desktop cloud message has two under one event id: the prompt,  *)
(* recorded when it is posted, and the finished turn (prompt and answer),  *)
(* recorded from the session's event stream, which also replays old turns  *)
(* whenever it reconnects (claude_cowork.go:27-31).                        *)
(***************************************************************************)

CONSTANTS
  Ids,         \* event ids
  Recordable   \* the copies the proxy may record in this instance

(***************************************************************************)
(* What storeEvent can make of a copy (EventIngestionController.php:85-108 *)
(* against the column widths of the ai_interactions migration):            *)
(*   "fits"      the validator passes and so does the INSERT               *)
(*   "invalid"   the validator fails                                       *)
(*   "oversize"  the validator passes and PostgreSQL refuses the row: path *)
(*               may have 2048 characters, and its column holds 255        *)
(***************************************************************************)
Fate == {"fits", "invalid", "oversize"}

Copy == [id : Ids, answer : BOOLEAN, fate : Fate]

ASSUME EventsAssumption == Recordable \subseteq Copy
=============================================================================
