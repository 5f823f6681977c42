----------------------------- MODULE Ingestion -----------------------------
(***************************************************************************)
(* POST /api/aiul/events (backend/app/Http/Controllers/Api/                *)
(* EventIngestionController.php) as its PHP workers run it: no transaction *)
(* spans an event, so the lookup, the object-store writes, the INSERT and  *)
(* the session bookkeeping are separate steps that other workers, and a    *)
(* crash, can fall between.                                                *)
(*                                                                         *)
(* A request is a set of items, processed in the order of their positions. *)
(* One tenant and one device.  How the session of a new row is found and   *)
(* kept up to date does not influence what is stored or accepted; here it  *)
(* is only the step between the INSERT and the acceptance.                 *)
(***************************************************************************)
EXTENDS Events, Naturals

CONSTANTS
  Workers,   \* PHP processes that can serve a request at the same time
  MaxDay     \* bound: days the model spans; an object key contains the day

ASSUME IngestionAssumption == MaxDay \in Nat \ {0}

VARIABLES
  access,    \* what the backend makes of the device's token and its person
  rows,      \* ai_interactions, by event id
  bodies,    \* keys in the object store
  today,     \* the backend's date
  wpc,       \* where each worker is
  todo,      \* the items each worker still has to process
  accepted,  \* the ids its reply will list
  held,      \* pk of the row fillAnswer works on
  putDay,    \* the day in the keys of the bodies it just wrote
  stored,    \* history: ids that ever got a row
  discarded  \* history: ids confirmed and thrown away unread

ingestionVars == <<access, rows, bodies, today, wpc, todo, accepted, held,
                   putDay, stored, discarded>>
workerVars == <<wpc, todo, accepted, held, putDay>>

NoDay == 0
Day == 0 .. MaxDay      \* NoDay in a row: there is no object of that kind
Item == [pos : Nat, copy : Copy]

(* The row of an event: absent, visible, or soft deleted; its primary key, *)
(* and the day in its prompt and answer object keys.  An absent row keeps  *)
(* the last primary key given out for the id.                              *)
Row == [state : {"absent", "live", "trashed"}, pk : Nat,
        prompt : Day, answer : Day]
NoRow == [state |-> "absent", pk |-> 0, prompt |-> NoDay, answer |-> NoDay]

(* 'unknown': no or revoked token.  'unclaimed': nobody who accepted the   *)
(* current notice is linked to the device.                                 *)
Access == {"unknown", "unclaimed", "consented"}

WorkerState == {"free", "start", "next", "put", "save", "touch",
                "fillput", "fillsave", "reply", "fail"}

Body == Ids \X {"prompt", "answer"} \X (1 .. MaxDay)

IngestionTypeOK ==
  /\ access \in Access
  /\ rows \in [Ids -> Row]
  /\ bodies \subseteq Body
  /\ today \in 1 .. MaxDay
  /\ wpc \in [Workers -> WorkerState]
  /\ todo \in [Workers -> SUBSET Item]
  /\ accepted \in [Workers -> SUBSET Ids]
  /\ held \in [Workers -> Nat]
  /\ putDay \in [Workers -> Day]
  /\ stored \subseteq Ids
  /\ discarded \subseteq Ids

IngestionInit ==
  /\ access \in Access
  /\ rows = [id \in Ids |-> NoRow]
  /\ bodies = {}
  /\ today = 1
  /\ wpc = [w \in Workers |-> "free"]
  /\ todo = [w \in Workers |-> {}]
  /\ accepted = [w \in Workers |-> {}]
  /\ held = [w \in Workers |-> 0]
  /\ putDay = [w \in Workers |-> NoDay]
  /\ stored = {} /\ discarded = {}

-----------------------------------------------------------------------------

Goto(w, pc) == wpc' = [wpc EXCEPT ![w] = pc]

(* foreach: the item the worker is processing.                             *)
First(w, i) == i \in todo[w] /\ \A j \in todo[w] : i.pos <= j.pos

Known(id) == rows[id].state # "absent"    \* withTrashed()->where(event_id)

(* Slip: the test on answer_object is turned round.                        *)
LacksAnswerReversed(copy) ==
  /\ rows[copy.id].state = "live"
  /\ rows[copy.id].answer # NoDay
  /\ copy.answer

(* fillAnswer has something to add to the row.                             *)
LacksAnswer(copy) ==
  /\ rows[copy.id].state = "live"
  /\ rows[copy.id].answer = NoDay
  /\ copy.answer

Take(w, items) ==
  /\ wpc[w] = "free"
  /\ Goto(w, "start")
  /\ todo' = [todo EXCEPT ![w] = items]
  /\ accepted' = [accepted EXCEPT ![w] = {}]
  /\ UNCHANGED <<access, rows, bodies, today, held, putDay, stored, discarded>>

(* AuthenticateDevice, then the consent check.  A device that nobody       *)
(* claimed has every event confirmed and none stored.                      *)
CheckDevice(w) ==
  LET ids == {i.copy.id : i \in todo[w]}
  IN /\ wpc[w] = "start"
     /\ Goto(w, CASE access = "unknown"   -> "fail"
                  [] access = "unclaimed" -> "reply"
                  [] OTHER                -> "next")
     /\ accepted' = IF access = "unclaimed"
                      THEN [accepted EXCEPT ![w] = ids] ELSE accepted
     /\ discarded' = IF access = "unclaimed" THEN discarded \cup ids ELSE discarded
     /\ UNCHANGED <<access, rows, bodies, today, todo, held, putDay, stored>>

(* Slip: an event that does not validate fails the batch with a 422.       *)
RejectBatch(w, i) ==
  /\ wpc[w] = "next"
  /\ First(w, i)
  /\ i.copy.fate = "invalid"
  /\ Goto(w, "fail")
  /\ UNCHANGED <<access, rows, bodies, today, todo, accepted, held, putDay, stored, discarded>>

(* The validator fails: the id is listed as rejected, never as accepted.   *)
RejectItem(w, i) ==
  /\ wpc[w] = "next"
  /\ First(w, i)
  /\ i.copy.fate = "invalid"
  /\ todo' = [todo EXCEPT ![w] = @ \ {i}]
  /\ UNCHANGED <<access, rows, bodies, today, wpc, accepted, held, putDay, stored, discarded>>

(* A row exists, soft deleted rows included, and fillAnswer returns early. *)
AcceptDuplicate(w, i) ==
  /\ wpc[w] = "next"
  /\ First(w, i)
  /\ i.copy.fate # "invalid"
  /\ Known(i.copy.id) /\ ~LacksAnswer(i.copy)
  /\ todo' = [todo EXCEPT ![w] = @ \ {i}]
  /\ accepted' = [accepted EXCEPT ![w] = @ \cup {i.copy.id}]
  /\ UNCHANGED <<access, rows, bodies, today, wpc, held, putDay, stored, discarded>>

(* A row exists without an answer and this copy brings one: the worker     *)
(* goes on with the row it has just read.                                  *)
BeginFill(w, i) ==
  /\ wpc[w] = "next"
  /\ First(w, i)
  /\ i.copy.fate # "invalid"
  /\ LacksAnswer(i.copy)
  /\ held' = [held EXCEPT ![w] = rows[i.copy.id].pk]
  /\ Goto(w, "fillput")
  /\ UNCHANGED <<access, rows, bodies, today, todo, accepted, putDay, stored, discarded>>

(* No row: sessionFor finds or creates the session.                        *)
BeginStore(w, i) ==
  /\ wpc[w] = "next"
  /\ First(w, i)
  /\ i.copy.fate # "invalid"
  /\ ~Known(i.copy.id)
  /\ Goto(w, "put")
  /\ UNCHANGED <<access, rows, bodies, today, todo, accepted, held, putDay, stored, discarded>>

(* Slip: the row is keyed by tomorrow's date, as a local clock ahead of UTC *)
(* would have it.                                                          *)
PutBodiesAhead(w, i) ==
  LET kinds == IF i.copy.answer THEN {"prompt", "answer"} ELSE {"prompt"}
  IN /\ wpc[w] = "put"
     /\ First(w, i)
     /\ bodies' = bodies \cup ({i.copy.id} \X kinds \X {today})
     /\ putDay' = [putDay EXCEPT ![w] = today + 1]
     /\ Goto(w, "save")
     /\ UNCHANGED <<access, rows, today, todo, accepted, held, stored, discarded>>

(* Both puts of storeEvent, before the row exists.  The key's day is the   *)
(* day of the put.                                                         *)
PutBodies(w, i) ==
  LET kinds == IF i.copy.answer THEN {"prompt", "answer"} ELSE {"prompt"}
  IN /\ wpc[w] = "put"
     /\ First(w, i)
     /\ bodies' = bodies \cup ({i.copy.id} \X kinds \X {today})
     /\ putDay' = [putDay EXCEPT ![w] = today]
     /\ Goto(w, "save")
     /\ UNCHANGED <<access, rows, today, todo, accepted, held, stored, discarded>>

(* Slip: updateOrCreate instead of an INSERT.                              *)
SaveUpserts(w, i) ==
  /\ wpc[w] = "save"
  /\ First(w, i)
  /\ i.copy.fate = "fits"
  /\ rows' = [rows EXCEPT ![i.copy.id] =
                [state  |-> "live",
                 pk     |-> IF @.state = "absent" THEN @.pk + 1 ELSE @.pk,
                 prompt |-> putDay[w],
                 answer |-> IF i.copy.answer THEN putDay[w] ELSE NoDay]]
  /\ stored' = stored \cup {i.copy.id}
  /\ Goto(w, "touch")
  /\ UNCHANGED <<access, bodies, today, todo, accepted, held, putDay, discarded>>

(* The INSERT.  It raises, and the request ends in a 500, when a value is  *)
(* too long for its column or another worker inserted the event first.     *)
SaveRow(w, i) ==
  /\ wpc[w] = "save"
  /\ First(w, i)
  /\ i.copy.fate = "fits" /\ ~Known(i.copy.id)
  /\ rows' = [rows EXCEPT ![i.copy.id] =
                [state  |-> "live",
                 pk     |-> @.pk + 1,
                 prompt |-> putDay[w],
                 answer |-> IF i.copy.answer THEN putDay[w] ELSE NoDay]]
  /\ stored' = stored \cup {i.copy.id}
  /\ Goto(w, "touch")
  /\ UNCHANGED <<access, bodies, today, todo, accepted, held, putDay, discarded>>

(* Slip: the exception is caught and the event counts as a duplicate.      *)
SaveSwallows(w, i) ==
  /\ wpc[w] = "save"
  /\ First(w, i)
  /\ i.copy.fate = "oversize" \/ Known(i.copy.id)
  /\ accepted' = [accepted EXCEPT ![w] = @ \cup {i.copy.id}]
  /\ todo' = [todo EXCEPT ![w] = @ \ {i}]
  /\ Goto(w, "next")
  /\ UNCHANGED <<access, rows, bodies, today, held, putDay, stored, discarded>>

SaveRaises(w, i) ==
  /\ wpc[w] = "save"
  /\ First(w, i)
  /\ i.copy.fate = "oversize" \/ Known(i.copy.id)
  /\ Goto(w, "fail")
  /\ UNCHANGED <<access, rows, bodies, today, todo, accepted, held, putDay, stored, discarded>>

(* The item is done; its id goes into the reply.                           *)
Accept(w, i) ==
  /\ accepted' = [accepted EXCEPT ![w] = @ \cup {i.copy.id}]
  /\ todo' = [todo EXCEPT ![w] = @ \ {i}]
  /\ held' = [held EXCEPT ![w] = 0]
  /\ putDay' = [putDay EXCEPT ![w] = NoDay]
  /\ Goto(w, "next")

(* The session's count and end are written after the row.                  *)
TouchSession(w, i) ==
  /\ wpc[w] = "touch"
  /\ First(w, i)
  /\ Accept(w, i)
  /\ UNCHANGED <<access, rows, bodies, today, stored, discarded>>

(* fillAnswer: the answer's text, under today's key ...                    *)
FillPut(w, i) ==
  /\ wpc[w] = "fillput"
  /\ First(w, i)
  /\ bodies' = bodies \cup {<<i.copy.id, "answer", today>>}
  /\ putDay' = [putDay EXCEPT ![w] = today]
  /\ Goto(w, "fillsave")
  /\ UNCHANGED <<access, rows, today, todo, accepted, held, stored, discarded>>

(* ... then UPDATE ... WHERE id = held: whatever became of the row since   *)
(* it was read, and without effect when that row is gone.                  *)
FillSave(w, i) ==
  /\ wpc[w] = "fillsave"
  /\ First(w, i)
  /\ rows' = IF Known(i.copy.id) /\ rows[i.copy.id].pk = held[w]
               THEN [rows EXCEPT ![i.copy.id].answer = putDay[w]] ELSE rows
  /\ Accept(w, i)
  /\ UNCHANGED <<access, bodies, today, stored, discarded>>

(* The loop is over: the reply is on its way.                              *)
FinishItems(w) ==
  /\ wpc[w] = "next"
  /\ todo[w] = {}
  /\ Goto(w, "reply")
  /\ UNCHANGED <<access, rows, bodies, today, todo, accepted, held, putDay, stored, discarded>>

(* One step of the controller for the event at hand.                       *)
ItemStep(w) ==
  \E i \in todo[w] :
    \/ RejectItem(w, i) \/ AcceptDuplicate(w, i)
    \/ BeginFill(w, i)  \/ FillPut(w, i)   \/ FillSave(w, i)
    \/ BeginStore(w, i) \/ PutBodies(w, i) \/ SaveRow(w, i)
    \/ SaveRaises(w, i) \/ TouchSession(w, i)

WorkerStep(w) == CheckDevice(w) \/ FinishItems(w) \/ ItemStep(w)

(* The process is free for another request: its reply is out, or it died.  *)
Release(w) ==
  /\ Goto(w, "free")
  /\ todo' = [todo EXCEPT ![w] = {}]
  /\ accepted' = [accepted EXCEPT ![w] = {}]
  /\ held' = [held EXCEPT ![w] = 0]
  /\ putDay' = [putDay EXCEPT ![w] = NoDay]
  /\ UNCHANGED <<access, rows, bodies, today, stored, discarded>>

(* The device is revoked or enrolled again, its person logs in, accepts a  *)
(* notice or is faced with a new one.                                      *)
ChangeAccess ==
  /\ access' \in Access \ {access}
  /\ UNCHANGED <<rows, bodies, today, wpc, todo, accepted, held, putDay, stored, discarded>>

NextDay ==
  /\ today < MaxDay
  /\ today' = today + 1
  /\ UNCHANGED <<access, rows, bodies, wpc, todo, accepted, held, putDay, stored, discarded>>
=============================================================================
