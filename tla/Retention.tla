----------------------------- MODULE Retention -----------------------------
(***************************************************************************)
(* What happens to a stored prompt afterwards: people move it to Deleted   *)
(* prompts and back, erase it for good, and two nightly commands purge old *)
(* text and old deletions, all beside the ingestion of more copies of the  *)
(* same events.  UsageEraser and PurgeBodies delete the objects first and  *)
(* change the row second; no transaction and no lock spans the two.        *)
(*                                                                         *)
(* Copies keep coming: the forwarder repeats a request whose reply it did  *)
(* not get, and the session stream replays old turns.                      *)
(***************************************************************************)
EXTENDS Ingestion

CONSTANTS
  MaxFaults,  \* bound: workers and commands that die half-way
  MaxErased   \* bound: how often a row can be erased

ASSUME RetentionAssumption == MaxFaults \in Nat /\ MaxErased \in Nat

VARIABLES
  aged,     \* ids past their tenant's retention_days (or about to be)
  eraser,   \* UsageEraser::delete at work on one row
  chunk,    \* rows as PurgeBodies read them, their text still there
  cleared,  \* the same, their objects gone, the row not yet saved
  erased,   \* history: ids whose row was erased
  strays,   \* history: objects that races and deaths may leave without a row
  faults    \* how much of MaxFaults is used up

retentionVars == <<aged, eraser, chunk, cleared, erased, strays, faults>>
vars == <<ingestionVars, retentionVars>>

NoErasure == [stage |-> "none"]

(* The id and primary key of a row, with the object keys read off it.      *)
Snapshot == [id : Ids, pk : Nat, prompt : Day, answer : Day]
Read(id) == [id |-> id, pk |-> rows[id].pk,
             prompt |-> rows[id].prompt, answer |-> rows[id].answer]

RetentionTypeOK ==
  /\ IngestionTypeOK
  /\ aged \subseteq Ids /\ erased \subseteq Ids
  /\ eraser \in {NoErasure} \cup [stage : {"chosen", "emptied"}, row : Snapshot]
  /\ chunk \subseteq Snapshot /\ cleared \subseteq Snapshot
  /\ strays \subseteq Body
  /\ faults \in 0 .. MaxFaults

Init ==
  /\ IngestionInit /\ access = "consented"
  /\ aged = {} /\ eraser = NoErasure /\ chunk = {} /\ cleared = {}
  /\ erased = {} /\ strays = {} /\ faults = 0

Present(r) == Known(r.id) /\ rows[r.id].pk = r.pk
HasText(id) == Known(id) /\ (rows[id].prompt # NoDay \/ rows[id].answer # NoDay)

(* The objects the keys of a snapshot name.                                *)
Objects(r) == {b \in Body : /\ b[1] = r.id
                            /\ b[3] = IF b[2] = "prompt" THEN r.prompt ELSE r.answer}

(* The objects a row names.                                                *)
Pointed == UNION {Objects(Read(id)) : id \in {i \in Ids : Known(i)}}

(* The objects a worker has put and is about to enter in a row.            *)
Carried(w) ==
  {b \in Body : \E i \in todo[w] :
     /\ First(w, i) /\ b[1] = i.copy.id /\ b[3] = putDay[w]
     /\ \/ wpc[w] = "save" /\ (b[2] = "prompt" \/ i.copy.answer)
        \/ wpc[w] = "fillsave" /\ b[2] = "answer"}

Fault == faults < MaxFaults /\ faults' = faults + 1

-----------------------------------------------------------------------------
(* Ingestion of one more copy, by any free worker.                         *)

Post(w, c) ==
  /\ Take(w, {[pos |-> 1, copy |-> c]})
  /\ UNCHANGED retentionVars

(* Objects that lose their row as worker w takes its next step: its own,   *)
(* when the INSERT raises or the row it fills is gone; the answer that is  *)
(* there, when another worker filled the row on another day.               *)
Dropped(w) ==
  CASE wpc[w] = "save" /\ wpc'[w] = "fail" -> Carried(w)
    [] wpc[w] = "fillsave" ->
         IF rows' = rows THEN Carried(w) ELSE Pointed \ Pointed'
    [] OTHER -> {}

(* An answer that is put, or entered in the row, while an erasure or a     *)
(* purge is under way: that has read the row and will not look again.      *)
Raced(w) ==
  IF eraser = NoErasure /\ chunk = {} /\ cleared = {} THEN {}
  ELSE CASE wpc[w] = "fillput"  -> bodies' \cap Carried(w)'
         [] wpc[w] = "fillsave" -> Carried(w)
         [] OTHER               -> {}

Serve(w) ==
  /\ WorkerStep(w)
  /\ strays' = strays \cup Dropped(w) \cup Raced(w)
  /\ UNCHANGED <<aged, eraser, chunk, cleared, erased, faults>>

Reply(w) ==
  /\ wpc[w] \in {"reply", "fail"}
  /\ Release(w)
  /\ UNCHANGED retentionVars

WorkerDies(w) ==
  /\ Fault
  /\ wpc[w] # "free"
  /\ Release(w)
  /\ strays' = strays \cup Carried(w)
  /\ UNCHANGED <<aged, eraser, chunk, cleared, erased>>

-----------------------------------------------------------------------------
(* Deleted prompts.                                                        *)

SetState(id, state) == rows' = [rows EXCEPT ![id].state = state]

(* Soft delete: one UPDATE of the rows that are visible.                   *)
Trash(id) ==
  /\ rows[id].state = "live"
  /\ SetState(id, "trashed")
  /\ UNCHANGED <<access, bodies, today, workerVars, stored, discarded, retentionVars>>

(* One UPDATE of the rows still in that deletion.                          *)
Restore(id) ==
  /\ rows[id].state = "trashed"
  /\ SetState(id, "live")
  /\ UNCHANGED <<access, bodies, today, workerVars, stored, discarded, retentionVars>>

(* Somebody, or a command, decides on a row to erase.                      *)
Choose(id) ==
  /\ eraser = NoErasure
  /\ Known(id) /\ rows[id].pk <= MaxErased
  /\ eraser' = [stage |-> "chosen", row |-> Read(id)]
  /\ UNCHANGED <<ingestionVars, aged, chunk, cleared, erased, strays, faults>>

(* Slip: the answer's object is forgotten.                                 *)
EmptyPromptOnly ==
  /\ eraser.stage = "chosen"
  /\ LET now == IF Present(eraser.row) THEN Read(eraser.row.id) ELSE eraser.row
     IN /\ bodies' = IF Present(eraser.row)
                       THEN {b \in bodies : b \notin Objects(now) \/ b[2] = "answer"} ELSE bodies
        /\ eraser' = [stage |-> "emptied", row |-> now]
  /\ UNCHANGED <<access, rows, today, workerVars, stored, discarded,
                 aged, chunk, cleared, erased, strays, faults>>

(* delete(): fetch the row, delete the objects it names ...                *)
Empty ==
  /\ eraser.stage = "chosen"
  /\ LET now == IF Present(eraser.row) THEN Read(eraser.row.id) ELSE eraser.row
     IN /\ bodies' = IF Present(eraser.row) THEN bodies \ Objects(now) ELSE bodies
        /\ eraser' = [stage |-> "emptied", row |-> now]
  /\ UNCHANGED <<access, rows, today, workerVars, stored, discarded,
                 aged, chunk, cleared, erased, strays, faults>>

(* ... and force delete the row, whatever became of it since.              *)
ForceDelete ==
  LET r == eraser.row
  IN /\ eraser.stage = "emptied"
     /\ IF Present(r)
          THEN /\ SetState(r.id, "absent")
               /\ erased' = erased \cup {r.id}
          ELSE UNCHANGED <<rows, erased>>
     /\ eraser' = NoErasure
     /\ UNCHANGED <<access, bodies, today, workerVars, stored, discarded,
                    aged, chunk, cleared, strays, faults>>

EraserDies ==
  /\ Fault
  /\ eraser # NoErasure
  /\ eraser' = NoErasure
  /\ UNCHANGED <<ingestionVars, aged, chunk, cleared, erased, strays>>

-----------------------------------------------------------------------------
(* PurgeBodies.                                                            *)

Age(id) ==
  /\ aged' = aged \cup {id}
  /\ UNCHANGED <<ingestionVars, eraser, chunk, cleared, erased, strays, faults>>

(* Slip: without withTrashed.                                              *)
PurgeReadVisible ==
  /\ chunk = {} /\ cleared = {}
  /\ chunk' = {Read(id) : id \in {i \in aged : HasText(i) /\ rows[i].state = "live"}}
  /\ chunk' # {}
  /\ UNCHANGED <<ingestionVars, aged, eraser, cleared, erased, strays, faults>>

(* chunkById: the rows past retention that still hold text, deleted        *)
(* prompts included, as they are now.                                      *)
PurgeRead ==
  /\ chunk = {} /\ cleared = {}
  /\ chunk' = {Read(id) : id \in {i \in aged : HasText(i)}}
  /\ chunk' # {}
  /\ UNCHANGED <<ingestionVars, aged, eraser, cleared, erased, strays, faults>>

(* Slip: the row is cleared although its answer's object was left.         *)
PurgePromptOnly(r) ==
  /\ r \in chunk /\ cleared = {}
  /\ bodies' = {b \in bodies : b \notin Objects(r) \/ b[2] = "answer"}
  /\ chunk' = chunk \ {r}
  /\ cleared' = {r}
  /\ UNCHANGED <<access, rows, today, workerVars, stored, discarded,
                 aged, eraser, erased, strays, faults>>

PurgeObjects(r) ==
  /\ r \in chunk /\ cleared = {}
  /\ bodies' = bodies \ Objects(r)
  /\ chunk' = chunk \ {r}
  /\ cleared' = {r}
  /\ UNCHANGED <<access, rows, today, workerVars, stored, discarded,
                 aged, eraser, erased, strays, faults>>

(* save() writes only what differs from the row as it was read: an answer  *)
(* that was null then stays as it is now.                                  *)
PurgeSave(r) ==
  /\ r \in cleared
  /\ cleared' = {}
  /\ IF Present(r)
       THEN rows' = [rows EXCEPT
              ![r.id].prompt = IF r.prompt = NoDay THEN @ ELSE NoDay,
              ![r.id].answer = IF r.answer = NoDay THEN @ ELSE NoDay]
       ELSE UNCHANGED rows
  /\ UNCHANGED <<access, bodies, today, workerVars, stored, discarded,
                 aged, eraser, chunk, erased, strays, faults>>

PurgeDies ==
  /\ Fault
  /\ chunk # {} \/ cleared # {}
  /\ chunk' = {} /\ cleared' = {}
  /\ UNCHANGED <<ingestionVars, aged, eraser, erased, strays>>

DayPasses == NextDay /\ UNCHANGED retentionVars

-----------------------------------------------------------------------------

Next ==
  \/ \E w \in Workers : \/ \E c \in Recordable : Post(w, c)
                        \/ Serve(w) \/ Reply(w) \/ WorkerDies(w)
  \/ \E id \in Ids : Trash(id) \/ Restore(id) \/ Choose(id) \/ Age(id)
  \/ Empty \/ ForceDelete \/ EraserDies
  \/ PurgeRead \/ \E r \in chunk : PurgeObjects(r)
  \/ \E r \in cleared : PurgeSave(r)
  \/ PurgeDies \/ DayPasses

Spec == Init /\ [][Next]_vars

(* The purge is scheduled every night (routes/console.php) and, once       *)
(* started, goes on.  Nothing else has to happen.                          *)
Fairness ==
  /\ WF_vars(PurgeRead)
  /\ WF_vars(\E r \in chunk : PurgeObjects(r))
  /\ WF_vars(\E r \in cleared : PurgeSave(r))

FairSpec == Spec /\ Fairness

-----------------------------------------------------------------------------

(* Every object in the store belongs to a row, or to a worker that is      *)
(* about to enter it in one; the exceptions are the races and deaths that  *)
(* strays collects.  In particular a purge or an erasure that is           *)
(* interrupted leaves a row that names missing text, never text that no    *)
(* row names (PurgeBodies.php:19-22, UsageEraser.php:24-25).               *)
TextIsAccounted ==
  bodies \subseteq Pointed \cup strays \cup UNION {Carried(w) : w \in Workers}

(* A deleted prompt comes back only when somebody restores it: no copy the *)
(* agent sends again brings it back (EventIngestionController.php:112),    *)
(* even if the worker looked before the deletion.                          *)
TrashedStaysHidden ==
  [][\A id \in Ids :
       rows[id].state = "trashed" /\ rows'[id].state = "live" => Restore(id)]_vars

(* The first copy is kept (EventIngestionController.php:193): as long as   *)
(* the row is the same one its prompt is never replaced, only purged.      *)
FirstPromptKept ==
  [][\A id \in Ids :
       Known(id) /\ Known(id)' /\ rows'[id].pk = rows[id].pk
       => rows'[id].prompt \in {rows[id].prompt, NoDay}]_vars

(* Text past retention goes, in Deleted prompts too, although copies of    *)
(* the event may still arrive and fill its answer in again.                *)
PurgeReaches == \A id \in Ids : id \in aged /\ HasText(id) ~> ~HasText(id)

(* What UsageEraser.php:18 and PurgeDeleted.php:10-11 say of a permanent   *)
(* deletion: gone.                                                         *)
ErasedForGood == [][\A id \in erased : rows'[id].state = "absent"]_vars

(* UsageEraser.php:24-25: "never text with no row to find it by".          *)
NoTextWithoutRow ==
  \A b \in bodies : Known(b[1]) \/ \E w \in Workers : b \in Carried(w)
=============================================================================
