------------------------------ MODULE Sessions -----------------------------
(***************************************************************************)
(* The sessions that interactions are grouped in: sessionFor and the       *)
(* counting after the INSERT (EventIngestionController), and the erasers   *)
(* that hide, restore and erase turns and then measure their sessions      *)
(* again (UsageEraser, DeletedPromptsController, PurgeDeleted).  No        *)
(* transaction and no lock spans two queries of either.                    *)
(*                                                                         *)
(* All events are of one device, tool and checkout.  What becomes of their *)
(* text, and of copies of an erased event, is in Retention.                *)
(***************************************************************************)
EXTENDS Integers, FiniteSets, FiniteSetsExt

CONSTANTS
  Events,          \* [n, at, human]: when it happened, and whether a person typed it
  IdleWindow,      \* session_idle_minutes
  Workers, Erasers,
  MaxStored,       \* bound: events that arrive
  MaxSessions,     \* bound: sessions, counted by their ids
  MaxChanges       \* bound: deletions, restorations, erasures, workers that die

ASSUME SessionsAssumption ==
  /\ \A e \in Events : e.at \in Nat /\ e.human \in BOOLEAN
  /\ {IdleWindow, MaxStored, MaxSessions, MaxChanges} \subseteq Nat
  /\ IsFiniteSet(Events) /\ IsFiniteSet(Workers)

VARIABLES
  row,        \* event -> its row
  session,    \* id -> the session
  worker,     \* a worker that stores one event
  eraser,     \* somebody, or a command, that deletes or restores
  changes,
  orderly,    \* history: one event at a time, in order, and nothing deleted
  upset       \* history: sessions that a race or a death may leave mismeasured

vars == <<row, session, worker, eraser, changes, orderly, upset>>

Nowhere == 0
Ids == 1..MaxSessions
NoSession == [state |-> "none", start |-> 0, end |-> 0, count |-> 0]
FreeWorker == [pc |-> "free"]
FreeEraser == [pc |-> "free"]

Init ==
  /\ row = [e \in Events |-> [state |-> "none", session |-> Nowhere, deletion |-> 0]]
  /\ session = [s \in Ids |-> NoSession]
  /\ worker = [w \in Workers |-> FreeWorker]
  /\ eraser = [x \in Erasers |-> FreeEraser]
  /\ changes = 0 /\ orderly = TRUE /\ upset = {}

In(state, s) == {e \in Events : row[e].state = state /\ row[e].session = s}
Visible(s) == In("live", s)
Stored == {e \in Events : row[e].state \in {"live", "trashed"}}

At(w, pc) == worker[w].pc = pc
Works(x, pcs) == eraser[x].pc \in pcs

(* Erasers whose reading of a session a change overtakes.                  *)
Overtaken(s, pcs) ==
  eraser' = [x \in Erasers |->
    IF Works(x, pcs) /\ eraser[x].now = s
    THEN [eraser[x] EXCEPT !.clean = FALSE] ELSE eraser[x]]

-----------------------------------------------------------------------------
(* storeEvent.                                                             *)

Arrived ==
  {e \in Events : \/ row[e].state # "none"
                  \/ \E w \in Workers : ~At(w, "free") /\ worker[w].event = e}

(* The event is looked up and its session is looked for in one step: that  *)
(* it is still unknown the INSERT checks again.                            *)
Take(w, e, s) ==
  /\ At(w, "free") /\ row[e].state = "none"
  /\ Cardinality(Arrived \cup {e}) <= MaxStored
  /\ worker' = [worker EXCEPT ![w] =
       [pc |-> IF s = Nowhere THEN "create" ELSE "insert", event |-> e, session |-> s,
        saw |-> IF s = Nowhere THEN e.at ELSE session[s].end]]
  /\ orderly' = (orderly /\ \A v \in Workers : At(v, "free") /\ \A f \in Stored : f.at <= e.at)
  /\ UNCHANGED <<row, session, eraser, changes, upset>>

Latest(found) ==
  IF found = {} THEN {Nowhere}
  ELSE {s \in found : \A r \in found : session[r].end <= session[s].end}

(* Slip: the event's own time is not looked at.                            *)
SessionForLatest(e) == Latest({s \in Ids : session[s].state = "shown"})

(* sessionFor: the session that ended last, if that was not too long ago.  *)
SessionFor(e) ==
  Latest({s \in Ids : session[s].state = "shown" /\ session[s].end >= e.at - IdleWindow})

Create(w) ==
  /\ At(w, "create")
  /\ \E s \in Ids :
        /\ session[s].state = "none" /\ \A i \in 1..s - 1 : session[i].state # "none"
        /\ session' = [session EXCEPT ![s] =
             [state |-> "shown", start |-> worker[w].event.at,
              end |-> worker[w].event.at, count |-> 0]]
        /\ worker' = [worker EXCEPT ![w].pc = "insert", ![w].session = s]
  /\ UNCHANGED <<row, eraser, changes, orderly, upset>>

(* A session that was made for a row which is not stored stays empty.      *)
LeftEmpty(s) == IF s # Nowhere /\ In("live", s) = {} THEN {s} ELSE {}

(* Slip: no foreign key.                                                   *)
StorableAnywhere(e, s) == row[e].state = "none"

(* The INSERT raises when another worker was first, or the session is gone. *)
Storable(e, s) == row[e].state = "none" /\ session[s].state # "gone"

Insert(w) ==
  LET e == worker[w].event
      s == worker[w].session
  IN /\ At(w, "insert")
     /\ IF Storable(e, s)
        THEN /\ row' = [row EXCEPT ![e].state = "live", ![e].session = s]
             /\ worker' = [worker EXCEPT ![w].pc = "count"]
             /\ upset' = upset \cup (IF session[s].state = "hidden" THEN {s} ELSE {})
             /\ Overtaken(s, {"act"})
        ELSE /\ worker' = [worker EXCEPT ![w] = FreeWorker]
             /\ upset' = upset \cup LeftEmpty(s)
             /\ UNCHANGED <<row, eraser>>
     /\ UNCHANGED <<session, changes, orderly>>

(* increment: in the database, whatever the count is there; the soft-      *)
(* delete scope keeps it away from a hidden session, and not save().       *)
Count(w) ==
  /\ At(w, "count")
  /\ session' = [session EXCEPT ![worker[w].session].count =
       IF session[worker[w].session].state = "shown" THEN @ + 1 ELSE @]
  /\ worker' = [worker EXCEPT ![w].pc = "end"]
  /\ Overtaken(worker[w].session, {"measure", "act"})
  /\ UNCHANGED <<row, changes, orderly, upset>>

(* save() writes what differs from the session as it was read.             *)
End(w) ==
  /\ At(w, "end")
  /\ LET s == worker[w].session
         at == worker[w].event.at
     IN session' = [session EXCEPT ![s].end =
          IF session[s].state = "gone" \/ worker[w].saw = at THEN @ ELSE at]
  /\ worker' = [worker EXCEPT ![w] = FreeWorker]
  /\ UNCHANGED <<row, eraser, changes, orderly, upset>>

WorkerDies(w) ==
  /\ ~At(w, "free") /\ changes < MaxChanges /\ changes' = changes + 1
  /\ worker' = [worker EXCEPT ![w] = FreeWorker]
  /\ upset' = upset \cup (IF At(w, "count") THEN {worker[w].session}
                          ELSE LeftEmpty(worker[w].session))
  /\ orderly' = FALSE
  /\ UNCHANGED <<row, session, eraser>>

-----------------------------------------------------------------------------
(* UsageEraser.                                                            *)

Prompts(s) == {e \in Visible(s) : e.human}

(* turnContaining and turn: the prompt a row belongs to, and what follows  *)
(* it up to the next one; a row in no session, or before any prompt,       *)
(* stands alone.                                                           *)
Turn(e) ==
  LET s == row[e].session
      before == {p \in Prompts(s) : p.at <= e.at}
  IN IF s = Nowhere \/ before = {} THEN {e}
     ELSE LET prompt == CHOOSE p \in before : \A q \in before : q.at <= p.at
              next == {q \in Prompts(s) : q.at > prompt.at}
          IN {prompt} \cup {f \in Visible(s) : /\ f.at > prompt.at
                                               /\ \A q \in next : f.at < q.at}

(* The rows and the sessions they are in are read in one step.             *)
Starts(x, pc, ids) ==
  /\ eraser[x].pc = "free" /\ changes < MaxChanges /\ changes' = changes + 1
  /\ eraser' = [eraser EXCEPT ![x] =
       [pc |-> pc, ids |-> ids, permanent |-> pc = "erase", deletion |-> changes + 1,
        todo |-> {row[e].session : e \in ids} \ {Nowhere}, now |-> Nowhere,
        saw |-> NoSession, found |-> {}, left |-> FALSE, clean |-> TRUE]]
  /\ orderly' = FALSE
  /\ UNCHANGED <<row, session, worker, upset>>

(* destroy: the turn, to Deleted prompts or for good.                      *)
DeleteTurn(x, e) ==
  /\ row[e].state = "live"
  /\ Starts(x, "trash", Turn(e)) \/ Starts(x, "erase", Turn(e))

InDeletion(d) == {e \in Events : row[e].state = "trashed" /\ row[e].deletion = d}

(* DeletedPromptsController::destroy and aiul:purge-deleted read the ids;  *)
(* restore goes by the deletion.                                           *)
EraseDeletion(x, d) ==
  InDeletion(d) # {} /\ Starts(x, "erase", InDeletion(d))
RestoreDeletion(x, d) ==
  InDeletion(d) # {} /\ Starts(x, "restore", InDeletion(d))

(* Ready for the next of its sessions, or done.                            *)
Onwards(me) ==
  IF me.todo = {} THEN FreeEraser
  ELSE [me EXCEPT !.pc = "tidy", !.ids = {}, !.now = Nowhere, !.saw = NoSession,
                  !.found = {}, !.left = FALSE, !.clean = TRUE]

(* One UPDATE or DELETE of rows.                                           *)
Changes(x, rows, new) ==
  /\ row' = [e \in Events |-> IF e \in rows THEN new[e] ELSE row[e]]
  /\ LET touched == {row[e].session : e \in rows}
     IN eraser' = [y \in Erasers |->
          IF y = x THEN Onwards(eraser[x])
          ELSE IF Works(y, {"act"}) /\ eraser[y].now \in touched
               THEN [eraser[y] EXCEPT !.clean = FALSE]
          ELSE eraser[y]]
  /\ UNCHANGED <<session, worker, changes, orderly, upset>>

(* trash: those still visible.                                             *)
Trash(x) ==
  /\ Works(x, {"trash"})
  /\ Changes(x, {e \in eraser[x].ids : row[e].state = "live"},
             [e \in Events |-> [row[e] EXCEPT !.state = "trashed", !.deletion = eraser[x].deletion]])

(* restore: those still in the deletion.                                   *)
Restore(x) ==
  /\ Works(x, {"restore"})
  /\ Changes(x, {e \in eraser[x].ids : row[e].state = "trashed"},
             [e \in Events |-> [row[e] EXCEPT !.state = "live", !.deletion = 0]])

(* delete: trashed or not.                                                 *)
Erase(x) ==
  /\ Works(x, {"erase"})
  /\ Changes(x, eraser[x].ids \cap Stored,
             [e \in Events |-> [row[e] EXCEPT !.state = "erased", !.session = Nowhere]])

(* tidySessions: the next session, if it is still there ...                *)
Tidy(x) ==
  /\ Works(x, {"tidy"})
  /\ \E s \in eraser[x].todo :
       LET me == [eraser[x] EXCEPT !.todo = @ \ {s}]
       IN eraser' = [eraser EXCEPT ![x] =
            IF session[s].state = "gone" THEN Onwards(me)
            ELSE [me EXCEPT !.pc = "measure", !.now = s, !.saw = session[s]]]
  /\ UNCHANGED <<row, session, worker, changes, orderly, upset>>

(* ... its rows ...                                                        *)
Measure(x) ==
  /\ Works(x, {"measure"})
  /\ LET s == eraser[x].now
     IN eraser' = [eraser EXCEPT ![x] =
          [eraser[x] EXCEPT !.pc = "act", !.found = Visible(s), !.left = (In("trashed", s) # {}),
             !.clean = @ /\ \A w \in Workers : ~(At(w, "count") /\ worker[w].session = s)]]
  /\ UNCHANGED <<row, session, worker, changes, orderly, upset>>

(* Slip: a session that has rows again stays hidden.                       *)
MeasuredHidden(old, saw, found) ==
  [old EXCEPT !.count = Cardinality(found), !.start = Min({e.at : e \in found}),
              !.end = Max({e.at : e \in found})]

(* Again only what differs from the session as it was read.                *)
Measured(old, saw, found) ==
  LET count == Cardinality(found)
      start == Min({e.at : e \in found})
      end   == Max({e.at : e \in found})
  IN [state |-> IF saw.state = "hidden" THEN "shown" ELSE old.state,
      count |-> IF saw.count = count THEN old.count ELSE count,
      start |-> IF saw.start = start THEN old.start ELSE start,
      end   |-> IF saw.end = end THEN old.end ELSE end]

(* ... and what they make of it.  Rows that remain lose a session that is  *)
(* erased (nullOnDelete).                                                  *)
Act(x) ==
  LET me   == eraser[x]
      s    == me.now
      gone == me.found = {} /\ me.permanent /\ ~me.left
  IN /\ Works(x, {"act"})
     /\ session' = [session EXCEPT ![s] =
          IF @.state = "gone" THEN @
          ELSE IF gone THEN [NoSession EXCEPT !.state = "gone"]
          ELSE IF me.found = {} THEN [@ EXCEPT !.state = "hidden"]
          ELSE Measured(@, me.saw, me.found)]
     /\ row' = [e \in Events |->
          IF gone /\ row[e].session = s THEN [row[e] EXCEPT !.session = Nowhere] ELSE row[e]]
     /\ eraser' = [y \in Erasers |->
          IF y = x THEN Onwards(me)
          ELSE IF Works(y, {"measure", "act"}) /\ eraser[y].now = s
               THEN [eraser[y] EXCEPT !.clean = FALSE] ELSE eraser[y]]
     /\ upset' = IF me.clean THEN upset \ {s} ELSE upset \cup {s}
     /\ UNCHANGED <<worker, changes, orderly>>

Next ==
  \/ \E w \in Workers :
       \/ \E e \in Events : \E s \in SessionFor(e) : Take(w, e, s)
       \/ Create(w) \/ Insert(w) \/ Count(w) \/ End(w) \/ WorkerDies(w)
  \/ \E x \in Erasers :
       \/ \E e \in Events : DeleteTurn(x, e)
       \/ \E d \in 1..changes : EraseDeletion(x, d) \/ RestoreDeletion(x, d)
       \/ Trash(x) \/ Restore(x) \/ Erase(x)
       \/ Tidy(x) \/ Measure(x) \/ Act(x)

Spec == Init /\ [][Next]_vars

-----------------------------------------------------------------------------

SessionsTypeOK ==
  /\ \A e \in Events :
       /\ row[e].state \in {"none", "live", "trashed", "erased"}
       /\ row[e].session \in Ids \cup {Nowhere} /\ row[e].deletion \in 0..MaxChanges
       /\ row[e].session # Nowhere => session[row[e].session].state \in {"shown", "hidden"}
  /\ \A s \in Ids : session[s].state \in {"none", "shown", "hidden", "gone"}
  /\ upset \subseteq Ids

Busy(s) ==
  \/ \E w \in Workers : ~At(w, "free") /\ worker[w].session = s
  \/ \E x \in Erasers : /\ Works(x, {"tidy", "measure", "act"})
                        /\ s \in eraser[x].todo \cup {eraser[x].now}

(* When nobody is at work on a session its count is the number of its      *)
(* visible interactions, and it is hidden when it has none, whatever was   *)
(* stored, hidden, restored and erased before, also at the same time.  The *)
(* exceptions are sessions whose rows or count changed between the reading *)
(* and the writing of a tidySessions, or whose worker died; the next       *)
(* tidySessions that is left alone puts them right.                        *)
CountsAgree ==
  \A s \in Ids : session[s].state \in {"shown", "hidden"} /\ s \notin upset /\ ~Busy(s) =>
    /\ session[s].state = "shown" => session[s].count = Cardinality(Visible(s))
    /\ session[s].state = "hidden" <=> Visible(s) = {}

(* "A session is one continuous stretch of work ... with no gap longer     *)
(* than the idle window" (EventIngestionController.php:220-224), and       *)
(* neither are two of them one stretch, as long as the device's events     *)
(* arrive one at a time and in order and none is deleted.                  *)
Gap(e, f) ==
  \E a, b \in Stored :
    /\ e.at <= a.at /\ a.at + IdleWindow < b.at /\ b.at <= f.at
    /\ \A c \in Stored : c.at <= a.at \/ c.at >= b.at
OneStretch ==
  orderly /\ (\A w \in Workers : At(w, "free")) =>
    \A e, f \in Stored : e.at <= f.at => (row[e].session = row[f].session <=> ~Gap(e, f))

=============================================================================
