-------------------------- MODULE Retention_proofs --------------------------
(***************************************************************************)
(* Proofs about Retention, for any events, workers, days, deaths and       *)
(* erasures: the state stays well typed, every object in the store is      *)
(* accounted for, a deleted prompt comes back only by being restored, and  *)
(* the prompt of a row is never replaced.                                  *)
(***************************************************************************)
EXTENDS Retention, TLAPS

-----------------------------------------------------------------------------
(* Ingestion: types, and what a step of a worker leaves alone.             *)
LEMMA IngestionInitTypes == IngestionInit => IngestionTypeOK
BY IngestionAssumption
   DEF IngestionInit, IngestionTypeOK, NoRow, Row, Day, NoDay, WorkerState

(* A worker takes a request, or is done with one.                          *)
LEMMA RequestTypes ==
  ASSUME IngestionTypeOK, NEW w \in Workers,
         \/ Release(w)
         \/ \E items \in SUBSET Item : Take(w, items)
  PROVE  IngestionTypeOK'
<1>1. CASE Release(w)
  BY <1>1, IngestionAssumption DEF Release, Goto, IngestionTypeOK, WorkerState, Day, NoDay
<1>2. ASSUME NEW items \in SUBSET Item, Take(w, items) PROVE IngestionTypeOK'
  BY <1>2 DEF Take, Goto, IngestionTypeOK, WorkerState
<1>. QED  BY <1>1, <1>2

LEMMA RowTypes ==
  ASSUME IngestionTypeOK, NEW id \in Ids
  PROVE  /\ rows[id].state \in {"absent", "live", "trashed"}
         /\ rows[id].pk \in Nat
         /\ rows[id].prompt \in Day /\ rows[id].answer \in Day
BY DEF IngestionTypeOK, Row

(* What accepting an item does to the worker's variables.                  *)
LEMMA AcceptTypes ==
  ASSUME IngestionTypeOK, NEW w \in Workers, NEW i \in todo[w], Accept(w, i)
  PROVE  /\ wpc' \in [Workers -> WorkerState]
         /\ todo' \in [Workers -> SUBSET Item]
         /\ accepted' \in [Workers -> SUBSET Ids]
         /\ held' \in [Workers -> Nat]
         /\ putDay' \in [Workers -> Day]
<1>1. i.copy.id \in Ids
  BY DEF IngestionTypeOK, Item, Copy
<1>. QED  BY <1>1, IngestionAssumption DEF Accept, Goto, IngestionTypeOK, WorkerState, Day, NoDay

LEMMA ItemTypes ==
  ASSUME IngestionTypeOK, NEW w \in Workers, ItemStep(w)
  PROVE  IngestionTypeOK'
<1>1. PICK i \in todo[w] :
        \/ RejectItem(w, i) \/ AcceptDuplicate(w, i)
        \/ BeginFill(w, i)  \/ FillPut(w, i)   \/ FillSave(w, i)
        \/ BeginStore(w, i) \/ PutBodies(w, i) \/ SaveRow(w, i)
        \/ SaveRaises(w, i) \/ TouchSession(w, i)
  BY DEF ItemStep
<1>2. i.copy \in Copy /\ i.copy.id \in Ids
  BY DEF IngestionTypeOK, Item, Copy
<1>3. CASE RejectItem(w, i)
  BY <1>3 DEF RejectItem, IngestionTypeOK
<1>4. CASE AcceptDuplicate(w, i)
  BY <1>2, <1>4 DEF AcceptDuplicate, IngestionTypeOK
<1>5. CASE BeginFill(w, i)
  BY <1>2, <1>5, RowTypes DEF BeginFill, Goto, IngestionTypeOK, WorkerState
<1>6. CASE FillPut(w, i)
  BY <1>2, <1>6 DEF FillPut, Goto, IngestionTypeOK, WorkerState, Body, Day
<1>7. CASE FillSave(w, i)
  <2>1. rows' \in [Ids -> Row]
    BY <1>2, <1>7 DEF FillSave, IngestionTypeOK, Row, Day
  <2>. QED  BY <1>7, <2>1, AcceptTypes DEF FillSave, IngestionTypeOK
<1>8. CASE BeginStore(w, i)
  BY <1>8 DEF BeginStore, Goto, IngestionTypeOK, WorkerState
<1>9. CASE PutBodies(w, i)
  <2>1. bodies' \subseteq Body
    BY <1>2, <1>9 DEF PutBodies, IngestionTypeOK, Body
  <2>. QED  BY <1>9, <2>1 DEF PutBodies, Goto, IngestionTypeOK, WorkerState, Day
<1>10. CASE SaveRow(w, i)
  <2>1. rows' \in [Ids -> Row]
    <3>1. rows[i.copy.id].pk + 1 \in Nat
      BY <1>2, RowTypes
    <3>2. putDay[w] \in Day /\ NoDay \in Day
      BY IngestionAssumption DEF IngestionTypeOK, Day, NoDay
    <3>. QED  BY <1>2, <1>10, <3>1, <3>2 DEF SaveRow, IngestionTypeOK, Row
  <2>. QED  BY <1>2, <1>10, <2>1 DEF SaveRow, Goto, IngestionTypeOK, WorkerState
<1>11. CASE SaveRaises(w, i)
  BY <1>11 DEF SaveRaises, Goto, IngestionTypeOK, WorkerState
<1>12. CASE TouchSession(w, i)
  BY <1>12, AcceptTypes DEF TouchSession, IngestionTypeOK
<1>. QED  BY <1>1, <1>3, <1>4, <1>5, <1>6, <1>7, <1>8, <1>9, <1>10, <1>11, <1>12

LEMMA WorkerTypes ==
  ASSUME IngestionTypeOK, NEW w \in Workers, WorkerStep(w)
  PROVE  IngestionTypeOK'
<1>1. CASE CheckDevice(w)
  <2>1. {i.copy.id : i \in todo[w]} \subseteq Ids
    BY DEF IngestionTypeOK, Item, Copy
  <2>2. wpc' \in [Workers -> WorkerState]
    BY <1>1 DEF CheckDevice, Goto, IngestionTypeOK, WorkerState
  <2>. QED  BY <1>1, <2>1, <2>2 DEF CheckDevice, IngestionTypeOK
<1>2. CASE FinishItems(w)
  BY <1>2 DEF FinishItems, Goto, IngestionTypeOK, WorkerState
<1>. QED  BY <1>1, <1>2, ItemTypes DEF WorkerStep

-----------------------------------------------------------------------------
(* The item step that touches only its own worker's variables.             *)
LEMMA OthersUntouched ==
  ASSUME IngestionTypeOK, NEW w \in Workers, WorkerStep(w), NEW v \in Workers, v # w
  PROVE  wpc'[v] = wpc[v] /\ todo'[v] = todo[v] /\ accepted'[v] = accepted[v]
<1>1. CASE CheckDevice(w)
  BY <1>1 DEF CheckDevice, Goto, IngestionTypeOK
<1>2. CASE FinishItems(w)
  BY <1>2 DEF FinishItems, Goto, IngestionTypeOK
<1>3. CASE ItemStep(w)
  BY <1>3 DEF ItemStep, Goto, RejectItem, AcceptDuplicate, BeginFill, FillPut, FillSave,
              BeginStore, PutBodies, SaveRow, SaveRaises, TouchSession, Accept, IngestionTypeOK
<1>. QED  BY <1>1, <1>2, <1>3 DEF WorkerStep

(* Another worker's variables, held and putDay included.                   *)
LEMMA OthersAtWork ==
  ASSUME IngestionTypeOK, NEW w \in Workers, WorkerStep(w), NEW v \in Workers, v # w
  PROVE  held'[v] = held[v] /\ putDay'[v] = putDay[v]
BY DEF WorkerStep, ItemStep, CheckDevice, FinishItems, RejectItem, AcceptDuplicate, BeginFill,
       FillPut, FillSave, BeginStore, PutBodies, SaveRow, SaveRaises, TouchSession, Accept,
       IngestionTypeOK

(* A worker only takes items off its request.                              *)
LEMMA ItemsShrink ==
  ASSUME IngestionTypeOK, NEW w \in Workers, WorkerStep(w)
  PROVE  \A v \in Workers : todo'[v] \subseteq todo[v]
<1>1. \/ todo' = todo
      \/ \E i \in todo[w] : todo' = [todo EXCEPT ![w] = @ \ {i}]
  BY DEF WorkerStep, ItemStep, CheckDevice, FinishItems, RejectItem, AcceptDuplicate,
         BeginFill, FillPut, FillSave, BeginStore, PutBodies, SaveRow, SaveRaises, TouchSession,
         Accept
<1>. QED  BY <1>1 DEF IngestionTypeOK

-----------------------------------------------------------------------------
(* Types.                                                                  *)

LEMMA InitTypes == Init => RetentionTypeOK
BY IngestionInitTypes, RetentionAssumption DEF Init, RetentionTypeOK, NoErasure

LEMMA ReadTypes ==
  ASSUME IngestionTypeOK, NEW id \in Ids PROVE Read(id) \in Snapshot
BY RowTypes DEF Read, Snapshot

LEMMA BodySets ==
  /\ \A w \in Workers : Carried(w) \subseteq Body /\ Carried(w)' \subseteq Body
  /\ Pointed \subseteq Body
BY DEF Carried, Pointed, Objects

LEMMA FaultTypes ==
  ASSUME faults \in 0 .. MaxFaults, Fault PROVE faults' \in 0 .. MaxFaults
BY RetentionAssumption DEF Fault

(* The snapshot that an erasure at work holds.                             *)
LEMMA EraserRow ==
  ASSUME RetentionTypeOK, eraser.stage \in {"chosen", "emptied"}
  PROVE  eraser.row \in Snapshot /\ eraser.row.id \in Ids /\ eraser.row.pk \in Nat
BY DEF RetentionTypeOK, NoErasure, Snapshot

(* Only the state of rows, or only which of their texts are gone, changes. *)
LEMMA RowChanges ==
  ASSUME IngestionTypeOK, NEW id \in Ids,
         UNCHANGED <<access, bodies, today, workerVars, stored, discarded>>,
         \/ \E state \in {"absent", "live", "trashed"} : SetState(id, state)
         \/ \E p \in {rows[id].prompt, NoDay}, a \in {rows[id].answer, NoDay} :
              rows' = [rows EXCEPT ![id].prompt = p, ![id].answer = a]
  PROVE  IngestionTypeOK'
<1>1. rows' \in [Ids -> Row]
  BY IngestionAssumption DEF SetState, IngestionTypeOK, Row, Day, NoDay
<1>. QED  BY <1>1 DEF workerVars, IngestionTypeOK

LEMMA ServeTypes ==
  ASSUME RetentionTypeOK, NEW w \in Workers, Serve(w) PROVE RetentionTypeOK'
<1>1. IngestionTypeOK'
  BY WorkerTypes DEF Serve, RetentionTypeOK
<1>2. Dropped(w) \subseteq Body
  BY BodySets DEF Dropped
<1>3. Raced(w) \subseteq Body
  BY BodySets DEF Raced
<1>. QED  BY <1>1, <1>2, <1>3 DEF Serve, RetentionTypeOK

LEMMA EraserTypes ==
  ASSUME RetentionTypeOK, Empty \/ ForceDelete \/ EraserDies PROVE RetentionTypeOK'
<1>1. CASE Empty
  <2>1. eraser.row \in Snapshot /\ Read(eraser.row.id) \in Snapshot
    BY <1>1, EraserRow, ReadTypes DEF Empty, RetentionTypeOK
  <2>2. eraser' \in [stage : {"chosen", "emptied"}, row : Snapshot]
    BY <1>1, <2>1 DEF Empty
  <2>3. bodies' \subseteq bodies
    BY <1>1 DEF Empty
  <2>. QED  BY <1>1, <2>2, <2>3 DEF Empty, RetentionTypeOK, IngestionTypeOK, workerVars
<1>2. CASE ForceDelete
  <2>1. eraser.row.id \in Ids
    BY <1>2, EraserRow DEF ForceDelete
  <2>2. IngestionTypeOK'
    <3>1. CASE Present(eraser.row)
      BY <1>2, <2>1, <3>1, RowChanges DEF ForceDelete, RetentionTypeOK
    <3>2. CASE ~Present(eraser.row)
      BY <1>2, <3>2 DEF ForceDelete, RetentionTypeOK, IngestionTypeOK, workerVars
    <3>. QED  BY <3>1, <3>2
  <2>. QED  BY <1>2, <2>1, <2>2 DEF ForceDelete, RetentionTypeOK
<1>3. CASE EraserDies
  BY <1>3, FaultTypes DEF EraserDies, RetentionTypeOK, IngestionTypeOK, ingestionVars
<1>. QED  BY <1>1, <1>2, <1>3

LEMMA PurgeTypes ==
  ASSUME RetentionTypeOK,
         \/ PurgeRead \/ PurgeDies
         \/ \E r \in chunk : PurgeObjects(r)
         \/ \E r \in cleared : PurgeSave(r)
  PROVE  RetentionTypeOK'
<1>1. CASE PurgeRead
  <2>1. chunk' \subseteq Snapshot
    BY <1>1, ReadTypes DEF PurgeRead, RetentionTypeOK
  <2>. QED  BY <1>1, <2>1 DEF PurgeRead, RetentionTypeOK, IngestionTypeOK, ingestionVars
<1>2. CASE PurgeDies
  BY <1>2, FaultTypes DEF PurgeDies, RetentionTypeOK, IngestionTypeOK, ingestionVars
<1>3. ASSUME NEW r \in chunk, PurgeObjects(r) PROVE RetentionTypeOK'
  BY <1>3 DEF PurgeObjects, RetentionTypeOK, IngestionTypeOK, workerVars
<1>4. ASSUME NEW r \in cleared, PurgeSave(r) PROVE RetentionTypeOK'
  <2>1. r.id \in Ids
    BY <1>4 DEF RetentionTypeOK, Snapshot
  <2>2. IngestionTypeOK'
    <3>1. CASE Present(r)
      BY <1>4, <2>1, <3>1, RowChanges DEF PurgeSave, RetentionTypeOK
    <3>2. CASE ~Present(r)
      BY <1>4, <3>2 DEF PurgeSave, RetentionTypeOK, IngestionTypeOK, workerVars
    <3>. QED  BY <3>1, <3>2
  <2>. QED  BY <1>4, <2>2 DEF PurgeSave, RetentionTypeOK
<1>. QED  BY <1>1, <1>2, <1>3, <1>4

LEMMA NextTypes ==
  ASSUME RetentionTypeOK, [Next]_vars PROVE RetentionTypeOK'
<1>1. ASSUME NEW w \in Workers, NEW c \in Recordable, Post(w, c) PROVE RetentionTypeOK'
  <2>1. {[pos |-> 1, copy |-> c]} \in SUBSET Item
    BY EventsAssumption DEF Item
  <2>. QED  BY <1>1, <2>1, RequestTypes DEF Post, RetentionTypeOK, retentionVars
<1>2. ASSUME NEW w \in Workers, Reply(w) PROVE RetentionTypeOK'
  BY <1>2, RequestTypes DEF Reply, RetentionTypeOK, retentionVars
<1>3. ASSUME NEW w \in Workers, WorkerDies(w) PROVE RetentionTypeOK'
  BY <1>3, RequestTypes, FaultTypes, BodySets DEF WorkerDies, RetentionTypeOK
<1>4. ASSUME NEW id \in Ids, Trash(id) \/ Restore(id) PROVE RetentionTypeOK'
  BY <1>4, RowChanges DEF Trash, Restore, RetentionTypeOK, retentionVars
<1>5. ASSUME NEW id \in Ids, Choose(id) PROVE RetentionTypeOK'
  <2>1. eraser' \in [stage : {"chosen", "emptied"}, row : Snapshot]
    BY <1>5, ReadTypes DEF Choose, RetentionTypeOK
  <2>. QED  BY <1>5, <2>1 DEF Choose, RetentionTypeOK, IngestionTypeOK, ingestionVars
<1>6. ASSUME NEW id \in Ids, Age(id) PROVE RetentionTypeOK'
  BY <1>6 DEF Age, RetentionTypeOK, IngestionTypeOK, ingestionVars
<1>7. CASE DayPasses
  <2>1. today' \in 1 .. MaxDay
    BY <1>7, IngestionAssumption DEF DayPasses, NextDay, RetentionTypeOK, IngestionTypeOK
  <2>. QED  BY <1>7, <2>1 DEF DayPasses, NextDay, retentionVars, RetentionTypeOK, IngestionTypeOK
<1>8. CASE UNCHANGED vars
  BY <1>8 DEF vars, ingestionVars, retentionVars, RetentionTypeOK, IngestionTypeOK
<1>. QED  BY <1>1, <1>2, <1>3, <1>4, <1>5, <1>6, <1>7, <1>8, ServeTypes, EraserTypes, PurgeTypes
          DEF Next

(* Rows, objects, snapshots and requests keep their types.                 *)
THEOREM TypesHold == Spec => []RetentionTypeOK
<1>1. Init => RetentionTypeOK
  BY InitTypes
<1>2. RetentionTypeOK /\ [Next]_vars => RetentionTypeOK'
  BY NextTypes
<1>. QED  BY <1>1, <1>2, PTL DEF Spec

-----------------------------------------------------------------------------
(* What changes a row.                                                     *)

(* The step of a worker, as far as rows go: one absent row is inserted     *)
(* under a new key, or the answer of one known row is set.                 *)
LEMMA RowsServed ==
  ASSUME RetentionTypeOK, NEW w \in Workers, Serve(w)
  PROVE  \/ UNCHANGED rows
         \/ \E i \in todo[w] : SaveRow(w, i)
         \/ /\ \E i \in todo[w] : FillSave(w, i)
            /\ wpc[w] = "fillsave"
BY DEF Serve, WorkerStep, ItemStep, CheckDevice, FinishItems, RejectItem, AcceptDuplicate,
       BeginFill, FillPut, FillSave, BeginStore, PutBodies, SaveRaises, TouchSession

LEMMA RowServed ==
  ASSUME RetentionTypeOK, NEW w \in Workers, Serve(w), NEW id \in Ids
  PROVE  /\ Known(id) => /\ Known(id)' /\ rows'[id].pk = rows[id].pk
                         /\ rows'[id].prompt = rows[id].prompt
                         /\ rows'[id].state = rows[id].state
         /\ rows[id].pk \in Nat
         /\ ~Known(id) => \/ rows'[id] = rows[id]
                          \/ rows'[id].state = "live" /\ rows'[id].pk = rows[id].pk + 1
<1>1. rows \in [Ids -> Row] /\ rows[id] \in Row /\ rows[id].pk \in Nat
  BY DEF RetentionTypeOK, IngestionTypeOK, Row
<1>2. ASSUME NEW i \in todo[w] PROVE i.copy.id \in Ids
  BY DEF RetentionTypeOK, IngestionTypeOK, Item, Copy
<1>3. ASSUME NEW i \in todo[w], SaveRow(w, i)
      PROVE  /\ ~Known(i.copy.id)
             /\ rows'[id] = rows[id] \/ id = i.copy.id
             /\ rows'[i.copy.id].state = "live"
             /\ rows'[i.copy.id].pk = rows[i.copy.id].pk + 1
  BY <1>1, <1>2, <1>3 DEF SaveRow
<1>4. ASSUME NEW i \in todo[w], FillSave(w, i)
      PROVE  \/ rows'[id] = rows[id]
             \/ Known(id) /\ rows' = [rows EXCEPT ![id].answer = putDay[w]]
  BY <1>1, <1>2, <1>4 DEF FillSave
<1>5. CASE rows'[id] = rows[id]
  BY <1>1, <1>5 DEF Known
<1>6. CASE Known(id) /\ rows' = [rows EXCEPT ![id].answer = putDay[w]]
  BY <1>1, <1>6 DEF Known, Row
<1>. QED  BY <1>1, <1>3, <1>4, <1>5, <1>6, RowsServed DEF Known

(* A deleted prompt comes back only when somebody restores it, whatever    *)
(* copies of it arrive (EventIngestionController.php:112).                 *)
THEOREM DeletedComesBackOnlyRestored == Spec => TrashedStaysHidden
<1>1. RetentionTypeOK /\ [Next]_vars
      => [\A id \in Ids : rows[id].state = "trashed" /\ rows'[id].state = "live" => Restore(id)]_vars
  <2> SUFFICES ASSUME RetentionTypeOK, Next, NEW id \in Ids,
                      rows[id].state = "trashed", rows'[id].state = "live"
               PROVE  Restore(id)
    OBVIOUS
  <2>1. rows' # rows /\ rows \in [Ids -> Row] /\ Known(id)
    BY DEF RetentionTypeOK, IngestionTypeOK, Known
  <2>2. ASSUME NEW w \in Workers, Serve(w) PROVE FALSE
    BY <2>1, <2>2, RowServed
  <2>3. ASSUME NEW k \in Ids, Trash(k) PROVE FALSE
    BY <2>1, <2>3 DEF Trash, SetState
  <2>4. ASSUME NEW k \in Ids, Restore(k) PROVE k = id
    BY <2>1, <2>4 DEF Restore, SetState
  <2>5. ASSUME ForceDelete PROVE FALSE
    <3>1. eraser.row.id \in Ids
      BY <2>5, EraserRow DEF ForceDelete
    <3>. QED  BY <2>1, <2>5, <3>1 DEF ForceDelete, SetState, Present, Row
  <2>6. ASSUME NEW r \in cleared, PurgeSave(r) PROVE FALSE
    <3>1. r.id \in Ids /\ rows[r.id] \in Row /\ rows[id] \in Row
      BY <2>1 DEF RetentionTypeOK, Snapshot
    <3>2. rows'[id].state = rows[id].state
      BY <2>1, <2>6, <3>1 DEF PurgeSave, Row
    <3>. QED  BY <3>2
  <2>7. \/ \E w \in Workers : Serve(w)
        \/ \E k \in Ids : Trash(k) \/ Restore(k)
        \/ ForceDelete
        \/ \E r \in cleared : PurgeSave(r)
    BY <2>1 DEF Next, Post, Take, Reply, WorkerDies, Release, Choose, Age, Empty, EraserDies,
                PurgeRead, PurgeObjects, PurgeDies, DayPasses, NextDay, ingestionVars
  <2>. QED  BY <2>2, <2>3, <2>4, <2>5, <2>6, <2>7
<1>. QED  BY <1>1, TypesHold, PTL DEF Spec, TrashedStaysHidden

(* As long as a row is the same one its prompt is never replaced, only     *)
(* purged (EventIngestionController.php:193).                              *)
THEOREM PromptsAreNeverReplaced == Spec => FirstPromptKept
<1>1. RetentionTypeOK /\ [Next]_vars
      => [\A id \in Ids : Known(id) /\ Known(id)' /\ rows'[id].pk = rows[id].pk
            => rows'[id].prompt \in {rows[id].prompt, NoDay}]_vars
  <2> SUFFICES ASSUME RetentionTypeOK, Next, NEW id \in Ids, Known(id), rows' # rows
               PROVE  rows'[id].prompt \in {rows[id].prompt, NoDay}
    OBVIOUS
  <2>1. rows \in [Ids -> Row] /\ rows[id] \in Row
    BY DEF RetentionTypeOK, IngestionTypeOK
  <2>2. ASSUME NEW w \in Workers, Serve(w) PROVE rows'[id].prompt = rows[id].prompt
    BY <2>2, RowServed
  <2>3. ASSUME NEW k \in Ids, Trash(k) \/ Restore(k) PROVE rows'[id].prompt = rows[id].prompt
    BY <2>1, <2>3 DEF Trash, Restore, SetState, Row
  <2>4. CASE ForceDelete
    BY <2>1, <2>4, EraserRow DEF ForceDelete, SetState, Row
  <2>5. ASSUME NEW r \in cleared, PurgeSave(r)
        PROVE  rows'[id].prompt \in {rows[id].prompt, NoDay}
    BY <2>1, <2>5 DEF PurgeSave, RetentionTypeOK, Snapshot, Row
  <2>6. \/ \E w \in Workers : Serve(w)
        \/ \E k \in Ids : Trash(k) \/ Restore(k)
        \/ ForceDelete
        \/ \E r \in cleared : PurgeSave(r)
    BY DEF Next, Post, Take, Reply, WorkerDies, Release, Choose, Age, Empty, EraserDies,
           PurgeRead, PurgeObjects, PurgeDies, DayPasses, NextDay, ingestionVars
  <2>. QED  BY <2>2, <2>3, <2>4, <2>5, <2>6
<1>. QED  BY <1>1, TypesHold, PTL DEF Spec, FirstPromptKept

-----------------------------------------------------------------------------
(* Every object is accounted for.  TextIsAccounted is not inductive: what  *)
(* an erasure or a purge removes from a row must already be out of the     *)
(* store.  Watched says so of a row that was read some time ago: unless it *)
(* is another row by now, whatever object it names is one of those that    *)
(* are about to be deleted (keys), a stray, or in a worker's hands.        *)

PointsTo(b) ==
  /\ Known(b[1])
  /\ b[3] = IF b[2] = "prompt" THEN rows[b[1]].prompt ELSE rows[b[1]].answer

Loose(b) == b \in strays \/ \E w \in Workers : b \in Carried(w)

Watched(r, keys) ==
  /\ r.pk <= rows[r.id].pk
  /\ Present(r) => \A b \in bodies : b[1] = r.id /\ PointsTo(b) => b \in keys \/ Loose(b)

EraserOK ==
  /\ eraser.stage = "chosen" => eraser.row.pk <= rows[eraser.row.id].pk
  /\ eraser.stage = "emptied" => Watched(eraser.row, {})
ChunkOK == \A r \in chunk : Watched(r, Objects(r))
ClearedOK == \A r \in cleared : Watched(r, {})

OneItem == \A w \in Workers : \A i, j \in todo[w] : i = j
Accounted == \A b \in bodies : PointsTo(b) \/ Loose(b)

TextInv == RetentionTypeOK /\ OneItem /\ Accounted /\ EraserOK /\ ChunkOK /\ ClearedOK

(* What a row points to, key by key.                                       *)
LEMMA PointedBodies ==
  ASSUME NEW b \in Body
  PROVE  /\ b[1] \in Ids /\ b[2] \in {"prompt", "answer"} /\ b[3] \in 1 .. MaxDay
         /\ b \in Pointed <=> PointsTo(b)
         /\ b \in Pointed' <=> PointsTo(b)'
         /\ PointsTo(b) => b \in Objects(Read(b[1]))
<1>1. b[1] \in Ids /\ b[2] \in {"prompt", "answer"} /\ b[3] \in 1 .. MaxDay
  BY DEF Body
<1>2. \A id \in Ids : b \in Objects(Read(id)) <=>
        b[1] = id /\ b[3] = IF b[2] = "prompt" THEN rows[id].prompt ELSE rows[id].answer
  BY DEF Objects, Read
<1>3. \A id \in Ids : b \in Objects(Read(id))' <=>
        b[1] = id /\ b[3] = IF b[2] = "prompt" THEN rows'[id].prompt ELSE rows'[id].answer
  BY DEF Objects, Read
<1>4. b \in Pointed <=> PointsTo(b)
  BY <1>1, <1>2 DEF Pointed, PointsTo
<1>5. b \in Pointed' <=> PointsTo(b)'
  BY <1>1, <1>3 DEF Pointed, PointsTo, Known
<1>. QED  BY <1>1, <1>2, <1>4, <1>5 DEF PointsTo

LEMMA TextInvImplies == TextInv => TextIsAccounted
<1> SUFFICES ASSUME TextInv, NEW b \in bodies
             PROVE  b \in Pointed \cup strays \cup UNION {Carried(w) : w \in Workers}
  BY DEF TextIsAccounted
<1>1. b \in Body
  BY DEF TextInv, RetentionTypeOK, IngestionTypeOK
<1>. QED  BY <1>1, PointedBodies DEF TextInv, Accounted, Loose

LEMMA InitTextInv == Init => TextInv
BY InitTypes DEF Init, IngestionInit, TextInv, OneItem, Accounted, EraserOK, ChunkOK, ClearedOK,
                 NoErasure

(* A worker's step, one object at a time: what it carried goes into the    *)
(* row it inserts or is a stray; what the row named is still named or is   *)
(* one; what it fills in while a row is being erased or purged is one too. *)
LEMMA CarriedServed ==
  ASSUME RetentionTypeOK, OneItem, NEW w \in Workers, Serve(w), NEW b \in Body, b \in Carried(w)
  PROVE  /\ \/ b \in strays'
            \/ PointsTo(b)' /\ (wpc[w] = "fillsave" \/ ~Known(b[1]))
         /\ eraser # NoErasure \/ chunk # {} \/ cleared # {} =>
              b \in strays' \/ ~Known(b[1])
<1>1. PICK i \in todo[w] :
        /\ First(w, i) /\ b[1] = i.copy.id /\ b[3] = putDay[w]
        /\ \/ wpc[w] = "save" /\ (b[2] = "prompt" \/ i.copy.answer)
           \/ wpc[w] = "fillsave" /\ b[2] = "answer"
  BY DEF Carried
<1>2. rows \in [Ids -> Row] /\ rows[b[1]] \in Row /\ b[1] \in Ids /\ b[2] \in {"prompt", "answer"}
  BY PointedBodies DEF RetentionTypeOK, IngestionTypeOK
<1>3. PICK k \in todo[w] : SaveRow(w, k) \/ SaveRaises(w, k) \/ FillSave(w, k)
  BY <1>1 DEF Serve, WorkerStep, ItemStep, CheckDevice, FinishItems, RejectItem, AcceptDuplicate,
              BeginFill, FillPut, BeginStore, PutBodies, TouchSession
<1>4. k = i /\ strays' = strays \cup Dropped(w) \cup Raced(w)
  BY DEF OneItem, Serve
<1>5. CASE SaveRow(w, i)
  <2>1. wpc[w] = "save" /\ ~Known(b[1])
    BY <1>1, <1>5 DEF SaveRow
  <2>2. rows'[b[1]] = [state |-> "live", pk |-> rows[b[1]].pk + 1, prompt |-> putDay[w],
                       answer |-> IF i.copy.answer THEN putDay[w] ELSE NoDay]
    BY <1>1, <1>2, <1>5 DEF SaveRow
  <2>. QED  BY <1>1, <1>2, <2>1, <2>2 DEF PointsTo, Known
<1>6. CASE SaveRaises(w, i)
  <2>1. wpc[w] = "save" /\ wpc'[w] = "fail"
    BY <1>6 DEF SaveRaises, Goto, RetentionTypeOK, IngestionTypeOK
  <2>2. Dropped(w) = Carried(w)
    BY <2>1 DEF Dropped
  <2>. QED  BY <1>4, <2>2
<1>7. CASE FillSave(w, i)
  <2>1. wpc[w] = "fillsave" /\ b[2] = "answer"
    BY <1>1, <1>7 DEF FillSave
  <2>2. rows' = rows => Dropped(w) = Carried(w)
    BY <2>1 DEF Dropped
  <2>3. rows' # rows => PointsTo(b)'
    BY <1>1, <1>2, <1>7, <2>1 DEF FillSave, PointsTo, Known, Row
  <2>4. eraser # NoErasure \/ chunk # {} \/ cleared # {} => Raced(w) = Carried(w)
    BY <2>1 DEF Raced
  <2>. QED  BY <1>4, <2>1, <2>2, <2>3, <2>4
<1>. QED  BY <1>3, <1>4, <1>5, <1>6, <1>7

LEMMA OthersCarry ==
  ASSUME RetentionTypeOK, NEW w \in Workers, Serve(w), NEW v \in Workers, v # w
  PROVE  Carried(v)' = Carried(v)
<1>1. wpc'[v] = wpc[v] /\ todo'[v] = todo[v] /\ putDay'[v] = putDay[v]
  BY OthersUntouched, OthersAtWork DEF Serve, RetentionTypeOK
<1>. QED  BY <1>1 DEF Carried, First

LEMMA LooseServed ==
  ASSUME RetentionTypeOK, OneItem, NEW w \in Workers, Serve(w), NEW b \in Body, Loose(b)
  PROVE  /\ Loose(b)' \/ PointsTo(b)'
         /\ eraser # NoErasure \/ chunk # {} \/ cleared # {} => Loose(b)' \/ ~Known(b[1])
<1>1. strays \subseteq strays'
  BY DEF Serve
<1>. QED  BY <1>1, CarriedServed, OthersCarry DEF Loose

LEMMA PointedServed ==
  ASSUME RetentionTypeOK, OneItem, NEW w \in Workers, Serve(w), NEW b \in Body
  PROVE  /\ PointsTo(b) => PointsTo(b)' \/ b \in strays'
         /\ PointsTo(b)' => \/ PointsTo(b) \/ ~Known(b[1])
                            \/ b \in Carried(w) /\ wpc[w] = "fillsave"
<1>1. rows \in [Ids -> Row] /\ rows[b[1]] \in Row /\ b[1] \in Ids /\ b[2] \in {"prompt", "answer"}
  BY PointedBodies DEF RetentionTypeOK, IngestionTypeOK
<1>2. CASE UNCHANGED rows
  BY <1>2 DEF PointsTo, Known
<1>3. ASSUME NEW i \in todo[w], SaveRow(w, i)
      PROVE  \/ ~Known(b[1])
             \/ rows'[b[1]] = rows[b[1]]
  BY <1>1, <1>3 DEF SaveRow, RetentionTypeOK, IngestionTypeOK
<1>4. ASSUME NEW i \in todo[w], FillSave(w, i), rows' # rows
      PROVE  /\ PointsTo(b) => PointsTo(b)' \/ b \in strays'
             /\ PointsTo(b)' => PointsTo(b) \/ (b \in Carried(w) /\ wpc[w] = "fillsave")
  <2>1. /\ wpc[w] = "fillsave" /\ First(w, i)
        /\ rows' = [rows EXCEPT ![i.copy.id].answer = putDay[w]]
        /\ Known(i.copy.id)
    BY <1>4 DEF FillSave
  <2>2. Pointed \ Pointed' \subseteq strays'
    BY <1>4, <2>1 DEF Dropped, Serve
  <2>3. b \in Carried(w) <=> \E j \in todo[w] :
          First(w, j) /\ b[1] = j.copy.id /\ b[3] = putDay[w] /\ b[2] = "answer"
    BY <2>1 DEF Carried
  <2>4. PointsTo(b)' => PointsTo(b) \/ (b[1] = i.copy.id /\ b[3] = putDay[w] /\ b[2] = "answer")
    BY <1>1, <2>1 DEF PointsTo, Known, Row
  <2>. QED  BY <2>1, <2>2, <2>3, <2>4, PointedBodies
<1>. QED  BY <1>1, <1>2, <1>3, <1>4, RowsServed DEF PointsTo, Known

(* An object that a worker puts is in its hands.                           *)
LEMMA NewBodies ==
  ASSUME RetentionTypeOK, OneItem, NEW w \in Workers, Serve(w), NEW b \in bodies', b \notin bodies
  PROVE  b \in Carried(w)'
<1>1. PICK i \in todo[w] : PutBodies(w, i) \/ FillPut(w, i)
  BY DEF Serve, WorkerStep, ItemStep, CheckDevice, FinishItems, RejectItem, AcceptDuplicate,
         BeginFill, FillSave, BeginStore, SaveRow, SaveRaises, TouchSession
<1>2. b \in Body /\ i \in todo'[w] /\ First(w, i)'
  BY <1>1, ServeTypes DEF PutBodies, FillPut, First, RetentionTypeOK, IngestionTypeOK
<1>3. CASE PutBodies(w, i)
  <2>1. wpc'[w] = "save" /\ putDay'[w] = today
    BY <1>3 DEF PutBodies, Goto, RetentionTypeOK, IngestionTypeOK
  <2>2. b[1] = i.copy.id /\ b[3] = today /\ (b[2] = "prompt" \/ i.copy.answer)
    BY <1>3 DEF PutBodies
  <2>. QED  BY <1>2, <2>1, <2>2 DEF Carried
<1>4. CASE FillPut(w, i)
  <2>1. wpc'[w] = "fillsave" /\ putDay'[w] = today
    BY <1>4 DEF FillPut, Goto, RetentionTypeOK, IngestionTypeOK
  <2>2. b[1] = i.copy.id /\ b[3] = today /\ b[2] = "answer"
    BY <1>4 DEF FillPut
  <2>. QED  BY <1>2, <2>1, <2>2 DEF Carried
<1>. QED  BY <1>1, <1>3, <1>4

(* A row that was read stays watched while a worker goes on.               *)
LEMMA WatchServed ==
  ASSUME RetentionTypeOK, OneItem, NEW w \in Workers, Serve(w),
         eraser # NoErasure \/ chunk # {} \/ cleared # {},
         NEW r \in Snapshot, NEW keys, Watched(r, keys)
  PROVE  Watched(r, keys)'
<1>1. r.id \in Ids /\ r.pk \in Nat
  BY DEF Snapshot
<1>2. r.pk <= rows'[r.id].pk
  BY <1>1, RowServed DEF Watched
<1>3. Present(r)' => Present(r)
  BY <1>1, RowServed DEF Watched, Present, Known
<1>4. ASSUME Present(r), NEW b \in bodies', b[1] = r.id, PointsTo(b)'
      PROVE  b \in keys \/ Loose(b)'
  <2>1. b \in Body /\ Known(b[1])
    BY <1>4, ServeTypes DEF RetentionTypeOK, IngestionTypeOK, Present
  <2>2. CASE b \notin bodies
    BY <2>2, NewBodies DEF Loose
  <2>3. CASE b \in bodies /\ PointsTo(b)
    BY <1>4, <2>1, <2>3, LooseServed DEF Watched
  <2>4. CASE ~PointsTo(b)
    <3>1. b \in Carried(w)
      BY <1>4, <2>1, <2>4, PointedServed
    <3>2. b \in strays'
      BY <2>1, <3>1, CarriedServed
    <3>. QED  BY <3>2 DEF Loose
  <2>. QED  BY <2>2, <2>3, <2>4
<1>. QED  BY <1>2, <1>3, <1>4 DEF Watched

LEMMA ServeStep ==
  ASSUME TextInv, NEW w \in Workers, Serve(w) PROVE TextInv'
<1>1. RetentionTypeOK' /\ RetentionTypeOK /\ OneItem
  BY ServeTypes DEF TextInv
<1>2. UNCHANGED <<eraser, chunk, cleared>>
  BY DEF Serve
<1>3. OneItem'
  <2>1. \A v \in Workers : todo'[v] \subseteq todo[v]
    BY <1>1, ItemsShrink DEF Serve, RetentionTypeOK
  <2>. QED  BY <1>1, <2>1 DEF OneItem
<1>4. Accounted'
  <2> SUFFICES ASSUME NEW b \in bodies' PROVE PointsTo(b)' \/ Loose(b)'
    BY DEF Accounted
  <2>1. b \in Body
    BY <1>1 DEF RetentionTypeOK, IngestionTypeOK
  <2>2. CASE b \notin bodies
    BY <1>1, <2>2, NewBodies DEF Loose
  <2>3. CASE b \in bodies
    BY <1>1, <2>1, <2>3, PointedServed, LooseServed DEF TextInv, Accounted, Loose
  <2>. QED  BY <2>2, <2>3
<1>5. EraserOK'
  <2>1. CASE eraser.stage = "chosen"
    <3>1. rows[eraser.row.id].pk <= rows'[eraser.row.id].pk
      BY <1>1, <2>1, EraserRow, RowServed
    <3>2. rows[eraser.row.id].pk \in Nat /\ rows'[eraser.row.id].pk \in Nat
      BY <1>1, <2>1, EraserRow DEF RetentionTypeOK, IngestionTypeOK, Row
    <3>. QED  BY <1>1, <1>2, <2>1, <3>1, <3>2, EraserRow DEF TextInv, EraserOK
  <2>2. CASE eraser.stage = "emptied"
    <3>1. eraser # NoErasure /\ Watched(eraser.row, {})
      BY <2>2 DEF TextInv, EraserOK, NoErasure
    <3>. QED  BY <1>1, <1>2, <2>2, <3>1, EraserRow, WatchServed DEF EraserOK
  <2>. QED  BY <1>2, <2>1, <2>2 DEF EraserOK
<1>6. ChunkOK'
  <2> SUFFICES ASSUME NEW r \in chunk PROVE Watched(r, Objects(r))'
    BY <1>2 DEF ChunkOK, Objects
  <2>1. r \in Snapshot /\ Watched(r, Objects(r))
    BY DEF TextInv, RetentionTypeOK, ChunkOK
  <2>2. Watched(r, Objects(r))' <=> \E keys \in {Objects(r)} : Watched(r, keys)'
    BY DEF Objects, Watched
  <2>. QED  BY <1>1, <2>1, <2>2, WatchServed
<1>7. ClearedOK'
  BY <1>1, <1>2, WatchServed DEF TextInv, RetentionTypeOK, ClearedOK
<1>. QED  BY <1>1, <1>3, <1>4, <1>5, <1>6, <1>7 DEF TextInv

(* A row that was read stays watched when rows lose texts or go, objects   *)
(* are deleted and what is loose stays so.                                 *)
LEMMA WatchQuiet ==
  ASSUME bodies' \subseteq bodies,
         \A b \in bodies : Loose(b) => Loose(b)',
         \A b \in bodies : PointsTo(b)' => PointsTo(b),
         \A id \in Ids : rows'[id].pk = rows[id].pk /\ (Known(id)' => Known(id)),
         NEW r \in Snapshot, NEW keys, Watched(r, keys)
  PROVE  Watched(r, keys)'
BY DEF Watched, Present, Snapshot

(* The same, once the objects that were about to be deleted are.           *)
LEMMA WatchEmptied ==
  ASSUME NEW r \in Snapshot, Watched(r, Objects(r)),
         bodies' = bodies \ Objects(r), UNCHANGED rows,
         \A b \in bodies : Loose(b) => Loose(b)'
  PROVE  Watched(r, {})'
BY DEF Watched, Present, Known, PointsTo

Quiet ==
  /\ bodies' \subseteq bodies
  /\ \A b \in bodies : Loose(b) => Loose(b)'
  /\ \A b \in bodies : PointsTo(b)' => PointsTo(b)
  /\ \A id \in Ids : rows'[id].pk = rows[id].pk /\ (Known(id)' => Known(id))

LEMMA QuietKeeps ==
  ASSUME TextInv, Quiet
  PROVE  /\ UNCHANGED eraser => EraserOK'
         /\ chunk' \subseteq chunk => ChunkOK'
         /\ cleared' \subseteq cleared => ClearedOK'
<1>1. RetentionTypeOK
  BY DEF TextInv
<1>2. ASSUME NEW r \in Snapshot, NEW keys, Watched(r, keys) PROVE Watched(r, keys)'
  BY <1>2, WatchQuiet DEF Quiet
<1>3. ASSUME UNCHANGED eraser PROVE EraserOK'
  BY <1>1, <1>2, <1>3, EraserRow DEF TextInv, EraserOK, Quiet
<1>4. ASSUME chunk' \subseteq chunk PROVE ChunkOK'
  <2> SUFFICES ASSUME NEW r \in chunk' PROVE Watched(r, Objects(r))'
    BY DEF ChunkOK
  <2>1. r \in Snapshot /\ Watched(r, Objects(r))
    BY <1>1, <1>4 DEF TextInv, RetentionTypeOK, ChunkOK
  <2>2. Watched(r, Objects(r))' <=> \E keys \in {Objects(r)} : Watched(r, keys)'
    BY DEF Objects, Watched
  <2>. QED  BY <1>2, <2>1, <2>2
<1>5. ASSUME cleared' \subseteq cleared PROVE ClearedOK'
  BY <1>1, <1>2, <1>5 DEF TextInv, RetentionTypeOK, ClearedOK
<1>. QED  BY <1>3, <1>4, <1>5

(* The steps other than a worker's.                                        *)
LEMMA RequestStep ==
  ASSUME TextInv, NEW w \in Workers,
         (\E c \in Recordable : Post(w, c)) \/ Reply(w) \/ WorkerDies(w)
  PROVE  TextInv'
<1>1. RetentionTypeOK /\ RetentionTypeOK'
  BY NextTypes DEF TextInv, Next
<1>2. UNCHANGED <<rows, bodies, eraser, chunk, cleared>>
  BY DEF Post, Take, Reply, WorkerDies, Release, retentionVars
<1>3. \A v \in Workers : \A i, j \in todo'[v] : i = j
  BY <1>1 DEF Post, Take, Reply, WorkerDies, Release, TextInv, OneItem, RetentionTypeOK, IngestionTypeOK
<1>4. \A v \in Workers \ {w} : Carried(v)' = Carried(v)
  BY <1>1 DEF Post, Take, Reply, WorkerDies, Release, Goto, Carried, First, RetentionTypeOK, IngestionTypeOK
<1>5. strays \subseteq strays' /\ Carried(w) \subseteq strays'
  <2>1. CASE WorkerDies(w)
    BY <2>1 DEF WorkerDies
  <2>2. CASE wpc[w] \in {"free", "reply", "fail"} /\ UNCHANGED strays
    BY <2>2 DEF Carried
  <2>. QED  BY <2>1, <2>2 DEF Post, Take, Reply, retentionVars
<1>6. \A b \in bodies : Loose(b) => Loose(b)'
  BY <1>4, <1>5 DEF Loose
<1>7. Quiet /\ \A b \in bodies : PointsTo(b) => PointsTo(b)'
  BY <1>2, <1>6 DEF Quiet, PointsTo, Known
<1>. QED  BY <1>1, <1>2, <1>3, <1>6, <1>7, QuietKeeps DEF TextInv, Accounted, OneItem

(* What people and commands leave alone.                                   *)
LEMMA LooseSame ==
  ASSUME UNCHANGED <<workerVars, strays>>
  PROVE  (OneItem <=> OneItem') /\ \A b \in Body : Loose(b) <=> Loose(b)'
BY DEF workerVars, OneItem, Loose, Carried, First

LEMMA PeopleStep ==
  ASSUME TextInv, NEW id \in Ids, Trash(id) \/ Restore(id) PROVE TextInv'
<1>1. RetentionTypeOK /\ RetentionTypeOK' /\ bodies \subseteq Body
  BY NextTypes DEF TextInv, Next, RetentionTypeOK, IngestionTypeOK
<1>2. /\ UNCHANGED <<bodies, workerVars, strays, eraser, chunk, cleared>>
      /\ rows[id].state \in {"live", "trashed"}
      /\ \E state \in {"live", "trashed"} : rows' = [rows EXCEPT ![id].state = state]
  BY DEF Trash, Restore, SetState, retentionVars
<1>3. \A k \in Ids : /\ Known(k) <=> Known(k)'
                     /\ rows'[k].pk = rows[k].pk
                     /\ rows'[k].prompt = rows[k].prompt /\ rows'[k].answer = rows[k].answer
  BY <1>1, <1>2 DEF RetentionTypeOK, IngestionTypeOK, Row, Known
<1>4. \A b \in bodies : PointsTo(b) <=> PointsTo(b)'
  BY <1>1, <1>3, PointedBodies DEF PointsTo
<1>5. Quiet
  BY <1>1, <1>2, <1>3, <1>4, LooseSame DEF Quiet
<1>. QED  BY <1>1, <1>2, <1>4, <1>5, LooseSame, QuietKeeps DEF TextInv, Accounted

(* Choosing a row, reading it or forgetting about it.                      *)
LEMMA ReadStep ==
  ASSUME TextInv,
         \/ \E id \in Ids : Choose(id) \/ Age(id)
         \/ EraserDies \/ PurgeRead \/ PurgeDies \/ DayPasses \/ UNCHANGED vars
  PROVE  TextInv'
<1>1. RetentionTypeOK /\ RetentionTypeOK' /\ bodies \subseteq Body
  BY NextTypes DEF TextInv, Next, RetentionTypeOK, IngestionTypeOK
<1>2. UNCHANGED <<rows, bodies, workerVars, strays>>
  BY DEF Choose, Age, EraserDies, PurgeRead, PurgeDies, DayPasses, NextDay, vars, ingestionVars,
         retentionVars, workerVars
<1>3. Quiet /\ \A b \in bodies : PointsTo(b) => PointsTo(b)'
  BY <1>1, <1>2, LooseSame DEF Quiet, PointsTo, Known
<1>4. EraserOK'
  <2>1. ASSUME NEW id \in Ids, Choose(id) PROVE EraserOK'
    BY <1>1, <1>2, <2>1, RowTypes DEF Choose, EraserOK, Read, RetentionTypeOK
  <2>2. CASE EraserDies
    BY <2>2 DEF EraserDies, EraserOK, NoErasure
  <2>3. CASE UNCHANGED eraser
    BY <1>3, <2>3, QuietKeeps
  <2>. QED  BY <2>1, <2>2, <2>3
            DEF Age, PurgeRead, PurgeDies, DayPasses, vars, retentionVars
<1>5. ChunkOK'
  <2>1. CASE PurgeRead
    <3> SUFFICES ASSUME NEW r \in chunk' PROVE Watched(r, Objects(r))'
      BY DEF ChunkOK
    <3>1. PICK id \in Ids : r = Read(id)
      BY <1>1, <2>1 DEF PurgeRead, RetentionTypeOK
    <3>2. r.id = id /\ r.pk = rows'[id].pk /\ r.pk \in Nat
      BY <1>1, <1>2, <3>1, RowTypes DEF Read, RetentionTypeOK
    <3>3. \A b \in bodies : b[1] = id /\ PointsTo(b) => b \in Objects(r)
      BY <1>1, <3>1, PointedBodies
    <3>. QED  BY <1>2, <3>2, <3>3 DEF Watched, PointsTo, Known, Objects
  <2>2. CASE chunk' \subseteq chunk
    BY <1>3, <2>2, QuietKeeps
  <2>. QED  BY <2>1, <2>2
            DEF Choose, Age, EraserDies, PurgeDies, DayPasses, vars, retentionVars
<1>6. ClearedOK'
  <2>1. cleared' \subseteq cleared
    BY DEF Choose, Age, EraserDies, PurgeRead, PurgeDies, DayPasses, vars, retentionVars
  <2>. QED  BY <1>3, <2>1, QuietKeeps
<1>. QED  BY <1>1, <1>2, <1>3, <1>4, <1>5, <1>6, LooseSame DEF TextInv, Accounted

LEMMA EmptyStep ==
  ASSUME TextInv, Empty PROVE TextInv'
<1> DEFINE old == eraser.row
           now == eraser'.row
<1>1. RetentionTypeOK /\ RetentionTypeOK' /\ bodies \subseteq Body
  BY NextTypes DEF TextInv, Next, RetentionTypeOK, IngestionTypeOK
<1>2. UNCHANGED <<rows, workerVars, strays, chunk, cleared>> /\ bodies' \subseteq bodies
  BY DEF Empty
<1>3. Quiet /\ \A b \in bodies : PointsTo(b) => PointsTo(b)'
  BY <1>1, <1>2, LooseSame DEF Quiet, PointsTo, Known
<1>4. old \in Snapshot /\ old.id \in Ids /\ old.pk <= rows[old.id].pk
  BY <1>1, EraserRow DEF TextInv, EraserOK, Empty
<1>5. EraserOK'
  <2>1. CASE Present(old)
    <3>1. eraser' = [stage |-> "emptied", row |-> Read(old.id)] /\ bodies' = bodies \ Objects(Read(old.id))
      BY <2>1 DEF Empty
    <3>2. now = Read(old.id) /\ eraser'.stage = "emptied"
      BY <3>1
    <3>3. now.id = old.id /\ now.pk = rows[old.id].pk /\ now.pk \in Nat
      BY <1>1, <1>4, <3>2, RowTypes DEF Read, RetentionTypeOK
    <3>4. \A b \in bodies' : b[1] = old.id => ~PointsTo(b)
      BY <1>1, <1>2, <3>1, PointedBodies
    <3>5. \A b \in bodies' : b[1] = old.id => ~PointsTo(b)'
      BY <1>2, <3>4 DEF PointsTo, Known
    <3>. QED  BY <1>2, <3>2, <3>3, <3>5 DEF EraserOK, Watched
  <2>2. CASE ~Present(old)
    <3>1. eraser' = [stage |-> "emptied", row |-> old]
      BY <2>2 DEF Empty
    <3>2. Watched(old, {})
      BY <1>4, <2>2 DEF Watched
    <3>3. eraser'.row = old /\ eraser'.stage = "emptied"
      BY <3>1
    <3>. QED  BY <1>2, <1>4, <2>2, <3>3 DEF EraserOK, Watched, Present, Known
  <2>. QED  BY <2>1, <2>2
<1>. QED  BY <1>1, <1>2, <1>3, <1>5, LooseSame, QuietKeeps DEF TextInv, Accounted

(* A row goes: whatever it named is gone already, or loose.                *)
LEMMA ForceDeleteStep ==
  ASSUME TextInv, ForceDelete PROVE TextInv'
<1> DEFINE r == eraser.row
<1>1. RetentionTypeOK /\ RetentionTypeOK' /\ bodies \subseteq Body
  BY NextTypes DEF TextInv, Next, RetentionTypeOK, IngestionTypeOK
<1>2. UNCHANGED <<bodies, workerVars, strays, chunk, cleared>> /\ eraser' = NoErasure
  BY DEF ForceDelete
<1>3. r.id \in Ids /\ Watched(r, {})
  BY <1>1, EraserRow DEF TextInv, EraserOK, ForceDelete
<1>4. \A k \in Ids : rows'[k] = rows[k] \/ (k = r.id /\ Present(r))
  BY <1>1, <1>3 DEF ForceDelete, SetState, RetentionTypeOK, IngestionTypeOK
<1>5. Present(r) => rows'[r.id] = [rows[r.id] EXCEPT !.state = "absent"]
  BY <1>1, <1>3 DEF ForceDelete, SetState, RetentionTypeOK, IngestionTypeOK
<1>6. \A k \in Ids : /\ Known(k)' => Known(k) /\ rows'[k] = rows[k]
                     /\ rows'[k].pk = rows[k].pk
  BY <1>1, <1>4, <1>5 DEF Known, Present, RetentionTypeOK, IngestionTypeOK, Row
<1>7. \A b \in bodies : PointsTo(b)' => PointsTo(b)
  BY <1>1, <1>6, PointedBodies DEF PointsTo
<1>8. \A b \in bodies : PointsTo(b) => PointsTo(b)' \/ Loose(b)
  BY <1>1, <1>3, <1>4, PointedBodies DEF Watched, PointsTo, Known
<1>9. Quiet
  BY <1>1, <1>2, <1>6, <1>7, LooseSame DEF Quiet
<1>10. EraserOK'
  BY <1>2 DEF EraserOK, NoErasure
<1>. QED  BY <1>1, <1>2, <1>8, <1>9, <1>10, LooseSame, QuietKeeps DEF TextInv, Accounted

LEMMA PurgeObjectsStep ==
  ASSUME TextInv, NEW r \in chunk, PurgeObjects(r) PROVE TextInv'
<1>1. RetentionTypeOK /\ RetentionTypeOK' /\ bodies \subseteq Body
  BY NextTypes DEF TextInv, Next, RetentionTypeOK, IngestionTypeOK
<1>2. /\ UNCHANGED <<rows, workerVars, strays, eraser>> /\ chunk' \subseteq chunk
      /\ cleared' = {r} /\ bodies' = bodies \ Objects(r)
  BY DEF PurgeObjects
<1>3. Quiet /\ \A b \in bodies : PointsTo(b) => PointsTo(b)'
  BY <1>1, <1>2, LooseSame DEF Quiet, PointsTo, Known
<1>4. r \in Snapshot /\ Watched(r, Objects(r))
  BY <1>1 DEF TextInv, ChunkOK, RetentionTypeOK
<1>5. Watched(r, {})'
  BY <1>2, <1>3, <1>4, WatchEmptied DEF Quiet
<1>6. ClearedOK'
  BY <1>2, <1>5 DEF ClearedOK
<1>. QED  BY <1>1, <1>2, <1>3, <1>6, LooseSame, QuietKeeps DEF TextInv, Accounted

(* A row loses its texts: they are gone already, or loose.                 *)
LEMMA PurgeSaveStep ==
  ASSUME TextInv, NEW r \in cleared, PurgeSave(r) PROVE TextInv'
<1>1. RetentionTypeOK /\ RetentionTypeOK' /\ bodies \subseteq Body
  BY NextTypes DEF TextInv, Next, RetentionTypeOK, IngestionTypeOK
<1>2. UNCHANGED <<bodies, workerVars, strays, eraser, chunk>> /\ cleared' = {}
  BY DEF PurgeSave
<1>3. r.id \in Ids /\ Watched(r, {})
  BY <1>1 DEF TextInv, ClearedOK, RetentionTypeOK, Snapshot
<1>4. \A k \in Ids : rows'[k] = rows[k] \/ (k = r.id /\ Present(r))
  BY <1>1, <1>3 DEF PurgeSave, RetentionTypeOK, IngestionTypeOK
<1>5. \A k \in Ids : /\ rows'[k].state = rows[k].state /\ rows'[k].pk = rows[k].pk
                     /\ rows'[k].prompt \in {rows[k].prompt, NoDay}
                     /\ rows'[k].answer \in {rows[k].answer, NoDay}
  <2>1. rows \in [Ids -> Row]
    BY <1>1 DEF RetentionTypeOK, IngestionTypeOK
  <2>2. CASE ~Present(r)
    BY <2>2 DEF PurgeSave
  <2>3. CASE Present(r)
    <3>1. PICK p \in {rows[r.id].prompt, NoDay}, a \in {rows[r.id].answer, NoDay} :
            rows' = [rows EXCEPT ![r.id].prompt = p, ![r.id].answer = a]
      BY <2>3 DEF PurgeSave
    <3>2. /\ rows'[r.id].state = rows[r.id].state /\ rows'[r.id].pk = rows[r.id].pk
          /\ rows'[r.id].prompt = p /\ rows'[r.id].answer = a
      BY <1>3, <2>1, <3>1 DEF Row
    <3>. QED  BY <1>4, <3>2
  <2>. QED  BY <2>2, <2>3
<1>6. \A b \in bodies : b[3] # NoDay
  BY <1>1, PointedBodies DEF NoDay
<1>7. \A b \in bodies : PointsTo(b)' => PointsTo(b)
  BY <1>1, <1>5, <1>6, PointedBodies DEF PointsTo, Known
<1>8. \A b \in bodies : PointsTo(b) => PointsTo(b)' \/ Loose(b)
  BY <1>1, <1>3, <1>4, PointedBodies DEF Watched, PointsTo, Known
<1>9. Quiet
  BY <1>1, <1>2, <1>5, <1>7, LooseSame DEF Quiet, Known
<1>10. ClearedOK'
  BY <1>2 DEF ClearedOK
<1>. QED  BY <1>1, <1>2, <1>8, <1>9, <1>10, LooseSame, QuietKeeps DEF TextInv, Accounted

LEMMA NextTextInv ==
  ASSUME TextInv, [Next]_vars PROVE TextInv'
BY ServeStep, RequestStep, PeopleStep, ReadStep, EmptyStep, ForceDeleteStep, PurgeObjectsStep,
   PurgeSaveStep DEF Next

(* Every object in the store belongs to a row or to a worker about to      *)
(* enter it in one, but for the strays of the named races and deaths: an   *)
(* interrupted purge or erasure never leaves text that no row names        *)
(* (PurgeBodies.php:19-22, UsageEraser.php:24-25).                         *)
THEOREM TextStaysAccounted == Spec => []TextIsAccounted
<1>1. Init => TextInv
  BY InitTextInv
<1>2. TextInv /\ [Next]_vars => TextInv'
  BY NextTextInv
<1>. QED  BY <1>1, <1>2, TextInvImplies, PTL DEF Spec
=============================================================================
