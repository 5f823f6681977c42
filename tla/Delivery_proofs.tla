--------------------------- MODULE Delivery_proofs ---------------------------
(***************************************************************************)
(* Proofs about Delivery, for any number of workers, event ids, records,   *)
(* batch size and faults: the state stays well typed, no event that was    *)
(* spooled is lost, and the system implements the outbox.                  *)
(***************************************************************************)
EXTENDS Delivery, TLAPS

-----------------------------------------------------------------------------
(* Ingestion: types, and what a step of a worker leaves alone.             *)
LEMMA IngestionInitTypes == IngestionInit => IngestionTypeOK
BY IngestionAssumption
   DEF IngestionInit, IngestionTypeOK, NoRow, Row, Day, NoDay, WorkerState

(* A worker takes a request, or is done with one.                          *)
LEMMA RequestTypes ==
  ASSUME IngestionTypeOK, NEW w \in Workers,
         \/ Release(w)
         \/ \E items \in SUBSET Item : Take(w, items)
  PROVE  IngestionTypeOK'
<1>1. CASE Release(w)
  BY <1>1, IngestionAssumption DEF Release, Goto, IngestionTypeOK, WorkerState, Day, NoDay
<1>2. ASSUME NEW items \in SUBSET Item, Take(w, items) PROVE IngestionTypeOK'
  BY <1>2 DEF Take, Goto, IngestionTypeOK, WorkerState
<1>. QED  BY <1>1, <1>2

LEMMA RowTypes ==
  ASSUME IngestionTypeOK, NEW id \in Ids
  PROVE  /\ rows[id].state \in {"absent", "live", "trashed"}
         /\ rows[id].pk \in Nat
         /\ rows[id].prompt \in Day /\ rows[id].answer \in Day
BY DEF IngestionTypeOK, Row

(* What accepting an item does to the worker's variables.                  *)
LEMMA AcceptTypes ==
  ASSUME IngestionTypeOK, NEW w \in Workers, NEW i \in todo[w], Accept(w, i)
  PROVE  /\ wpc' \in [Workers -> WorkerState]
         /\ todo' \in [Workers -> SUBSET Item]
         /\ accepted' \in [Workers -> SUBSET Ids]
         /\ held' \in [Workers -> Nat]
         /\ putDay' \in [Workers -> Day]
<1>1. i.copy.id \in Ids
  BY DEF IngestionTypeOK, Item, Copy
<1>. QED  BY <1>1, IngestionAssumption DEF Accept, Goto, IngestionTypeOK, WorkerState, Day, NoDay

LEMMA ItemTypes ==
  ASSUME IngestionTypeOK, NEW w \in Workers, ItemStep(w)
  PROVE  IngestionTypeOK'
<1>1. PICK i \in todo[w] :
        \/ RejectItem(w, i) \/ AcceptDuplicate(w, i)
        \/ BeginFill(w, i)  \/ FillPut(w, i)   \/ FillSave(w, i)
        \/ BeginStore(w, i) \/ PutBodies(w, i) \/ SaveRow(w, i)
        \/ SaveRaises(w, i) \/ TouchSession(w, i)
  BY DEF ItemStep
<1>2. i.copy \in Copy /\ i.copy.id \in Ids
  BY DEF IngestionTypeOK, Item, Copy
<1>3. CASE RejectItem(w, i)
  BY <1>3 DEF RejectItem, IngestionTypeOK
<1>4. CASE AcceptDuplicate(w, i)
  BY <1>2, <1>4 DEF AcceptDuplicate, IngestionTypeOK
<1>5. CASE BeginFill(w, i)
  BY <1>2, <1>5, RowTypes DEF BeginFill, Goto, IngestionTypeOK, WorkerState
<1>6. CASE FillPut(w, i)
  BY <1>2, <1>6 DEF FillPut, Goto, IngestionTypeOK, WorkerState, Body, Day
<1>7. CASE FillSave(w, i)
  <2>1. rows' \in [Ids -> Row]
    BY <1>2, <1>7 DEF FillSave, IngestionTypeOK, Row, Day
  <2>. QED  BY <1>7, <2>1, AcceptTypes DEF FillSave, IngestionTypeOK
<1>8. CASE BeginStore(w, i)
  BY <1>8 DEF BeginStore, Goto, IngestionTypeOK, WorkerState
<1>9. CASE PutBodies(w, i)
  <2>1. bodies' \subseteq Body
    BY <1>2, <1>9 DEF PutBodies, IngestionTypeOK, Body
  <2>. QED  BY <1>9, <2>1 DEF PutBodies, Goto, IngestionTypeOK, WorkerState, Day
<1>10. CASE SaveRow(w, i)
  <2>1. rows' \in [Ids -> Row]
    <3>1. rows[i.copy.id].pk + 1 \in Nat
      BY <1>2, RowTypes
    <3>2. putDay[w] \in Day /\ NoDay \in Day
      BY IngestionAssumption DEF IngestionTypeOK, Day, NoDay
    <3>. QED  BY <1>2, <1>10, <3>1, <3>2 DEF SaveRow, IngestionTypeOK, Row
  <2>. QED  BY <1>2, <1>10, <2>1 DEF SaveRow, Goto, IngestionTypeOK, WorkerState
<1>11. CASE SaveRaises(w, i)
  BY <1>11 DEF SaveRaises, Goto, IngestionTypeOK, WorkerState
<1>12. CASE TouchSession(w, i)
  BY <1>12, AcceptTypes DEF TouchSession, IngestionTypeOK
<1>. QED  BY <1>1, <1>3, <1>4, <1>5, <1>6, <1>7, <1>8, <1>9, <1>10, <1>11, <1>12

LEMMA WorkerTypes ==
  ASSUME IngestionTypeOK, NEW w \in Workers, WorkerStep(w)
  PROVE  IngestionTypeOK'
<1>1. CASE CheckDevice(w)
  <2>1. {i.copy.id : i \in todo[w]} \subseteq Ids
    BY DEF IngestionTypeOK, Item, Copy
  <2>2. wpc' \in [Workers -> WorkerState]
    BY <1>1 DEF CheckDevice, Goto, IngestionTypeOK, WorkerState
  <2>. QED  BY <1>1, <2>1, <2>2 DEF CheckDevice, IngestionTypeOK
<1>2. CASE FinishItems(w)
  BY <1>2 DEF FinishItems, Goto, IngestionTypeOK, WorkerState
<1>. QED  BY <1>1, <1>2, ItemTypes DEF WorkerStep

-----------------------------------------------------------------------------
(* The item step that touches only its own worker's variables.             *)
LEMMA OthersUntouched ==
  ASSUME IngestionTypeOK, NEW w \in Workers, WorkerStep(w), NEW v \in Workers, v # w
  PROVE  wpc'[v] = wpc[v] /\ todo'[v] = todo[v] /\ accepted'[v] = accepted[v]
<1>1. CASE CheckDevice(w)
  BY <1>1 DEF CheckDevice, Goto, IngestionTypeOK
<1>2. CASE FinishItems(w)
  BY <1>2 DEF FinishItems, Goto, IngestionTypeOK
<1>3. CASE ItemStep(w)
  BY <1>3 DEF ItemStep, Goto, RejectItem, AcceptDuplicate, BeginFill, FillPut, FillSave,
              BeginStore, PutBodies, SaveRow, SaveRaises, TouchSession, Accept, IngestionTypeOK
<1>. QED  BY <1>1, <1>2, <1>3 DEF WorkerStep

(* Another worker's variables, held and putDay included.                   *)
LEMMA OthersAtWork ==
  ASSUME IngestionTypeOK, NEW w \in Workers, WorkerStep(w), NEW v \in Workers, v # w
  PROVE  held'[v] = held[v] /\ putDay'[v] = putDay[v]
BY DEF WorkerStep, ItemStep, CheckDevice, FinishItems, RejectItem, AcceptDuplicate, BeginFill,
       FillPut, FillSave, BeginStore, PutBodies, SaveRow, SaveRaises, TouchSession, Accept,
       IngestionTypeOK

(* A worker only takes items off its request.                              *)
LEMMA ItemsShrink ==
  ASSUME IngestionTypeOK, NEW w \in Workers, WorkerStep(w)
  PROVE  \A v \in Workers : todo'[v] \subseteq todo[v]
<1>1. \/ todo' = todo
      \/ \E i \in todo[w] : todo' = [todo EXCEPT ![w] = @ \ {i}]
  BY DEF WorkerStep, ItemStep, CheckDevice, FinishItems, RejectItem, AcceptDuplicate,
         BeginFill, FillPut, FillSave, BeginStore, PutBodies, SaveRow, SaveRaises, TouchSession,
         Accept
<1>. QED  BY <1>1 DEF IngestionTypeOK

-----------------------------------------------------------------------------
(* Types.                                                                  *)

LEMMA SpoolInitTypes == SpoolInit => SpoolTypeOK
BY DEF SpoolInit, SpoolTypeOK

(* What the spool's own steps and the forwarder's do to the spool.         *)
LEMMA SpoolTypes ==
  ASSUME SpoolTypeOK, ForwarderTypeOK,
         \/ \E c \in Recordable : BeginRecord(c)
         \/ \E n \in writing : Publish(n) \/ RecordFails(n)
         \/ Tick \/ DrainEmpty \/ FinishBatch
         \/ \E unread : ReadBatch(unread)
         \/ \E n \in doomed : RemoveOne(n)
         \/ SendFails
         \/ SpoolCrash /\ \E S \in SUBSET files : corrupt' = corrupt \cup S
         \/ UNCHANGED spoolVars
  PROVE  SpoolTypeOK'
<1>1. ASSUME NEW c \in Recordable, BeginRecord(c) PROVE SpoolTypeOK'
  <2>1. c \in Copy
    BY EventsAssumption
  <2>2. /\ content' \in Seq(Copy)
        /\ Len(content') = Len(content) + 1
    BY <1>1, <2>1 DEF BeginRecord, SpoolTypeOK
  <2>3. Names' = Names \cup {Len(content) + 1} /\ Len(content) + 1 \notin Names
    BY <2>2 DEF SpoolTypeOK, Names
  <2>. QED  BY <1>1, <2>2, <2>3 DEF BeginRecord, SpoolTypeOK
<1>2. ASSUME NEW n \in writing, Publish(n) PROVE SpoolTypeOK'
  BY <1>2 DEF Publish, SpoolTypeOK, Names
<1>3. ASSUME NEW n \in writing, RecordFails(n) PROVE SpoolTypeOK'
  BY <1>3 DEF RecordFails, SpoolTypeOK, Names
<1>4. ASSUME NEW unread, ReadBatch(unread) PROVE SpoolTypeOK'
  BY <1>4 DEF ReadBatch, SpoolTypeOK, Oldest, Names
<1>5. ASSUME NEW n \in doomed, RemoveOne(n) PROVE SpoolTypeOK'
  BY <1>5 DEF RemoveOne, SpoolTypeOK, Names
<1>6. CASE SpoolCrash /\ \E S \in SUBSET files : corrupt' = corrupt \cup S
  BY <1>6 DEF SpoolCrash, SpoolTypeOK, Names
<1>7. CASE Tick \/ DrainEmpty \/ FinishBatch \/ SendFails \/ UNCHANGED spoolVars
  BY <1>7 DEF Tick, DrainEmpty, FinishBatch, SendFails, spoolVars, SpoolTypeOK, Names
<1>. QED  BY <1>1, <1>2, <1>3, <1>4, <1>5, <1>6, <1>7

LEMMA ForwarderTypes ==
  ASSUME SpoolTypeOK, ForwarderTypeOK,
         \/ Tick \/ DrainEmpty \/ FinishBatch \/ SendFails
         \/ \E unread : ReadBatch(unread)
         \/ \E n \in doomed : RemoveOne(n)
         \/ \E ids : Confirm(ids)
         \/ ForwarderCrash /\ UNCHANGED published
  PROVE  ForwarderTypeOK'
<1>1. CASE Tick \/ DrainEmpty \/ FinishBatch \/ SendFails
  BY <1>1 DEF Tick, DrainEmpty, FinishBatch, SendFails, Return, spoolVars, ForwarderTypeOK
<1>2. ASSUME NEW unread, ReadBatch(unread) PROVE ForwarderTypeOK'
  BY <1>2 DEF ReadBatch, Oldest, SpoolTypeOK, ForwarderTypeOK
<1>3. ASSUME NEW n \in doomed, RemoveOne(n) PROVE ForwarderTypeOK'
  BY <1>3 DEF RemoveOne, ForwarderTypeOK
<1>4. ASSUME NEW ids, Confirm(ids) PROVE ForwarderTypeOK'
  BY <1>4 DEF Confirm, LastCopies, spoolVars, ForwarderTypeOK
<1>5. CASE ForwarderCrash /\ UNCHANGED published
  BY <1>5 DEF ForwarderCrash, Return, ForwarderTypeOK
<1>. QED  BY <1>1, <1>2, <1>3, <1>4, <1>5

LEMMA InitTypes == Init => DeliveryTypeOK
<1> SUFFICES ASSUME Init PROVE DeliveryTypeOK
  OBVIOUS
<1>1. SpoolTypeOK
  BY SpoolInitTypes DEF Init
<1>2. ForwarderTypeOK
  BY DEF Init, ForwarderInit, ForwarderTypeOK
<1>3. IngestionTypeOK
  BY IngestionInitTypes DEF Init
<1>4. link \in Workers \cup {NoWorker} /\ faults \in 0 .. MaxFaults
  BY DeliveryAssumption DEF Init
<1>. QED  BY <1>1, <1>2, <1>3, <1>4 DEF DeliveryTypeOK

LEMMA PostTypes ==
  ASSUME DeliveryTypeOK, NEW w \in Workers, Post(w)
  PROVE  DeliveryTypeOK'
<1> DEFINE items == {[pos |-> n, copy |-> content[n]] : n \in sent}
<1>1. \A n \in sent : n \in Nat /\ content[n] \in Copy
  BY DEF DeliveryTypeOK, SpoolTypeOK, ForwarderTypeOK, Names
<1>2. items \in SUBSET Item
  BY <1>1 DEF Item
<1>3. IngestionTypeOK'
  BY <1>2, RequestTypes DEF Post, DeliveryTypeOK
<1>4. SpoolTypeOK'
  BY SpoolTypes DEF Post, DeliveryTypeOK
<1>5. ForwarderTypeOK'
  BY DEF Post, DeliveryTypeOK, ForwarderTypeOK, spoolVars
<1>. QED  BY <1>3, <1>4, <1>5 DEF Post, DeliveryTypeOK

LEMMA FaultTypes ==
  ASSUME faults \in 0 .. MaxFaults, Fault PROVE faults' \in 0 .. MaxFaults
BY DeliveryAssumption DEF Fault

LEMMA NextTypes ==
  ASSUME DeliveryTypeOK, [Next]_vars PROVE DeliveryTypeOK'
<1> USE DEF DeliveryTypeOK
<1>1. ASSUME NEW c \in Recordable, Record(c) PROVE DeliveryTypeOK'
  BY <1>1, SpoolTypes
     DEF Record, BeginRecord, forwarderVars, ingestionVars, ForwarderTypeOK, IngestionTypeOK
<1>2. ASSUME NEW n \in writing, SpoolStep(n) PROVE DeliveryTypeOK'
  BY <1>2, SpoolTypes
     DEF SpoolStep, Publish, RecordFails, forwarderVars, ingestionVars, ForwarderTypeOK, IngestionTypeOK
<1>3. CASE Start
  BY <1>3, SpoolTypes, ForwarderTypes DEF Start, ingestionVars, IngestionTypeOK
<1>4. CASE Housekeep
  BY <1>4, SpoolTypes, ForwarderTypes DEF Housekeep, ingestionVars, IngestionTypeOK
<1>5. ASSUME NEW w \in Workers, Post(w) PROVE DeliveryTypeOK'
  BY <1>5, PostTypes
<1>6. ASSUME NEW w \in Workers, Serve(w) PROVE DeliveryTypeOK'
  BY <1>6, WorkerTypes DEF Serve, spoolVars, forwarderVars, SpoolTypeOK, ForwarderTypeOK, Names
<1>7. ASSUME NEW w \in Workers, Replied(w) PROVE DeliveryTypeOK'
  <2>1. IngestionTypeOK'
    BY <1>7, RequestTypes DEF Replied
  <2>2. SpoolTypeOK' /\ ForwarderTypeOK'
    BY <1>7, SpoolTypes, ForwarderTypes DEF Replied, Confirm
  <2>. QED  BY <1>7, <2>1, <2>2 DEF Replied
<1>8. ASSUME NEW w \in Workers, Failed(w) PROVE DeliveryTypeOK'
  BY <1>8, RequestTypes, SpoolTypes, ForwarderTypes DEF Failed
<1>9. ASSUME NEW w \in Workers, Unheard(w) PROVE DeliveryTypeOK'
  BY <1>9, RequestTypes
     DEF Unheard, spoolVars, forwarderVars, SpoolTypeOK, ForwarderTypeOK, Names
<1>10. ASSUME NEW w \in Workers, WorkerDies(w) PROVE DeliveryTypeOK'
  <2>1. IngestionTypeOK' /\ faults' \in 0 .. MaxFaults
    BY <1>10, RequestTypes, FaultTypes DEF WorkerDies
  <2>2. CASE link = w
    BY <1>10, <2>1, <2>2, SpoolTypes, ForwarderTypes DEF WorkerDies
  <2>3. CASE link # w
    BY <1>10, <2>1, <2>3
       DEF WorkerDies, spoolVars, forwarderVars, SpoolTypeOK, ForwarderTypeOK, Names
  <2>. QED  BY <2>2, <2>3
<1>11. CASE ReadErrors
  <2>1. PICK unread : ReadBatch(unread)
    BY <1>11 DEF ReadErrors
  <2>2. SpoolTypeOK' /\ ForwarderTypeOK'
    BY <2>1, SpoolTypes, ForwarderTypes
  <2>. QED  BY <1>11, <2>2, FaultTypes DEF ReadErrors, ingestionVars, IngestionTypeOK
<1>12. CASE GiveUp
  BY <1>12, SpoolTypes, ForwarderTypes, FaultTypes
     DEF GiveUp, ingestionVars, IngestionTypeOK
<1>13. CASE AgentCrash \/ PowerLoss
  <2>1. SpoolCrash /\ \E S \in SUBSET files : corrupt' = corrupt \cup S
    <3>1. CASE AgentCrash
      <4>1. corrupt' = corrupt \cup {}
        BY <3>1 DEF AgentCrash
      <4>. QED  BY <3>1, <4>1 DEF AgentCrash
    <3>2. CASE PowerLoss
      BY <3>2 DEF PowerLoss
    <3>. QED  BY <1>13, <3>1, <3>2
  <2>2. ForwarderCrash /\ UNCHANGED <<published, ingestionVars>> /\ link' = NoWorker /\ Fault
    BY <1>13 DEF AgentCrash, PowerLoss, SpoolCrash
  <2>3. SpoolTypeOK' /\ ForwarderTypeOK'
    BY <2>1, <2>2, SpoolTypes, ForwarderTypes
  <2>. QED  BY <2>2, <2>3, FaultTypes DEF ingestionVars, IngestionTypeOK
<1>14. CASE AccessChanges
  <2>1. IngestionTypeOK'
    BY <1>14 DEF AccessChanges, ChangeAccess, IngestionTypeOK
  <2>. QED  BY <1>14, <2>1
            DEF AccessChanges, spoolVars, forwarderVars, SpoolTypeOK, ForwarderTypeOK, Names
<1>15. CASE UNCHANGED vars
  BY <1>15 DEF vars, spoolVars, forwarderVars, ingestionVars,
               SpoolTypeOK, ForwarderTypeOK, IngestionTypeOK, Names
<1>. QED
  BY <1>1, <1>2, <1>3, <1>4, <1>5, <1>6, <1>7, <1>8, <1>9, <1>10, <1>12, <1>13, <1>14, <1>15, <1>11
     DEF Next

(* The state is well typed, whatever the schedule and the faults.          *)
THEOREM TypesHold == Spec => []DeliveryTypeOK
<1>1. Init => DeliveryTypeOK
  BY InitTypes
<1>2. DeliveryTypeOK /\ [Next]_vars => DeliveryTypeOK'
  BY NextTypes
<1>. QED  BY <1>1, <1>2, PTL DEF Spec

-----------------------------------------------------------------------------
(* Nothing is lost.  NoLoss is not inductive: a file is deleted on the     *)
(* strength of a reply (doomed), the reply was put together item by item   *)
(* (accepted), an item counts because a row was seen or written (TouchOK), *)
(* and a row that is seen was stored by somebody (RowsOK).  ItemsOK ties a *)
(* request to the spool; positions are told apart so that an item that is  *)
(* first is the only first one.                                            *)

ItemsOK ==
  \A w \in Workers : \A i \in todo[w] :
    /\ \E n \in published : content[n].id = i.copy.id
    /\ \A j \in todo[w] : i.pos = j.pos => i = j

RowsOK == \A id \in Ids : Known(id) => id \in stored

TouchOK ==
  \A w \in Workers : \A i \in todo[w] :
    wpc[w] \in {"touch", "fillput", "fillsave"} /\ First(w, i) => i.copy.id \in stored

AcceptedOK == \A w \in Workers : accepted[w] \subseteq Settled

DoomedOK == \A n \in doomed : content[n].id \in Settled

BackendOK == RowsOK /\ TouchOK /\ AcceptedOK

LossInv == DeliveryTypeOK /\ ItemsOK /\ BackendOK /\ DoomedOK /\ NoLoss

LEMMA InitLossInv == Init => LossInv
<1> SUFFICES ASSUME Init PROVE LossInv
  OBVIOUS
<1>1. ItemsOK /\ TouchOK /\ AcceptedOK
  BY DEF Init, IngestionInit, ItemsOK, TouchOK, AcceptedOK
<1>2. RowsOK
  BY DEF Init, IngestionInit, RowsOK, Known, NoRow
<1>3. DoomedOK /\ NoLoss
  BY DEF Init, ForwarderInit, SpoolInit, DoomedOK, NoLoss, Gone
<1>. QED  BY <1>1, <1>2, <1>3, InitTypes DEF LossInv, BackendOK

(* An item the worker is at is the only one it is at.                      *)
LEMMA FirstUnique ==
  ASSUME ItemsOK, IngestionTypeOK, NEW w \in Workers,
         NEW i \in todo[w], NEW j \in todo[w], First(w, i), First(w, j)
  PROVE  i = j
<1>1. i.pos \in Nat /\ j.pos \in Nat /\ i.pos <= j.pos /\ j.pos <= i.pos
  BY DEF First, IngestionTypeOK, Item
<1>2. i.pos = j.pos
  BY <1>1
<1>. QED  BY <1>2 DEF ItemsOK

(* No step of a worker unsettles anything or adds to its request.          *)
LEMMA WorkerFrame ==
  ASSUME IngestionTypeOK, NEW w \in Workers, WorkerStep(w)
  PROVE  /\ Settled \subseteq Settled'
         /\ stored \subseteq stored'
         /\ todo' \in [Workers -> SUBSET Item]
         /\ \A v \in Workers : todo'[v] \subseteq todo[v]
<1>1. stored \subseteq stored' /\ discarded \subseteq discarded'
  BY DEF WorkerStep, ItemStep, CheckDevice, FinishItems, RejectItem, AcceptDuplicate,
         BeginFill, FillPut, FillSave, BeginStore, PutBodies, SaveRow, SaveRaises, TouchSession
<1>2. \A v \in Workers : todo'[v] \subseteq todo[v]
  BY ItemsShrink
<1>3. IngestionTypeOK'
  BY WorkerTypes
<1>. QED  BY <1>1, <1>2, <1>3 DEF Settled, IngestionTypeOK

(* The rows of the table are those of stored events.                       *)
LEMMA RowsStep ==
  ASSUME IngestionTypeOK, RowsOK, NEW w \in Workers, WorkerStep(w)
  PROVE  RowsOK'
<1>1. stored \subseteq stored'
  BY WorkerFrame
<1>2. ASSUME NEW i \in todo[w], SaveRow(w, i) PROVE RowsOK'
  BY <1>2 DEF SaveRow, RowsOK, Known, IngestionTypeOK
<1>3. ASSUME NEW i \in todo[w], FillSave(w, i) PROVE RowsOK'
  <2>1. i.copy.id \in Ids
    BY DEF IngestionTypeOK, Item, Copy
  <2>2. \A id \in Ids : rows'[id].state = rows[id].state
    BY <1>3, <2>1 DEF FillSave, IngestionTypeOK, Row
  <2>. QED  BY <1>3, <2>2 DEF FillSave, RowsOK, Known
<1>4. CASE UNCHANGED rows
  BY <1>1, <1>4 DEF RowsOK, Known
<1>5. \/ UNCHANGED rows
      \/ \E i \in todo[w] : SaveRow(w, i) \/ FillSave(w, i)
  BY DEF WorkerStep, ItemStep, CheckDevice, FinishItems, RejectItem, AcceptDuplicate,
         BeginFill, FillPut, BeginStore, PutBodies, SaveRaises, TouchSession
<1>. QED  BY <1>2, <1>3, <1>4, <1>5

(* A worker that is past looking the event up works on a stored event.     *)
LEMMA TouchStep ==
  ASSUME IngestionTypeOK, ItemsOK, RowsOK, TouchOK, NEW w \in Workers, WorkerStep(w)
  PROVE  TouchOK'
<1> SUFFICES ASSUME NEW v \in Workers, NEW j \in todo'[v],
                    wpc'[v] \in {"touch", "fillput", "fillsave"}, First(v, j)'
             PROVE  j.copy.id \in stored'
  BY DEF TouchOK
<1>1. stored \subseteq stored'
  BY WorkerFrame
<1>2. CASE v # w
  BY <1>1, <1>2, OthersUntouched DEF TouchOK, First
<1>3. CASE v = w
  <2>1. PICK i \in todo[w] : BeginFill(w, i) \/ FillPut(w, i) \/ SaveRow(w, i)
    BY <1>3 DEF WorkerStep, ItemStep, CheckDevice, FinishItems, RejectItem, AcceptDuplicate,
                FillSave, BeginStore, PutBodies, SaveRaises, TouchSession, Accept, Goto,
                IngestionTypeOK
  <2>2. j \in todo[w] /\ First(w, j) /\ First(w, i)
    BY <1>3, <2>1 DEF BeginFill, FillPut, SaveRow, First
  <2>3. j = i
    BY <2>2, FirstUnique
  <2>4. i.copy.id \in Ids
    BY DEF IngestionTypeOK, Item, Copy
  <2>5. CASE BeginFill(w, i)
    BY <1>1, <2>3, <2>4, <2>5 DEF BeginFill, LacksAnswer, RowsOK, Known
  <2>6. CASE FillPut(w, i)
    BY <1>1, <2>2, <2>3, <2>6 DEF FillPut, TouchOK
  <2>7. CASE SaveRow(w, i)
    BY <2>3, <2>7 DEF SaveRow
  <2>. QED  BY <2>1, <2>5, <2>6, <2>7
<1>. QED  BY <1>2, <1>3

(* What goes into a reply is settled.                                      *)
LEMMA AcceptedStep ==
  ASSUME IngestionTypeOK, ItemsOK, BackendOK, NEW w \in Workers, WorkerStep(w)
  PROVE  AcceptedOK'
<1> SUFFICES ASSUME NEW v \in Workers PROVE accepted'[v] \subseteq Settled'
  BY DEF AcceptedOK
<1>1. Settled \subseteq Settled' /\ accepted[v] \subseteq Settled
  BY WorkerFrame DEF BackendOK, AcceptedOK
<1>2. CASE v # w
  BY <1>1, <1>2, OthersUntouched
<1>3. CASE v = w /\ CheckDevice(w)
  BY <1>1, <1>3 DEF CheckDevice, Settled, IngestionTypeOK
<1>4. CASE v = w /\ \E i \in todo[w] : AcceptDuplicate(w, i) \/ FillSave(w, i) \/ TouchSession(w, i)
  <2>1. PICK i \in todo[w] : AcceptDuplicate(w, i) \/ FillSave(w, i) \/ TouchSession(w, i)
    BY <1>4
  <2>2. i.copy.id \in Ids
    BY DEF IngestionTypeOK, Item, Copy
  <2>3. i.copy.id \in stored
    BY <2>1, <2>2 DEF AcceptDuplicate, FillSave, TouchSession, BackendOK, RowsOK, TouchOK
  <2>4. accepted'[w] = accepted[w] \cup {i.copy.id}
    BY <2>1 DEF AcceptDuplicate, FillSave, TouchSession, Accept, IngestionTypeOK
  <2>. QED  BY <1>1, <1>4, <2>3, <2>4 DEF Settled
<1>5. CASE accepted' = accepted
  BY <1>1, <1>5
<1>6. \/ accepted' = accepted \/ CheckDevice(w)
      \/ \E i \in todo[w] : AcceptDuplicate(w, i) \/ FillSave(w, i) \/ TouchSession(w, i)
  BY DEF WorkerStep, ItemStep, FinishItems, RejectItem,
         BeginFill, FillPut, BeginStore, PutBodies, SaveRow, SaveRaises
<1>. QED  BY <1>2, <1>3, <1>4, <1>5, <1>6

LEMMA ServeStep ==
  ASSUME LossInv, NEW w \in Workers, Serve(w) PROVE LossInv'
<1>1. DeliveryTypeOK'
  BY NextTypes DEF LossInv, Next
<1>2. IngestionTypeOK /\ WorkerStep(w) /\ UNCHANGED <<content, published, files, aside, doomed>>
  BY DEF LossInv, DeliveryTypeOK, Serve, spoolVars, forwarderVars
<1>3. Settled \subseteq Settled'
  BY <1>2, WorkerFrame
<1>4. ItemsOK'
  BY <1>2, WorkerFrame DEF LossInv, ItemsOK
<1>5. BackendOK'
  BY <1>2, RowsStep, TouchStep, AcceptedStep DEF LossInv, BackendOK
<1>6. DoomedOK' /\ NoLoss'
  BY <1>2, <1>3 DEF LossInv, DoomedOK, NoLoss, Gone
<1>. QED  BY <1>1, <1>4, <1>5, <1>6 DEF LossInv

(* The steps that leave the rows, the history of events and every other    *)
(* worker's request alone: what is left to show of each is the spool's.    *)
LEMMA ReleaseKeeps ==
  ASSUME LossInv, NEW w \in Workers, Release(w)
  PROVE  BackendOK' /\ Settled' = Settled
         /\ \A v \in Workers : todo'[v] \subseteq todo[v]
<1>1. /\ todo' = [todo EXCEPT ![w] = {}] /\ accepted' = [accepted EXCEPT ![w] = {}]
      /\ wpc' = [wpc EXCEPT ![w] = "free"]
      /\ UNCHANGED <<rows, stored, discarded>>
  BY DEF Release, Goto
<1>2. IngestionTypeOK
  BY DEF LossInv, DeliveryTypeOK
<1>3. TouchOK'
  BY <1>1, <1>2 DEF LossInv, BackendOK, TouchOK, First, IngestionTypeOK
<1>4. RowsOK' /\ AcceptedOK'
  BY <1>1, <1>2 DEF LossInv, BackendOK, RowsOK, Known, AcceptedOK, Settled, IngestionTypeOK
<1>. QED  BY <1>1, <1>2, <1>3, <1>4 DEF BackendOK, Settled, IngestionTypeOK

LEMMA IngestionIdle ==
  ASSUME BackendOK, UNCHANGED <<rows, wpc, todo, accepted, stored, discarded>>
  PROVE  BackendOK' /\ Settled' = Settled
BY DEF BackendOK, RowsOK, Known, TouchOK, First, AcceptedOK, Settled

LEMMA RecordStep ==
  ASSUME LossInv, NEW c \in Recordable, Record(c) PROVE LossInv'
<1>1. DeliveryTypeOK'
  BY NextTypes DEF LossInv, Next
<1>2. BackendOK' /\ Settled' = Settled
  BY IngestionIdle DEF Record, LossInv, ingestionVars
<1>3. UNCHANGED <<published, files, aside, doomed, todo>>
  BY DEF Record, BeginRecord, forwarderVars, ingestionVars
<1>4. \A n \in published : content'[n] = content[n]
  <2>1. c \in Copy
    BY EventsAssumption
  <2>. QED  BY <2>1 DEF Record, BeginRecord, LossInv, DeliveryTypeOK, SpoolTypeOK, Names
<1>5. ItemsOK'
  BY <1>3, <1>4 DEF LossInv, ItemsOK
<1>6. DoomedOK' /\ NoLoss'
  BY <1>2, <1>3, <1>4 DEF LossInv, DoomedOK, NoLoss, Gone, DeliveryTypeOK, ForwarderTypeOK
<1>. QED  BY <1>1, <1>2, <1>5, <1>6 DEF LossInv

(* Publishing and setting aside do not make a file go.                     *)
LEMMA SpoolOrListStep ==
  ASSUME LossInv,
         \/ \E n \in writing : SpoolStep(n)
         \/ (Start \/ DrainEmpty \/ ReadBatch({}) \/ FinishBatch) /\ UNCHANGED <<ingestionVars, link, faults>>
         \/ ReadErrors
  PROVE  LossInv'
<1>1. DeliveryTypeOK'
  BY NextTypes DEF LossInv, Next, Housekeep
<1>2. BackendOK' /\ Settled' = Settled
  BY IngestionIdle DEF SpoolStep, ReadErrors, LossInv, ingestionVars
<1>3. UNCHANGED <<content, todo>> /\ published \subseteq published'
  BY DEF SpoolStep, Publish, RecordFails, Start, Tick, DrainEmpty, ReadErrors, ReadBatch, FinishBatch,
         spoolVars, ingestionVars
<1>4. doomed' \subseteq doomed
  BY DEF SpoolStep, Start, Tick, DrainEmpty, ReadErrors, ReadBatch, FinishBatch, Return, forwarderVars
<1>5. Gone' \subseteq Gone
  BY DEF SpoolStep, Publish, RecordFails, Start, Tick, DrainEmpty, ReadErrors, ReadBatch, FinishBatch,
         spoolVars, Gone
<1>6. ItemsOK'
  BY <1>3 DEF LossInv, ItemsOK
<1>7. DoomedOK' /\ NoLoss'
  BY <1>2, <1>3, <1>4, <1>5 DEF LossInv, DoomedOK, NoLoss
<1>. QED  BY <1>1, <1>2, <1>6, <1>7 DEF LossInv

(* A file goes: its event was confirmed.                                   *)
LEMMA RemoveStep ==
  ASSUME LossInv, NEW n \in doomed, RemoveOne(n), UNCHANGED <<ingestionVars, link, faults>>
  PROVE  LossInv'
<1>1. DeliveryTypeOK'
  BY NextTypes DEF LossInv, Next, Housekeep
<1>2. BackendOK' /\ Settled' = Settled
  BY IngestionIdle DEF LossInv, ingestionVars
<1>3. ItemsOK'
  BY DEF RemoveOne, ingestionVars, LossInv, ItemsOK
<1>4. Gone' \subseteq Gone \cup {n} /\ doomed' \subseteq doomed /\ content' = content
  BY DEF RemoveOne, Gone
<1>5. DoomedOK' /\ NoLoss'
  BY <1>2, <1>4 DEF LossInv, DoomedOK, NoLoss
<1>. QED  BY <1>1, <1>2, <1>3, <1>5 DEF LossInv

LEMMA PostStep ==
  ASSUME LossInv, NEW w \in Workers, Post(w) PROVE LossInv'
<1> DEFINE items == {[pos |-> n, copy |-> content[n]] : n \in sent}
<1>1. DeliveryTypeOK'
  BY NextTypes DEF LossInv, Next
<1>2. /\ todo' = [todo EXCEPT ![w] = items] /\ accepted' = [accepted EXCEPT ![w] = {}]
      /\ wpc' = [wpc EXCEPT ![w] = "start"]
      /\ UNCHANGED <<content, published, files, aside, doomed, rows, stored, discarded>>
  BY DEF Post, Take, Goto, spoolVars
<1>3. IngestionTypeOK /\ sent \subseteq published
  BY DEF LossInv, DeliveryTypeOK, ForwarderTypeOK
<1>4. Settled' = Settled /\ Gone' = Gone
  BY <1>2 DEF Settled, Gone
<1>5. ItemsOK'
  <2> SUFFICES ASSUME NEW v \in Workers, NEW i \in todo'[v]
               PROVE  /\ \E n \in published' : content'[n].id = i.copy.id
                      /\ \A j \in todo'[v] : i.pos = j.pos => i = j
    BY DEF ItemsOK
  <2>1. CASE v = w
    BY <1>2, <1>3, <2>1 DEF IngestionTypeOK
  <2>2. CASE v # w
    BY <1>2, <1>3, <2>2 DEF IngestionTypeOK, LossInv, ItemsOK
  <2>. QED  BY <2>1, <2>2
<1>6. TouchOK'
  BY <1>2, <1>3 DEF LossInv, BackendOK, TouchOK, First, IngestionTypeOK
<1>7. RowsOK' /\ AcceptedOK'
  BY <1>2, <1>3, <1>4 DEF LossInv, BackendOK, RowsOK, Known, AcceptedOK, IngestionTypeOK
<1>8. DoomedOK' /\ NoLoss'
  BY <1>2, <1>4 DEF LossInv, DoomedOK, NoLoss
<1>. QED  BY <1>1, <1>5, <1>6, <1>7, <1>8 DEF LossInv, BackendOK

(* A reply, an error, a death: the worker's request is over.               *)
LEMMA ReleaseStep ==
  ASSUME LossInv, NEW w \in Workers,
         Replied(w) \/ Failed(w) \/ Unheard(w) \/ WorkerDies(w)
  PROVE  LossInv'
<1>1. DeliveryTypeOK'
  BY NextTypes DEF LossInv, Next
<1>2. BackendOK' /\ Settled' = Settled /\ \A v \in Workers : todo'[v] \subseteq todo[v]
  BY ReleaseKeeps DEF Replied, Failed, Unheard, WorkerDies
<1>3. UNCHANGED <<content, published, files, aside>>
  BY DEF Replied, Confirm, Failed, Unheard, WorkerDies, SendFails, spoolVars
<1>4. \A n \in doomed' : n \in doomed \/ content[n].id \in accepted[w]
  BY DEF Replied, Confirm, LastCopies, Failed, Unheard, WorkerDies, SendFails, Return, forwarderVars
<1>5. DoomedOK'
  BY <1>2, <1>3, <1>4 DEF LossInv, BackendOK, DoomedOK, AcceptedOK
<1>6. ItemsOK' /\ NoLoss'
  BY <1>2, <1>3 DEF LossInv, ItemsOK, NoLoss, Gone
<1>. QED  BY <1>1, <1>2, <1>5, <1>6 DEF LossInv

LEMMA OutageStep ==
  ASSUME LossInv, GiveUp \/ AgentCrash \/ PowerLoss \/ AccessChanges \/ UNCHANGED vars
  PROVE  LossInv'
<1>1. DeliveryTypeOK'
  BY NextTypes DEF LossInv, Next
<1>2. UNCHANGED <<rows, wpc, todo, accepted, stored, discarded>>
  BY DEF GiveUp, AgentCrash, PowerLoss, AccessChanges, ChangeAccess, vars, ingestionVars
<1>3. BackendOK' /\ Settled' = Settled
  BY <1>2, IngestionIdle DEF LossInv
<1>4. UNCHANGED <<content, published, files, aside>> /\ doomed' \subseteq doomed
  BY DEF GiveUp, SendFails, AgentCrash, PowerLoss, SpoolCrash, ForwarderCrash, Return,
         AccessChanges, vars, spoolVars, forwarderVars
<1>5. ItemsOK' /\ DoomedOK' /\ NoLoss'
  BY <1>2, <1>3, <1>4 DEF LossInv, ItemsOK, DoomedOK, NoLoss, Gone
<1>. QED  BY <1>1, <1>3, <1>5 DEF LossInv

LEMMA NextLossInv ==
  ASSUME LossInv, [Next]_vars PROVE LossInv'
<1>1. CASE Housekeep
  <2>1. CASE \E n \in doomed : RemoveOne(n)
    BY <1>1, <2>1, RemoveStep DEF Housekeep
  <2>. QED  BY <1>1, <2>1, SpoolOrListStep DEF Housekeep
<1>2. CASE Start
  BY <1>2, SpoolOrListStep DEF Start
<1>. QED
  BY <1>1, <1>2, RecordStep, SpoolOrListStep, PostStep, ServeStep, ReleaseStep, OutageStep
     DEF Next

(* A file leaves the spool only when its event is stored or was knowingly  *)
(* discarded, for any number of workers, retries, timeouts and crashes.    *)
THEOREM NothingIsLost == Spec => []NoLoss
<1>1. Init => LossInv
  BY InitLossInv
<1>2. LossInv /\ [Next]_vars => LossInv'
  BY NextLossInv
<1>3. LossInv => NoLoss
  BY DEF LossInv
<1>. QED  BY <1>1, <1>2, <1>3, PTL DEF Spec

-----------------------------------------------------------------------------
(* No answer is lost.  A copy is answered for when its event was thrown    *)
(* away or its row has an answer, if the copy brings one.  That follows a  *)
(* copy from the row to the item that is at hand (AtWorkOK), to the batch  *)
(* the forwarder waits for (SentOK, ReplyOK), to the files it deletes.     *)
(* Rows only ever gain an answer (FilledOK).                               *)

HasAnswer(id) == rows[id].answer # NoDay

AnsweredFor(c) ==
  c.answer /\ c.fate = "fits" /\ c.id \notin discarded => HasAnswer(c.id)

FilledOK ==
  \A id \in Ids : /\ rows[id].state # "trashed"
                  /\ HasAnswer(id) => Known(id)

AtWork(w, i) ==
  /\ wpc[w] \in {"save", "fillsave"} => putDay[w] # NoDay
  /\ wpc[w] \in {"fillput", "fillsave"} => Known(i.copy.id) /\ held[w] = rows[i.copy.id].pk
  /\ wpc[w] = "touch" /\ i.copy.answer => HasAnswer(i.copy.id)
AtWorkOK == \A w \in Workers : \A i \in todo[w] : First(w, i) => AtWork(w, i)

ReplyOK ==
  \A w \in Workers : wpc[w] = "reply" => \A i \in todo[w] : i.copy.id \in discarded

Sent(n) == [pos |-> n, copy |-> content[n]]
SentOK ==
  \A w \in Workers : link = w =>
    /\ fpc = "waiting" /\ wpc[w] # "free"
    /\ \A n \in sent : Sent(n) \in todo[w] \/ AnsweredFor(content[n])

DoomedAnswers == \A n \in doomed : AnsweredFor(content[n])

AnswerInv ==
  /\ LossInv /\ FilledOK /\ AtWorkOK /\ ReplyOK /\ SentOK
  /\ DoomedAnswers /\ AnswerNotLost

LEMMA AnswerInvImplies ==
  AnswerNotLost <=> \A n \in Gone : AnsweredFor(content[n])
BY DEF AnswerNotLost, AnsweredFor, HasAnswer

LEMMA InitAnswerInv == Init => AnswerInv
<1> SUFFICES ASSUME Init PROVE AnswerInv
  OBVIOUS
<1>1. FilledOK
  BY DEF Init, IngestionInit, FilledOK, HasAnswer, Known, NoRow
<1>2. AtWorkOK /\ ReplyOK
  BY DEF Init, IngestionInit, AtWorkOK, ReplyOK
<1>3. SentOK
  BY DeliveryAssumption DEF Init, SentOK
<1>4. DoomedAnswers /\ AnswerNotLost
  BY DEF Init, ForwarderInit, SpoolInit, DoomedAnswers, AnswerNotLost, Gone
<1>. QED  BY <1>1, <1>2, <1>3, <1>4, InitLossInv DEF AnswerInv

(* Rows keep their answers and their keys; a worker's step fills or adds.  *)
LEMMA RowsGain ==
  ASSUME IngestionTypeOK, ItemsOK, FilledOK, AtWorkOK, NEW w \in Workers, WorkerStep(w)
  PROVE  /\ FilledOK'
         /\ \A id \in Ids : /\ HasAnswer(id) => HasAnswer(id)'
                            /\ Known(id) => Known(id)' /\ rows'[id].pk = rows[id].pk
<1>1. CASE UNCHANGED rows
  BY <1>1 DEF FilledOK, HasAnswer, Known
<1>2. ASSUME NEW i \in todo[w], SaveRow(w, i)
      PROVE  /\ FilledOK'
             /\ \A id \in Ids : /\ HasAnswer(id) => HasAnswer(id)'
                                /\ Known(id) => Known(id)' /\ rows'[id].pk = rows[id].pk
  <2>1. /\ ~Known(i.copy.id) /\ i.copy.id \in Ids
        /\ rows' = [rows EXCEPT ![i.copy.id] =
                      [state  |-> "live", pk |-> rows[i.copy.id].pk + 1, prompt |-> putDay[w],
                       answer |-> IF i.copy.answer THEN putDay[w] ELSE NoDay]]
    BY <1>2 DEF SaveRow, IngestionTypeOK, Item, Copy
  <2>2. rows \in [Ids -> Row]
    BY DEF IngestionTypeOK
  <2>3. \A id \in Ids \ {i.copy.id} : rows'[id] = rows[id]
    BY <2>1, <2>2
  <2>4. rows'[i.copy.id].state = "live"
    BY <2>1, <2>2
  <2>. QED  BY <2>1, <2>3, <2>4 DEF FilledOK, HasAnswer, Known
<1>3. ASSUME NEW i \in todo[w], FillSave(w, i)
      PROVE  /\ FilledOK'
             /\ \A id \in Ids : /\ HasAnswer(id) => HasAnswer(id)'
                                /\ Known(id) => Known(id)' /\ rows'[id].pk = rows[id].pk
  <2>1. /\ Known(i.copy.id) /\ putDay[w] # NoDay /\ i.copy.id \in Ids
        /\ rows' = [rows EXCEPT ![i.copy.id].answer = putDay[w]]
    BY <1>3 DEF FillSave, AtWorkOK, AtWork, IngestionTypeOK, Item, Copy
  <2>2. rows \in [Ids -> Row]
    BY DEF IngestionTypeOK
  <2>3. \A id \in Ids \ {i.copy.id} : rows'[id] = rows[id]
    BY <2>1, <2>2
  <2>4. /\ rows'[i.copy.id].state = rows[i.copy.id].state
        /\ rows'[i.copy.id].pk = rows[i.copy.id].pk
        /\ rows'[i.copy.id].answer = putDay[w]
    BY <2>1, <2>2 DEF Row
  <2>. QED  BY <2>1, <2>3, <2>4 DEF FilledOK, HasAnswer, Known
<1>4. \/ UNCHANGED rows
      \/ \E i \in todo[w] : SaveRow(w, i) \/ FillSave(w, i)
  BY DEF WorkerStep, ItemStep, CheckDevice, FinishItems, RejectItem, AcceptDuplicate,
         BeginFill, FillPut, BeginStore, PutBodies, SaveRaises, TouchSession
<1>. QED  BY <1>1, <1>2, <1>3, <1>4

LEMMA AtWorkStep ==
  ASSUME IngestionTypeOK, ItemsOK, FilledOK, AtWorkOK, NEW w \in Workers, WorkerStep(w)
  PROVE  AtWorkOK'
<1> SUFFICES ASSUME NEW v \in Workers, NEW j \in todo'[v], First(v, j)'
             PROVE  AtWork(v, j)'
  BY DEF AtWorkOK
<1>1. j \in todo[v] /\ j.copy.id \in Ids
  BY WorkerFrame DEF IngestionTypeOK, Item, Copy
<1>2. CASE v # w
  <2>1. /\ wpc'[v] = wpc[v] /\ todo'[v] = todo[v]
        /\ held'[v] = held[v] /\ putDay'[v] = putDay[v]
    BY <1>2, OthersUntouched, OthersAtWork
  <2>2. AtWork(v, j)
    BY <1>1, <2>1 DEF AtWorkOK, First
  <2>. QED  BY <1>1, <2>1, <2>2, RowsGain DEF AtWork
<1>3. CASE v = w /\ wpc'[w] \in {"save", "fillput", "fillsave", "touch"}
  <2>1. PICK i \in todo[w] : BeginFill(w, i) \/ FillPut(w, i) \/ PutBodies(w, i) \/ SaveRow(w, i)
    BY <1>3 DEF WorkerStep, ItemStep, CheckDevice, FinishItems, RejectItem, AcceptDuplicate,
                FillSave, BeginStore, SaveRaises, TouchSession, Accept, Goto, IngestionTypeOK
  <2>2. j \in todo[w] /\ First(w, j) /\ First(w, i)
    BY <1>1, <1>3, <2>1 DEF BeginFill, FillPut, PutBodies, SaveRow, First
  <2>3. j = i
    BY <2>2, FirstUnique
  <2>4. today # NoDay /\ AtWork(w, i)
    BY <2>2 DEF AtWorkOK, IngestionTypeOK, NoDay
  <2>5. CASE BeginFill(w, i)
    BY <1>1, <1>3, <2>3, <2>5 DEF BeginFill, LacksAnswer, AtWork, Known, Goto, IngestionTypeOK
  <2>6. CASE FillPut(w, i)
    BY <1>1, <1>3, <2>3, <2>4, <2>6 DEF FillPut, AtWork, Known, Goto, IngestionTypeOK
  <2>7. CASE PutBodies(w, i)
    BY <1>3, <2>3, <2>4, <2>7 DEF PutBodies, AtWork, Goto, IngestionTypeOK
  <2>8. CASE SaveRow(w, i)
    <3>1. wpc'[w] = "touch"
      BY <2>8 DEF SaveRow, Goto, IngestionTypeOK
    <3>2. i.copy.answer => rows'[i.copy.id].answer = putDay[w]
      BY <1>1, <2>3, <2>8 DEF SaveRow, IngestionTypeOK
    <3>3. putDay[w] # NoDay
      BY <2>4, <2>8 DEF AtWork, SaveRow
    <3>. QED  BY <1>3, <2>3, <3>1, <3>2, <3>3 DEF AtWork, HasAnswer
  <2>. QED  BY <2>1, <2>5, <2>6, <2>7, <2>8
<1>4. CASE v = w /\ wpc'[w] \notin {"save", "fillput", "fillsave", "touch"}
  BY <1>4 DEF AtWork
<1>. QED  BY <1>2, <1>3, <1>4

(* An item leaves a request only when its copy is answered for.            *)
LEMMA ItemsAnswered ==
  ASSUME IngestionTypeOK, ItemsOK, FilledOK, AtWorkOK, NEW w \in Workers, WorkerStep(w)
  PROVE  /\ \A v \in Workers : \A i \in todo[v] : i \in todo'[v] \/ AnsweredFor(i.copy)'
         /\ \A c \in Copy : AnsweredFor(c) => AnsweredFor(c)'
<1>1. \A c \in Copy : AnsweredFor(c) => AnsweredFor(c)'
  <2>1. discarded \subseteq discarded'
    BY DEF WorkerStep, ItemStep, CheckDevice, FinishItems, RejectItem, AcceptDuplicate,
           BeginFill, FillPut, FillSave, BeginStore, PutBodies, SaveRow, SaveRaises, TouchSession
  <2>. QED  BY <2>1, RowsGain DEF AnsweredFor, Copy
<1>2. ASSUME NEW v \in Workers, NEW i \in todo[v], i \notin todo'[v]
      PROVE  AnsweredFor(i.copy)'
  <2>1. v = w
    BY <1>2, OthersUntouched
  <2>2. \/ RejectItem(w, i) \/ AcceptDuplicate(w, i) \/ FillSave(w, i) \/ TouchSession(w, i)
    <3>1. \/ UNCHANGED todo
          \/ \E k \in todo[w] : \/ RejectItem(w, k) \/ AcceptDuplicate(w, k)
                               \/ FillSave(w, k) \/ TouchSession(w, k)
      BY DEF WorkerStep, ItemStep, CheckDevice, FinishItems, BeginFill, FillPut, BeginStore,
             PutBodies, SaveRow, SaveRaises
    <3>2. PICK k \in todo[w] : \/ RejectItem(w, k) \/ AcceptDuplicate(w, k)
                              \/ FillSave(w, k) \/ TouchSession(w, k)
      BY <1>2, <3>1
    <3>3. todo'[w] = todo[w] \ {k}
      BY <3>2 DEF RejectItem, AcceptDuplicate, FillSave, TouchSession, Accept, IngestionTypeOK
    <3>. QED  BY <1>2, <2>1, <3>2, <3>3
  <2>3. i \in todo[w] /\ i.copy \in Copy /\ i.copy.id \in Ids
    BY <1>2, <2>1 DEF IngestionTypeOK, Item, Copy
  <2>4. CASE RejectItem(w, i)
    BY <2>4 DEF RejectItem, AnsweredFor
  <2>5. CASE AcceptDuplicate(w, i)
    <3>1. rows[i.copy.id].state = "live"
      BY <2>3, <2>5 DEF AcceptDuplicate, Known, FilledOK, IngestionTypeOK, Row
    <3>2. i.copy.answer => HasAnswer(i.copy.id)
      BY <2>5, <3>1 DEF AcceptDuplicate, LacksAnswer, HasAnswer
    <3>. QED  BY <1>1, <2>3, <3>2 DEF AnsweredFor
  <2>6. CASE FillSave(w, i)
    <3>1. Known(i.copy.id) /\ rows[i.copy.id].pk = held[w] /\ putDay[w] # NoDay
      BY <2>3, <2>6 DEF FillSave, AtWorkOK, AtWork
    <3>2. rows'[i.copy.id].answer = putDay[w]
      BY <2>3, <2>6, <3>1 DEF FillSave, IngestionTypeOK, Row
    <3>. QED  BY <3>1, <3>2 DEF AnsweredFor, HasAnswer
  <2>7. CASE TouchSession(w, i)
    <3>1. i.copy.answer => HasAnswer(i.copy.id)
      BY <2>3, <2>7 DEF TouchSession, AtWorkOK, AtWork
    <3>. QED  BY <1>1, <2>3, <3>1 DEF AnsweredFor
  <2>. QED  BY <2>2, <2>4, <2>5, <2>6, <2>7
<1>. QED  BY <1>1, <1>2

LEMMA ReplyStep ==
  ASSUME IngestionTypeOK, ReplyOK, NEW w \in Workers, WorkerStep(w)
  PROVE  ReplyOK' /\ \A v \in Workers : wpc[v] # "free" => wpc'[v] # "free"
<1>1. discarded \subseteq discarded'
  BY DEF WorkerStep, ItemStep, CheckDevice, FinishItems, RejectItem, AcceptDuplicate,
         BeginFill, FillPut, FillSave, BeginStore, PutBodies, SaveRow, SaveRaises, TouchSession
<1>2. CASE CheckDevice(w)
  BY <1>1, <1>2 DEF CheckDevice, Goto, ReplyOK, IngestionTypeOK
<1>3. CASE FinishItems(w)
  BY <1>1, <1>3 DEF FinishItems, Goto, ReplyOK, IngestionTypeOK
<1>4. CASE ItemStep(w)
  <2>1. wpc[w] \notin {"free", "reply"} /\ wpc'[w] \notin {"free", "reply"}
    BY <1>4 DEF ItemStep, RejectItem, AcceptDuplicate, BeginFill, FillPut, FillSave, BeginStore,
                PutBodies, SaveRow, SaveRaises, TouchSession, Accept, Goto, IngestionTypeOK
  <2>. QED  BY <1>1, <2>1, OthersUntouched DEF ReplyOK, WorkerStep
<1>. QED  BY <1>2, <1>3, <1>4 DEF WorkerStep

(* Nothing of the backend changes but whose request it is.                 *)
LEMMA AnsweredSame ==
  ASSUME UNCHANGED <<rows, discarded>>
  PROVE  /\ FilledOK => FilledOK'
         /\ \A c \in Copy : AnsweredFor(c) <=> AnsweredFor(c)'
BY DEF FilledOK, HasAnswer, Known, AnsweredFor

LEMMA PublishedCopies ==
  ASSUME DeliveryTypeOK
  PROVE  /\ \A n \in published : n \in Nat /\ content[n] \in Copy
         /\ sent \subseteq published /\ doomed \subseteq published /\ Gone \subseteq published
BY DEF DeliveryTypeOK, SpoolTypeOK, ForwarderTypeOK, Names, Gone

LEMMA ServeAnswers ==
  ASSUME AnswerInv, NEW w \in Workers, Serve(w) PROVE AnswerInv'
<1>1. LossInv' /\ DeliveryTypeOK /\ IngestionTypeOK /\ ItemsOK
  BY ServeStep DEF AnswerInv, LossInv, DeliveryTypeOK
<1>2. /\ WorkerStep(w) /\ FilledOK /\ AtWorkOK /\ ReplyOK
      /\ UNCHANGED <<content, published, files, aside, fpc, sent, doomed, link>>
  BY DEF AnswerInv, Serve, spoolVars, forwarderVars
<1>3. FilledOK' /\ AtWorkOK' /\ ReplyOK'
  BY <1>1, <1>2, RowsGain, AtWorkStep, ReplyStep
<1>4. SentOK'
  <2> SUFFICES ASSUME NEW v \in Workers, link = v
               PROVE  /\ fpc' = "waiting" /\ wpc'[v] # "free"
                      /\ \A n \in sent : Sent(n)' \in todo'[v] \/ AnsweredFor(content[n])'
    BY <1>2 DEF SentOK
  <2>1. /\ fpc = "waiting" /\ wpc[v] # "free"
        /\ \A n \in sent : Sent(n) \in todo[v] \/ AnsweredFor(content[n])
    BY DEF AnswerInv, SentOK
  <2>2. ASSUME NEW n \in sent PROVE Sent(n)' \in todo'[v] \/ AnsweredFor(content[n])'
    <3>1. content[n] \in Copy /\ Sent(n)' = Sent(n) /\ Sent(n).copy = content[n]
      BY <1>1, <1>2, PublishedCopies DEF Sent
    <3>2. CASE Sent(n) \in todo[v]
      BY <1>1, <1>2, <3>1, <3>2, ItemsAnswered DEF AnsweredFor, HasAnswer
    <3>3. CASE AnsweredFor(content[n])
      BY <1>1, <1>2, <3>1, <3>3, ItemsAnswered DEF AnsweredFor, HasAnswer
    <3>. QED  BY <2>1, <3>2, <3>3
  <2>. QED  BY <1>1, <1>2, <2>1, <2>2, ReplyStep
<1>5. DoomedAnswers' /\ AnswerNotLost'
  <2>1. \A n \in published : AnsweredFor(content[n]) => AnsweredFor(content[n])'
    BY <1>1, <1>2, ItemsAnswered, PublishedCopies DEF AnsweredFor, HasAnswer
  <2>2. Gone' = Gone /\ doomed' = doomed /\ content' = content
    BY <1>2 DEF Gone
  <2>. QED  BY <1>1, <2>1, <2>2, PublishedCopies, AnswerInvImplies
            DEF AnswerInv, DoomedAnswers, AnswerNotLost, AnsweredFor, HasAnswer
<1>. QED  BY <1>1, <1>3, <1>4, <1>5 DEF AnswerInv

(* A request begins: its items are the files that are sent.                *)
LEMMA PostAnswers ==
  ASSUME AnswerInv, NEW w \in Workers, Post(w) PROVE AnswerInv'
<1> DEFINE items == {Sent(n) : n \in sent}
<1>1. LossInv' /\ DeliveryTypeOK /\ IngestionTypeOK
  BY PostStep DEF AnswerInv, LossInv, DeliveryTypeOK
<1>2. /\ todo' = [todo EXCEPT ![w] = items] /\ wpc' = [wpc EXCEPT ![w] = "start"]
      /\ link' = w /\ fpc' = "waiting"
      /\ UNCHANGED <<content, published, files, aside, sent, doomed, rows, held, putDay, discarded>>
  BY DEF Post, Take, Goto, spoolVars, Sent
<1>3. FilledOK' /\ \A c \in Copy : AnsweredFor(c) <=> AnsweredFor(c)'
  BY <1>2, AnsweredSame DEF AnswerInv
<1>4. AtWorkOK'
  BY <1>1, <1>2 DEF AnswerInv, AtWorkOK, AtWork, First, HasAnswer, Known, IngestionTypeOK
<1>5. ReplyOK'
  BY <1>1, <1>2 DEF AnswerInv, ReplyOK, IngestionTypeOK
<1>6. SentOK'
  <2>1. \A n \in sent' : Sent(n)' \in todo'[w]
    BY <1>1, <1>2 DEF Sent, IngestionTypeOK
  <2>. QED  BY <1>1, <1>2, <2>1 DEF SentOK, IngestionTypeOK
<1>7. DoomedAnswers' /\ AnswerNotLost'
  BY <1>2 DEF AnswerInv, DoomedAnswers, AnswerNotLost, AnsweredFor, HasAnswer, Gone
<1>. QED  BY <1>1, <1>3, <1>4, <1>5, <1>6, <1>7 DEF AnswerInv

(* A request is over: what the forwarder deletes is answered for.          *)
LEMMA ReleaseAnswers ==
  ASSUME AnswerInv, NEW w \in Workers,
         Replied(w) \/ Failed(w) \/ Unheard(w) \/ WorkerDies(w)
  PROVE  AnswerInv'
<1>1. LossInv' /\ DeliveryTypeOK /\ IngestionTypeOK
  BY ReleaseStep DEF AnswerInv, LossInv, DeliveryTypeOK
<1>2. /\ todo' = [todo EXCEPT ![w] = {}] /\ wpc' = [wpc EXCEPT ![w] = "free"]
      /\ held' = [held EXCEPT ![w] = 0] /\ putDay' = [putDay EXCEPT ![w] = NoDay]
      /\ UNCHANGED <<rows, discarded, content, published, files, aside>>
  BY DEF Replied, Confirm, Failed, Unheard, WorkerDies, SendFails, Release, Goto, spoolVars
<1>3. FilledOK' /\ \A c \in Copy : AnsweredFor(c) <=> AnsweredFor(c)'
  BY <1>2, AnsweredSame DEF AnswerInv
<1>4. AtWorkOK' /\ ReplyOK'
  BY <1>1, <1>2
     DEF AnswerInv, AtWorkOK, AtWork, First, HasAnswer, Known, ReplyOK, IngestionTypeOK
<1>5. SentOK'
  <2>1. \/ link' = NoWorker
        \/ link # w /\ UNCHANGED <<link, fpc, sent>>
    BY DEF Replied, Failed, Unheard, WorkerDies, forwarderVars
  <2>2. CASE link' = NoWorker
    BY <2>2, DeliveryAssumption DEF SentOK
  <2>3. CASE link # w /\ UNCHANGED <<link, fpc, sent>>
    BY <1>1, <1>2, <2>3
       DEF AnswerInv, SentOK, Sent, AnsweredFor, HasAnswer, IngestionTypeOK
  <2>. QED  BY <2>1, <2>2, <2>3
<1>6. DoomedAnswers'
  <2>1. CASE Replied(w)
    <3>1. wpc[w] = "reply" /\ link = w /\ doomed' \subseteq sent
      BY <2>1 DEF Replied, Confirm, LastCopies
    <3>2. ASSUME NEW n \in sent PROVE AnsweredFor(content[n])
      <4>1. Sent(n) \in todo[w] \/ AnsweredFor(content[n])
        BY <3>1 DEF AnswerInv, SentOK
      <4>2. CASE Sent(n) \in todo[w]
        <5>1. Sent(n).copy.id \in discarded
          BY <3>1, <4>2 DEF AnswerInv, ReplyOK
        <5>. QED  BY <5>1 DEF Sent, AnsweredFor
      <4>. QED  BY <4>1, <4>2
    <3>. QED  BY <1>2, <3>1, <3>2 DEF DoomedAnswers, AnsweredFor, HasAnswer
  <2>2. CASE Failed(w) \/ Unheard(w) \/ WorkerDies(w)
    <3>1. doomed' \subseteq doomed
      BY <2>2 DEF Failed, Unheard, WorkerDies, SendFails, Return, forwarderVars
    <3>. QED  BY <1>2, <3>1 DEF AnswerInv, DoomedAnswers, AnsweredFor, HasAnswer
  <2>. QED  BY <2>1, <2>2
<1>7. AnswerNotLost'
  BY <1>2 DEF AnswerInv, AnswerNotLost, Gone
<1>. QED  BY <1>1, <1>3, <1>4, <1>5, <1>6, <1>7 DEF AnswerInv

(* The steps of the proxy, the spool and the forwarder, and every outage:  *)
(* the backend goes on as it was, and a file that goes was to be deleted.  *)
LEMMA SpoolAnswers ==
  ASSUME AnswerInv, [Next]_vars,
         UNCHANGED <<rows, wpc, todo, held, putDay, discarded>>,
         \A n \in published : content'[n] = content[n],
         doomed' \subseteq doomed, Gone' \subseteq Gone \cup doomed,
         link' = NoWorker \/ UNCHANGED <<link, fpc, sent>>
  PROVE  AnswerInv'
<1>1. LossInv' /\ DeliveryTypeOK
  BY NextLossInv DEF AnswerInv, LossInv
<1>2. FilledOK' /\ AtWorkOK' /\ ReplyOK'
  BY DEF AnswerInv, FilledOK, AtWorkOK, AtWork, First, HasAnswer, Known, ReplyOK
<1>3. \A n \in published : AnsweredFor(content[n]) => AnsweredFor(content[n])'
  BY DEF AnsweredFor, HasAnswer
<1>4. SentOK'
  <2>1. CASE link' = NoWorker
    BY <2>1, DeliveryAssumption DEF SentOK
  <2>2. CASE UNCHANGED <<link, fpc, sent>>
    BY <1>1, <1>3, <2>2, PublishedCopies DEF AnswerInv, SentOK, Sent, AnsweredFor, HasAnswer
  <2>. QED  BY <2>1, <2>2
<1>5. DoomedAnswers'
  BY <1>1, <1>3, PublishedCopies DEF AnswerInv, DoomedAnswers, AnsweredFor, HasAnswer
<1>6. AnswerNotLost'
  BY <1>1, <1>3, PublishedCopies
     DEF AnswerInv, DoomedAnswers, AnswerNotLost, AnsweredFor, HasAnswer
<1>. QED  BY <1>1, <1>2, <1>4, <1>5, <1>6 DEF AnswerInv

LEMMA NextAnswerInv ==
  ASSUME AnswerInv, [Next]_vars PROVE AnswerInv'
<1> DEFINE Backend == UNCHANGED <<rows, wpc, todo, held, putDay, discarded>>
           Kept == \A n \in published : content'[n] = content[n]
           Files == doomed' \subseteq doomed /\ Gone' \subseteq Gone \cup doomed
           Waits == link' = NoWorker \/ UNCHANGED <<link, fpc, sent>>
<1>1. ASSUME NEW c \in Recordable, Record(c) PROVE AnswerInv'
  <2>1. c \in Copy /\ content \in Seq(Copy) /\ published \subseteq 1 .. Len(content)
    BY EventsAssumption DEF AnswerInv, LossInv, DeliveryTypeOK, SpoolTypeOK, Names
  <2>2. Kept
    BY <1>1, <2>1 DEF Record, BeginRecord
  <2>3. Backend /\ Files /\ Waits
    BY <1>1 DEF Record, BeginRecord, forwarderVars, ingestionVars, Gone
  <2>. QED  BY <2>2, <2>3, SpoolAnswers
<1>2. ASSUME NEW n \in writing, SpoolStep(n) PROVE AnswerInv'
  <2>1. Backend /\ Kept /\ Files /\ Waits
    BY <1>2 DEF SpoolStep, Publish, RecordFails, forwarderVars, ingestionVars, Gone
  <2>. QED  BY <2>1, SpoolAnswers
<1>3. CASE Start \/ Housekeep \/ ReadErrors
  <2>1. Backend /\ Kept
    BY <1>3 DEF Start, Tick, Housekeep, DrainEmpty, ReadErrors, ReadBatch, FinishBatch, RemoveOne,
                spoolVars, ingestionVars
  <2>2. Files
    BY <1>3 DEF Start, Tick, Housekeep, DrainEmpty, ReadErrors, ReadBatch, FinishBatch, RemoveOne, Return,
                spoolVars, Gone
  <2>3. fpc # "waiting" /\ link' = link
    BY <1>3 DEF Start, Tick, Housekeep, DrainEmpty, ReadErrors, ReadBatch, FinishBatch, RemoveOne
  <2>4. link = NoWorker
    BY <2>3 DEF AnswerInv, SentOK, LossInv, DeliveryTypeOK
  <2>. QED  BY <2>1, <2>2, <2>3, <2>4, SpoolAnswers
<1>4. CASE GiveUp \/ AgentCrash \/ PowerLoss
  <2>1. Backend /\ Kept /\ Files /\ Waits
    BY <1>4 DEF GiveUp, SendFails, AgentCrash, PowerLoss, SpoolCrash, ForwarderCrash, Return,
                spoolVars, ingestionVars, Gone
  <2>. QED  BY <2>1, SpoolAnswers
<1>5. CASE AccessChanges \/ UNCHANGED vars
  <2>1. Backend /\ Kept /\ Files /\ Waits
    BY <1>5 DEF AccessChanges, ChangeAccess, vars, spoolVars, forwarderVars, ingestionVars, Gone
  <2>. QED  BY <2>1, SpoolAnswers
<1>. QED
  BY <1>1, <1>2, <1>3, <1>4, <1>5, ServeAnswers, PostAnswers, ReleaseAnswers DEF Next

(* Once the file of a finished turn is gone its answer is in the row, or   *)
(* its event was knowingly discarded, for any number of workers, retries   *)
(* and outages (fillAnswer, byID).                                         *)
THEOREM NoAnswerIsLost == Spec => []AnswerNotLost
<1>1. Init => AnswerInv
  BY InitAnswerInv
<1>2. AnswerInv /\ [Next]_vars => AnswerInv'
  BY NextAnswerInv
<1>3. AnswerInv => AnswerNotLost
  BY DEF AnswerInv
<1>. QED  BY <1>1, <1>2, <1>3, PTL DEF Spec

-----------------------------------------------------------------------------
(* The outbox.  Every step either leaves the outbox alone or is the one    *)
(* step of Outbox that the lemmas below name.                              *)

Log == [n \in Names |-> content[n].id]

OutboxUnchanged == UNCHANGED <<Log, files, aside, Gone, Settled>>

LEMMA OutboxInit == Init => Ledger!Init
<1> SUFFICES ASSUME Init PROVE Ledger!Init
  OBVIOUS
<1>1. content = <<>> /\ files = {} /\ aside = {} /\ Gone = {} /\ Settled = {}
  BY DEF Init, SpoolInit, IngestionInit, Gone, Settled
<1>2. Names = {}
  BY <1>1 DEF Names
<1>3. Log = <<>>
  BY <1>2 DEF Log
<1>. QED  BY <1>1, <1>3 DEF Ledger!Init, Log

LEMMA OutboxRecord ==
  ASSUME LossInv, NEW c \in Recordable, Record(c)
  PROVE  Ledger!Next
<1>1. c \in Copy /\ c.id \in Ids
  BY EventsAssumption DEF Copy
<1>2. content \in Seq(Copy) /\ content' = Append(content, c)
  BY DEF Record, BeginRecord, LossInv, DeliveryTypeOK, SpoolTypeOK
<1>3. UNCHANGED <<files, aside, published, stored, discarded>>
  BY DEF Record, BeginRecord, forwarderVars, ingestionVars
<1>4. Log \in Seq(Ids) /\ Len(Log) = Len(content)
  <2>1. /\ Len(content) \in Nat
        /\ \A n \in 1 .. Len(content) : content[n].id \in Ids
    <3>1. Len(content) \in Nat /\ \A n \in 1 .. Len(content) : content[n] \in Copy
      BY <1>2
    <3>. QED  BY <3>1 DEF Copy
  <2>2. Log = [n \in 1 .. Len(content) |-> content[n].id]
    BY DEF Log, Names
  <2>. QED  BY <2>1, <2>2
<1>5. Log' = Append(Log, c.id)
  <2>1. Log' = [n \in 1 .. Len(content) + 1 |-> content'[n].id]
    BY <1>1, <1>2 DEF Log, Names
  <2>2. Append(Log, c.id) \in Seq(Ids) /\ Len(Append(Log, c.id)) = Len(content) + 1
    BY <1>1, <1>4
  <2>3. \A n \in 1 .. Len(content) + 1 : content'[n].id = Append(Log, c.id)[n]
    BY <1>1, <1>2, <1>4 DEF Log, Names
  <2>. QED  BY <2>1, <2>2, <2>3
<1>6. Ledger!Label(c.id)
  BY <1>3, <1>5 DEF Ledger!Label, Log, Gone, Settled
<1>. QED  BY <1>1, <1>6 DEF Ledger!Next

LEMMA OutboxSpool ==
  ASSUME LossInv, NEW n \in writing, SpoolStep(n)
  PROVE  Ledger!Next \/ OutboxUnchanged
<1>1. CASE Publish(n)
  <2>1. n \in Names \ published
    BY DEF LossInv, DeliveryTypeOK, SpoolTypeOK
  <2>2. DOMAIN Log = Names /\ Names \cap (files \cup aside \cup Gone) \subseteq published
    BY DEF Log, Gone, LossInv, DeliveryTypeOK, SpoolTypeOK
  <2>3. Gone' = Gone /\ Log' = Log /\ Settled' = Settled
    BY <1>1, <2>1 DEF SpoolStep, Publish, Gone, Log, Names, Settled, ingestionVars
  <2>4. Ledger!Enter(n)
    BY <1>1, <2>1, <2>2, <2>3 DEF Publish, Ledger!Enter, Ledger!Entered, Log
  <2>. QED  BY <2>1, <2>2, <2>4 DEF Ledger!Next, Log
<1>2. CASE RecordFails(n)
  BY <1>2 DEF SpoolStep, RecordFails, OutboxUnchanged, Log, Names, Gone, Settled, ingestionVars
<1>. QED  BY <1>1, <1>2 DEF SpoolStep

LEMMA OutboxRead ==
  ASSUME LossInv, NEW unread, ReadBatch(unread), UNCHANGED ingestionVars
  PROVE  Ledger!Next
<1> DEFINE bad == (Oldest(BatchSize) \ unread) \cap corrupt
<1>1. bad \subseteq files
  BY DEF Oldest
<1>2. /\ files' = files \ bad /\ aside' = aside \cup bad
      /\ UNCHANGED <<content, published, stored, discarded>>
  BY DEF ReadBatch, ingestionVars
<1>3. Gone' = Gone /\ Log' = Log /\ Settled' = Settled
  BY <1>1, <1>2 DEF Gone, Log, Names, Settled
<1>4. Ledger!SetAside(bad)
  BY <1>1, <1>2, <1>3 DEF Ledger!SetAside, Log
<1>. QED  BY <1>1, <1>4 DEF Ledger!Next

LEMMA OutboxRemove ==
  ASSUME LossInv, NEW n \in doomed, RemoveOne(n), UNCHANGED ingestionVars
  PROVE  Ledger!Next \/ OutboxUnchanged
<1>1. n \in published /\ published \subseteq Names /\ aside \cap files = {}
  BY DEF LossInv, DeliveryTypeOK, SpoolTypeOK, ForwarderTypeOK
<1>2. files' = files \ {n} /\ UNCHANGED <<content, published, aside, stored, discarded>>
  BY DEF RemoveOne, ingestionVars
<1>3. Log' = Log /\ Settled' = Settled
  BY <1>2 DEF Log, Names, Settled
<1>4. CASE n \in files
  <2>1. Gone' = Gone \cup {n}
    BY <1>1, <1>2, <1>4 DEF Gone
  <2>2. n \in DOMAIN Log /\ Log[n] \in Settled
    BY <1>1 DEF Log, LossInv, DoomedOK
  <2>3. Ledger!Leave(n)
    BY <1>2, <1>3, <1>4, <2>1, <2>2 DEF Ledger!Leave, Log
  <2>. QED  BY <2>2, <2>3 DEF Ledger!Next, Log
<1>5. CASE n \notin files
  BY <1>2, <1>3, <1>5 DEF OutboxUnchanged, Gone
<1>. QED  BY <1>4, <1>5

(* A worker settles only events it was sent.                               *)
LEMMA SettledFromRequest ==
  ASSUME LossInv, NEW w \in Workers, WorkerStep(w)
  PROVE  Settled' \subseteq Settled \cup {i.copy.id : i \in todo[w]}
BY DEF WorkerStep, ItemStep, CheckDevice, FinishItems, RejectItem, AcceptDuplicate, BeginFill,
       FillPut, FillSave, BeginStore, PutBodies, SaveRow, SaveRaises, TouchSession, Settled

LEMMA OutboxServe ==
  ASSUME LossInv, NEW w \in Workers, Serve(w)
  PROVE  Ledger!Next
<1> DEFINE new == Settled' \ Settled
<1>1. /\ UNCHANGED <<content, published, files, aside>>
      /\ WorkerStep(w) /\ IngestionTypeOK
  BY DEF Serve, spoolVars, LossInv, DeliveryTypeOK
<1>2. Log' = Log /\ Gone' = Gone
  BY <1>1 DEF Log, Names, Gone
<1>3. Settled' = Settled \cup new
  BY <1>1, WorkerFrame
<1>4. \A id \in new : \E n \in published : id = content[n].id
  BY <1>1, SettledFromRequest DEF LossInv, ItemsOK
<1>5. published \subseteq Ledger!Entered /\ published \subseteq Names
  BY DEF Ledger!Entered, Gone, LossInv, DeliveryTypeOK, SpoolTypeOK
<1>6. new \subseteq {Log[n] : n \in Ledger!Entered}
  BY <1>4, <1>5 DEF Log
<1>7. Ledger!Settle(new)
  BY <1>1, <1>2, <1>3, <1>6 DEF Ledger!Settle, Log
<1>8. new \in SUBSET Ids
  BY NextTypes DEF LossInv, Next, DeliveryTypeOK, IngestionTypeOK, Settled
<1>. QED  BY <1>7, <1>8 DEF Ledger!Next

LEMMA OutboxIdle ==
  ASSUME UNCHANGED <<content, published, files, aside, stored, discarded>>
  PROVE  OutboxUnchanged
BY DEF OutboxUnchanged, Log, Names, Gone, Settled

LEMMA OutboxStep ==
  ASSUME LossInv, [Next]_vars
  PROVE  [Ledger!Next]_Ledger!vars
<1> SUFFICES Ledger!Next \/ OutboxUnchanged
  BY DEF OutboxUnchanged, Ledger!vars, Log
<1>1. ASSUME NEW c \in Recordable, Record(c) PROVE Ledger!Next
  BY <1>1, OutboxRecord
<1>2. ASSUME NEW n \in writing, SpoolStep(n) PROVE Ledger!Next \/ OutboxUnchanged
  BY <1>2, OutboxSpool
<1>3. CASE Housekeep \/ ReadErrors
  BY <1>3, OutboxRead, OutboxRemove, OutboxIdle
     DEF Housekeep, ReadErrors, DrainEmpty, FinishBatch, spoolVars, ingestionVars
<1>4. ASSUME NEW w \in Workers, Serve(w) PROVE Ledger!Next
  BY <1>4, OutboxServe
<1>5. ASSUME NEW w \in Workers,
             Post(w) \/ Replied(w) \/ Failed(w) \/ Unheard(w) \/ WorkerDies(w)
      PROVE  OutboxUnchanged
  BY <1>5, OutboxIdle
     DEF Post, Take, Replied, Confirm, Failed, Unheard, WorkerDies, SendFails, Release, spoolVars
<1>6. CASE Start \/ GiveUp \/ AgentCrash \/ PowerLoss \/ AccessChanges \/ UNCHANGED vars
  BY <1>6, OutboxIdle
     DEF Start, Tick, GiveUp, SendFails, AgentCrash, PowerLoss, SpoolCrash, AccessChanges,
         ChangeAccess, vars, spoolVars, ingestionVars
<1>. QED  BY <1>1, <1>2, <1>3, <1>4, <1>5, <1>6 DEF Next

(* Spool, forwarder and ingestion together implement the outbox: what was  *)
(* spooled leaves only after its event is settled, never comes back, and   *)
(* nothing is settled that was not spooled.                                *)
THEOREM DeliveryImplementsOutbox == Spec => ImplementsOutbox
<1>1. Init => LossInv
  BY InitLossInv
<1>2. LossInv /\ [Next]_vars => LossInv'
  BY NextLossInv
<1>3. Init => Ledger!Init
  BY OutboxInit
<1>4. LossInv /\ [Next]_vars => [Ledger!Next]_Ledger!vars
  BY OutboxStep
<1>. QED  BY <1>1, <1>2, <1>3, <1>4, PTL DEF Spec, ImplementsOutbox, Ledger!Spec
=============================================================================
