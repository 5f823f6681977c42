--------------------------- MODULE Sessions_proofs --------------------------
(***************************************************************************)
(* Proofs about Sessions, for any events, workers, erasers and idle        *)
(* window: the state stays well typed, the counts of the sessions that     *)
(* nobody is at work on are right, and events that come in order are       *)
(* grouped by the gaps between them.                                       *)
(***************************************************************************)
EXTENDS Sessions, FiniteSetTheorems, WellFoundedInduction, TLAPS

-----------------------------------------------------------------------------
(* Types.  The start and end of a session do not matter here, nor does what *)
(* was read of them: they may be anything.                                 *)

Row == [state : {"none", "live", "trashed", "erased"},
        session : Ids \cup {Nowhere}, deletion : 0..MaxChanges]
RowsOK ==
  row \in [Events -> Row]

Session(r) ==
  r \in [state : {"none", "shown", "hidden", "gone"},
         start : {r.start}, end : {r.end}, count : Int]
SessionOK ==
  /\ session = [s \in Ids |-> session[s]]
  /\ \A s \in Ids : Session(session[s])

(* What a worker holds: an event, and a session once it has one.           *)
Serving(r) ==
  /\ r \in [pc : {"create", "insert", "count", "end"}, event : Events,
            session : Ids \cup {Nowhere}, saw : {r.saw}]
  /\ r.pc = "create" <=> r.session = Nowhere
WorkerOK ==
  /\ worker = [w \in Workers |-> worker[w]]
  /\ \A w \in Workers : worker[w] = FreeWorker \/ Serving(worker[w])
SessionsExist ==
  \A w \in Workers : worker[w].pc \in {"insert", "count", "end"} =>
    session[worker[w].session].state # "none"

Erasing(r) ==
  /\ r \in [pc : {"trash", "erase", "restore", "tidy", "measure", "act"},
            ids : SUBSET Events, permanent : BOOLEAN, deletion : 0..MaxChanges,
            todo : SUBSET Ids, now : Ids \cup {Nowhere}, saw : {r.saw},
            found : SUBSET Events, left : BOOLEAN, clean : BOOLEAN]
  /\ r.pc \in {"measure", "act"} <=> r.now # Nowhere
EraserOK ==
  /\ eraser = [x \in Erasers |-> eraser[x]]
  /\ \A x \in Erasers : eraser[x] = FreeEraser \/ Erasing(eraser[x])

(* The sessions an eraser will go through existed when it read its rows.   *)
Within(x) == eraser[x].todo \cup ({eraser[x].now} \ {Nowhere})
ErasersExist ==
  \A x \in Erasers : eraser[x] # FreeEraser =>
    \A s \in Within(x) : session[s].state # "none"

RowSessionsExist ==
  \A e \in Events : row[e].session # Nowhere =>
    session[row[e].session].state \in {"shown", "hidden"}

TypeInv ==
  /\ RowsOK /\ SessionOK /\ WorkerOK /\ EraserOK
  /\ SessionsExist /\ ErasersExist /\ RowSessionsExist
  /\ changes \in 0..MaxChanges /\ upset \subseteq Ids

LEMMA Constants ==
  /\ MaxSessions \in Nat /\ MaxChanges \in Nat /\ Nowhere \notin Ids
  /\ IsFiniteSet(Events) /\ IsFiniteSet(Workers)
BY SessionsAssumption DEF Ids, Nowhere

LEMMA TypeInvImplies == TypeInv => SessionsTypeOK
BY Constants DEF TypeInv, SessionsTypeOK, RowsOK, Row, SessionOK, Session, RowSessionsExist

LEMMA InitTypes == Init => TypeInv
<1> SUFFICES ASSUME Init PROVE TypeInv
  OBVIOUS
<1>1. RowsOK /\ RowSessionsExist
  BY Constants DEF Init, RowsOK, Row, RowSessionsExist
<1>2. SessionOK
  BY DEF Init, SessionOK, NoSession, Session
<1>3. WorkerOK /\ SessionsExist /\ EraserOK /\ ErasersExist
  BY DEF Init, WorkerOK, SessionsExist, EraserOK, ErasersExist, FreeWorker, FreeEraser
<1>. QED  BY <1>1, <1>2, <1>3, Constants DEF Init, TypeInv

(* What being overtaken does to an eraser.                                 *)
LEMMA NotClean ==
  ASSUME NEW r, Erasing(r)
  PROVE  LET n == [r EXCEPT !.clean = FALSE]
         IN /\ Erasing(n)
            /\ n.pc = r.pc /\ n.todo = r.todo /\ n.now = r.now /\ n.found = r.found
            /\ n.saw = r.saw /\ n.ids = r.ids /\ n.clean = FALSE
BY DEF Erasing

Same(new, old) ==
  /\ (new = FreeEraser) <=> (old = FreeEraser)
  /\ new.pc = old.pc
  /\ old # FreeEraser => /\ new.todo = old.todo /\ new.now = old.now /\ new.found = old.found
                         /\ new.saw = old.saw /\ new.ids = old.ids
                         /\ new.clean => old.clean

LEMMA OvertakenEffect ==
  ASSUME EraserOK, NEW s, NEW pcs \in SUBSET {"measure", "act"}, Overtaken(s, pcs)
  PROVE  /\ EraserOK'
         /\ \A x \in Erasers :
              /\ Same(eraser'[x], eraser[x])
              /\ Works(x, pcs) /\ eraser[x].now = s => eraser'[x].clean = FALSE
<1>1. ASSUME NEW x \in Erasers
      PROVE  /\ eraser'[x] = FreeEraser \/ Erasing(eraser'[x])
             /\ Same(eraser'[x], eraser[x])
             /\ Works(x, pcs) /\ eraser[x].now = s => eraser'[x].clean = FALSE
  <2>1. CASE ~(Works(x, pcs) /\ eraser[x].now = s)
    BY <2>1 DEF Overtaken, Same, EraserOK
  <2>2. CASE Works(x, pcs) /\ eraser[x].now = s
    <3>1. eraser'[x] = [eraser[x] EXCEPT !.clean = FALSE]
      BY <2>2 DEF Overtaken
    <3>2. eraser[x] # FreeEraser /\ Erasing(eraser[x])
      BY <2>2 DEF EraserOK, Works, FreeEraser
    <3>3. Erasing(eraser'[x]) /\ eraser'[x] # FreeEraser
      BY <3>1, <3>2, NotClean DEF Erasing, FreeEraser
    <3>. QED  BY <3>1, <3>2, <3>3, NotClean DEF Same
  <2>. QED  BY <2>1, <2>2
<1>2. eraser' = [x \in Erasers |-> eraser'[x]]
  BY DEF Overtaken
<1>. QED  BY <1>1, <1>2 DEF EraserOK

(* Onwards: the eraser is done, or ready for the next of its sessions.     *)
LEMMA OnwardsEffect ==
  ASSUME NEW me, Erasing(me)
  PROVE  LET n == Onwards(me)
         IN /\ me.todo = {} => n = FreeEraser
            /\ me.todo # {} => /\ Erasing(n) /\ n # FreeEraser
                               /\ n.pc = "tidy" /\ n.todo = me.todo /\ n.now = Nowhere
<1> DEFINE n == [me EXCEPT !.pc = "tidy", !.ids = {}, !.now = Nowhere, !.saw = NoSession,
                           !.found = {}, !.left = FALSE, !.clean = TRUE]
<1>1. /\ n \in [pc : {"tidy"}, ids : SUBSET Events, permanent : BOOLEAN,
                deletion : 0..MaxChanges, todo : SUBSET Ids, now : {Nowhere}, saw : {NoSession},
                found : SUBSET Events, left : BOOLEAN, clean : BOOLEAN]
      /\ n.todo = me.todo
  BY DEF Erasing
<1>2. Erasing(n) /\ n # FreeEraser /\ n.pc = "tidy" /\ n.now = Nowhere
  <2> HIDE DEF n
  <2>. QED  BY <1>1 DEF Erasing, FreeEraser
<1>. QED  BY <1>1, <1>2 DEF Onwards

-----------------------------------------------------------------------------
(* The types, worker by worker ...                                         *)

LEMMA TakeTypes ==
  ASSUME TypeInv, NEW w \in Workers, NEW e \in Events, NEW s \in SessionFor(e), Take(w, e, s)
  PROVE  TypeInv'
<1>1. s = Nowhere \/ (s \in Ids /\ session[s].state = "shown")
  BY DEF SessionFor, Latest
<1>2. UNCHANGED <<row, session, eraser, changes, upset>>
  BY DEF Take
<1>3. worker' = [worker EXCEPT ![w] =
        [pc |-> IF s = Nowhere THEN "create" ELSE "insert", event |-> e, session |-> s,
         saw |-> IF s = Nowhere THEN e.at ELSE session[s].end]]
  BY DEF Take
<1>4. Serving([pc |-> IF s = Nowhere THEN "create" ELSE "insert", event |-> e, session |-> s,
               saw |-> IF s = Nowhere THEN e.at ELSE session[s].end])
  BY <1>1 DEF Serving
<1>5. WorkerOK' /\ SessionsExist'
  BY <1>1, <1>2, <1>3, <1>4, Constants DEF TypeInv, WorkerOK, SessionsExist
<1>. QED  BY <1>2, <1>5
          DEF TypeInv, RowsOK, SessionOK, EraserOK, ErasersExist, Within, RowSessionsExist

(* A session changes, but not away: what refers to sessions goes on to.    *)
LEMMA ReferencesKept ==
  ASSUME SessionsExist, ErasersExist, RowSessionsExist,
         UNCHANGED row,
         \A s \in Ids : session[s].state # "none" => session'[s].state # "none",
         \A s \in Ids : session[s].state \in {"shown", "hidden"} =>
                          session'[s].state \in {"shown", "hidden"},
         RowsOK, EraserOK
  PROVE  /\ RowSessionsExist'
         /\ (\A x \in Erasers : Same(eraser'[x], eraser[x])) => ErasersExist'
<1>1. RowSessionsExist'
  BY DEF RowSessionsExist, RowsOK, Row
<1>2. ASSUME \A x \in Erasers : Same(eraser'[x], eraser[x]) PROVE ErasersExist'
  <2> SUFFICES ASSUME NEW x \in Erasers, eraser[x] # FreeEraser, NEW s \in Within(x)
               PROVE  session'[s].state # "none"
    BY <1>2 DEF ErasersExist, Within, Same
  <2>1. s \in Ids
    BY DEF EraserOK, Erasing, Within
  <2>. QED  BY <2>1 DEF ErasersExist
<1>. QED  BY <1>1, <1>2

LEMMA ServingTypes ==
  ASSUME WorkerOK, NEW w \in Workers, ~At(w, "free")
  PROVE  /\ Serving(worker[w]) /\ worker[w] # FreeWorker /\ worker[w].event \in Events
         /\ worker[w].session \in Ids \cup {Nowhere}
         /\ ~At(w, "create") => worker[w].session \in Ids
BY DEF WorkerOK, Serving, FreeWorker, At

LEMMA SessionsKept ==
  ASSUME WorkerOK, SessionsExist,
         \A s \in Ids : session[s].state # "none" => session'[s].state # "none",
         \A v \in Workers : \/ worker'[v] = worker[v]
                            \/ /\ worker[v].pc \in {"insert", "count"}
                               /\ worker'[v].session = worker[v].session
                            \/ worker'[v] = FreeWorker
                            \/ session'[worker'[v].session].state # "none"
  PROVE  SessionsExist'
<1> SUFFICES ASSUME NEW v \in Workers, worker'[v].pc \in {"insert", "count", "end"}
             PROVE  session'[worker'[v].session].state # "none"
  BY DEF SessionsExist
<1>1. worker[v].pc \in {"insert", "count", "end"} => worker[v].session \in Ids
  BY ServingTypes DEF At
<1>. QED  BY <1>1 DEF SessionsExist, FreeWorker

LEMMA SessionStates ==
  ASSUME SessionOK, NEW s \in Ids
  PROVE  session[s].state \in {"none", "shown", "hidden", "gone"} /\ session[s].count \in Int
BY DEF SessionOK, Session

LEMMA CreateTypes ==
  ASSUME TypeInv, NEW w \in Workers, Create(w) PROVE TypeInv'
<1>1. PICK s \in Ids :
        /\ session[s].state = "none"
        /\ session' = [session EXCEPT ![s] =
             [state |-> "shown", start |-> worker[w].event.at,
              end |-> worker[w].event.at, count |-> 0]]
        /\ worker' = [worker EXCEPT ![w].pc = "insert", ![w].session = s]
  BY DEF Create
<1>2. UNCHANGED <<row, eraser, changes, upset>> /\ At(w, "create")
  BY DEF Create
<1>3. Serving(worker[w])
  BY <1>2 DEF TypeInv, WorkerOK, At, FreeWorker
<1>4. Serving([worker[w] EXCEPT !.pc = "insert", !.session = s])
      /\ worker'[w] = [worker[w] EXCEPT !.pc = "insert", !.session = s]
  BY <1>1, <1>3, Constants DEF TypeInv, WorkerOK, Serving
<1>5. SessionOK'
  BY <1>1 DEF TypeInv, SessionOK, Session
<1>6. session'[s].state = "shown" /\ \A i \in Ids \ {s} : session'[i] = session[i]
  BY <1>1 DEF TypeInv, SessionOK
<1>7. WorkerOK'
  <2>1. worker' = [v \in Workers |-> worker'[v]]
    BY <1>1 DEF TypeInv, WorkerOK
  <2>2. \A v \in Workers \ {w} : worker'[v] = worker[v]
    BY <1>1 DEF TypeInv, WorkerOK
  <2>. QED  BY <1>4, <2>1, <2>2 DEF TypeInv, WorkerOK
<1>8. SessionsExist'
  <2>1. worker'[w].session = s /\ session'[s].state # "none"
    BY <1>3, <1>4, <1>6 DEF Serving
  <2>2. \A v \in Workers \ {w} : worker'[v] = worker[v]
    BY <1>1 DEF TypeInv, WorkerOK
  <2>3. \A i \in Ids : session[i].state # "none" => session'[i].state # "none"
    BY <1>6
  <2>. QED  BY <2>1, <2>2, <2>3, SessionsKept DEF TypeInv
<1>9. RowSessionsExist' /\ ErasersExist'
  BY <1>1, <1>2, <1>6, ReferencesKept DEF TypeInv, Same
<1>. QED  BY <1>2, <1>5, <1>7, <1>8, <1>9 DEF TypeInv, RowsOK, EraserOK

LEMMA InsertTypes ==
  ASSUME TypeInv, NEW w \in Workers, Insert(w) PROVE TypeInv'
<1> DEFINE e == worker[w].event
           s == worker[w].session
<1>1. e \in Events /\ s \in Ids /\ s # Nowhere /\ session[s].state # "none" /\ Serving(worker[w])
  BY ServingTypes, Constants DEF TypeInv, Insert, At, SessionsExist
<1>2. UNCHANGED <<session, changes>>
  BY DEF Insert
<1>3. CASE Storable(e, s)
  <2>1. /\ row' = [row EXCEPT ![e].state = "live", ![e].session = s]
        /\ worker' = [worker EXCEPT ![w].pc = "count"]
        /\ upset' \subseteq upset \cup {s} /\ Overtaken(s, {"act"})
    BY <1>3 DEF Insert
  <2>2. EraserOK' /\ \A x \in Erasers : Same(eraser'[x], eraser[x])
    BY <2>1, OvertakenEffect DEF TypeInv
  <2>3. row' = [f \in Events |-> row'[f]] /\ \A f \in Events \ {e} : row'[f] = row[f]
    BY <1>1, <2>1 DEF TypeInv, RowsOK
  <2>4. row'[e] \in [state : {"live"}, session : {s}, deletion : {row[e].deletion}]
    <3>1. row[e] \in Row
      BY <1>1 DEF TypeInv, RowsOK
    <3>2. row'[e] = [row[e] EXCEPT !.state = "live", !.session = s]
      BY <1>1, <2>1 DEF TypeInv, RowsOK
    <3>. QED  BY <3>1, <3>2 DEF Row
  <2>5. RowsOK'
    BY <1>1, <2>3, <2>4 DEF TypeInv, RowsOK, Row
  <2>6. session[s].state \in {"shown", "hidden"}
    BY <1>1, <1>3, SessionStates DEF Storable, TypeInv
  <2>7. RowSessionsExist'
    BY <1>2, <2>3, <2>4, <2>6 DEF TypeInv, RowSessionsExist
  <2>8. worker'[w] = [worker[w] EXCEPT !.pc = "count"]
        /\ \A v \in Workers \ {w} : worker'[v] = worker[v]
    BY <2>1 DEF TypeInv, WorkerOK
  <2>9. Serving(worker'[w]) /\ worker'[w].session = s
    BY <1>1, <2>8, Constants DEF Serving
  <2>10. WorkerOK'
    BY <2>1, <2>8, <2>9 DEF TypeInv, WorkerOK
  <2>11. SessionsExist'
    BY <1>1, <1>2, <2>8, <2>9, SessionsKept DEF TypeInv
  <2>12. ErasersExist'
    BY <1>2, <2>2 DEF TypeInv, ErasersExist, Within, Same
  <2>. QED  BY <1>1, <1>2, <2>1, <2>2, <2>5, <2>7, <2>10, <2>11, <2>12 DEF TypeInv, SessionOK
<1>4. CASE ~Storable(e, s)
  <2>1. /\ worker' = [worker EXCEPT ![w] = FreeWorker]
        /\ upset' \subseteq upset \cup {s} /\ UNCHANGED <<row, eraser>>
    BY <1>4 DEF Insert, LeftEmpty
  <2>2. WorkerOK' /\ SessionsExist'
    BY <1>2, <2>1 DEF TypeInv, WorkerOK, SessionsExist, FreeWorker
  <2>. QED  BY <1>1, <1>2, <2>1, <2>2
            DEF TypeInv, RowsOK, SessionOK, EraserOK, ErasersExist, Within, RowSessionsExist
<1>. QED  BY <1>3, <1>4

(* A session of which only the count or the end changes.                   *)
LEMMA SessionTouched ==
  ASSUME SessionOK, NEW s \in Ids,
         \/ \E c \in Int : session' = [session EXCEPT ![s].count = c]
         \/ \E t : session' = [session EXCEPT ![s].end = t]
  PROVE  /\ SessionOK'
         /\ \A i \in Ids : /\ session'[i].state = session[i].state
                           /\ i # s => session'[i] = session[i]
<1>1. /\ session' = [i \in Ids |-> session'[i]]
      /\ \A i \in Ids \ {s} : session'[i] = session[i]
      /\ \/ \E c \in Int : session'[s] = [session[s] EXCEPT !.count = c]
         \/ \E t : session'[s] = [session[s] EXCEPT !.end = t]
  BY DEF SessionOK
<1>2. Session(session'[s]) /\ session'[s].state = session[s].state
  BY <1>1 DEF SessionOK, Session
<1>. QED  BY <1>1, <1>2 DEF SessionOK

LEMMA CountTypes ==
  ASSUME TypeInv, NEW w \in Workers, Count(w) PROVE TypeInv'
<1> DEFINE s == worker[w].session
<1>1. s \in Ids /\ Serving(worker[w]) /\ session[s].state # "none"
  BY ServingTypes DEF TypeInv, Count, At, SessionsExist
<1>2. PICK c \in Int : session' = [session EXCEPT ![s].count = c]
  <2> DEFINE c == IF session[s].state = "shown" THEN session[s].count + 1
                  ELSE session[s].count
  <2>1. session' = [session EXCEPT ![s].count = c]
    BY DEF Count
  <2>2. c \in Int
    BY <1>1, SessionStates DEF TypeInv
  <2> HIDE DEF c
  <2>. QED  BY <2>1, <2>2
<1>3. /\ SessionOK'
      /\ \A i \in Ids : session'[i].state = session[i].state
  BY <1>1, <1>2, SessionTouched DEF TypeInv
<1>4. /\ worker' = [worker EXCEPT ![w].pc = "end"] /\ UNCHANGED <<row, changes, upset>>
      /\ EraserOK' /\ \A x \in Erasers : Same(eraser'[x], eraser[x])
  BY OvertakenEffect DEF Count, TypeInv
<1>5. worker'[w] = [worker[w] EXCEPT !.pc = "end"]
      /\ \A v \in Workers \ {w} : worker'[v] = worker[v]
  BY <1>4 DEF TypeInv, WorkerOK
<1>6. Serving(worker'[w]) /\ worker'[w].session = s
  BY <1>1, <1>5, Constants DEF Serving
<1>7. WorkerOK'
  BY <1>4, <1>5, <1>6 DEF TypeInv, WorkerOK
<1>8. SessionsExist'
  BY <1>1, <1>3, <1>5, <1>6, SessionsKept DEF TypeInv
<1>9. RowSessionsExist' /\ ErasersExist'
  BY <1>3, <1>4, ReferencesKept DEF TypeInv
<1>. QED  BY <1>3, <1>4, <1>7, <1>8, <1>9 DEF TypeInv, RowsOK

LEMMA EndTypes ==
  ASSUME TypeInv, NEW w \in Workers, End(w) PROVE TypeInv'
<1> DEFINE s == worker[w].session
<1>1. s \in Ids
  BY ServingTypes DEF TypeInv, End, At
<1>2. \E t : session' = [session EXCEPT ![s].end = t]
  <2> DEFINE t == IF session[s].state = "gone" \/ worker[w].saw = worker[w].event.at
                  THEN session[s].end ELSE worker[w].event.at
  <2>1. session' = [session EXCEPT ![s].end = t]
    BY DEF End
  <2> HIDE DEF t
  <2>. QED  BY <2>1
<1>3. /\ SessionOK'
      /\ \A i \in Ids : session'[i].state = session[i].state
  BY <1>1, <1>2, SessionTouched DEF TypeInv
<1>4. worker' = [worker EXCEPT ![w] = FreeWorker] /\ UNCHANGED <<row, eraser, changes, upset>>
  BY DEF End
<1>5. WorkerOK' /\ \A v \in Workers : worker'[v] = worker[v] \/ worker'[v] = FreeWorker
  BY <1>4 DEF TypeInv, WorkerOK
<1>6. SessionsExist'
  BY <1>3, <1>5, SessionsKept DEF TypeInv
<1>7. RowSessionsExist' /\ ErasersExist'
  BY <1>3, <1>4, ReferencesKept DEF TypeInv, Same
<1>. QED  BY <1>3, <1>4, <1>5, <1>6, <1>7 DEF TypeInv, RowsOK, EraserOK

LEMMA WorkerDiesTypes ==
  ASSUME TypeInv, NEW w \in Workers, WorkerDies(w) PROVE TypeInv'
<1>1. worker' = [worker EXCEPT ![w] = FreeWorker] /\ UNCHANGED <<row, session, eraser>>
  BY DEF WorkerDies
<1>2. WorkerOK' /\ \A v \in Workers : worker'[v] = worker[v] \/ worker'[v] = FreeWorker
  BY <1>1 DEF TypeInv, WorkerOK
<1>3. SessionsExist'
  BY <1>1, <1>2, SessionsKept DEF TypeInv
<1>4. upset' \subseteq Ids
  BY ServingTypes DEF TypeInv, WorkerDies, At, LeftEmpty
<1>5. changes' \in 0..MaxChanges
  BY Constants DEF TypeInv, WorkerDies
<1>. QED  BY <1>1, <1>2, <1>3, <1>4, <1>5
          DEF TypeInv, RowsOK, SessionOK, EraserOK, ErasersExist, Within, RowSessionsExist

-----------------------------------------------------------------------------
(* ... and eraser by eraser.                                               *)

(* The one eraser that moves.                                              *)
LEMMA EraserMoves ==
  ASSUME EraserOK, NEW x \in Erasers,
         eraser' = [y \in Erasers |-> eraser'[y]],
         eraser'[x] = FreeEraser \/ Erasing(eraser'[x]),
         \A y \in Erasers \ {x} : eraser'[y] = FreeEraser \/ Erasing(eraser'[y])
  PROVE  EraserOK'
BY DEF EraserOK

Erasable == {e \in Events : row[e].state # "none"}

LEMMA StartsTypes ==
  ASSUME TypeInv, NEW x \in Erasers, NEW pc \in {"trash", "erase", "restore"},
         NEW ids \in SUBSET Events, Starts(x, pc, ids)
  PROVE  /\ TypeInv'
         /\ eraser'[x].ids = ids /\ eraser'[x].now = Nowhere /\ eraser'[x].pc = pc
         /\ eraser'[x].todo = {row[e].session : e \in ids} \ {Nowhere}
         /\ \A y \in Erasers \ {x} : eraser'[y] = eraser[y]
<1> DEFINE n == [pc |-> pc, ids |-> ids, permanent |-> pc = "erase", deletion |-> changes + 1,
                 todo |-> {row[e].session : e \in ids} \ {Nowhere}, now |-> Nowhere,
                 saw |-> NoSession, found |-> {}, left |-> FALSE, clean |-> TRUE]
<1>1. /\ UNCHANGED <<row, session, worker, upset>> /\ changes' = changes + 1
      /\ changes < MaxChanges /\ eraser' = [eraser EXCEPT ![x] = n]
  BY DEF Starts
<1>2. changes + 1 \in 0..MaxChanges
  BY <1>1, Constants DEF TypeInv
<1>3. {row[e].session : e \in ids} \ {Nowhere} \subseteq Ids
  BY DEF TypeInv, RowsOK, Row
<1>4. Erasing(n) /\ n # FreeEraser
  BY <1>2, <1>3 DEF Erasing, FreeEraser
<1>5. n.ids = ids /\ n.now = Nowhere /\ n.pc = pc
      /\ n.todo = {row[e].session : e \in ids} \ {Nowhere}
  OBVIOUS
<1> HIDE DEF n
<1>6. eraser'[x] = n /\ \A y \in Erasers \ {x} : eraser'[y] = eraser[y]
  BY <1>1 DEF TypeInv, EraserOK
<1>7. EraserOK'
  BY <1>1, <1>4, <1>6 DEF TypeInv, EraserOK
<1>8. ErasersExist'
  <2> SUFFICES ASSUME NEW y \in Erasers, eraser'[y] # FreeEraser, NEW s \in Within(y)'
               PROVE  session[s].state # "none"
    BY <1>1 DEF ErasersExist
  <2>1. CASE y = x
    <3>1. PICK e \in ids : s = row[e].session /\ s # Nowhere
      BY <1>5, <1>6, <2>1 DEF Within
    <3>. QED  BY <3>1 DEF TypeInv, RowSessionsExist
  <2>2. CASE y # x
    BY <1>6, <2>2 DEF TypeInv, ErasersExist, Within
  <2>. QED  BY <2>1, <2>2
<1>. QED  BY <1>1, <1>2, <1>5, <1>6, <1>7, <1>8
          DEF TypeInv, RowsOK, SessionOK, WorkerOK, SessionsExist, RowSessionsExist

LEMMA ErasingTypes ==
  ASSUME EraserOK, NEW x \in Erasers, eraser[x].pc # "free"
  PROVE  /\ Erasing(eraser[x]) /\ eraser[x] # FreeEraser
         /\ eraser[x].deletion \in 0..MaxChanges /\ eraser[x].ids \subseteq Events
         /\ eraser[x].todo \subseteq Ids /\ eraser[x].found \subseteq Events
         /\ eraser[x].pc \in {"measure", "act"} => eraser[x].now \in Ids
BY DEF EraserOK, Erasing, FreeEraser

(* Trash, Restore and Erase.                                               *)
LEMMA ChangesTypes ==
  ASSUME TypeInv, NEW x \in Erasers, Works(x, {"trash", "erase", "restore"}),
         NEW rows \in SUBSET Events, NEW new, \A e \in rows : new[e] \in Row,
         \A e \in rows : new[e].session \in {row[e].session, Nowhere},
         Changes(x, rows, new)
  PROVE  /\ TypeInv'
         /\ eraser'[x] = Onwards(eraser[x]) /\ eraser[x] # FreeEraser /\ Erasing(eraser[x])
         /\ \A y \in Erasers \ {x} :
              /\ Same(eraser'[y], eraser[y])
              /\ Works(y, {"act"}) /\ eraser[y].now \in {row[e].session : e \in rows} =>
                   eraser'[y].clean = FALSE
<1> DEFINE touched == {row[e].session : e \in rows}
<1>1. /\ row' = [e \in Events |-> IF e \in rows THEN new[e] ELSE row[e]]
      /\ UNCHANGED <<session, worker, changes, upset>>
      /\ eraser' = [y \in Erasers |->
            IF y = x THEN Onwards(eraser[x])
            ELSE IF Works(y, {"act"}) /\ eraser[y].now \in touched
                 THEN [eraser[y] EXCEPT !.clean = FALSE] ELSE eraser[y]]
  BY DEF Changes
<1>2. eraser'[x] = Onwards(eraser[x]) /\ eraser[x] # FreeEraser /\ Erasing(eraser[x])
  BY <1>1, ErasingTypes DEF TypeInv, Works
<1>3. ASSUME NEW y \in Erasers \ {x}
      PROVE  /\ eraser'[y] = FreeEraser \/ Erasing(eraser'[y])
             /\ Same(eraser'[y], eraser[y])
             /\ Works(y, {"act"}) /\ eraser[y].now \in touched => eraser'[y].clean = FALSE
  <2>1. CASE ~(Works(y, {"act"}) /\ eraser[y].now \in touched)
    BY <1>1, <2>1 DEF TypeInv, EraserOK, Same
  <2>2. CASE Works(y, {"act"}) /\ eraser[y].now \in touched
    <3>1. eraser'[y] = [eraser[y] EXCEPT !.clean = FALSE]
      BY <1>1, <2>2
    <3>2. eraser[y] # FreeEraser /\ Erasing(eraser[y])
      BY <2>2 DEF TypeInv, EraserOK, Works, FreeEraser
    <3>3. Erasing(eraser'[y]) /\ eraser'[y] # FreeEraser
      BY <3>1, <3>2, NotClean DEF Erasing, FreeEraser
    <3>. QED  BY <3>1, <3>2, <3>3, NotClean DEF Same
  <2>. QED  BY <2>1, <2>2
<1>4. EraserOK'
  <2>1. eraser' = [y \in Erasers |-> eraser'[y]]
    BY <1>1
  <2>2. eraser'[x] = FreeEraser \/ Erasing(eraser'[x])
    BY <1>2, OnwardsEffect
  <2>. QED  BY <1>3, <2>1, <2>2 DEF EraserOK
<1>5. ErasersExist'
  <2> SUFFICES ASSUME NEW y \in Erasers, eraser'[y] # FreeEraser, NEW s \in Within(y)'
               PROVE  session[s].state # "none"
    BY <1>1 DEF ErasersExist
  <2>1. CASE y = x
    <3>1. s \in eraser[x].todo
      BY <1>2, <2>1, OnwardsEffect DEF Within
    <3>. QED  BY <1>2, <3>1 DEF TypeInv, ErasersExist, Within
  <2>2. CASE y # x
    BY <1>3, <2>2 DEF TypeInv, ErasersExist, Within, Same
  <2>. QED  BY <2>1, <2>2
<1>6. RowsOK'
  BY <1>1 DEF TypeInv, RowsOK
<1>7. RowSessionsExist'
  BY <1>1 DEF TypeInv, RowSessionsExist
<1>. QED  BY <1>1, <1>2, <1>3, <1>4, <1>5, <1>6, <1>7
          DEF TypeInv, SessionOK, WorkerOK, SessionsExist

(* The rows that each of them changes, and what they become.               *)
ChangesStored(x) ==
  \E rows \in SUBSET eraser[x].ids : \E new :
    /\ Changes(x, rows, new)
    /\ \A e \in rows \cap Events :
         /\ new[e] \in Row /\ new[e].session \in {row[e].session, Nowhere}
         /\ row[e].state # "none" /\ new[e].state # "none"

LEMMA TrashChanges ==
  ASSUME TypeInv, NEW x \in Erasers, Trash(x) PROVE ChangesStored(x)
<1> DEFINE d == eraser[x].deletion
           rows == {e \in eraser[x].ids : row[e].state = "live"}
           new == [e \in Events |-> [row[e] EXCEPT !.state = "trashed", !.deletion = d]]
<1>1. d \in 0..MaxChanges
  BY ErasingTypes DEF TypeInv, Trash, Works
<1>2. ASSUME NEW e \in Events
      PROVE  new[e] \in Row /\ new[e].session = row[e].session /\ new[e].state # "none"
  <2>1. row[e] \in Row
    BY DEF TypeInv, RowsOK
  <2>. QED  BY <1>1, <2>1 DEF Row
<1>3. Changes(x, rows, new)
  BY DEF Trash
<1>4. \A e \in rows : row[e].state # "none"
  OBVIOUS
<1> HIDE DEF new
<1>. QED  BY <1>2, <1>3, <1>4 DEF ChangesStored

LEMMA RestoreChanges ==
  ASSUME TypeInv, NEW x \in Erasers, Restore(x) PROVE ChangesStored(x)
<1> DEFINE rows == {e \in eraser[x].ids : row[e].state = "trashed"}
           new == [e \in Events |-> [row[e] EXCEPT !.state = "live", !.deletion = 0]]
<1>1. 0 \in 0..MaxChanges
  BY Constants
<1>2. ASSUME NEW e \in Events
      PROVE  new[e] \in Row /\ new[e].session = row[e].session /\ new[e].state # "none"
  <2>1. row[e] \in Row
    BY DEF TypeInv, RowsOK
  <2>. QED  BY <1>1, <2>1 DEF Row
<1>3. Changes(x, rows, new)
  BY DEF Restore
<1>4. \A e \in rows : row[e].state # "none"
  OBVIOUS
<1> HIDE DEF new
<1>. QED  BY <1>2, <1>3, <1>4 DEF ChangesStored

LEMMA EraseChanges ==
  ASSUME TypeInv, NEW x \in Erasers, Erase(x) PROVE ChangesStored(x)
<1> DEFINE rows == eraser[x].ids \cap Stored
           new == [e \in Events |-> [row[e] EXCEPT !.state = "erased", !.session = Nowhere]]
<1>2. ASSUME NEW e \in Events
      PROVE  new[e] \in Row /\ new[e].session = Nowhere /\ new[e].state # "none"
  <2>1. row[e] \in Row
    BY DEF TypeInv, RowsOK
  <2>. QED  BY <2>1 DEF Row
<1>3. Changes(x, rows, new)
  BY DEF Erase
<1>4. \A e \in rows : row[e].state # "none"
  BY DEF Stored
<1> HIDE DEF new
<1>. QED  BY <1>2, <1>3, <1>4 DEF ChangesStored

(* An eraser moves on its own.                                             *)
LEMMA OneEraserTypes ==
  ASSUME TypeInv, NEW x \in Erasers, UNCHANGED <<row, session, worker, changes, upset>>,
         NEW n, eraser' = [eraser EXCEPT ![x] = n], n = FreeEraser \/ Erasing(n),
         n # FreeEraser => \A s \in n.todo \cup ({n.now} \ {Nowhere}) : session[s].state # "none"
  PROVE  TypeInv' /\ eraser'[x] = n /\ \A y \in Erasers \ {x} : eraser'[y] = eraser[y]
<1>1. eraser'[x] = n /\ \A y \in Erasers \ {x} : eraser'[y] = eraser[y]
  BY DEF TypeInv, EraserOK
<1>2. EraserOK'
  BY <1>1 DEF TypeInv, EraserOK
<1>3. ErasersExist'
  BY <1>1 DEF TypeInv, ErasersExist, Within
<1>. QED  BY <1>1, <1>2, <1>3
          DEF TypeInv, RowsOK, SessionOK, WorkerOK, SessionsExist, RowSessionsExist

(* The next session: gone, or to be measured.                              *)
LEMMA TidyTypes ==
  ASSUME TypeInv, NEW x \in Erasers, Tidy(x)
  PROVE  /\ TypeInv'
         /\ \A y \in Erasers \ {x} : eraser'[y] = eraser[y]
         /\ \E s \in eraser[x].todo :
              \/ /\ session[s].state = "gone"
                 /\ \/ eraser'[x] = FreeEraser /\ eraser[x].todo \ {s} = {}
                    \/ /\ eraser'[x].pc = "tidy" /\ eraser'[x] # FreeEraser
                       /\ eraser'[x].todo = eraser[x].todo \ {s} /\ eraser'[x].now = Nowhere
              \/ /\ session[s].state # "gone"
                 /\ eraser'[x].pc = "measure" /\ eraser'[x] # FreeEraser
                 /\ eraser'[x].todo = eraser[x].todo \ {s}
                 /\ eraser'[x].now = s /\ eraser'[x].saw = session[s]
<1>1. PICK s \in eraser[x].todo :
        LET me == [eraser[x] EXCEPT !.todo = @ \ {s}]
        IN eraser' = [eraser EXCEPT ![x] =
             IF session[s].state = "gone" THEN Onwards(me)
             ELSE [me EXCEPT !.pc = "measure", !.now = s, !.saw = session[s]]]
  BY DEF Tidy
<1> DEFINE me == [eraser[x] EXCEPT !.todo = @ \ {s}]
           n == [me EXCEPT !.pc = "measure", !.now = s, !.saw = session[s]]
<1>2. /\ Erasing(eraser[x]) /\ eraser[x] # FreeEraser /\ eraser[x].pc = "tidy" /\ s \in Ids
      /\ \A i \in eraser[x].todo : session[i].state # "none"
  BY ErasingTypes DEF TypeInv, Tidy, Works, ErasersExist, Within
<1>3. Erasing(me) /\ me.todo = eraser[x].todo \ {s} /\ me.pc = "tidy"
  BY <1>2 DEF Erasing
<1>4. UNCHANGED <<row, session, worker, changes, upset>>
  BY DEF Tidy
<1>5. CASE session[s].state = "gone"
  <2>1. eraser' = [eraser EXCEPT ![x] = Onwards(me)]
    BY <1>1, <1>5
  <2>2. \/ Onwards(me) = FreeEraser /\ me.todo = {}
        \/ /\ Erasing(Onwards(me)) /\ Onwards(me) # FreeEraser
           /\ Onwards(me).pc = "tidy" /\ Onwards(me).todo = me.todo /\ Onwards(me).now = Nowhere
    BY <1>3, OnwardsEffect
  <2> HIDE DEF me
  <2> DEFINE o == Onwards(me)
  <2>3. o = FreeEraser \/ Erasing(o)
    BY <2>2
  <2>4. o # FreeEraser => \A i \in o.todo \cup ({o.now} \ {Nowhere}) : session[i].state # "none"
    BY <1>2, <1>3, <2>2
  <2>5. eraser' = [eraser EXCEPT ![x] = o]
    BY <2>1
  <2> HIDE DEF o
  <2>6. TypeInv' /\ eraser'[x] = o /\ \A y \in Erasers \ {x} : eraser'[y] = eraser[y]
    BY <1>4, <2>3, <2>4, <2>5, OneEraserTypes
  <2>. QED  BY <1>3, <1>5, <2>2, <2>6 DEF o
<1>6. CASE session[s].state # "gone"
  <2>1. eraser' = [eraser EXCEPT ![x] = n]
    BY <1>1, <1>6
  <2>2. n \in [pc : {"measure"}, ids : SUBSET Events, permanent : BOOLEAN,
               deletion : 0..MaxChanges, todo : SUBSET Ids, now : {s}, saw : {session[s]},
               found : SUBSET Events, left : BOOLEAN, clean : BOOLEAN]
        /\ n.todo = me.todo
    BY <1>3 DEF Erasing
  <2> HIDE DEF n, me
  <2>3. Erasing(n) /\ n # FreeEraser /\ n.pc = "measure" /\ n.now = s /\ n.saw = session[s]
    BY <1>2, <2>2, Constants DEF Erasing, FreeEraser
  <2>4. \A i \in n.todo \cup ({n.now} \ {Nowhere}) : session[i].state # "none"
    BY <1>2, <1>3, <2>2, <2>3
  <2>5. TypeInv' /\ eraser'[x] = n /\ \A y \in Erasers \ {x} : eraser'[y] = eraser[y]
    BY <1>4, <2>1, <2>3, <2>4, OneEraserTypes
  <2>. QED  BY <1>3, <1>6, <2>2, <2>3, <2>5
<1>. QED  BY <1>5, <1>6

LEMMA MeasureTypes ==
  ASSUME TypeInv, NEW x \in Erasers, Measure(x)
  PROVE  /\ TypeInv'
         /\ \A y \in Erasers \ {x} : eraser'[y] = eraser[y]
         /\ eraser'[x].pc = "act" /\ eraser'[x] # FreeEraser
         /\ eraser'[x].now = eraser[x].now /\ eraser'[x].todo = eraser[x].todo
         /\ eraser'[x].saw = eraser[x].saw /\ eraser'[x].found = Visible(eraser[x].now)
         /\ eraser'[x].clean => /\ eraser[x].clean
                                /\ \A w \in Workers :
                                     ~(At(w, "count") /\ worker[w].session = eraser[x].now)
<1> DEFINE s == eraser[x].now
           f == Visible(s)
           l == In("trashed", s) # {}
           idle == \A w \in Workers : ~(At(w, "count") /\ worker[w].session = s)
           c == eraser[x].clean /\ idle
           n == [eraser[x] EXCEPT !.pc = "act", !.found = f, !.left = l, !.clean = c]
<1>1. /\ Erasing(eraser[x]) /\ eraser[x] # FreeEraser /\ eraser[x].pc = "measure" /\ s \in Ids
      /\ \A i \in eraser[x].todo \cup {s} : session[i].state # "none"
  BY ErasingTypes, Constants DEF TypeInv, Measure, Works, ErasersExist, Within
<1>2. UNCHANGED <<row, session, worker, changes, upset>> /\ eraser' = [eraser EXCEPT ![x] = n]
  BY DEF Measure
<1>3. f \in SUBSET Events /\ l \in BOOLEAN /\ c \in BOOLEAN
  BY <1>1 DEF Visible, In, Erasing
<1> HIDE DEF f, l, idle
<1>4. (c => eraser[x].clean /\ idle)
  OBVIOUS
<1> HIDE DEF c
<1>5. n \in [pc : {"act"}, ids : SUBSET Events, permanent : BOOLEAN,
             deletion : 0..MaxChanges, todo : {eraser[x].todo}, now : {s},
             saw : {eraser[x].saw}, found : {f}, left : BOOLEAN, clean : {c}]
  BY <1>1, <1>3 DEF Erasing
<1> HIDE DEF n
<1>6. /\ n.pc = "act" /\ n.todo = eraser[x].todo /\ n.now = s /\ n.saw = eraser[x].saw
      /\ n.found = f /\ n.clean = c
  BY <1>5
<1>7. Erasing(n) /\ n # FreeEraser
  BY <1>1, <1>3, <1>5, Constants DEF Erasing, FreeEraser
<1>8. TypeInv' /\ eraser'[x] = n /\ \A y \in Erasers \ {x} : eraser'[y] = eraser[y]
  BY <1>1, <1>2, <1>6, <1>7, OneEraserTypes
<1>. QED  BY <1>4, <1>6, <1>7, <1>8 DEF f, idle

(* What Act makes of the session.                                          *)
Acted(old, me, gone) ==
  IF old.state = "gone" THEN old
  ELSE IF gone THEN [NoSession EXCEPT !.state = "gone"]
  ELSE IF me.found = {} THEN [old EXCEPT !.state = "hidden"]
  ELSE Measured(old, me.saw, me.found)

LEMMA ActedTypes ==
  ASSUME NEW old, Session(old), old.state # "none", NEW me, Erasing(me), NEW gone \in BOOLEAN
  PROVE  LET new == Acted(old, me, gone)
         IN /\ Session(new) /\ new.state # "none"
            /\ ~gone /\ old.state # "gone" => new.state \in {"shown", "hidden"}
            /\ ~gone /\ old.state # "gone" /\ me.found = {} => new.state = "hidden"
            /\ ~gone /\ old.state # "gone" /\ me.found # {} =>
                 /\ new.state = IF me.saw.state = "hidden" THEN "shown" ELSE old.state
                 /\ new.count = IF me.saw.count = Cardinality(me.found) THEN old.count
                                ELSE Cardinality(me.found)
            /\ gone => new.state = "gone"
<1>1. Cardinality(me.found) \in Int
  BY Constants, FS_Subset, FS_CardinalityType DEF Erasing
<1>2. CASE old.state = "gone"
  BY <1>2 DEF Acted
<1>3. CASE old.state # "gone" /\ gone
  BY <1>3 DEF Acted, NoSession, Session
<1>4. CASE old.state # "gone" /\ ~gone /\ me.found = {}
  <2>1. Acted(old, me, gone) = [old EXCEPT !.state = "hidden"]
    BY <1>4 DEF Acted
  <2>. QED  BY <1>4, <2>1 DEF Session
<1>5. CASE old.state # "gone" /\ ~gone /\ me.found # {}
  <2> DEFINE new == Measured(old, me.saw, me.found)
  <2>1. Acted(old, me, gone) = new
    BY <1>5 DEF Acted
  <2>2. /\ new.state = IF me.saw.state = "hidden" THEN "shown" ELSE old.state
        /\ new.count = IF me.saw.count = Cardinality(me.found) THEN old.count
                       ELSE Cardinality(me.found)
    BY DEF Measured
  <2>3. Session(new)
    <3>1. old.state \in {"none", "shown", "hidden", "gone"} /\ old.count \in Int
      BY DEF Session
    <3>2. new = [state |-> new.state, count |-> new.count, start |-> new.start, end |-> new.end]
      BY DEF Measured
    <3> HIDE DEF new
    <3>. QED  BY <1>1, <2>2, <3>1, <3>2 DEF Session
  <2>4. old.state \in {"shown", "hidden"}
    BY <1>5 DEF Session
  <2> HIDE DEF new
  <2>. QED  BY <1>5, <2>1, <2>2, <2>3, <2>4
<1>. QED  BY <1>2, <1>3, <1>4, <1>5

Gone(me) == me.found = {} /\ me.permanent /\ ~me.left

LEMMA ActTypes ==
  ASSUME TypeInv, NEW x \in Erasers, Act(x)
  PROVE  LET s == eraser[x].now
             gone == Gone(eraser[x])
         IN /\ TypeInv'
            /\ eraser'[x] = Onwards(eraser[x]) /\ eraser[x] # FreeEraser /\ Erasing(eraser[x])
            /\ s \in Ids /\ session[s].state # "none" /\ gone \in BOOLEAN
            /\ session'[s] = Acted(session[s], eraser[x], gone)
            /\ \A i \in Ids \ {s} : session'[i] = session[i]
            /\ \A e \in Events : /\ row'[e].state = row[e].state
                                 /\ row'[e].session = IF gone /\ row[e].session = s THEN Nowhere
                                                      ELSE row[e].session
            /\ \A y \in Erasers \ {x} :
                 /\ Same(eraser'[y], eraser[y])
                 /\ Works(y, {"measure", "act"}) /\ eraser[y].now = s => eraser'[y].clean = FALSE
            /\ upset' = IF eraser[x].clean THEN upset \ {s} ELSE upset \cup {s}
            /\ UNCHANGED worker
<1> DEFINE me == eraser[x]
           s == me.now
           gone == Gone(me)
<1>1. /\ Erasing(me) /\ me # FreeEraser /\ me.pc = "act" /\ s \in Ids
      /\ \A i \in me.todo \cup {s} : session[i].state # "none"
  BY ErasingTypes, Constants DEF TypeInv, Act, Works, ErasersExist, Within
<1>2. /\ session' = [session EXCEPT ![s] = Acted(session[s], me, gone)]
      /\ row' = [e \in Events |->
            IF gone /\ row[e].session = s THEN [row[e] EXCEPT !.session = Nowhere] ELSE row[e]]
      /\ eraser' = [y \in Erasers |->
            IF y = x THEN Onwards(me)
            ELSE IF Works(y, {"measure", "act"}) /\ eraser[y].now = s
                 THEN [eraser[y] EXCEPT !.clean = FALSE] ELSE eraser[y]]
      /\ upset' = IF me.clean THEN upset \ {s} ELSE upset \cup {s}
      /\ UNCHANGED <<worker, changes>>
  BY DEF Act, Acted, Gone
<1>3. gone \in BOOLEAN
  BY <1>1 DEF Gone, Erasing
<1>4. Session(session[s]) /\ session[s].state # "none"
  BY <1>1 DEF TypeInv, SessionOK
<1>5. Session(Acted(session[s], me, gone)) /\ Acted(session[s], me, gone).state # "none"
  BY <1>1, <1>3, <1>4, ActedTypes
<1>6. /\ session' = [i \in Ids |-> session'[i]]
      /\ session'[s] = Acted(session[s], me, gone)
      /\ \A i \in Ids \ {s} : session'[i] = session[i]
  BY <1>1, <1>2 DEF TypeInv, SessionOK
<1>7. SessionOK' /\ \A i \in Ids : session[i].state # "none" => session'[i].state # "none"
  BY <1>5, <1>6 DEF TypeInv, SessionOK
<1>8. ASSUME NEW e \in Events
      PROVE  /\ row'[e].state = row[e].state /\ row'[e] \in Row
             /\ row'[e].session = IF gone /\ row[e].session = s THEN Nowhere ELSE row[e].session
  <2>1. row[e] \in Row
    BY DEF TypeInv, RowsOK
  <2>2. row'[e] = IF gone /\ row[e].session = s THEN [row[e] EXCEPT !.session = Nowhere] ELSE row[e]
    BY <1>2
  <2>3. CASE gone /\ row[e].session = s
    BY <2>1, <2>2, <2>3 DEF Row
  <2>4. CASE ~(gone /\ row[e].session = s)
    BY <2>1, <2>2, <2>4
  <2>. QED  BY <2>3, <2>4
<1>9. RowsOK'
  BY <1>2, <1>8 DEF RowsOK
<1>10. RowSessionsExist'
  <2> SUFFICES ASSUME NEW e \in Events, row'[e].session # Nowhere
               PROVE  session'[row'[e].session].state \in {"shown", "hidden"}
    BY DEF RowSessionsExist
  <2>1. /\ row'[e].session = row[e].session /\ row[e].session \in Ids
        /\ session[row[e].session].state \in {"shown", "hidden"}
    BY <1>8 DEF TypeInv, RowSessionsExist, RowsOK, Row
  <2>2. CASE row[e].session # s
    BY <1>6, <2>1, <2>2
  <2>3. CASE row[e].session = s
    <3>1. ~gone /\ session[s].state \in {"shown", "hidden"}
      BY <1>1, <1>8, <2>1, <2>3, Constants
    <3>. QED  BY <1>1, <1>3, <1>4, <1>6, <2>1, <2>3, <3>1, ActedTypes
  <2>. QED  BY <2>2, <2>3
<1>11. eraser'[x] = Onwards(me)
  BY <1>2
<1>12. ASSUME NEW y \in Erasers \ {x}
       PROVE  /\ eraser'[y] = FreeEraser \/ Erasing(eraser'[y])
              /\ Same(eraser'[y], eraser[y])
              /\ Works(y, {"measure", "act"}) /\ eraser[y].now = s => eraser'[y].clean = FALSE
  <2>1. CASE ~(Works(y, {"measure", "act"}) /\ eraser[y].now = s)
    BY <1>2, <2>1 DEF TypeInv, EraserOK, Same
  <2>2. CASE Works(y, {"measure", "act"}) /\ eraser[y].now = s
    <3>1. eraser'[y] = [eraser[y] EXCEPT !.clean = FALSE]
      BY <1>2, <2>2
    <3>2. eraser[y] # FreeEraser /\ Erasing(eraser[y])
      BY <2>2, ErasingTypes DEF TypeInv, Works
    <3>3. Erasing(eraser'[y]) /\ eraser'[y] # FreeEraser
      BY <3>1, <3>2, NotClean DEF Erasing, FreeEraser
    <3>. QED  BY <3>1, <3>2, <3>3, NotClean DEF Same
  <2>. QED  BY <2>1, <2>2
<1>13. EraserOK'
  <2>1. eraser' = [y \in Erasers |-> eraser'[y]]
    BY <1>2
  <2>2. eraser'[x] = FreeEraser \/ Erasing(eraser'[x])
    BY <1>1, <1>11, OnwardsEffect
  <2>. QED  BY <1>12, <2>1, <2>2 DEF EraserOK
<1>14. ErasersExist'
  <2> SUFFICES ASSUME NEW y \in Erasers, eraser'[y] # FreeEraser, NEW i \in Within(y)'
               PROVE  session'[i].state # "none"
    BY DEF ErasersExist
  <2>1. CASE y = x
    <3>1. i \in me.todo
      BY <1>1, <1>11, <2>1, OnwardsEffect DEF Within
    <3>2. i \in Ids
      BY <1>1, <3>1 DEF Erasing
    <3>. QED  BY <1>1, <1>7, <3>1, <3>2
  <2>2. CASE y # x
    <3>1. i \in Within(y) /\ eraser[y] # FreeEraser
      BY <1>12, <2>2 DEF Within, Same
    <3>2. i \in Ids
      BY <3>1 DEF TypeInv, EraserOK, Erasing, Within
    <3>. QED  BY <1>7, <3>1, <3>2 DEF TypeInv, ErasersExist
  <2>. QED  BY <2>1, <2>2
<1>15. WorkerOK' /\ SessionsExist'
  <2>1. WorkerOK'
    BY <1>2 DEF TypeInv, WorkerOK
  <2>2. SessionsExist'
    BY <1>2, <1>7, SessionsKept DEF TypeInv
  <2>. QED  BY <2>1, <2>2
<1>16. changes' \in 0..MaxChanges /\ upset' \subseteq Ids
  BY <1>1, <1>2 DEF TypeInv
<1>17. TypeInv'
  BY <1>7, <1>9, <1>10, <1>13, <1>14, <1>15, <1>16 DEF TypeInv
<1>. QED  BY <1>1, <1>2, <1>3, <1>4, <1>6, <1>8, <1>11, <1>12, <1>17

-----------------------------------------------------------------------------
(* What an eraser starts with: rows that are stored.                       *)

(* There is a last one among prompts that are not after e.                 *)
LEMMA LastBefore ==
  ASSUME NEW e \in Events, NEW S \in SUBSET Events, S # {}, \A p \in S : p.at <= e.at
  PROVE  \E p \in S : \A q \in S : q.at <= p.at
<1> DEFINE before == {e.at - p.at : p \in S}
<1>1. \A p \in Events : p.at \in Nat
  BY SessionsAssumption
<1>2. before \subseteq Nat /\ before # {}
  BY <1>1
<1>3. PICK d \in before : \A c \in before : ~(<<c, d>> \in OpToRel(<, Nat))
  <2> HIDE DEF before
  <2>. QED  BY <1>2, NatLessThanWellFounded, WFMin
<1>4. PICK p \in S : d = e.at - p.at
  BY <1>3
<1>5. ASSUME NEW q \in S PROVE q.at <= p.at
  <2>1. e.at - q.at \in before /\ e.at - q.at \in Nat
    BY <1>2
  <2>2. ~(<<e.at - q.at, d>> \in OpToRel(<, Nat)) /\ d \in Nat
    BY <1>2, <1>3, <2>1
  <2>3. ~(e.at - q.at < d)
    BY <2>1, <2>2 DEF OpToRel
  <2>. QED  BY <1>1, <1>4, <2>1, <2>3
<1>. QED  BY <1>5

LEMMA TurnVisible ==
  ASSUME NEW e \in Events, row[e].state = "live"
  PROVE  Turn(e) \subseteq {f \in Events : row[f].state = "live"}
<1> DEFINE s == row[e].session
           before == {p \in Prompts(s) : p.at <= e.at}
           prompt == CHOOSE p \in before : \A q \in before : q.at <= p.at
           next == {q \in Prompts(s) : q.at > prompt.at}
           rest == {f \in Visible(s) : f.at > prompt.at /\ \A q \in next : f.at < q.at}
<1>1. Visible(s) \subseteq {f \in Events : row[f].state = "live"}
  BY DEF Visible, In
<1>2. CASE s = Nowhere \/ before = {}
  BY <1>2 DEF Turn
<1>3. CASE s # Nowhere /\ before # {}
  <2>1. before \subseteq Visible(s) /\ \A p \in before : p.at <= e.at
    BY DEF Prompts
  <2>2. \E p \in before : \A q \in before : q.at <= p.at
    <3> HIDE DEF before
    <3>. QED  BY <1>1, <1>3, <2>1, LastBefore
  <2>3. prompt \in before
    BY <2>2
  <2>4. Turn(e) = {prompt} \cup rest
    BY <1>3 DEF Turn
  <2> HIDE DEF prompt, before
  <2>. QED  BY <1>1, <2>1, <2>3, <2>4
<1>. QED  BY <1>2, <1>3

(* A start, whichever it is.                                               *)
StartsStored(x) ==
  \E pc \in {"trash", "erase", "restore"}, ids \in SUBSET Erasable : Starts(x, pc, ids)

LEMMA StartsAreOfStored ==
  ASSUME TypeInv, NEW x \in Erasers,
         \/ \E e \in Events : DeleteTurn(x, e)
         \/ \E d \in 1..changes : EraseDeletion(x, d) \/ RestoreDeletion(x, d)
  PROVE  StartsStored(x)
<1>1. ASSUME NEW e \in Events, DeleteTurn(x, e) PROVE StartsStored(x)
  <2>1. Turn(e) \in SUBSET Erasable
    BY <1>1, TurnVisible DEF DeleteTurn, Erasable
  <2>. QED  BY <1>1, <2>1 DEF DeleteTurn, StartsStored
<1>2. ASSUME NEW d, EraseDeletion(x, d) \/ RestoreDeletion(x, d) PROVE StartsStored(x)
  <2>1. InDeletion(d) \in SUBSET Erasable
    BY DEF InDeletion, Erasable
  <2>. QED  BY <1>2, <2>1 DEF EraseDeletion, RestoreDeletion, StartsStored
<1>. QED  BY <1>1, <1>2

LEMMA ChangesAreOfStored ==
  ASSUME TypeInv, NEW x \in Erasers, Trash(x) \/ Restore(x) \/ Erase(x)
  PROVE  ChangesStored(x) /\ Works(x, {"trash", "erase", "restore"})
<1>1. CASE Trash(x)
  BY <1>1, TrashChanges DEF Trash, Works
<1>2. CASE Restore(x)
  BY <1>2, RestoreChanges DEF Restore, Works
<1>3. CASE Erase(x)
  BY <1>3, EraseChanges DEF Erase, Works
<1>. QED  BY <1>1, <1>2, <1>3

(* The steps, as the proofs go through them.                               *)
LEMMA Steps ==
  ASSUME TypeInv, Next
  PROVE  \/ \E w \in Workers :
              \/ \E e \in Events : \E s \in SessionFor(e) : Take(w, e, s)
              \/ Create(w) \/ Insert(w) \/ Count(w) \/ End(w) \/ WorkerDies(w)
         \/ \E x \in Erasers :
              \/ StartsStored(x)
              \/ ChangesStored(x) /\ Works(x, {"trash", "erase", "restore"})
              \/ Tidy(x) \/ Measure(x) \/ Act(x)
BY StartsAreOfStored, ChangesAreOfStored DEF Next

LEMMA NextTypes ==
  ASSUME TypeInv, [Next]_vars PROVE TypeInv'
<1>1. ASSUME UNCHANGED vars PROVE TypeInv'
  BY <1>1 DEF vars, TypeInv, RowsOK, SessionOK, WorkerOK, EraserOK, SessionsExist, ErasersExist,
              Within, RowSessionsExist
<1>2. ASSUME NEW x \in Erasers, StartsStored(x) PROVE TypeInv'
  BY <1>2, StartsTypes DEF StartsStored, Erasable
<1>3. ASSUME NEW x \in Erasers, ChangesStored(x), Works(x, {"trash", "erase", "restore"})
      PROVE  TypeInv'
  <2>1. PICK rows \in SUBSET eraser[x].ids : \E new :
          /\ Changes(x, rows, new)
          /\ \A e \in rows \cap Events :
               new[e] \in Row /\ new[e].session \in {row[e].session, Nowhere}
    BY <1>3 DEF ChangesStored
  <2>2. rows \subseteq Events
    BY <1>3, ErasingTypes DEF TypeInv, Works
  <2>3. PICK new :
          /\ Changes(x, rows, new)
          /\ \A e \in rows : new[e] \in Row /\ new[e].session \in {row[e].session, Nowhere}
    BY <2>1, <2>2
  <2>. QED  BY <1>3, <2>2, <2>3, ChangesTypes
<1>. QED  BY <1>1, <1>2, <1>3, Steps, TakeTypes, CreateTypes, InsertTypes, CountTypes, EndTypes,
             WorkerDiesTypes, TidyTypes, MeasureTypes, ActTypes

(* Every row is in a session that is there, shown or hidden, or in none:   *)
(* no INSERT puts one in a session that tidySessions has removed meanwhile, *)
(* and removing a session takes its rows out of it.                        *)
THEOREM TypesHold == Spec => []SessionsTypeOK
<1>1. TypeInv /\ [Next]_vars => TypeInv'
  BY NextTypes
<1>. QED  BY <1>1, InitTypes, TypeInvImplies, PTL DEF Spec

-----------------------------------------------------------------------------
(* The counts.  The inductive invariant follows a session through the      *)
(* work on it: rows that are stored and not counted yet, and what an       *)
(* eraser has read that still holds.                                       *)

Counting(s) == {w \in Workers : At(w, "count") /\ worker[w].session = s}
Arriving(s) == \E w \in Workers : At(w, "insert") /\ worker[w].session = s
Pending(s) ==
  \E x \in Erasers : Works(x, {"tidy", "measure", "act"}) /\ s \in Within(x)

(* A session that no eraser is about to measure is right, but for the      *)
(* increments that are under way.                                          *)
Right(s) ==
  /\ session[s].state = "hidden" => Visible(s) = {}
  /\ session[s].state = "shown" =>
       /\ session[s].count + Cardinality(Counting(s)) = Cardinality(Visible(s))
       /\ Visible(s) = {} => Arriving(s)
CountInv == \A s \in Ids : s \notin upset /\ ~Pending(s) => Right(s)

(* The sessions of the rows that an eraser will change are on its list.    *)
IdsInv ==
  \A x \in Erasers : Works(x, {"trash", "erase", "restore"}) =>
    \A e \in eraser[x].ids :
      row[e].state # "none" /\ row[e].session \in eraser[x].todo \cup {Nowhere}

(* What an eraser has read of a session still holds, unless it was overtaken. *)
Holds(x) ==
  LET s == eraser[x].now
  IN /\ eraser[x].saw.state = session[s].state /\ eraser[x].saw.count = session[s].count
     /\ session[s].state # "gone"
     /\ Works(x, {"act"}) => eraser[x].found = Visible(s) /\ Counting(s) = {}
ReadInv ==
  \A x \in Erasers : Works(x, {"measure", "act"}) /\ eraser[x].clean => Holds(x)

CountsInv == TypeInv /\ CountInv /\ IdsInv /\ ReadInv

LEMMA Finite ==
  ASSUME NEW s
  PROVE  /\ IsFiniteSet(Visible(s)) /\ Cardinality(Visible(s)) \in Nat
         /\ IsFiniteSet(Counting(s)) /\ Cardinality(Counting(s)) \in Nat
<1>1. Visible(s) \in SUBSET Events /\ Counting(s) \in SUBSET Workers
  BY DEF Visible, In, Counting
<1>. QED  BY <1>1, Constants, FS_Subset, FS_CardinalityType

LEMMA InitCounts == Init => CountsInv
<1> SUFFICES ASSUME Init PROVE CountsInv
  OBVIOUS
<1>1. TypeInv
  BY InitTypes
<1>2. CountInv
  BY DEF Init, CountInv, Right, NoSession
<1>3. IdsInv /\ ReadInv
  BY DEF Init, IdsInv, ReadInv, Works, FreeEraser
<1>. QED  BY <1>1, <1>2, <1>3 DEF CountsInv

LEMMA CountsInvImplies == CountsInv => CountsAgree
<1> SUFFICES ASSUME CountsInv, NEW s \in Ids, session[s].state \in {"shown", "hidden"},
                    s \notin upset, ~Busy(s)
             PROVE  /\ session[s].state = "shown" => session[s].count = Cardinality(Visible(s))
                    /\ session[s].state = "hidden" <=> Visible(s) = {}
  BY DEF CountsAgree
<1>1. ~Pending(s)
  BY DEF Busy, Pending, Within
<1>2. Right(s)
  BY <1>1 DEF CountsInv, CountInv
<1>3. ~Arriving(s) /\ Counting(s) = {}
  BY DEF Busy, Arriving, Counting, At
<1>4. session[s].count \in Int
  BY SessionStates DEF CountsInv, TypeInv
<1>. QED  BY <1>2, <1>3, <1>4, Finite, FS_EmptySet DEF Right

LEMMA SamePending ==
  ASSUME \A x \in Erasers : Same(eraser'[x], eraser[x]), NEW s
  PROVE  Pending(s)' <=> Pending(s)
<1>1. ASSUME NEW x \in Erasers, Works(x, {"tidy", "measure", "act"})
      PROVE  Within(x)' = Within(x) /\ Works(x, {"tidy", "measure", "act"})'
  BY <1>1 DEF Same, Works, Within, FreeEraser
<1>2. ASSUME NEW x \in Erasers, Works(x, {"tidy", "measure", "act"})'
      PROVE  Works(x, {"tidy", "measure", "act"})
  BY <1>2 DEF Same, Works
<1>. QED  BY <1>1, <1>2 DEF Pending

(* What a session's being right, and an eraser's reading of it, depend on. *)
Undisturbed(s) ==
  /\ session'[s].state = session[s].state /\ session'[s].count = session[s].count
  /\ Visible(s)' = Visible(s) /\ Counting(s)' = Counting(s)

LEMMA HoldsStill ==
  ASSUME NEW x \in Erasers, Works(x, {"measure", "act"}), Same(eraser'[x], eraser[x]),
         NEW s, s = eraser[x].now, Undisturbed(s), Holds(x)
  PROVE  Holds(x)'
BY DEF Works, Same, Undisturbed, Holds, FreeEraser

(* A step of a worker, which disturbs at most the session s.               *)
LEMMA WorkerStep ==
  ASSUME CountsInv, TypeInv', NEW s,
         \A x \in Erasers : Same(eraser'[x], eraser[x]),
         upset \subseteq upset',
         \A e \in Events : row[e].state # "none" => row'[e] = row[e],
         \A i \in Ids \ {s} : Undisturbed(i) /\ (Arriving(i) => Arriving(i)'),
         s \in Ids /\ s \notin upset' /\ Right(s) => Right(s)',
         ASSUME NEW x \in Erasers, Works(x, {"measure", "act"}), eraser[x].now = s,
                eraser'[x].clean, Holds(x), s \in Ids
         PROVE  Holds(x)'
  PROVE  CountsInv'
<1>1. CountInv'
  <2> SUFFICES ASSUME NEW i \in Ids, i \notin upset', ~Pending(i)' PROVE Right(i)'
    BY DEF CountInv
  <2>1. Right(i)
    BY SamePending DEF CountsInv, CountInv
  <2>2. CASE i # s
    BY <2>1, <2>2 DEF Right, Undisturbed
  <2>. QED  BY <2>1, <2>2
<1>2. IdsInv'
  <2> SUFFICES ASSUME NEW x \in Erasers, Works(x, {"trash", "erase", "restore"})',
                      NEW e \in eraser'[x].ids
               PROVE  row'[e].state # "none" /\ row'[e].session \in eraser'[x].todo \cup {Nowhere}
    BY DEF IdsInv
  <2>1. /\ Works(x, {"trash", "erase", "restore"})
        /\ eraser'[x].ids = eraser[x].ids /\ eraser'[x].todo = eraser[x].todo
    BY DEF Same, Works, FreeEraser
  <2>2. e \in Events
    BY <2>1, ErasingTypes DEF CountsInv, TypeInv, Works
  <2>. QED  BY <2>1, <2>2 DEF CountsInv, IdsInv
<1>3. ReadInv'
  <2> SUFFICES ASSUME NEW x \in Erasers, Works(x, {"measure", "act"})', eraser'[x].clean
               PROVE  Holds(x)'
    BY DEF ReadInv
  <2>1. Works(x, {"measure", "act"}) /\ eraser[x].clean /\ eraser[x].now \in Ids
    <3>1. Works(x, {"measure", "act"})
      BY DEF Same, Works
    <3>. QED  BY <3>1, ErasingTypes DEF CountsInv, TypeInv, Works, Same
  <2>2. Holds(x)
    BY <2>1 DEF CountsInv, ReadInv
  <2>3. CASE eraser[x].now # s
    <3>1. PICK i \in Ids \ {s} : i = eraser[x].now
      BY <2>1, <2>3
    <3>. QED  BY <2>1, <2>2, <3>1, HoldsStill
  <2>4. CASE eraser[x].now = s
    BY <2>1, <2>2, <2>4
  <2>. QED  BY <2>3, <2>4
<1>. QED  BY <1>1, <1>2, <1>3 DEF CountsInv

(* One worker goes from one point to another; the others stay.             *)
OneWorker(w) == \A v \in Workers \ {w} : worker'[v] = worker[v]

LEMMA OthersCount ==
  ASSUME NEW w \in Workers, OneWorker(w), NEW i
  PROVE  /\ ~(At(w, "count") /\ worker[w].session = i)
              /\ ~(At(w, "count")' /\ worker'[w].session = i) => Counting(i)' = Counting(i)
         /\ ~(At(w, "insert") /\ worker[w].session = i) /\ Arriving(i) => Arriving(i)'
<1>1. ASSUME ~(At(w, "count") /\ worker[w].session = i),
             ~(At(w, "count")' /\ worker'[w].session = i)
      PROVE  Counting(i)' = Counting(i)
  BY <1>1 DEF OneWorker, Counting, At
<1>2. ASSUME ~(At(w, "insert") /\ worker[w].session = i), Arriving(i) PROVE Arriving(i)'
  BY <1>2 DEF OneWorker, Arriving, At
<1>. QED  BY <1>1, <1>2

LEMMA SameErasers ==
  ASSUME UNCHANGED eraser PROVE \A x \in Erasers : Same(eraser'[x], eraser[x])
BY DEF Same

LEMMA TakeCounts ==
  ASSUME CountsInv, NEW w \in Workers, NEW e \in Events, NEW s \in SessionFor(e), Take(w, e, s)
  PROVE  CountsInv'
<1>1. UNCHANGED <<row, session, eraser, changes, upset>> /\ At(w, "free")
  BY DEF Take
<1>2. OneWorker(w) /\ worker'[w].pc \in {"create", "insert"}
  BY DEF Take, CountsInv, TypeInv, WorkerOK, OneWorker
<1>3. ASSUME NEW i PROVE Undisturbed(i) /\ (Arriving(i) => Arriving(i)')
  <2>1. Counting(i)' = Counting(i) /\ (Arriving(i) => Arriving(i)')
    BY <1>1, <1>2, OthersCount DEF At
  <2>. QED  BY <1>1, <2>1 DEF Undisturbed, Visible, In
<1>4. TypeInv'
  BY TakeTypes DEF CountsInv
<1>5. Nowhere \notin Ids
  BY Constants
<1>. QED  BY <1>1, <1>3, <1>4, <1>5, SameErasers, WorkerStep

LEMMA CreateCounts ==
  ASSUME CountsInv, NEW w \in Workers, Create(w) PROVE CountsInv'
<1>1. PICK s \in Ids :
        /\ session[s].state = "none"
        /\ session' = [session EXCEPT ![s] =
             [state |-> "shown", start |-> worker[w].event.at,
              end |-> worker[w].event.at, count |-> 0]]
        /\ worker' = [worker EXCEPT ![w].pc = "insert", ![w].session = s]
  BY DEF Create
<1>2. UNCHANGED <<row, eraser, changes, upset>> /\ At(w, "create")
  BY DEF Create
<1>3. /\ session'[s].state = "shown" /\ session'[s].count = 0
      /\ \A i \in Ids \ {s} : session'[i] = session[i]
  BY <1>1 DEF CountsInv, TypeInv, SessionOK
<1>4. OneWorker(w) /\ worker'[w].pc = "insert" /\ worker'[w].session = s
  <2>1. Serving(worker[w])
    BY <1>2, ServingTypes DEF CountsInv, TypeInv, At
  <2>2. OneWorker(w) /\ worker'[w] = [worker[w] EXCEPT !.pc = "insert", !.session = s]
    BY <1>1 DEF CountsInv, TypeInv, WorkerOK, OneWorker
  <2>. QED  BY <2>1, <2>2 DEF Serving
<1>5. \A i \in Ids : Counting(i)' = Counting(i) /\ (Arriving(i) => Arriving(i)')
  BY <1>2, <1>4, OthersCount DEF At
<1>6. \A i \in Ids \ {s} : Undisturbed(i)
  BY <1>2, <1>3, <1>5 DEF Undisturbed, Visible, In
<1>7. Right(s)'
  <2>1. Visible(s)' = {}
    BY <1>1, <1>2, Constants DEF CountsInv, TypeInv, RowSessionsExist, Visible, In
  <2>2. Counting(s)' = {}
    <3>1. Counting(s) = {}
      BY <1>1 DEF CountsInv, TypeInv, SessionsExist, Counting, At
    <3>. QED  BY <1>5, <3>1
  <2>3. Arriving(s)'
    BY <1>4 DEF Arriving, At
  <2>. QED  BY <1>3, <2>1, <2>2, <2>3, FS_EmptySet DEF Right
<1>8. ASSUME NEW x \in Erasers, Works(x, {"measure", "act"}) PROVE eraser[x].now # s
  <2>1. eraser[x].now \in Ids /\ eraser[x] # FreeEraser
    BY <1>8, ErasingTypes DEF CountsInv, TypeInv, Works
  <2>. QED  BY <1>1, <2>1, Constants DEF CountsInv, TypeInv, ErasersExist, Within
<1>9. TypeInv'
  BY CreateTypes DEF CountsInv
<1>. QED  BY <1>2, <1>5, <1>6, <1>7, <1>8, <1>9, SameErasers, WorkerStep

LEMMA InsertCounts ==
  ASSUME CountsInv, NEW w \in Workers, Insert(w) PROVE CountsInv'
<1>1. PICK e \in Events, s \in Ids :
        /\ e = worker[w].event /\ s = worker[w].session
        /\ s # Nowhere /\ Serving(worker[w]) /\ At(w, "insert")
  BY ServingTypes, Constants DEF CountsInv, TypeInv, Insert, At
<1>2. UNCHANGED <<session, changes>> /\ upset \subseteq upset'
  BY DEF Insert
<1>3. TypeInv'
  BY InsertTypes DEF CountsInv
<1>4. CASE Storable(e, s)
  <2>1. /\ row' = [row EXCEPT ![e].state = "live", ![e].session = s] /\ row[e].state = "none"
        /\ worker' = [worker EXCEPT ![w].pc = "count"]
        /\ session[s].state = "hidden" => s \in upset'
        /\ Overtaken(s, {"act"})
    BY <1>1, <1>4 DEF Insert, Storable
  <2>2. /\ \A x \in Erasers : Same(eraser'[x], eraser[x])
        /\ \A x \in Erasers : Works(x, {"act"}) /\ eraser[x].now = s => eraser'[x].clean = FALSE
    BY <2>1, OvertakenEffect DEF CountsInv, TypeInv
  <2>3. row'[e] \in [state : {"live"}, session : {s}, deletion : {row[e].deletion}]
    <3>1. row[e] \in Row
      BY <1>1 DEF CountsInv, TypeInv, RowsOK
    <3>2. row'[e] = [row[e] EXCEPT !.state = "live", !.session = s]
      BY <1>1, <2>1 DEF CountsInv, TypeInv, RowsOK
    <3>. QED  BY <3>1, <3>2 DEF Row
  <2>4. \A f \in Events \ {e} : row'[f] = row[f]
    BY <2>1 DEF CountsInv, TypeInv, RowsOK
  <2>5. OneWorker(w) /\ worker'[w].pc = "count" /\ worker'[w].session = s
    <3>1. worker'[w] = [worker[w] EXCEPT !.pc = "count"] /\ OneWorker(w)
      BY <2>1 DEF CountsInv, TypeInv, WorkerOK, OneWorker
    <3>. QED  BY <1>1, <3>1 DEF Serving
  <2>6. \A i \in Ids \ {s} : Undisturbed(i) /\ (Arriving(i) => Arriving(i)')
    <3> SUFFICES ASSUME NEW i \in Ids \ {s} PROVE Undisturbed(i) /\ (Arriving(i) => Arriving(i)')
      OBVIOUS
    <3>1. Counting(i)' = Counting(i) /\ (Arriving(i) => Arriving(i)')
      BY <1>1, <2>5, OthersCount DEF At
    <3>2. Visible(i)' = Visible(i)
      BY <2>1, <2>3, <2>4 DEF Visible, In
    <3>. QED  BY <1>2, <3>1, <3>2 DEF Undisturbed
  <2>7. ASSUME s \notin upset', Right(s) PROVE Right(s)'
    <3>1. Visible(s)' = Visible(s) \cup {e} /\ e \notin Visible(s)
      BY <1>1, <2>1, <2>3, <2>4 DEF Visible, In
    <3>2. Counting(s)' = Counting(s) \cup {w} /\ w \notin Counting(s)
      BY <1>1, <2>5 DEF OneWorker, Counting, At
    <3>3. /\ Cardinality(Visible(s)') = Cardinality(Visible(s)) + 1
          /\ Cardinality(Counting(s)') = Cardinality(Counting(s)) + 1
      BY <3>1, <3>2, Finite, FS_AddElement
    <3>4. session[s].count \in Int /\ session[s].state # "hidden"
      BY <1>1, <2>1, <2>7, SessionStates DEF CountsInv, TypeInv
    <3>. QED  BY <1>2, <2>7, <3>1, <3>3, <3>4, Finite DEF Right
  <2>8. ASSUME NEW x \in Erasers, Works(x, {"measure", "act"}), eraser[x].now = s,
               eraser'[x].clean, Holds(x)
        PROVE  Holds(x)'
    <3>1. ~Works(x, {"act"})
      BY <2>2, <2>8
    <3>. QED  BY <1>2, <2>2, <2>8, <3>1 DEF Holds, Same, Works, FreeEraser
  <2>9. \A f \in Events : row[f].state # "none" => row'[f] = row[f]
    BY <2>1, <2>4
  <2>. QED  BY <1>2, <1>3, <2>2, <2>6, <2>7, <2>8, <2>9, WorkerStep
<1>5. CASE ~Storable(e, s)
  <2>1. /\ worker' = [worker EXCEPT ![w] = FreeWorker] /\ UNCHANGED <<row, eraser>>
        /\ Visible(s) = {} => s \in upset'
    BY <1>1, <1>5 DEF Insert, LeftEmpty, Visible
  <2>2. OneWorker(w) /\ worker'[w].pc = "free"
    BY <2>1 DEF CountsInv, TypeInv, WorkerOK, OneWorker, FreeWorker
  <2>3. \A i \in Ids : Undisturbed(i)
    <3>1. \A i \in Ids : Counting(i)' = Counting(i)
      BY <1>1, <2>2, OthersCount DEF At
    <3>. QED  BY <1>2, <2>1, <3>1 DEF Undisturbed, Visible, In
  <2>4. \A i \in Ids \ {s} : Arriving(i) => Arriving(i)'
    BY <1>1, <2>2, OthersCount DEF At
  <2>5. ASSUME s \notin upset', Right(s) PROVE Right(s)'
    BY <1>1, <2>1, <2>3, <2>5 DEF Right, Undisturbed
  <2>6. \A x \in Erasers : Same(eraser'[x], eraser[x])
    BY <2>1, SameErasers
  <2>7. ASSUME NEW x \in Erasers, Works(x, {"measure", "act"}), eraser[x].now = s,
               eraser'[x].clean, Holds(x)
        PROVE  Holds(x)'
    BY <1>1, <2>3, <2>6, <2>7, HoldsStill
  <2>. QED  BY <1>2, <1>3, <2>1, <2>3, <2>4, <2>5, <2>6, <2>7, WorkerStep
<1>. QED  BY <1>4, <1>5

LEMMA CountCounts ==
  ASSUME CountsInv, NEW w \in Workers, Count(w) PROVE CountsInv'
<1>1. PICK s \in Ids : s = worker[w].session /\ Serving(worker[w]) /\ At(w, "count")
  BY ServingTypes DEF CountsInv, TypeInv, Count, At
<1>2. UNCHANGED <<row, changes, upset>> /\ Overtaken(s, {"measure", "act"})
  BY <1>1 DEF Count
<1>3. /\ \A x \in Erasers : Same(eraser'[x], eraser[x])
      /\ \A x \in Erasers : Works(x, {"measure", "act"}) /\ eraser[x].now = s =>
           eraser'[x].clean = FALSE
  BY <1>2, OvertakenEffect DEF CountsInv, TypeInv
<1>4. OneWorker(w) /\ worker'[w].pc = "end"
  <2>1. worker'[w] = [worker[w] EXCEPT !.pc = "end"] /\ OneWorker(w)
    BY DEF Count, CountsInv, TypeInv, WorkerOK, OneWorker
  <2>. QED  BY <1>1, <2>1 DEF Serving
<1>5. /\ \A i \in Ids \ {s} : session'[i] = session[i]
      /\ session'[s].state = session[s].state
      /\ session[s].state = "shown" => session'[s].count = session[s].count + 1
  <2> DEFINE c == IF session[s].state = "shown" THEN session[s].count + 1
                  ELSE session[s].count
  <2>1. session' = [session EXCEPT ![s].count = c]
    BY <1>1 DEF Count
  <2>2. session[s].state = "shown" => c = session[s].count + 1
    OBVIOUS
  <2> HIDE DEF c
  <2>3. /\ \A i \in Ids \ {s} : session'[i] = session[i]
        /\ session'[s] = [session[s] EXCEPT !.count = c]
    BY <2>1 DEF CountsInv, TypeInv, SessionOK
  <2>. QED  BY <2>2, <2>3 DEF CountsInv, TypeInv, SessionOK, Session
<1>6. \A i \in Ids \ {s} : Undisturbed(i)
  <2>1. \A i \in Ids \ {s} : Counting(i)' = Counting(i)
    BY <1>1, <1>4, OthersCount DEF At
  <2>. QED  BY <1>2, <1>5, <2>1 DEF Undisturbed, Visible, In
<1>7. \A i \in Ids : Arriving(i) => Arriving(i)'
  BY <1>1, <1>4, OthersCount DEF At
<1>8. ASSUME Right(s) PROVE Right(s)'
  <2>1. Visible(s)' = Visible(s)
    BY <1>2 DEF Visible, In
  <2>2. Counting(s)' = Counting(s) \ {w} /\ w \in Counting(s)
    BY <1>1, <1>4 DEF OneWorker, Counting, At
  <2>3. Cardinality(Counting(s)') = Cardinality(Counting(s)) - 1
    BY <2>2, Finite, FS_RemoveElement
  <2>4. session[s].count \in Int
    BY SessionStates DEF CountsInv, TypeInv
  <2>. QED  BY <1>5, <1>7, <1>8, <2>1, <2>3, <2>4, Finite DEF Right
<1>9. TypeInv'
  BY CountTypes DEF CountsInv
<1>. QED  BY <1>2, <1>3, <1>6, <1>7, <1>8, <1>9, WorkerStep

(* A worker is done with a session, or gives it up, and nothing else       *)
(* happens that would tell.                                                *)
LEMMA WorkerLeaves ==
  ASSUME CountsInv, TypeInv', NEW w \in Workers, ~At(w, "free"), UNCHANGED <<row, eraser>>,
         worker' = [worker EXCEPT ![w] = FreeWorker], upset \subseteq upset',
         \A i \in Ids : /\ session'[i].state = session[i].state
                        /\ session'[i].count = session[i].count,
         At(w, "count") => worker[w].session \in upset',
         At(w, "insert") /\ Visible(worker[w].session) = {} => worker[w].session \in upset'
  PROVE  CountsInv'
<1>1. PICK s \in Ids \cup {Nowhere} : s = worker[w].session
  BY ServingTypes DEF CountsInv, TypeInv
<1>2. OneWorker(w) /\ worker'[w].pc = "free"
  BY DEF CountsInv, TypeInv, WorkerOK, OneWorker, FreeWorker
<1>3. \A i \in Ids \ {s} : Undisturbed(i) /\ (Arriving(i) => Arriving(i)')
  <2>1. \A i \in Ids \ {s} : Counting(i)' = Counting(i) /\ (Arriving(i) => Arriving(i)')
    BY <1>1, <1>2, OthersCount DEF At
  <2>. QED  BY <2>1 DEF Undisturbed, Visible, In
<1>4. Visible(s)' = Visible(s)
  BY DEF Visible, In
<1>5. \A x \in Erasers : Same(eraser'[x], eraser[x])
  BY SameErasers
<1>6. ASSUME s \in Ids, s \notin upset', Right(s) PROVE Right(s)'
  <2>1. ~At(w, "count") /\ (At(w, "insert") => Visible(s) # {})
    BY <1>1, <1>6
  <2>2. Counting(s)' = Counting(s)
    BY <1>2, <2>1, OthersCount DEF At
  <2>3. Visible(s) = {} /\ Arriving(s) => Arriving(s)'
    BY <1>2, <2>1, OthersCount
  <2>. QED  BY <1>4, <1>6, <2>2, <2>3 DEF Right
<1>7. ASSUME NEW x \in Erasers, Works(x, {"measure", "act"}), eraser[x].now = s,
             eraser'[x].clean, Holds(x), s \in Ids
      PROVE  Holds(x)'
  <2>1. Counting(s)' \subseteq Counting(s)
    BY <1>2 DEF OneWorker, Counting, At
  <2>. QED  BY <1>4, <1>7, <2>1 DEF Holds, Works
<1>. QED  BY <1>3, <1>5, <1>6, <1>7, WorkerStep

LEMMA EndCounts ==
  ASSUME CountsInv, NEW w \in Workers, End(w) PROVE CountsInv'
<1>1. /\ worker' = [worker EXCEPT ![w] = FreeWorker] /\ UNCHANGED <<row, eraser, upset>>
      /\ At(w, "end")
  BY DEF End
<1>2. worker[w].session \in Ids
  BY <1>1, ServingTypes DEF CountsInv, TypeInv, At
<1>3. \A i \in Ids : session'[i].state = session[i].state /\ session'[i].count = session[i].count
  <2> DEFINE s == worker[w].session
             t == IF session[s].state = "gone" \/ worker[w].saw = worker[w].event.at
                  THEN session[s].end ELSE worker[w].event.at
  <2>1. session' = [session EXCEPT ![s].end = t]
    BY DEF End
  <2> HIDE DEF t
  <2>2. /\ \A i \in Ids \ {s} : session'[i] = session[i]
        /\ session'[s] = [session[s] EXCEPT !.end = t]
    BY <1>2, <2>1 DEF CountsInv, TypeInv, SessionOK
  <2>. QED  BY <1>2, <2>2 DEF CountsInv, TypeInv, SessionOK, Session
<1>4. TypeInv'
  BY EndTypes DEF CountsInv
<1>. QED  BY <1>1, <1>3, <1>4, WorkerLeaves DEF At

LEMMA WorkerDiesCounts ==
  ASSUME CountsInv, NEW w \in Workers, WorkerDies(w) PROVE CountsInv'
<1>1. /\ worker' = [worker EXCEPT ![w] = FreeWorker] /\ UNCHANGED <<row, session, eraser>>
      /\ upset \subseteq upset' /\ ~At(w, "free")
  BY DEF WorkerDies
<1>2. At(w, "count") => worker[w].session \in upset'
  BY DEF WorkerDies
<1>3. At(w, "insert") /\ Visible(worker[w].session) = {} => worker[w].session \in upset'
  <2>1. At(w, "insert") => worker[w].session # Nowhere /\ ~At(w, "count")
    BY ServingTypes, Constants DEF CountsInv, TypeInv, At
  <2>. QED  BY <2>1 DEF WorkerDies, LeftEmpty, Visible
<1>4. TypeInv'
  BY WorkerDiesTypes DEF CountsInv
<1>. QED  BY <1>1, <1>2, <1>3, <1>4, WorkerLeaves

(* A step of the eraser x.                                                 *)
LEMMA EraserStep ==
  ASSUME CountsInv, TypeInv', NEW x \in Erasers,
         \A y \in Erasers \ {x} : Same(eraser'[y], eraser[y]),
         \A i \in Ids : i \notin upset' /\ ~Pending(i)' => Right(i)',
         \A e \in Events : row[e].state # "none" =>
           row'[e].state # "none" /\ row'[e].session \in {row[e].session, Nowhere},
         Works(x, {"trash", "erase", "restore"})' => \A e \in eraser'[x].ids :
           row'[e].state # "none" /\ row'[e].session \in eraser'[x].todo \cup {Nowhere},
         \A y \in Erasers \ {x} :
           Works(y, {"measure", "act"}) /\ eraser'[y].clean /\ Holds(y) => Holds(y)',
         Works(x, {"measure", "act"})' /\ eraser'[x].clean => Holds(x)'
  PROVE  CountsInv'
<1>1. CountInv'
  BY DEF CountInv
<1>2. IdsInv'
  <2> SUFFICES ASSUME NEW y \in Erasers \ {x}, Works(y, {"trash", "erase", "restore"})',
                      NEW e \in eraser'[y].ids
               PROVE  row'[e].state # "none" /\ row'[e].session \in eraser'[y].todo \cup {Nowhere}
    BY DEF IdsInv
  <2>1. /\ Works(y, {"trash", "erase", "restore"})
        /\ eraser'[y].ids = eraser[y].ids /\ eraser'[y].todo = eraser[y].todo
    BY DEF Same, Works, FreeEraser
  <2>2. e \in Events
    BY <2>1, ErasingTypes DEF CountsInv, TypeInv, Works
  <2>. QED  BY <2>1, <2>2 DEF CountsInv, IdsInv
<1>3. ReadInv'
  <2> SUFFICES ASSUME NEW y \in Erasers \ {x}, Works(y, {"measure", "act"})', eraser'[y].clean
               PROVE  Holds(y)'
    BY DEF ReadInv
  <2>1. Works(y, {"measure", "act"}) /\ eraser[y].clean
    BY DEF Same, Works, FreeEraser
  <2>. QED  BY <2>1 DEF CountsInv, ReadInv
<1>. QED  BY <1>1, <1>2, <1>3 DEF CountsInv

LEMMA StillPending ==
  ASSUME NEW x \in Erasers, \A y \in Erasers \ {x} : Same(eraser'[y], eraser[y]),
         NEW i, Pending(i),
         \/ ~(Works(x, {"tidy", "measure", "act"}) /\ i \in Within(x))
         \/ Works(x, {"tidy", "measure", "act"})' /\ i \in Within(x)'
  PROVE  Pending(i)'
<1>1. PICK y \in Erasers : Works(y, {"tidy", "measure", "act"}) /\ i \in Within(y)
  BY DEF Pending
<1>2. CASE y = x
  BY <1>1, <1>2 DEF Pending
<1>3. CASE y # x
  <2>1. Works(y, {"tidy", "measure", "act"})' /\ i \in Within(y)'
    BY <1>1, <1>3 DEF Same, Works, Within, FreeEraser
  <2>. QED  BY <2>1 DEF Pending
<1>. QED  BY <1>2, <1>3

LEMMA StillRight ==
  ASSUME CountsInv, NEW i \in Ids, i \notin upset, ~Pending(i), Undisturbed(i), UNCHANGED worker
  PROVE  Right(i)'
<1>1. Right(i)
  BY DEF CountsInv, CountInv
<1>2. Arriving(i)' <=> Arriving(i)
  BY DEF Arriving, At
<1>. QED  BY <1>1, <1>2 DEF Right, Undisturbed

(* Where neither rows nor sessions nor workers change.                     *)
LEMMA NothingDisturbed ==
  ASSUME UNCHANGED <<row, session, worker>>, NEW i PROVE Undisturbed(i)
BY DEF Undisturbed, Visible, In, Counting, At

LEMMA StartsCounts ==
  ASSUME CountsInv, NEW x \in Erasers, StartsStored(x) PROVE CountsInv'
<1>1. PICK pc \in {"trash", "erase", "restore"}, ids \in SUBSET Erasable : Starts(x, pc, ids)
  BY DEF StartsStored
<1>2. ids \subseteq Events
  BY DEF Erasable
<1>3. /\ TypeInv'
      /\ eraser'[x].ids = ids /\ eraser'[x].pc = pc
      /\ eraser'[x].todo = {row[e].session : e \in ids} \ {Nowhere}
      /\ \A y \in Erasers \ {x} : eraser'[y] = eraser[y]
  BY <1>1, <1>2, StartsTypes DEF CountsInv
<1>4. UNCHANGED <<row, session, worker, upset>> /\ eraser[x].pc = "free"
  BY <1>1 DEF Starts
<1>5. \A y \in Erasers \ {x} : Same(eraser'[y], eraser[y])
  BY <1>3 DEF Same
<1>6. ASSUME NEW i \in Ids, i \notin upset', ~Pending(i)' PROVE Right(i)'
  <2>1. ~Pending(i)
    BY <1>4, <1>5, <1>6, StillPending DEF Works
  <2>. QED  BY <1>4, <1>6, <2>1, NothingDisturbed, StillRight
<1>7. \A e \in eraser'[x].ids :
        row'[e].state # "none" /\ row'[e].session \in eraser'[x].todo \cup {Nowhere}
  BY <1>3, <1>4 DEF Erasable
<1>8. ASSUME NEW y \in Erasers \ {x}, Works(y, {"measure", "act"}), Holds(y) PROVE Holds(y)'
  <2>1. PICK s : s = eraser[y].now
    OBVIOUS
  <2>. QED  BY <1>4, <1>5, <1>8, <2>1, NothingDisturbed, HoldsStill
<1>9. ~Works(x, {"measure", "act"})'
  BY <1>3 DEF Works
<1>. QED  BY <1>3, <1>4, <1>5, <1>6, <1>7, <1>8, <1>9, EraserStep

LEMMA ChangesCounts ==
  ASSUME CountsInv, NEW x \in Erasers, ChangesStored(x), Works(x, {"trash", "erase", "restore"})
  PROVE  CountsInv'
<1>1. /\ eraser[x].ids \subseteq Events /\ eraser[x].todo \subseteq Ids
      /\ \A e \in eraser[x].ids : row[e].session \in eraser[x].todo \cup {Nowhere}
  BY ErasingTypes DEF CountsInv, TypeInv, Works, IdsInv
<1>a. PICK rows \in SUBSET eraser[x].ids : \E new :
        /\ Changes(x, rows, new)
        /\ \A e \in rows \cap Events :
             /\ new[e] \in Row /\ new[e].session \in {row[e].session, Nowhere}
             /\ row[e].state # "none" /\ new[e].state # "none"
  BY DEF ChangesStored
<1>2. PICK new :
        /\ Changes(x, rows, new)
        /\ \A e \in rows :
             /\ new[e] \in Row /\ new[e].session \in {row[e].session, Nowhere}
             /\ row[e].state # "none" /\ new[e].state # "none"
             /\ row[e].session \in eraser[x].todo \cup {Nowhere}
  BY <1>1, <1>a
<1>3. /\ TypeInv'
      /\ eraser'[x] = Onwards(eraser[x]) /\ Erasing(eraser[x])
      /\ \A y \in Erasers \ {x} :
           /\ Same(eraser'[y], eraser[y])
           /\ Works(y, {"act"}) /\ eraser[y].now \in {row[e].session : e \in rows} =>
                eraser'[y].clean = FALSE
  BY <1>1, <1>2, ChangesTypes DEF CountsInv
<1>4. /\ UNCHANGED <<session, worker, upset>>
      /\ \A e \in Events : row'[e] = IF e \in rows THEN new[e] ELSE row[e]
  BY <1>2 DEF Changes
<1>5. /\ ~Works(x, {"tidy", "measure", "act"})
      /\ ~Works(x, {"trash", "erase", "restore", "measure", "act"})'
      /\ \A i \in eraser[x].todo : Pending(i)'
  <2>1. ~Works(x, {"tidy", "measure", "act"})
    BY DEF Works
  <2>2. ~Works(x, {"trash", "erase", "restore", "measure", "act"})'
    BY <1>3, OnwardsEffect DEF Works, FreeEraser
  <2>3. ASSUME NEW i \in eraser[x].todo PROVE Pending(i)'
    <3>1. eraser'[x].pc = "tidy" /\ eraser'[x].todo = eraser[x].todo
      BY <1>3, <2>3, OnwardsEffect
    <3>. QED  BY <2>3, <3>1 DEF Pending, Works, Within
  <2>. QED  BY <2>1, <2>2, <2>3
(* Only what the rows changed were in is disturbed.                        *)
<1>6. ASSUME NEW i \in Ids, \A e \in rows : row[e].session # i PROVE Undisturbed(i)
  <2>1. i # Nowhere
    BY Constants
  <2>2. Visible(i)' = Visible(i)
    BY <1>1, <1>2, <1>4, <1>6, <2>1 DEF Visible, In
  <2>. QED  BY <1>4, <2>2 DEF Undisturbed, Counting, At
<1>7. ASSUME NEW i \in Ids, i \notin upset', ~Pending(i)' PROVE Right(i)'
  <2>1. ~Pending(i)
    BY <1>3, <1>5, <1>7, StillPending
  <2>2. Undisturbed(i)
    BY <1>2, <1>5, <1>6, <1>7, Constants
  <2>. QED  BY <1>4, <1>7, <2>1, <2>2, StillRight
<1>8. \A e \in Events : row[e].state # "none" =>
        row'[e].state # "none" /\ row'[e].session \in {row[e].session, Nowhere}
  BY <1>2, <1>4
<1>9. ASSUME NEW y \in Erasers \ {x}, Works(y, {"measure", "act"}), eraser'[y].clean, Holds(y)
      PROVE  Holds(y)'
  <2>1. PICK s \in Ids : s = eraser[y].now
    BY <1>9, ErasingTypes DEF CountsInv, TypeInv, Works
  <2>2. CASE \A e \in rows : row[e].session # s
    BY <1>3, <1>6, <1>9, <2>1, <2>2, HoldsStill
  <2>3. CASE ~ \A e \in rows : row[e].session # s
    <3>1. ~Works(y, {"act"})
      BY <1>3, <1>9, <2>1, <2>3
    <3>. QED  BY <1>3, <1>4, <1>9, <3>1 DEF Holds, Same, Works, FreeEraser
  <2>. QED  BY <2>2, <2>3
<1>. QED  BY <1>3, <1>5, <1>7, <1>8, <1>9, EraserStep DEF Works

LEMMA TidyCounts ==
  ASSUME CountsInv, NEW x \in Erasers, Tidy(x) PROVE CountsInv'
<1>1. UNCHANGED <<row, session, worker, upset>> /\ eraser[x].pc = "tidy"
  BY DEF Tidy, Works
<1>2. /\ TypeInv' /\ \A y \in Erasers \ {x} : Same(eraser'[y], eraser[y])
      /\ Erasing(eraser[x]) /\ eraser[x].now = Nowhere /\ eraser[x].todo \subseteq Ids
  <2>1. TypeInv' /\ \A y \in Erasers \ {x} : eraser'[y] = eraser[y]
    BY TidyTypes DEF CountsInv
  <2>2. Erasing(eraser[x]) /\ eraser[x].now = Nowhere /\ eraser[x].todo \subseteq Ids
    BY <1>1, ErasingTypes DEF CountsInv, TypeInv, Erasing
  <2>. QED  BY <2>1, <2>2 DEF Same
<1>3. PICK s \in eraser[x].todo :
        \/ /\ session[s].state = "gone"
           /\ \/ eraser'[x] = FreeEraser /\ eraser[x].todo \ {s} = {}
              \/ /\ eraser'[x].pc = "tidy"
                 /\ eraser'[x].todo = eraser[x].todo \ {s} /\ eraser'[x].now = Nowhere
        \/ /\ session[s].state # "gone"
           /\ eraser'[x].pc = "measure" /\ eraser'[x].todo = eraser[x].todo \ {s}
           /\ eraser'[x].now = s /\ eraser'[x].saw = session[s]
  BY TidyTypes DEF CountsInv
<1>4. ASSUME NEW i \in Ids, i \notin upset', ~Pending(i)' PROVE Right(i)'
  <2>1. CASE i = s /\ session[s].state = "gone"
    BY <1>1, <2>1 DEF Right
  <2>2. CASE ~(i = s /\ session[s].state = "gone")
    <3>1. Works(x, {"tidy", "measure", "act"}) /\ i \in Within(x)
            => Works(x, {"tidy", "measure", "act"})' /\ i \in Within(x)'
      BY <1>2, <1>3, <2>2, Constants DEF Works, Within, FreeEraser
    <3>2. ~Pending(i)
      BY <1>2, <1>4, <3>1, StillPending
    <3>. QED  BY <1>1, <1>4, <3>2, NothingDisturbed, StillRight
  <2>. QED  BY <2>1, <2>2
<1>5. ASSUME NEW y \in Erasers \ {x}, Works(y, {"measure", "act"}), Holds(y) PROVE Holds(y)'
  <2>1. PICK i : i = eraser[y].now
    OBVIOUS
  <2>. QED  BY <1>1, <1>2, <1>5, <2>1, NothingDisturbed, HoldsStill
<1>6. ASSUME Works(x, {"measure", "act"})' PROVE Holds(x)'
  <2>1. /\ session[s].state # "gone" /\ eraser'[x].pc = "measure"
        /\ eraser'[x].now = s /\ eraser'[x].saw = session[s]
    BY <1>3, <1>6 DEF Works, FreeEraser
  <2>. QED  BY <1>1, <2>1 DEF Holds, Works
<1>7. ~Works(x, {"trash", "erase", "restore"})'
  BY <1>3 DEF Works, FreeEraser
<1>. QED  BY <1>1, <1>2, <1>4, <1>5, <1>6, <1>7, EraserStep

LEMMA MeasureCounts ==
  ASSUME CountsInv, NEW x \in Erasers, Measure(x) PROVE CountsInv'
<1>1. PICK s \in Ids : s = eraser[x].now
  BY ErasingTypes DEF CountsInv, TypeInv, Measure, Works
<1>2. UNCHANGED <<row, session, worker, upset>> /\ eraser[x].pc = "measure"
  BY DEF Measure, Works
<1>3. /\ TypeInv' /\ \A y \in Erasers \ {x} : Same(eraser'[y], eraser[y])
      /\ eraser'[x].pc = "act" /\ eraser'[x].now = s /\ eraser'[x].todo = eraser[x].todo
      /\ eraser'[x].saw = eraser[x].saw /\ eraser'[x].found = Visible(s)
      /\ eraser'[x].clean => eraser[x].clean /\ Counting(s) = {}
  <2>1. /\ TypeInv' /\ \A y \in Erasers \ {x} : eraser'[y] = eraser[y]
        /\ eraser'[x].pc = "act" /\ eraser'[x].now = s /\ eraser'[x].todo = eraser[x].todo
        /\ eraser'[x].saw = eraser[x].saw /\ eraser'[x].found = Visible(s)
        /\ eraser'[x].clean =>
             eraser[x].clean /\ \A w \in Workers : ~(At(w, "count") /\ worker[w].session = s)
    BY <1>1, MeasureTypes DEF CountsInv
  <2>. QED  BY <2>1 DEF Same, Counting
<1>4. ASSUME NEW i \in Ids, i \notin upset', ~Pending(i)' PROVE Right(i)'
  <2>1. Works(x, {"tidy", "measure", "act"})' /\ Within(x)' = Within(x)
    BY <1>1, <1>3 DEF Works, Within
  <2>2. ~Pending(i)
    BY <1>3, <1>4, <2>1, StillPending
  <2>. QED  BY <1>2, <1>4, <2>2, NothingDisturbed, StillRight
<1>5. ASSUME NEW y \in Erasers \ {x}, Works(y, {"measure", "act"}), Holds(y) PROVE Holds(y)'
  <2>1. PICK i : i = eraser[y].now
    OBVIOUS
  <2>. QED  BY <1>2, <1>3, <1>5, <2>1, NothingDisturbed, HoldsStill
<1>6. ASSUME eraser'[x].clean PROVE Holds(x)'
  <2>1. Holds(x)
    BY <1>2, <1>3, <1>6 DEF CountsInv, ReadInv, Works
  <2>2. Visible(s)' = Visible(s) /\ Counting(s)' = Counting(s)
    BY <1>2, NothingDisturbed DEF Undisturbed
  <2>. QED  BY <1>1, <1>2, <1>3, <1>6, <2>1, <2>2 DEF Holds
<1>7. ~Works(x, {"trash", "erase", "restore"})'
  BY <1>3 DEF Works
<1>. QED  BY <1>2, <1>3, <1>4, <1>5, <1>6, <1>7, EraserStep

LEMMA ActCounts ==
  ASSUME CountsInv, NEW x \in Erasers, Act(x) PROVE CountsInv'
<1>1. PICK s \in Ids, gone \in BOOLEAN : s = eraser[x].now /\ gone = Gone(eraser[x])
  BY ActTypes DEF CountsInv
<1>2. /\ TypeInv' /\ eraser[x].pc = "act"
      /\ eraser'[x] = Onwards(eraser[x]) /\ Erasing(eraser[x])
      /\ session[s].state # "none"
      /\ session'[s] = Acted(session[s], eraser[x], gone)
      /\ \A i \in Ids \ {s} : session'[i] = session[i]
  BY <1>1, ActTypes DEF CountsInv, Act, Works
<1>3. /\ \A e \in Events : /\ row'[e].state = row[e].state
                           /\ row'[e].session = IF gone /\ row[e].session = s THEN Nowhere
                                                ELSE row[e].session
      /\ \A y \in Erasers \ {x} :
           /\ Same(eraser'[y], eraser[y])
           /\ Works(y, {"measure", "act"}) /\ eraser[y].now = s => eraser'[y].clean = FALSE
      /\ upset' = IF eraser[x].clean THEN upset \ {s} ELSE upset \cup {s}
      /\ UNCHANGED worker
  BY <1>1, ActTypes DEF CountsInv
<1>4. \A i \in Ids \ {s} : Undisturbed(i)
  <2> SUFFICES ASSUME NEW i \in Ids \ {s} PROVE Undisturbed(i)
    OBVIOUS
  <2>1. i # Nowhere
    BY Constants
  <2>2. Visible(i)' = Visible(i)
    BY <1>3, <2>1 DEF Visible, In
  <2>. QED  BY <1>2, <1>3, <2>2 DEF Undisturbed, Counting, At
<1>5. ~gone => Visible(s)' = Visible(s)
  BY <1>3 DEF Visible, In
<1>6. Counting(s)' = Counting(s)
  BY <1>3 DEF Counting, At
(* The session measured, if nobody interfered.                             *)
<1>7. ASSUME eraser[x].clean PROVE Right(s)'
  <2>1. /\ eraser[x].saw.state = session[s].state /\ eraser[x].saw.count = session[s].count
        /\ session[s].state # "gone"
        /\ eraser[x].found = Visible(s) /\ Counting(s) = {}
    BY <1>1, <1>2, <1>7 DEF CountsInv, ReadInv, Holds, Works
  <2>2. Session(session[s]) /\ session[s].state \in {"shown", "hidden"}
    BY <1>2, <2>1, SessionStates DEF CountsInv, TypeInv, SessionOK
  <2>3. CASE gone
    <3>1. session'[s].state = "gone"
      BY <1>2, <2>1, <2>3 DEF Acted, NoSession
    <3>. QED  BY <3>1 DEF Right
  <2>4. CASE ~gone /\ Visible(s) = {}
    <3>1. session'[s].state = "hidden"
      BY <1>2, <2>1, <2>2, <2>4, ActedTypes
    <3>. QED  BY <1>5, <2>4, <3>1 DEF Right
  <2>5. CASE ~gone /\ Visible(s) # {}
    <3>1. session'[s].state = "shown" /\ session'[s].count = Cardinality(Visible(s))
      BY <1>2, <2>1, <2>2, <2>5, ActedTypes
    <3>. QED  BY <1>5, <1>6, <2>1, <2>5, <3>1, Finite, FS_EmptySet DEF Right
  <2>. QED  BY <2>3, <2>4, <2>5
<1>8. ASSUME NEW i \in Ids, i \notin upset', ~Pending(i)' PROVE Right(i)'
  <2>1. CASE i = s
    BY <1>3, <1>7, <1>8, <2>1
  <2>2. CASE i # s
    <3>1. Works(x, {"tidy", "measure", "act"}) /\ i \in Within(x)
            => Works(x, {"tidy", "measure", "act"})' /\ i \in Within(x)'
      <4>1. i \in Within(x) => i \in eraser[x].todo
        BY <1>1, <2>2 DEF Within
      <4>. QED  BY <1>2, <4>1, OnwardsEffect DEF Works, Within
    <3>2. ~Pending(i)
      BY <1>3, <1>8, <3>1, StillPending
    <3>3. i \notin upset
      BY <1>3, <1>8, <2>2
    <3>. QED  BY <1>3, <1>4, <2>2, <3>2, <3>3, StillRight
  <2>. QED  BY <2>1, <2>2
<1>9. ASSUME NEW y \in Erasers \ {x}, Works(y, {"measure", "act"}), eraser'[y].clean, Holds(y)
      PROVE  Holds(y)'
  <2>1. PICK i \in Ids : i = eraser[y].now
    BY <1>9, ErasingTypes DEF CountsInv, TypeInv, Works
  <2>2. i # s
    BY <1>3, <1>9, <2>1
  <2>. QED  BY <1>3, <1>4, <1>9, <2>1, <2>2, HoldsStill
<1>10. ~Works(x, {"trash", "erase", "restore", "measure", "act"})'
  BY <1>2, OnwardsEffect DEF Works, FreeEraser
<1>. QED  BY <1>2, <1>3, <1>8, <1>9, <1>10, EraserStep DEF Works

LEMMA NextCounts ==
  ASSUME CountsInv, [Next]_vars PROVE CountsInv'
<1>1. ASSUME UNCHANGED vars PROVE CountsInv'
  <2>1. TypeInv'
    BY NextTypes DEF CountsInv
  <2>2. UNCHANGED <<row, session, worker, upset, eraser>>
    BY <1>1 DEF vars
  <2>3. ASSUME NEW i PROVE Undisturbed(i) /\ (Arriving(i) => Arriving(i)')
    BY <2>2, NothingDisturbed DEF Arriving, At
  <2>4. Nowhere \notin Ids
    BY Constants
  <2>. QED  BY <2>1, <2>2, <2>3, <2>4, SameErasers, WorkerStep
<1>2. TypeInv
  BY DEF CountsInv
<1>. QED  BY <1>1, <1>2, Steps, TakeCounts, CreateCounts, InsertCounts, CountCounts, EndCounts,
             WorkerDiesCounts, StartsCounts, ChangesCounts, TidyCounts, MeasureCounts, ActCounts

(* However storing, hiding, restoring and erasing interleave: a session    *)
(* that nobody is at work on, and that no race or death was noted of since *)
(* it was last measured undisturbed, has the count of its visible          *)
(* interactions and is hidden exactly when it has none.                    *)
THEOREM CountsHold == Spec => []CountsAgree
<1>1. CountsInv /\ [Next]_vars => CountsInv'
  BY NextCounts
<1>. QED  BY <1>1, InitCounts, CountsInvImplies, PTL DEF Spec

-----------------------------------------------------------------------------
(* One stretch, one session.  As long as events come one at a time and in  *)
(* order and nothing is deleted, every row is visible and one worker is    *)
(* busy at most; the invariant is what sessionFor reads off the ends of    *)
(* the sessions.                                                           *)

Live(e, s) == row[e].state = "live" /\ row[e].session = s
Storing(w) == At(w, "count") \/ At(w, "end")

Uneventful ==
  /\ \A x \in Erasers : eraser[x] = FreeEraser
  /\ \A e \in Events : row[e].state \in {"none", "live"}
  /\ \A s \in Ids : session[s].state \in {"none", "shown"}
  /\ \A v, w \in Workers : ~At(v, "free") /\ ~At(w, "free") => v = w

(* The event after the last one is about to begin a session, or to join    *)
(* the one that ended last.                                                *)
Begins(e) == \A f \in Stored : f.at + IdleWindow < e.at
Joins(e, s) ==
  \E g \in Stored :
    /\ Live(g, s) /\ g.at = session[s].end /\ e.at <= g.at + IdleWindow
    /\ \A f \in Stored : f.at <= g.at
AtHand ==
  \A w \in Workers : ~At(w, "free") =>
    LET e == worker[w].event
        s == worker[w].session
    IN /\ \A f \in Stored : f.at <= e.at
       /\ Storing(w) <=> row[e].state = "live"
       /\ At(w, "create") => Begins(e) /\ worker[w].saw = e.at
       /\ At(w, "insert") =>
            \/ Joins(e, s)
            \/ Begins(e) /\ session[s].end = e.at /\ \A f \in Stored : row[f].session # s
       /\ Storing(w) => row[e].session = s
       /\ ~At(w, "create") => session[s].state = "shown" /\ worker[w].saw = session[s].end

(* A session that no worker has at hand ends with its last row.            *)
Ends ==
  /\ \A f \in Stored :
       \/ row[f].session \in Ids /\ f.at <= session[row[f].session].end
       \/ \E w \in Workers : Storing(w) /\ worker[w].event = f
  /\ \A s \in Ids : session[s].state = "shown" =>
       \/ \E g \in Stored : Live(g, s) /\ g.at = session[s].end
       \/ \E w \in Workers : At(w, "insert") /\ worker[w].session = s

Stretches ==
  \A e, f \in Stored : e.at <= f.at => (row[e].session = row[f].session <=> ~Gap(e, f))

LEMMA Times ==
  /\ IdleWindow \in Nat /\ \A e \in Events : e.at \in Nat
  /\ Stored \subseteq Events
BY SessionsAssumption DEF Stored

(* Gap, of any set of events.                                              *)
GapIn(S, e, f) ==
  \E a, b \in S :
    /\ e.at <= a.at /\ a.at + IdleWindow < b.at /\ b.at <= f.at
    /\ \A c \in S : c.at <= a.at \/ c.at >= b.at

LEMMA NoGapAtOnce ==
  ASSUME NEW S \in SUBSET Events, NEW e \in Events, NEW f \in Events, f.at <= e.at
  PROVE  ~GapIn(S, e, f)
BY Times DEF GapIn

LEMMA GapKept ==
  ASSUME NEW S \in SUBSET Events, NEW e \in Events, \A f \in S : f.at <= e.at,
         NEW x \in S, NEW y \in S
  PROVE  GapIn(S \cup {e}, x, y) <=> GapIn(S, x, y)
<1>1. ASSUME GapIn(S, x, y) PROVE GapIn(S \cup {e}, x, y)
  <2>1. PICK a, b \in S :
          /\ x.at <= a.at /\ a.at + IdleWindow < b.at /\ b.at <= y.at
          /\ \A c \in S : c.at <= a.at \/ c.at >= b.at
    BY <1>1 DEF GapIn
  <2>2. e.at >= b.at
    BY <2>1, Times
  <2>. QED  BY <2>1, <2>2 DEF GapIn
<1>2. ASSUME GapIn(S \cup {e}, x, y) PROVE GapIn(S, x, y)
  <2>1. PICK a, b \in S \cup {e} :
          /\ x.at <= a.at /\ a.at + IdleWindow < b.at /\ b.at <= y.at
          /\ \A c \in S \cup {e} : c.at <= a.at \/ c.at >= b.at
    BY <1>2 DEF GapIn
  <2>2. b.at <= e.at /\ a.at < b.at
    BY <2>1, Times
  <2>3. a \in S
    BY <2>1, <2>2, Times
  <2>4. CASE b \in S
    BY <2>1, <2>3, <2>4 DEF GapIn
  <2>5. CASE b = e
    <3>1. y.at = b.at
      BY <2>1, <2>5, Times
    <3>. QED  BY <2>1, <2>3, <3>1 DEF GapIn
  <2>. QED  BY <2>4, <2>5
<1>. QED  BY <1>1, <1>2

(* An event within the idle window of the last one adds no gap ...         *)
LEMMA GapJoined ==
  ASSUME NEW S \in SUBSET Events, NEW e \in Events, NEW g \in S, NEW x \in S,
         \A f \in S : f.at <= g.at, g.at <= e.at, e.at <= g.at + IdleWindow
  PROVE  GapIn(S \cup {e}, x, e) <=> GapIn(S, x, g)
<1>1. ASSUME GapIn(S, x, g) PROVE GapIn(S \cup {e}, x, e)
  <2>1. PICK a, b \in S :
          /\ x.at <= a.at /\ a.at + IdleWindow < b.at /\ b.at <= g.at
          /\ \A c \in S : c.at <= a.at \/ c.at >= b.at
    BY <1>1 DEF GapIn
  <2>2. e.at >= b.at
    BY <2>1, Times
  <2>. QED  BY <2>1, <2>2 DEF GapIn
<1>2. ASSUME GapIn(S \cup {e}, x, e) PROVE GapIn(S, x, g)
  <2>1. PICK a, b \in S \cup {e} :
          /\ x.at <= a.at /\ a.at + IdleWindow < b.at /\ b.at <= e.at
          /\ \A c \in S \cup {e} : c.at <= a.at \/ c.at >= b.at
    BY <1>2 DEF GapIn
  <2>2. a.at < b.at /\ a.at < g.at
    BY <2>1, Times
  <2>3. a \in S
    BY <2>1, <2>2, Times
  <2>4. CASE b \in S
    BY <2>1, <2>3, <2>4 DEF GapIn
  <2>5. CASE b = e
    <3>1. g.at = b.at
      BY <2>1, <2>2, <2>5, Times
    <3>. QED  BY <2>1, <2>3, <3>1 DEF GapIn
  <2>. QED  BY <2>4, <2>5
<1>. QED  BY <1>1, <1>2

(* ... and one after it is separated from all events before.               *)
LEMMA GapBegun ==
  ASSUME NEW S \in SUBSET Events, NEW e \in Events, NEW x \in S,
         \A f \in S : f.at + IdleWindow < e.at
  PROVE  GapIn(S \cup {e}, x, e)
<1>1. \A p \in S : p.at <= e.at
  BY Times
<1>2. PICK g \in S : \A f \in S : f.at <= g.at
  BY <1>1, LastBefore
<1>3. e.at <= e.at /\ e.at >= e.at
  BY Times
<1>. QED  BY <1>2, <1>3 DEF GapIn

Orderly == Uneventful /\ AtHand /\ Ends /\ Stretches
StretchInv == orderly => Orderly

LEMMA InitStretch == Init => StretchInv
<1> SUFFICES ASSUME Init PROVE Orderly
  BY DEF StretchInv
<1>1. Stored = {}
  BY DEF Init, Stored
<1>2. Uneventful /\ AtHand
  BY DEF Init, Uneventful, AtHand, At, FreeWorker, NoSession
<1>3. Ends /\ Stretches
  BY <1>1 DEF Init, Ends, Stretches, NoSession
<1>. QED  BY <1>2, <1>3 DEF Orderly

LEMMA StretchImplies == StretchInv => OneStretch
BY DEF StretchInv, Orderly, Stretches, OneStretch

(* What is known when a worker is busy.                                    *)
LEMMA OneBusy ==
  ASSUME TypeInv, Uneventful, AtHand, NEW w \in Workers, ~At(w, "free")
  PROVE  /\ worker[w].event \in Events /\ worker[w].event.at \in Nat
         /\ \A v \in Workers \ {w} : At(v, "free")
         /\ \A f \in Stored : f.at <= worker[w].event.at
         /\ Serving(worker[w])
BY Times, ServingTypes DEF TypeInv, Uneventful, AtHand

(* Only the busy worker counts.                                            *)
LEMMA AtHandOfOne ==
  ASSUME NEW w \in Workers,
         \A v \in Workers \ {w} : At(v, "free") /\ worker'[v] = worker[v],
         At(w, "free")' \/
           LET e == worker[w].event
               s == worker[w].session
           IN (/\ \A f \in Stored : f.at <= e.at
               /\ Storing(w) <=> row[e].state = "live"
               /\ At(w, "create") => Begins(e) /\ worker[w].saw = e.at
               /\ At(w, "insert") =>
                    \/ Joins(e, s)
                    \/ Begins(e) /\ session[s].end = e.at /\ \A f \in Stored : row[f].session # s
               /\ Storing(w) => row[e].session = s
               /\ ~At(w, "create") => session[s].state = "shown" /\ worker[w].saw = session[s].end)'
  PROVE  AtHand' /\ \A u, v \in Workers : ~At(u, "free")' /\ ~At(v, "free")' => u = v
<1>1. \A v \in Workers \ {w} : At(v, "free")'
  BY DEF At
<1>. QED  BY <1>1 DEF AtHand

(* The rows and the erasers are left alone.                                *)
LEMMA SameRows ==
  ASSUME UNCHANGED row
  PROVE  /\ Stored' = Stored /\ \A e, f : Gap(e, f)' <=> Gap(e, f)
         /\ Stretches => Stretches'
<1>1. Stored' = Stored
  BY DEF Stored
<1>2. \A e, f : Gap(e, f)' <=> Gap(e, f)
  BY <1>1 DEF Gap
<1>. QED  BY <1>1, <1>2 DEF Stretches

LEMMA TakeOrderly ==
  ASSUME TypeInv, orderly => Orderly, orderly',
         NEW w \in Workers, NEW e \in Events, NEW s \in SessionFor(e), Take(w, e, s)
  PROVE  Orderly'
<1>1. /\ UNCHANGED <<row, session, eraser>> /\ At(w, "free") /\ row[e].state = "none"
      /\ orderly /\ (\A v \in Workers : At(v, "free")) /\ \A f \in Stored : f.at <= e.at
  BY DEF Take
<1>2. Uneventful /\ Ends /\ Stretches
  BY <1>1 DEF Orderly
<1>3. /\ worker'[w] = [pc |-> IF s = Nowhere THEN "create" ELSE "insert", event |-> e, session |-> s,
                       saw |-> IF s = Nowhere THEN e.at ELSE session[s].end]
      /\ \A v \in Workers \ {w} : At(v, "free") /\ worker'[v] = worker[v]
  BY <1>1 DEF Take, TypeInv, WorkerOK
<1>4. /\ worker'[w].event = e /\ worker'[w].session = s
      /\ s = Nowhere => At(w, "create")' /\ worker'[w].saw = e.at
      /\ s # Nowhere => At(w, "insert")' /\ worker'[w].saw = session[s].end
  BY <1>3 DEF At
<1>5. \A r \in Ids : session[r].state = "shown" =>
        \E g \in Stored : Live(g, r) /\ g.at = session[r].end
  BY <1>1, <1>2 DEF Ends, At
<1>6. \A r \in Ids : session[r].state = "shown" => session[r].end \in Nat
  BY <1>5, Times
<1>7. \A f \in Stored : /\ row[f].session \in Ids /\ f.at <= session[row[f].session].end
                        /\ session[row[f].session].state = "shown"
  <2> SUFFICES ASSUME NEW f \in Stored
               PROVE  /\ row[f].session \in Ids /\ f.at <= session[row[f].session].end
                      /\ session[row[f].session].state = "shown"
    OBVIOUS
  <2>1. row[f].session \in Ids /\ f.at <= session[row[f].session].end
    BY <1>1, <1>2 DEF Ends, Storing, At
  <2>. QED  BY <1>2, <2>1, Times, Constants DEF TypeInv, RowSessionsExist, Uneventful
<1> DEFINE found == {r \in Ids : session[r].state = "shown" /\ session[r].end >= e.at - IdleWindow}
<1>8. s = Nowhere => Begins(e)
  <2> SUFFICES ASSUME s = Nowhere, NEW f \in Stored PROVE f.at + IdleWindow < e.at
    BY DEF Begins
  <2>1. found = {}
    BY Constants DEF SessionFor, Latest
  <2>2. PICK r \in Ids : r = row[f].session
    BY <1>7
  <2>3. ~(session[r].end >= e.at - IdleWindow) /\ session[r].end \in Nat /\ f.at <= session[r].end
    BY <1>6, <1>7, <2>1, <2>2
  <2>. QED  BY <2>3, Times
<1>9. s # Nowhere => session[s].state = "shown" /\ Joins(e, s)
  <2> SUFFICES ASSUME s # Nowhere PROVE session[s].state = "shown" /\ Joins(e, s)
    OBVIOUS
  <2>1. s \in found /\ \A r \in found : session[r].end <= session[s].end
    BY DEF SessionFor, Latest
  <2>2. PICK g \in Stored : Live(g, s) /\ g.at = session[s].end
    BY <1>5, <2>1
  <2>3. e.at <= g.at + IdleWindow
    BY <2>1, <2>2, Times
  <2>4. ASSUME NEW f \in Stored PROVE f.at <= g.at
    <3>1. PICK r \in Ids : r = row[f].session
      BY <1>7
    <3>2. /\ session[r].end \in Nat /\ session[r].state = "shown" /\ f.at <= session[r].end
          /\ session[s].end \in Nat
      BY <1>6, <1>7, <2>1, <3>1
    <3>3. session[r].end <= session[s].end
      <4>1. CASE r \in found
        BY <2>1, <4>1
      <4>2. CASE r \notin found
        BY <2>1, <3>2, <4>2, Times
      <4>. QED  BY <4>1, <4>2
    <3>. QED  BY <2>2, <3>2, <3>3, Times
  <2>5. Joins(e, s)
    BY <2>2, <2>3, <2>4 DEF Joins
  <2>. QED  BY <2>1, <2>5
<1>10. (s = Nowhere => Begins(e)') /\ (s # Nowhere => Joins(e, s)')
  BY <1>1, <1>8, <1>9, SameRows DEF Begins, Joins, Live
<1>11. AtHand' /\ \A u, v \in Workers : ~At(u, "free")' /\ ~At(v, "free")' => u = v
  <2>1. ~Storing(w)'
    BY <1>4 DEF Storing, At
  <2>2. row'[e].state # "live" /\ \A f \in Stored' : f.at <= e.at
    BY <1>1, SameRows
  <2>3. s # Nowhere => session'[s].state = "shown" /\ worker'[w].saw = session'[s].end
    BY <1>1, <1>4, <1>9
  <2>. QED  BY <1>3, <1>4, <1>10, <2>1, <2>2, <2>3, AtHandOfOne DEF At
<1>12. Uneventful'
  BY <1>1, <1>2, <1>11 DEF Uneventful, At
<1>13. Ends'
  BY <1>1, <1>5, <1>7, SameRows DEF Ends, Live
<1>. QED  BY <1>1, <1>2, <1>11, <1>12, <1>13, SameRows DEF Orderly

LEMMA CreateOrderly ==
  ASSUME TypeInv, Orderly, NEW w \in Workers, Create(w) PROVE Orderly'
<1>0. PICK e : e = worker[w].event
  OBVIOUS
<1>1. PICK s \in Ids :
        /\ session[s].state = "none"
        /\ session' = [session EXCEPT ![s] =
             [state |-> "shown", start |-> e.at, end |-> e.at, count |-> 0]]
        /\ worker' = [worker EXCEPT ![w].pc = "insert", ![w].session = s]
  BY <1>0 DEF Create
<1>2. UNCHANGED <<row, eraser>> /\ At(w, "create") /\ ~At(w, "free")
  BY DEF Create, At
<1>3. Uneventful /\ AtHand /\ Ends /\ Stretches
  BY DEF Orderly
<1>4. /\ e \in Events /\ Serving(worker[w])
      /\ (\A v \in Workers \ {w} : At(v, "free")) /\ \A f \in Stored : f.at <= e.at
  BY <1>0, <1>2, <1>3, OneBusy
<1>5. Begins(e) /\ worker[w].saw = e.at /\ row[e].state # "live"
  BY <1>0, <1>2, <1>3 DEF AtHand, Storing, At
<1>6. /\ worker'[w].event = e /\ worker'[w].session = s /\ worker'[w].saw = e.at
      /\ At(w, "insert")' /\ ~Storing(w)'
      /\ \A v \in Workers \ {w} : At(v, "free") /\ worker'[v] = worker[v]
  <2>1. worker'[w] = [worker[w] EXCEPT !.pc = "insert", !.session = s]
        /\ \A v \in Workers \ {w} : worker'[v] = worker[v]
    BY <1>1 DEF TypeInv, WorkerOK
  <2>2. worker'[w].event = e /\ worker'[w].session = s /\ worker'[w].saw = worker[w].saw
        /\ worker'[w].pc = "insert"
    BY <1>0, <1>4, <2>1 DEF Serving
  <2>. QED  BY <1>4, <1>5, <2>1, <2>2 DEF At, Storing
<1>7. /\ session'[s].state = "shown" /\ session'[s].end = e.at
      /\ \A r \in Ids \ {s} : session'[r] = session[r]
  BY <1>1 DEF TypeInv, SessionOK
<1>8. \A f \in Stored : row[f].session # s
  BY <1>1, Times DEF TypeInv, RowSessionsExist, Nowhere, Ids
<1>9. AtHand' /\ \A u, v \in Workers : ~At(u, "free")' /\ ~At(v, "free")' => u = v
  <2>1. Begins(e)' /\ (\A f \in Stored' : row'[f].session # s) /\ \A f \in Stored' : f.at <= e.at
    BY <1>2, <1>4, <1>5, <1>8, SameRows DEF Begins
  <2>. QED  BY <1>2, <1>5, <1>6, <1>7, <2>1, AtHandOfOne DEF At
<1>10. Uneventful'
  BY <1>2, <1>3, <1>7, <1>9 DEF Uneventful, At
<1>11. Ends'
  <2>1. ASSUME NEW f \in Stored
        PROVE  row[f].session \in Ids /\ f.at <= session'[row[f].session].end
    <3>1. row[f].session \in Ids /\ f.at <= session[row[f].session].end
      BY <1>2, <1>3, <1>4 DEF Ends, Storing, At
    <3>. QED  BY <1>7, <1>8, <3>1
  <2>2. ASSUME NEW r \in Ids \ {s}, session[r].state = "shown"
        PROVE  \E g \in Stored : Live(g, r) /\ g.at = session[r].end
    BY <1>2, <1>3, <1>4, <2>2 DEF Ends, At
  <2>3. \A r \in Ids \ {s} : session'[r].state = "shown" =>
          \E g \in Stored : Live(g, r)' /\ g.at = session'[r].end
    BY <1>2, <1>7, <2>2 DEF Live
  <2>. QED  BY <1>2, <1>6, <2>1, <2>3, SameRows DEF Ends
<1>. QED  BY <1>2, <1>3, <1>9, <1>10, <1>11, SameRows DEF Orderly

(* One more row, in the session it begins or joins.                        *)
LEMMA StretchGrows ==
  ASSUME TypeInv, Uneventful, Stretches, NEW e \in Events, NEW s \in Ids,
         row[e].state # "live",
         row' = [row EXCEPT ![e].state = "live", ![e].session = s],
         \A f \in Stored : f.at <= e.at,
         Joins(e, s) \/ (Begins(e) /\ \A f \in Stored : row[f].session # s)
  PROVE  Stretches'
<1>1. /\ row'[e].state = "live" /\ row'[e].session = s
      /\ \A f \in Events \ {e} : row'[f] = row[f]
  <2>1. row[e] \in Row /\ row'[e] = [row[e] EXCEPT !.state = "live", !.session = s]
    BY DEF TypeInv, RowsOK
  <2>. QED  BY <2>1 DEF TypeInv, RowsOK, Row
<1>2. e \notin Stored /\ Stored \in SUBSET Events
  BY DEF Stored, Uneventful
<1>3. Stored' = Stored \cup {e}
  BY <1>1 DEF Stored
<1>4. \A x, y : (Gap(x, y) <=> GapIn(Stored, x, y)) /\ (Gap(x, y)' <=> GapIn(Stored', x, y))
  BY DEF Gap, GapIn
<1>5. ASSUME NEW x \in Stored
      PROVE  row'[x].session = s <=> ~Gap(x, e)'
  <2>1. x # e /\ row'[x] = row[x]
    BY <1>1, <1>2
  <2>2. CASE Begins(e) /\ \A f \in Stored : row[f].session # s
    BY <1>2, <1>3, <1>4, <2>1, <2>2, GapBegun DEF Begins
  <2>3. CASE Joins(e, s)
    <3>1. PICK g \in Stored :
            /\ Live(g, s) /\ e.at <= g.at + IdleWindow /\ \A f \in Stored : f.at <= g.at
      BY <2>3 DEF Joins
    <3>2. Gap(x, e)' <=> Gap(x, g)
      BY <1>2, <1>3, <1>4, <3>1, GapJoined
    <3>3. row[x].session = row[g].session <=> ~Gap(x, g)
      BY <3>1 DEF Stretches
    <3>. QED  BY <2>1, <3>1, <3>2, <3>3 DEF Live
  <2>. QED  BY <2>2, <2>3
<1>6. ASSUME NEW x \in Stored', NEW y \in Stored', x.at <= y.at
      PROVE  row'[x].session = row'[y].session <=> ~Gap(x, y)'
  <2>1. CASE x \in Stored /\ y \in Stored
    <3>1. Gap(x, y)' <=> Gap(x, y)
      BY <1>2, <1>3, <1>4, <2>1, GapKept
    <3>2. row[x].session = row[y].session <=> ~Gap(x, y)
      BY <1>6, <2>1 DEF Stretches
    <3>. QED  BY <1>1, <1>2, <2>1, <3>1, <3>2
  <2>2. CASE x \in Stored /\ y = e
    BY <1>1, <1>5, <2>2
  <2>3. CASE x = e /\ y \in Stored
    <3>1. y.at <= e.at /\ e.at <= y.at /\ Stored' \in SUBSET Events
      BY <1>2, <1>3, <1>6, <2>3
    <3>2. ~Gap(y, e)' /\ ~Gap(e, y)'
      BY <1>2, <1>4, <2>3, <3>1, NoGapAtOnce
    <3>. QED  BY <1>1, <1>5, <2>3, <3>2
  <2>4. CASE x = e /\ y = e
    <3>1. Stored' \in SUBSET Events /\ e.at <= e.at
      BY <1>2, <1>3, Times
    <3>2. ~Gap(e, e)'
      BY <1>4, <3>1, NoGapAtOnce
    <3>. QED  BY <2>4, <3>2
  <2>. QED  BY <1>3, <2>1, <2>2, <2>3, <2>4
<1>. QED  BY <1>6 DEF Stretches

LEMMA StillFree ==
  ASSUME TypeInv, Uneventful, NEW s, NEW pcs \in SUBSET {"measure", "act"}, Overtaken(s, pcs)
  PROVE  \A x \in Erasers : eraser'[x] = FreeEraser
BY OvertakenEffect DEF TypeInv, Uneventful, Same

LEMMA InsertOrderly ==
  ASSUME TypeInv, Orderly, NEW w \in Workers, Insert(w) PROVE Orderly'
<1> DEFINE e == worker[w].event
           s == worker[w].session
<1>1. At(w, "insert") /\ ~At(w, "free") /\ ~At(w, "create") /\ ~Storing(w) /\ UNCHANGED session
  BY DEF Insert, At, Storing
<1>2. Uneventful /\ AtHand /\ Ends /\ Stretches
  BY DEF Orderly
<1>3. /\ e \in Events /\ Serving(worker[w]) /\ s \in Ids
      /\ (\A v \in Workers \ {w} : At(v, "free")) /\ \A f \in Stored : f.at <= e.at
  BY <1>1, <1>2, OneBusy, ServingTypes DEF TypeInv
<1>4. /\ row[e].state # "live" /\ session[s].state = "shown" /\ worker[w].saw = session[s].end
      /\ \/ Joins(e, s)
         \/ Begins(e) /\ session[s].end = e.at /\ \A f \in Stored : row[f].session # s
  BY <1>1, <1>2 DEF AtHand
<1>5. /\ row' = [row EXCEPT ![e].state = "live", ![e].session = s]
      /\ worker' = [worker EXCEPT ![w].pc = "count"] /\ Overtaken(s, {"act"})
  BY <1>2, <1>3, <1>4 DEF Insert, Storable, Uneventful
<1>6. /\ row'[e].state = "live" /\ row'[e].session = s
      /\ \A f \in Events \ {e} : row'[f] = row[f]
  <2>1. row[e] \in Row /\ row'[e] = [row[e] EXCEPT !.state = "live", !.session = s]
    BY <1>3, <1>5 DEF TypeInv, RowsOK
  <2>. QED  BY <1>5, <2>1 DEF TypeInv, RowsOK, Row
<1>7. Stored' = Stored \cup {e} /\ e \notin Stored
  BY <1>2, <1>3, <1>4, <1>6 DEF Stored, Uneventful
<1>8. /\ worker'[w].event = e /\ worker'[w].session = s /\ worker'[w].saw = worker[w].saw
      /\ At(w, "count")' /\ Storing(w)'
      /\ \A v \in Workers \ {w} : At(v, "free") /\ worker'[v] = worker[v]
  <2>1. worker'[w] = [worker[w] EXCEPT !.pc = "count"]
        /\ \A v \in Workers \ {w} : worker'[v] = worker[v]
    BY <1>5 DEF TypeInv, WorkerOK
  <2>. QED  BY <1>3, <2>1 DEF Serving, At, Storing
<1>9. AtHand' /\ \A u, v \in Workers : ~At(u, "free")' /\ ~At(v, "free")' => u = v
  <2>1. \A f \in Stored' : f.at <= e.at
    BY <1>3, <1>7, Times
  <2>. QED  BY <1>1, <1>4, <1>6, <1>8, <2>1, AtHandOfOne DEF At
<1>10. Uneventful'
  <2>1. \A x \in Erasers : eraser'[x] = FreeEraser
    BY <1>2, <1>5, StillFree
  <2>. QED  BY <1>1, <1>2, <1>6, <1>9, <2>1 DEF Uneventful, At
<1>11. Ends'
  <2>1. ASSUME NEW f \in Stored
        PROVE  row'[f].session \in Ids /\ f.at <= session'[row'[f].session].end
    <3>1. row[f].session \in Ids /\ f.at <= session[row[f].session].end
      BY <1>1, <1>2, <1>3 DEF Ends, Storing, At
    <3>. QED  BY <1>1, <1>6, <1>7, <3>1, Times
  <2>2. ASSUME NEW r \in Ids, session[r].state = "shown"
        PROVE  \E g \in Stored' : Live(g, r)' /\ g.at = session[r].end
    <3>1. ASSUME NEW g \in Stored, Live(g, r), g.at = session[r].end
          PROVE  \E h \in Stored' : Live(h, r)' /\ h.at = session[r].end
      BY <1>6, <1>7, <3>1, Times DEF Live
    <3>2. CASE r = s
      BY <1>4, <1>6, <1>7, <3>1, <3>2 DEF Joins, Live
    <3>3. CASE r # s
      BY <1>1, <1>2, <1>3, <2>2, <3>1, <3>3 DEF Ends, At
    <3>. QED  BY <3>2, <3>3
  <2>. QED  BY <1>1, <1>7, <1>8, <2>1, <2>2 DEF Ends
<1>12. Stretches'
  BY <1>2, <1>3, <1>4, <1>5, StretchGrows
<1>. QED  BY <1>9, <1>10, <1>11, <1>12 DEF Orderly

LEMMA CountOrderly ==
  ASSUME TypeInv, Orderly, NEW w \in Workers, Count(w) PROVE Orderly'
<1>1. PICK e, s : e = worker[w].event /\ s = worker[w].session
  OBVIOUS
<1>2. At(w, "count") /\ ~At(w, "free") /\ ~At(w, "create") /\ Storing(w) /\ UNCHANGED row
  BY DEF Count, At, Storing
<1>3. Uneventful /\ AtHand /\ Ends /\ Stretches
  BY DEF Orderly
<1>4. /\ e \in Events /\ Serving(worker[w]) /\ s \in Ids
      /\ (\A v \in Workers \ {w} : At(v, "free")) /\ \A f \in Stored : f.at <= e.at
  BY <1>1, <1>2, <1>3, OneBusy, ServingTypes DEF TypeInv
<1>5. /\ row[e].state = "live" /\ row[e].session = s
      /\ session[s].state = "shown" /\ worker[w].saw = session[s].end
  BY <1>1, <1>2, <1>3 DEF AtHand
<1>6. \A r \in Ids : session'[r].state = session[r].state /\ session'[r].end = session[r].end
  <2>1. PICK count : session' = [session EXCEPT ![s].count = count]
    BY <1>1 DEF Count
  <2>2. \A r \in Ids \ {s} : session'[r] = session[r]
    BY <2>1 DEF TypeInv, SessionOK
  <2>3. session'[s] = [session[s] EXCEPT !.count = count] /\ Session(session[s])
    BY <1>4, <2>1 DEF TypeInv, SessionOK
  <2>. QED  BY <2>2, <2>3 DEF Session
<1>7. /\ worker'[w].event = e /\ worker'[w].session = s /\ worker'[w].saw = worker[w].saw
      /\ At(w, "end")' /\ Storing(w)'
      /\ \A v \in Workers \ {w} : At(v, "free") /\ worker'[v] = worker[v]
  <2>1. worker'[w] = [worker[w] EXCEPT !.pc = "end"]
        /\ \A v \in Workers \ {w} : worker'[v] = worker[v]
    BY DEF Count, TypeInv, WorkerOK
  <2>. QED  BY <1>1, <1>4, <2>1 DEF Serving, At, Storing
<1>8. AtHand' /\ \A u, v \in Workers : ~At(u, "free")' /\ ~At(v, "free")' => u = v
  <2>1. Stored' = Stored
    BY <1>2, SameRows
  <2>. QED  BY <1>2, <1>4, <1>5, <1>6, <1>7, <2>1, AtHandOfOne DEF At
<1>9. Uneventful'
  <2>1. \A x \in Erasers : eraser'[x] = FreeEraser
    <3>1. Overtaken(s, {"measure", "act"})
      BY <1>1 DEF Count
    <3>. QED  BY <1>3, <3>1, StillFree
  <2>. QED  BY <1>2, <1>3, <1>6, <1>8, <2>1 DEF Uneventful, At
<1>10. Ends'
  <2>1. ASSUME NEW f \in Stored
        PROVE  \/ row[f].session \in Ids /\ f.at <= session'[row[f].session].end
               \/ f = e
    BY <1>1, <1>3, <1>4, <1>6 DEF Ends, Storing, At
  <2>2. ASSUME NEW r \in Ids, session[r].state = "shown"
        PROVE  \E g \in Stored : Live(g, r)' /\ g.at = session'[r].end
    <3>1. \E g \in Stored : Live(g, r) /\ g.at = session[r].end
      BY <1>2, <1>3, <1>4, <2>2 DEF Ends, At
    <3>. QED  BY <1>2, <1>6, <3>1 DEF Live
  <2>. QED  BY <1>2, <1>6, <1>7, <2>1, <2>2, SameRows DEF Ends
<1>. QED  BY <1>2, <1>3, <1>8, <1>9, <1>10, SameRows DEF Orderly

LEMMA EndOrderly ==
  ASSUME TypeInv, Orderly, NEW w \in Workers, End(w) PROVE Orderly'
<1>1. PICK e, s : e = worker[w].event /\ s = worker[w].session
  OBVIOUS
<1>2. /\ At(w, "end") /\ ~At(w, "free") /\ ~At(w, "create") /\ Storing(w)
      /\ UNCHANGED <<row, eraser>>
  BY DEF End, At, Storing
<1>3. Uneventful /\ AtHand /\ Ends /\ Stretches
  BY DEF Orderly
<1>4. /\ e \in Events /\ s \in Ids
      /\ (\A v \in Workers \ {w} : At(v, "free")) /\ \A f \in Stored : f.at <= e.at
  BY <1>1, <1>2, <1>3, OneBusy, ServingTypes DEF TypeInv
<1>5. /\ row[e].state = "live" /\ row[e].session = s
      /\ session[s].state = "shown" /\ worker[w].saw = session[s].end
  BY <1>1, <1>2, <1>3 DEF AtHand
<1>6. /\ session'[s].state = "shown" /\ session'[s].end = e.at
      /\ \A r \in Ids \ {s} : session'[r] = session[r]
  <2>1. PICK end : /\ session' = [session EXCEPT ![s].end = end]
                   /\ end = IF worker[w].saw = e.at THEN session[s].end ELSE e.at
    BY <1>1, <1>5 DEF End
  <2>2. session'[s] = [session[s] EXCEPT !.end = end] /\ Session(session[s])
    BY <1>4, <2>1 DEF TypeInv, SessionOK
  <2>3. end = e.at
    BY <1>5, <2>1
  <2>4. \A r \in Ids \ {s} : session'[r] = session[r]
    BY <2>1 DEF TypeInv, SessionOK
  <2>. QED  BY <1>5, <2>2, <2>3, <2>4 DEF Session
<1>7. /\ At(w, "free")'
      /\ \A v \in Workers \ {w} : At(v, "free") /\ worker'[v] = worker[v]
  BY <1>4 DEF End, TypeInv, WorkerOK, At, FreeWorker
<1>8. AtHand' /\ \A u, v \in Workers : ~At(u, "free")' /\ ~At(v, "free")' => u = v
  BY <1>7, AtHandOfOne
<1>9. Uneventful'
  BY <1>2, <1>3, <1>6, <1>8 DEF Uneventful, At
<1>10. Ends'
  <2>1. ASSUME NEW f \in Stored
        PROVE  row[f].session \in Ids /\ f.at <= session'[row[f].session].end
    <3>1. CASE row[f].session = s
      BY <1>4, <1>6, <3>1
    <3>2. CASE row[f].session # s
      <4>1. f # e
        BY <1>5, <3>2
      <4>2. row[f].session \in Ids /\ f.at <= session[row[f].session].end
        BY <1>1, <1>3, <1>4, <4>1 DEF Ends, Storing, At
      <4>. QED  BY <1>6, <3>2, <4>2
    <3>. QED  BY <3>1, <3>2
  <2>2. ASSUME NEW r \in Ids, session'[r].state = "shown"
        PROVE  \E g \in Stored : Live(g, r)' /\ g.at = session'[r].end
    <3>1. CASE r = s
      BY <1>2, <1>4, <1>5, <1>6, <3>1 DEF Live, Stored
    <3>2. CASE r # s
      <4>1. \E g \in Stored : Live(g, r) /\ g.at = session[r].end
        BY <1>2, <1>3, <1>4, <1>6, <2>2, <3>2 DEF Ends, At
      <4>. QED  BY <1>2, <1>6, <3>2, <4>1 DEF Live
    <3>. QED  BY <3>1, <3>2
  <2>. QED  BY <1>2, <2>1, <2>2, SameRows DEF Ends
<1>. QED  BY <1>2, <1>3, <1>8, <1>9, <1>10, SameRows DEF Orderly

(* Erasers begin nothing, and nobody dies, in an orderly behaviour.        *)
LEMMA NextStretch ==
  ASSUME TypeInv, StretchInv, [Next]_vars PROVE StretchInv'
<1> SUFFICES ASSUME orderly' PROVE Orderly'
  BY DEF StretchInv
<1>1. CASE UNCHANGED vars
  <2>1. Orderly
    BY <1>1 DEF vars, StretchInv
  <2>. QED  BY <1>1, <2>1 DEF vars, Orderly, Uneventful, AtHand, Ends, Stretches, Stored, Storing,
                             At, Begins, Joins, Live, Gap
<1>2. ASSUME NEW w \in Workers, NEW e \in Events, NEW s \in SessionFor(e), Take(w, e, s)
      PROVE  Orderly'
  BY <1>2, TakeOrderly DEF StretchInv
<1>3. ASSUME NEW w \in Workers, Create(w) \/ Insert(w) \/ Count(w) \/ End(w) PROVE Orderly'
  <2>1. Orderly
    BY <1>3 DEF Create, Insert, Count, End, StretchInv
  <2>. QED  BY <1>3, <2>1, CreateOrderly, InsertOrderly, CountOrderly, EndOrderly
<1>4. ASSUME NEW w \in Workers, WorkerDies(w) PROVE FALSE
  BY <1>4 DEF WorkerDies
<1>5. ASSUME NEW x \in Erasers, StartsStored(x) PROVE FALSE
  BY <1>5 DEF StartsStored, Starts
<1>6. ASSUME NEW x \in Erasers, Works(x, {"trash", "erase", "restore", "tidy", "measure", "act"}),
             UNCHANGED orderly
      PROVE  FALSE
  BY <1>6 DEF StretchInv, Orderly, Uneventful, Works, FreeEraser
<1>7. ASSUME NEW x \in Erasers, ChangesStored(x), Works(x, {"trash", "erase", "restore"})
      PROVE  FALSE
  BY <1>6, <1>7 DEF ChangesStored, Changes, Works
<1>8. ASSUME NEW x \in Erasers, Tidy(x) \/ Measure(x) \/ Act(x) PROVE FALSE
  BY <1>6, <1>8 DEF Tidy, Measure, Act, Works
<1>. QED  BY <1>1, <1>2, <1>3, <1>4, <1>5, <1>7, <1>8, Steps

(* As long as events come one at a time and in order, none is deleted and  *)
(* no worker dies: two events are in one session exactly when no gap       *)
(* longer than the idle window is between them.                            *)
THEOREM SessionsAreStretches == Spec => []OneStretch
<1>1. TypeInv /\ StretchInv /\ [Next]_vars => (TypeInv /\ StretchInv)'
  BY NextTypes, NextStretch
<1>. QED  BY <1>1, InitTypes, InitStretch, StretchImplies, PTL DEF Spec

=============================================================================
