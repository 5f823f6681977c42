------------------------ MODULE Attribution_proofs -------------------------
(***************************************************************************)
(* What an event can be told about its directory and branch, for any       *)
(* number of processes, directories, branches and connections and any      *)
(* lifetimes of the two caches.                                            *)
(***************************************************************************)
EXTENDS Attribution, TLAPS

Places == Dirs \cup {Unknown}
Answers == [dir : Places, head : Heads]
Parked == [dir : Places, head : Heads, age : 0..DirTTL]
Kept == [head : Heads, age : 0..ResolverTTL - 1]
Stages == {"closed", "asked", "identified", "resolving", "missed", "read", "open"}
Connection ==
  [pc : Stages, for : {"connection", "event"}, client : Pids \cup {Unknown},
   pid : Pids \cup {Unknown}, waited : 0..ReplyTime, reply : Answers, dir : Places,
   read : Heads, info : Answers, recent : BOOLEAN]

TypeInv ==
  /\ changes \in 0..MaxChanges
  /\ process \in [Pids -> [dir : Places, been : SUBSET Places]]
  /\ head \in [Dirs -> Heads]
  /\ since \in [Dirs -> [Heads -> 0..Reach]]
  /\ dirCache \in [Pids -> {Never} \cup Parked]
  /\ cache \in [Dirs -> {Never} \cup Kept]
  /\ conn \in [Connections -> Connection]

(* What a connection works with is a directory, and only a resolved one    *)
(* has a branch.                                                           *)
Known(k) ==
  /\ k.pid = k.client
  /\ k.pc \in {"asked", "identified"} => k.client \in Pids
  /\ k.pc \in {"resolving", "missed", "read"} => k.dir \in Dirs
  /\ k.info.head # NoRepo => k.pc = "open" /\ k.info.dir \in Dirs
KnownInv == \A c \in Connections : Known(conn[c])

(* How long ago a branch was there, at each place the branch passes.       *)
Timed(k) ==
  /\ k.pc = "asked" /\ k.reply.head # NoRepo =>
       k.reply.dir \in Dirs /\ since[k.reply.dir][k.reply.head] <= k.waited
  /\ k.pc = "read" /\ k.read # NoRepo => since[k.dir][k.read] <= ReplyTime + DirTTL
  /\ k.recent
ParkedInv ==
  \A p \in Pids : dirCache[p] \in Parked /\ dirCache[p].head # NoRepo =>
    dirCache[p].dir \in Dirs /\ since[dirCache[p].dir][dirCache[p].head] <= ReplyTime + dirCache[p].age
KeptInv ==
  \A d \in Dirs : cache[d] \in Kept /\ cache[d].head # NoRepo =>
    since[d][cache[d].head] <= ReplyTime + DirTTL + cache[d].age
AgeInv ==
  /\ \A d \in Dirs : since[d][head[d]] = 0
  /\ ParkedInv /\ KeptInv
  /\ \A c \in Connections : Timed(conn[c])

(* Whose directory it is, from the helper's reply to the context.          *)
Own(k) ==
  /\ k.pc = "asked" => k.reply.dir \in process[k.client].been \cup {Unknown}
  /\ k.pc = "identified" /\ dirCache[k.pid] \in Parked =>
       dirCache[k.pid].dir \in process[k.client].been \cup {Unknown}
  /\ k.pc \in {"resolving", "missed", "read"} /\ k.for = "connection" =>
       k.client \in Pids /\ k.dir \in process[k.client].been
  /\ k.info.dir # Unknown => k.client \in Pids /\ k.info.dir \in process[k.client].been
OwnInv ==
  /\ \A p \in Pids : process[p].dir \in process[p].been
  /\ \A c \in Connections : Own(conn[c])

LEMMA ReachIsNatural == Reach \in Nat /\ ReplyTime + DirTTL < Reach
BY TimeAssumption DEF Reach

LEMMA ClosedIsConnection == Closed \in Connection
BY TimeAssumption DEF Closed, Connection, Found, Answers, Places, Stages, Heads

LEMMA NeverIsNone ==
  ASSUME NEW e \in Parked \cup Kept
  PROVE  e # Never
BY TimeAssumption DEF Parked, Kept, Never

(* A connection's port is found at the client's end only.                  *)
LEMMA PortIsTheClients ==
  ASSUME NEW c \in Connections, NEW p
  PROVE  ByLocalPort(EndsOf(p, c), c) = {p}
<1> DEFINE own == [pid |-> p, local |-> c, remote |-> Proxy]
           ours == [pid |-> Worker, local |-> Proxy, remote |-> c]
<1>1. c # Proxy
  BY NamesAssumption
<1>2. /\ own.local = c /\ own.remote = Proxy /\ own.pid = p
      /\ ours.local = Proxy /\ EndsOf(p, c) = {own, ours}
  BY DEF EndsOf
<1> HIDE DEF own, ours
<1>3. \A e : e \in EndsOf(p, c) /\ e.local = c <=> e = own
  BY <1>1, <1>2
<1>4. Lsof(EndsOf(p, c), c) = {p}
  BY <1>2, <1>3 DEF Lsof
<1>5. ProcNet(EndsOf(p, c), c) = {p}
  BY <1>2, <1>3 DEF ProcNet
<1>6. TcpTable(EndsOf(p, c), c) = {p}
  BY <1>2, <1>3 DEF TcpTable
<1> QED
  BY <1>4, <1>5, <1>6 DEF ByLocalPort

LEMMA TypesInitially == Init => TypeInv /\ KnownInv
<1> SUFFICES ASSUME Init PROVE TypeInv /\ KnownInv
  OBVIOUS
<1>1. changes \in 0..MaxChanges
  BY TimeAssumption DEF Init
<1>2. process \in [Pids -> [dir : Places, been : SUBSET Places]]
  BY DEF Init, Places
<1>3. since \in [Dirs -> [Heads -> 0..Reach]]
  BY ReachIsNatural DEF Init
<1>4. conn \in [Connections -> Connection]
  BY ClosedIsConnection DEF Init
<1>5. KnownInv
  BY DEF Init, KnownInv, Known, Closed, Found
<1> QED
  BY <1>1, <1>2, <1>3, <1>4, <1>5 DEF Init, TypeInv

LEMMA TypesTick ==
  ASSUME TypeInv, Tick
  PROVE  TypeInv'
<1>1. conn' \in [Connections -> Connection]
  <2> SUFFICES ASSUME NEW c \in Connections, conn[c].pc = "asked"
               PROVE  [conn[c] EXCEPT !.waited = @ + 1] \in Connection
    BY DEF Tick, TypeInv
  <2>1. conn[c] \in Connection /\ conn[c].waited < ReplyTime
    BY DEF Tick, TypeInv
  <2> QED
    BY <2>1, TimeAssumption DEF Connection
<1>2. since' \in [Dirs -> [Heads -> 0..Reach]]
  BY ReachIsNatural DEF Tick, TypeInv, Older
<1>3. dirCache' \in [Pids -> {Never} \cup Parked]
  <2> SUFFICES ASSUME NEW p \in Pids, dirCache[p].age # DirTTL
               PROVE  [dirCache[p] EXCEPT !.age = Older(@, DirTTL)] \in {Never} \cup Parked
    BY DEF Tick, TypeInv
  <2>1. CASE dirCache[p] = Never
    BY <2>1 DEF Never, Older
  <2>2. CASE dirCache[p] \in Parked
    BY <2>2, TimeAssumption DEF Parked, Older
  <2> QED
    BY <2>1, <2>2 DEF TypeInv
<1>4. cache' \in [Dirs -> {Never} \cup Kept]
  <2> SUFFICES ASSUME NEW d \in Dirs, cache[d].age + 1 # ResolverTTL
               PROVE  [cache[d] EXCEPT !.age = Older(@, ResolverTTL)] \in {Never} \cup Kept
    BY DEF Tick, TypeInv
  <2>1. CASE cache[d] = Never
    BY <2>1 DEF Never, Older
  <2>2. CASE cache[d] \in Kept
    BY <2>2, TimeAssumption DEF Kept, Older
  <2> QED
    BY <2>1, <2>2 DEF TypeInv
<1> QED
  BY <1>1, <1>2, <1>3, <1>4 DEF Tick, TypeInv

(* People and processes touch neither cache nor connection.                *)
LEMMA TypesWorld ==
  ASSUME TypeInv,
         \/ \E d \in Dirs : Checkout(d)
         \/ \E p \in Pids : ChangesDir(p) \/ PidReused(p)
  PROVE  TypeInv'
<1>1. ASSUME NEW d \in Dirs, Checkout(d)
      PROVE  TypeInv'
  BY <1>1, ReachIsNatural, TimeAssumption DEF Checkout, Changes, TypeInv
<1>2. ASSUME NEW p \in Pids, ChangesDir(p)
      PROVE  TypeInv'
  BY <1>2, TimeAssumption DEF ChangesDir, Changes, TypeInv, Places
<1>3. ASSUME NEW p \in Pids, PidReused(p)
      PROVE  TypeInv'
  BY <1>3, TimeAssumption DEF PidReused, Changes, TypeInv, Places
<1> QED
  BY <1>1, <1>2, <1>3

(* What becomes of a connection's record at each step that changes it.     *)
LEMMA OneConnection ==
  ASSUME TypeInv, KnownInv, NEW c \in Connections, NEW k \in Connection, Known(k),
         conn' = [conn EXCEPT ![c] = k]
  PROVE  conn' \in [Connections -> Connection] /\ KnownInv'
<1>1. conn \in [Connections -> Connection]
  BY DEF TypeInv
<1> QED
  BY <1>1 DEF KnownInv, Known

Asking(p) ==
  [Closed EXCEPT !.pc = "asked", !.client = p, !.pid = p,
     !.reply = [dir |-> WorkingDir(p), head |-> CheckoutAt(WorkingDir(p))]]

LEMMA AsksOfItsClient ==
  ASSUME NEW c \in Connections, Ask(c)
  PROVE  \E p \in Pids : conn' = [conn EXCEPT ![c] = Asking(p)]
<1>1. PICK p \in Pids : \E q \in ByLocalPort(EndsOf(p, c), c) :
        conn' = [conn EXCEPT ![c] = [Closed EXCEPT !.pc = "asked", !.client = p, !.pid = q,
                   !.reply = [dir |-> WorkingDir(q), head |-> CheckoutAt(WorkingDir(q))]]]
  BY DEF Ask
<1>2. ByLocalPort(EndsOf(p, c), c) = {p}
  BY PortIsTheClients
<1> QED
  BY <1>1, <1>2 DEF Asking

LEMMA TypesAsk ==
  ASSUME TypeInv, KnownInv, NEW c \in Connections, Ask(c)
  PROVE  TypeInv' /\ KnownInv'
<1>1. PICK p \in Pids : conn' = [conn EXCEPT ![c] = Asking(p)]
  BY AsksOfItsClient
<1>2. WorkingDir(p) \in Places
  BY DEF TypeInv, WorkingDir, Places
<1>3. CheckoutAt(WorkingDir(p)) \in Heads
  BY <1>2 DEF TypeInv, CheckoutAt, Places, Heads
<1>4. Asking(p) \in Connection /\ Known(Asking(p))
  BY <1>2, <1>3, ClosedIsConnection DEF Asking, Closed, Connection, Known, Found, Answers, Stages
<1> QED
  BY <1>1, <1>4, OneConnection DEF Ask, TypeInv, world

LEMMA TypesReplies ==
  ASSUME TypeInv, KnownInv, NEW c \in Connections, NoReply(c) \/ Reply(c) \/ Close(c)
  PROVE  TypeInv' /\ KnownInv'
<1>0. conn[c] \in Connection /\ Known(conn[c])
  BY DEF TypeInv, KnownInv
<1>1. CASE NoReply(c)
  <2> DEFINE k == [Closed EXCEPT !.pc = "open"]
  <2>1. k \in Connection /\ Known(k)
    BY ClosedIsConnection DEF Closed, Connection, Known, Found, Stages
  <2> QED
    BY <1>1, <2>1, OneConnection DEF NoReply, TypeInv, world
<1>2. CASE Reply(c)
  <2> DEFINE k == [Closed EXCEPT !.pc = "identified", !.client = conn[c].client, !.pid = conn[c].pid]
  <2>1. k \in Connection /\ Known(k)
    BY <1>0, <1>2, ClosedIsConnection DEF Reply, Closed, Connection, Known, Found, Stages
  <2>2. dirCache' \in [Pids -> {Never} \cup Parked]
    BY <1>0, <1>2, TimeAssumption DEF Reply, Remembered, TypeInv, Connection, Answers, Parked
  <2> QED
    BY <1>2, <2>1, <2>2, OneConnection DEF Reply, TypeInv, world
<1>3. CASE Close(c)
  <2>1. Known(Closed)
    BY DEF Closed, Known, Found
  <2> QED
    BY <1>3, <2>1, ClosedIsConnection, OneConnection DEF Close, TypeInv, world
<1> QED
  BY <1>1, <1>2, <1>3

(* An open connection has what it was given before, or what is given now.  *)
LEMMA OpenedIsSound ==
  ASSUME NEW k \in Connection, k.pid = k.client, NEW info \in Answers,
         info.head # NoRepo => info.dir \in Dirs, NEW recent \in BOOLEAN
  PROVE  Opened(k, info, recent) \in Connection /\ Known(Opened(k, info, recent))
BY ClosedIsConnection DEF Opened, Closed, Connection, Known, Stages

LEMMA ResolvedIsSound ==
  ASSUME TypeInv, KnownInv, NEW c \in Connections, NEW h \in Heads,
         conn[c].pc \in {"resolving", "missed", "read"}, Resolved(c, h)
  PROVE  conn' \in [Connections -> Connection] /\ KnownInv'
<1> DEFINE info == IF conn[c].for = "event" THEN conn[c].info ELSE [dir |-> conn[c].dir, head |-> h]
           recent == conn[c].recent /\ Recent(conn[c].dir, h)
<1>1. conn[c] \in Connection /\ Known(conn[c])
  BY DEF TypeInv, KnownInv
<1>2. info \in Answers /\ (info.head # NoRepo => info.dir \in Dirs)
  BY <1>1 DEF Connection, Known, Answers, Places
<1>3. conn' = [conn EXCEPT ![c] = Opened(conn[c], info, recent)]
  BY DEF Resolved
<1> HIDE DEF info
<1>4. recent \in BOOLEAN
  OBVIOUS
<1> HIDE DEF recent
<1>5. Opened(conn[c], info, recent) \in Connection /\ Known(Opened(conn[c], info, recent))
  BY <1>1, <1>2, <1>4, OpenedIsSound DEF Known
<1> QED
  BY <1>3, <1>5, OneConnection

LEMMA TypesLookups ==
  ASSUME TypeInv, KnownInv, NEW c \in Connections,
         LookupDir(c) \/ BodyNamesDir(c) \/ Miss(c) \/ ReadRemembered(c)
  PROVE  TypeInv' /\ KnownInv'
<1>0. conn[c] \in Connection /\ Known(conn[c])
  BY DEF TypeInv, KnownInv
<1>1. CASE LookupDir(c)
  <2>1. Found \in Answers /\ Found.head = NoRepo
    BY DEF Found, Answers, Places, Heads
  <2>2. Opened(conn[c], Found, TRUE) \in Connection /\ Known(Opened(conn[c], Found, TRUE))
    BY <1>0, <2>1, OpenedIsSound DEF Known
  <2> DEFINE entry == dirCache[conn[c].pid]
             k == [conn[c] EXCEPT !.pc = "resolving", !.dir = entry.dir]
  <2>3. ASSUME Fresh(entry), entry.dir # Unknown
        PROVE  k \in Connection /\ Known(k)
    <3>1. entry \in Parked
      BY <1>0, <1>1, <2>3 DEF LookupDir, Known, TypeInv, Fresh
    <3> QED
      BY <1>0, <1>1, <2>3, <3>1 DEF LookupDir, Connection, Known, Parked, Places, Stages
  <2>4. \/ conn' = [conn EXCEPT ![c] = k] /\ Fresh(entry) /\ entry.dir # Unknown
        \/ conn' = [conn EXCEPT ![c] = Opened(conn[c], Found, TRUE)]
    BY <1>1 DEF LookupDir
  <2> QED
    BY <1>1, <2>2, <2>3, <2>4, OneConnection DEF LookupDir, TypeInv, world
<1>2. CASE BodyNamesDir(c)
  <2>1. PICK d \in Dirs :
          conn' = [conn EXCEPT ![c] = [conn[c] EXCEPT !.pc = "resolving", !.for = "event", !.dir = d]]
    BY <1>2 DEF BodyNamesDir
  <2> DEFINE k == [conn[c] EXCEPT !.pc = "resolving", !.for = "event", !.dir = d]
  <2>2. k \in Connection /\ Known(k)
    BY <1>0, <1>2 DEF BodyNamesDir, Connection, Known, Places, Stages
  <2> QED
    BY <1>2, <2>1, <2>2, OneConnection DEF BodyNamesDir, TypeInv, world
<1>3. CASE Miss(c)
  <2> DEFINE k == [conn[c] EXCEPT !.pc = "missed"]
  <2>1. k \in Connection /\ Known(k)
    BY <1>0, <1>3 DEF Miss, Connection, Known, Stages
  <2> QED
    BY <1>3, <2>1, OneConnection DEF Miss, TypeInv, world
<1>4. CASE ReadRemembered(c)
  <2>0. \A p \in Candidates(conn[c].dir) : dirCache[p].head \in Heads
    BY DEF Candidates, Fresh, TypeInv, Parked
  <2>1. PICK h \in Heads : conn' = [conn EXCEPT ![c] = [conn[c] EXCEPT !.pc = "read", !.read = h]]
    BY <1>4, <2>0 DEF ReadRemembered, Heads
  <2> DEFINE k == [conn[c] EXCEPT !.pc = "read", !.read = h]
  <2>2. k \in Connection /\ Known(k)
    BY <1>0, <1>4 DEF ReadRemembered, Connection, Known, Stages
  <2> QED
    BY <1>4, <2>1, <2>2, OneConnection DEF ReadRemembered, TypeInv, world
<1> QED
  BY <1>1, <1>2, <1>3, <1>4

LEMMA TypesAnswers ==
  ASSUME TypeInv, KnownInv, NEW c \in Connections, Hit(c) \/ Store(c)
  PROVE  TypeInv' /\ KnownInv'
<1>0. conn[c] \in Connection /\ Known(conn[c])
  BY DEF TypeInv, KnownInv
<1>1. CASE Hit(c)
  <2>1. cache[conn[c].dir].head \in Heads
    BY <1>0, <1>1 DEF Hit, Young, Known, TypeInv, Kept
  <2> QED
    BY <1>1, <2>1, ResolvedIsSound DEF Hit, TypeInv, world
<1>2. CASE Store(c)
  <2>1. conn[c].read \in Heads
    BY <1>0 DEF Connection
  <2>2. cache' \in [Dirs -> {Never} \cup Kept]
    BY <1>0, <1>2, <2>1, TimeAssumption DEF Store, Known, TypeInv, Kept
  <2> QED
    BY <1>2, <2>1, <2>2, ResolvedIsSound DEF Store, TypeInv, world
<1> QED
  BY <1>1, <1>2

LEMMA KnownElsewhere ==
  ASSUME KnownInv,
         \/ Tick /\ TypeInv
         \/ \E d \in Dirs : Checkout(d)
         \/ \E p \in Pids : ChangesDir(p) \/ PidReused(p)
  PROVE  KnownInv'
<1>1. CASE Tick /\ TypeInv
  BY <1>1 DEF Tick, TypeInv, KnownInv, Known, Connection
<1>2. CASE conn' = conn
  BY <1>2 DEF KnownInv, Known
<1> QED
  BY <1>1, <1>2 DEF Checkout, ChangesDir, PidReused, Changes

LEMMA TypesStep ==
  ASSUME TypeInv, KnownInv, [Next]_vars
  PROVE  TypeInv' /\ KnownInv'
<1>1. CASE Tick
  BY <1>1, TypesTick, KnownElsewhere
<1>2. CASE (\E d \in Dirs : Checkout(d)) \/ (\E p \in Pids : ChangesDir(p) \/ PidReused(p))
  BY <1>2, TypesWorld, KnownElsewhere
<1>3. ASSUME NEW c \in Connections, Ask(c)
      PROVE  TypeInv' /\ KnownInv'
  BY <1>3, TypesAsk
<1>4. ASSUME NEW c \in Connections, NoReply(c) \/ Reply(c) \/ Close(c)
      PROVE  TypeInv' /\ KnownInv'
  BY <1>4, TypesReplies
<1>5. ASSUME NEW c \in Connections, LookupDir(c) \/ BodyNamesDir(c) \/ Miss(c) \/ ReadRemembered(c)
      PROVE  TypeInv' /\ KnownInv'
  BY <1>5, TypesLookups
<1>6. ASSUME NEW c \in Connections, Hit(c) \/ Store(c)
      PROVE  TypeInv' /\ KnownInv'
  BY <1>6, TypesAnswers
<1>7. CASE UNCHANGED vars
  BY <1>7 DEF vars, world, TypeInv, KnownInv, Known
<1> QED
  BY <1>1, <1>2, <1>3, <1>4, <1>5, <1>6, <1>7 DEF Next

LEMMA TypesImply == TypeInv /\ KnownInv => AttributionTypeOK
<1> SUFFICES ASSUME TypeInv, KnownInv PROVE AttributionTypeOK
  OBVIOUS
<1>1. \A d \in Dirs : cache[d] # Never => cache[d] \in Kept
  BY DEF TypeInv
<1>2. \A p \in Pids : dirCache[p] # Never => dirCache[p] \in Parked
  BY DEF TypeInv
<1> QED
  BY <1>1, <1>2 DEF AttributionTypeOK, TypeInv, KnownInv, Known, Open, Kept, Parked

(* Everything the resolver and the worker keep has its type, and only a    *)
(* directory that is known has a branch (tasks.go, dircache.go).           *)
THEOREM TypesHold == Spec => []AttributionTypeOK
<1>1. TypeInv /\ KnownInv /\ [Next]_vars => (TypeInv /\ KnownInv)'
  BY TypesStep
<1> QED
  BY TypesInitially, <1>1, TypesImply, PTL DEF Spec

-----------------------------------------------------------------------------
(* How old a branch can be.                                                *)

LEMMA AgesInitially == Init => AgeInv
<1> SUFFICES ASSUME Init PROVE AgeInv
  OBVIOUS
<1>1. Never \notin Parked /\ Never \notin Kept
  BY NeverIsNone
<1>2. \A d \in Dirs : since[d][head[d]] = 0
  BY DEF Init
<1>3. ParkedInv /\ KeptInv
  BY <1>1 DEF Init, ParkedInv, KeptInv
<1>4. \A c \in Connections : Timed(conn[c])
  BY DEF Init, Timed, Closed, Found
<1> QED
  BY <1>2, <1>3, <1>4 DEF AgeInv

(* A tick makes what was seen one older, and is not taken while a worker   *)
(* looks something up.                                                     *)
LEMMA AgesTick ==
  ASSUME TypeInv, AgeInv, Tick
  PROVE  AgeInv'
<1>0. /\ Reach \in Nat /\ ReplyTime \in Nat /\ DirTTL \in Nat
      /\ ResolverTTL \in Nat \ {0}
  BY TimeAssumption, ReachIsNatural
<1>1. \A d \in Dirs, h \in Heads :
        since[d][h] \in Nat /\ since'[d][h] \in Nat /\ since'[d][h] <= since[d][h] + 1
  BY <1>0 DEF Tick, TypeInv, Older
<1>2. \A d \in Dirs : since'[d][head'[d]] = 0
  BY DEF Tick, TypeInv
<1>3. ParkedInv'
  <2> SUFFICES ASSUME NEW p \in Pids, dirCache'[p] \in Parked, dirCache'[p].head # NoRepo
               PROVE  /\ dirCache'[p].dir \in Dirs
                      /\ since'[dirCache'[p].dir][dirCache'[p].head] <= ReplyTime + dirCache'[p].age
    BY DEF ParkedInv
  <2>1. dirCache[p] \in Parked
    <3> SUFFICES ASSUME dirCache[p] = Never PROVE FALSE
      BY DEF TypeInv
    <3>1. dirCache'[p] = Never
      BY DEF Tick, TypeInv, Never, Older
    <3> QED
      BY <3>1, NeverIsNone
  <2>2. /\ dirCache[p].age \in Nat /\ dirCache[p].age < DirTTL
        /\ dirCache'[p] = [dirCache[p] EXCEPT !.age = @ + 1]
    <3>1. dirCache'[p] = IF dirCache[p].age = DirTTL THEN Never
                         ELSE [dirCache[p] EXCEPT !.age = Older(@, DirTTL)]
      BY DEF Tick
    <3>2. dirCache[p].age \in 0..DirTTL
      BY <2>1 DEF Parked
    <3>3. dirCache[p].age # DirTTL
      BY <3>1, NeverIsNone
    <3>4. Older(dirCache[p].age, DirTTL) = dirCache[p].age + 1
      BY <1>0, <3>2, <3>3 DEF Older
    <3> QED
      BY <1>0, <3>1, <3>2, <3>3, <3>4
  <2>3. /\ dirCache'[p].dir = dirCache[p].dir /\ dirCache'[p].head = dirCache[p].head
        /\ dirCache'[p].age = dirCache[p].age + 1 /\ dirCache[p].head \in Heads
    BY <2>1, <2>2 DEF Parked
  <2>4. /\ dirCache[p].dir \in Dirs
        /\ since[dirCache[p].dir][dirCache[p].head] <= ReplyTime + dirCache[p].age
    BY <2>1, <2>3 DEF AgeInv, ParkedInv
  <2> QED
    BY <1>0, <1>1, <2>2, <2>3, <2>4
<1>4. KeptInv'
  <2> SUFFICES ASSUME NEW d \in Dirs, cache'[d] \in Kept, cache'[d].head # NoRepo
               PROVE  since'[d][cache'[d].head] <= ReplyTime + DirTTL + cache'[d].age
    BY DEF KeptInv
  <2>1. cache[d] \in Kept
    <3> SUFFICES ASSUME cache[d] = Never PROVE FALSE
      BY DEF TypeInv
    <3>1. cache'[d] = Never
      BY DEF Tick, TypeInv, Never, Older
    <3> QED
      BY <3>1, NeverIsNone
  <2>2. cache[d].age \in Nat /\ cache'[d] = [cache[d] EXCEPT !.age = @ + 1]
    <3>1. cache'[d] = IF cache[d].age + 1 = ResolverTTL THEN Never
                      ELSE [cache[d] EXCEPT !.age = Older(@, ResolverTTL)]
      BY DEF Tick
    <3>2. cache[d].age \in 0..ResolverTTL - 1
      BY <2>1 DEF Kept
    <3>3. cache[d].age + 1 # ResolverTTL
      BY <3>1, NeverIsNone
    <3>4. Older(cache[d].age, ResolverTTL) = cache[d].age + 1
      BY <1>0, <3>2, <3>3 DEF Older
    <3> QED
      BY <1>0, <3>1, <3>2, <3>3, <3>4
  <2>3. /\ cache'[d].head = cache[d].head /\ cache'[d].age = cache[d].age + 1
        /\ cache[d].head \in Heads
    BY <2>1, <2>2 DEF Kept
  <2>4. since[d][cache[d].head] <= ReplyTime + DirTTL + cache[d].age
    BY <2>1, <2>3 DEF AgeInv, KeptInv
  <2> QED
    BY <1>0, <1>1, <2>2, <2>3, <2>4
<1>5. ASSUME NEW c \in Connections
      PROVE  Timed(conn[c])'
  <2>1. conn[c] \in Connection /\ Timed(conn[c])
    BY DEF TypeInv, AgeInv
  <2>2. CASE conn[c].pc = "asked"
    <3>1. conn'[c] = [conn[c] EXCEPT !.waited = @ + 1]
      BY <2>2 DEF Tick
    <3>2. /\ conn[c].waited \in Nat /\ conn'[c].waited = conn[c].waited + 1
          /\ conn'[c].reply = conn[c].reply /\ conn[c].reply.head \in Heads
          /\ conn'[c].pc = "asked" /\ conn'[c].info = conn[c].info
          /\ conn'[c].recent = conn[c].recent
      BY <1>0, <2>1, <2>2, <3>1 DEF Connection, Answers
    <3> QED
      BY <1>1, <2>1, <2>2, <3>2 DEF Timed
  <2>3. CASE conn[c].pc \in {"closed", "open"}
    <3>1. conn'[c] = conn[c]
      BY <2>3 DEF Tick, TypeInv
    <3> QED
      BY <2>1, <2>3, <3>1 DEF Timed
  <2> QED
    BY <2>2, <2>3 DEF Tick
<1> QED
  BY <1>2, <1>3, <1>4, <1>5 DEF AgeInv

(* A checkout only makes branches younger.                                 *)
LEMMA AgesWorld ==
  ASSUME TypeInv, KnownInv, AgeInv,
         \/ \E d \in Dirs : Checkout(d)
         \/ \E p \in Pids : ChangesDir(p) \/ PidReused(p)
  PROVE  AgeInv'
<1>1. ASSUME NEW d \in Dirs, Checkout(d)
      PROVE  AgeInv'
  <2>0. ReplyTime \in Nat /\ DirTTL \in Nat /\ ResolverTTL \in Nat /\ Reach \in Nat
    BY TimeAssumption, ReachIsNatural
  <2>1. PICK h \in Heads : head' = [head EXCEPT ![d] = h] /\ since' = [since EXCEPT ![d][h] = 0]
    BY <1>1 DEF Checkout
  <2>2. UNCHANGED <<dirCache, cache, conn>>
    BY <1>1 DEF Checkout, Changes
  <2>3. \A e \in Dirs, g \in Heads :
          since[e][g] \in Nat /\ since'[e][g] \in Nat /\ since'[e][g] <= since[e][g]
    BY <2>0, <2>1 DEF TypeInv
  <2>4. \A e \in Dirs : since'[e][head'[e]] = 0
    BY <2>1 DEF TypeInv, AgeInv
  <2>5. ParkedInv'
    <3> SUFFICES ASSUME NEW p \in Pids, dirCache[p] \in Parked, dirCache[p].head # NoRepo
                 PROVE  /\ dirCache[p].dir \in Dirs
                        /\ since'[dirCache[p].dir][dirCache[p].head] <= ReplyTime + dirCache[p].age
      BY <2>2 DEF ParkedInv
    <3>1. dirCache[p].age \in Nat /\ dirCache[p].head \in Heads
      BY <2>0 DEF Parked
    <3>2. /\ dirCache[p].dir \in Dirs
          /\ since[dirCache[p].dir][dirCache[p].head] <= ReplyTime + dirCache[p].age
      BY DEF AgeInv, ParkedInv
    <3> QED
      BY <2>0, <2>3, <3>1, <3>2
  <2>6. KeptInv'
    <3> SUFFICES ASSUME NEW e \in Dirs, cache[e] \in Kept, cache[e].head # NoRepo
                 PROVE  since'[e][cache[e].head] <= ReplyTime + DirTTL + cache[e].age
      BY <2>2 DEF KeptInv
    <3>1. cache[e].age \in Nat /\ cache[e].head \in Heads
      BY <2>0 DEF Kept
    <3>2. since[e][cache[e].head] <= ReplyTime + DirTTL + cache[e].age
      BY DEF AgeInv, KeptInv
    <3> QED
      BY <2>0, <2>3, <3>1, <3>2
  <2>7. ASSUME NEW c \in Connections
        PROVE  Timed(conn[c])'
    <3>1. /\ conn[c].waited \in Nat /\ conn[c].reply.head \in Heads /\ conn[c].read \in Heads
          /\ conn[c].pc = "read" => conn[c].dir \in Dirs
      BY <2>0 DEF TypeInv, Connection, Answers, KnownInv, Known
    <3>2. Timed(conn[c])
      BY DEF AgeInv
    <3> QED
      BY <2>0, <2>2, <2>3, <3>1, <3>2 DEF Timed
  <2> QED
    BY <2>4, <2>5, <2>6, <2>7 DEF AgeInv
<1>2. ASSUME NEW p \in Pids, ChangesDir(p) \/ PidReused(p)
      PROVE  AgeInv'
  BY <1>2 DEF ChangesDir, PidReused, Changes, AgeInv, ParkedInv, KeptInv, Timed
<1> QED
  BY <1>1, <1>2

LEMMA OneTimed ==
  ASSUME TypeInv, AgeInv, NEW c \in Connections, NEW k, Timed(k),
         conn' = [conn EXCEPT ![c] = k], UNCHANGED since
  PROVE  \A b \in Connections : Timed(conn[b])'
BY DEF TypeInv, AgeInv, Timed

LEMMA AgesAsk ==
  ASSUME TypeInv, AgeInv, NEW c \in Connections, Ask(c)
  PROVE  AgeInv'
<1>1. PICK p \in Pids : conn' = [conn EXCEPT ![c] = Asking(p)]
  BY AsksOfItsClient
<1> DEFINE d == WorkingDir(p)
<1>2. d \in Places
  BY DEF TypeInv, WorkingDir, Places
<1>3. CheckoutAt(d) # NoRepo => d \in Dirs /\ since[d][CheckoutAt(d)] = 0
  BY <1>2 DEF AgeInv, CheckoutAt, Places
<1>4. /\ Asking(p).pc = "asked" /\ Asking(p).waited = 0 /\ Asking(p).recent
      /\ Asking(p).reply.dir = d /\ Asking(p).reply.head = CheckoutAt(d)
  BY DEF Asking, Closed, Found
<1>5. Timed(Asking(p))
  BY <1>3, <1>4 DEF Timed
<1>6. \A b \in Connections : Timed(conn[b])'
  BY <1>1, <1>5, OneTimed DEF Ask, world
<1> QED
  BY <1>6 DEF Ask, world, AgeInv, ParkedInv, KeptInv

LEMMA AgesReplies ==
  ASSUME TypeInv, KnownInv, AgeInv, NEW c \in Connections, NoReply(c) \/ Reply(c) \/ Close(c)
  PROVE  AgeInv'
<1>1. CASE NoReply(c) \/ Close(c)
  <2>1. PICK k \in {Closed, [Closed EXCEPT !.pc = "open"]} : conn' = [conn EXCEPT ![c] = k]
    BY <1>1 DEF NoReply, Close
  <2>2. Timed(k)
    BY <2>1 DEF Timed, Closed, Found
  <2>3. \A b \in Connections : Timed(conn[b])'
    BY <1>1, <2>1, <2>2, OneTimed DEF NoReply, Close, world
  <2> QED
    BY <1>1, <2>3 DEF NoReply, Close, world, AgeInv, ParkedInv, KeptInv
<1>2. CASE Reply(c)
  <2> DEFINE k == [Closed EXCEPT !.pc = "identified", !.client = conn[c].client, !.pid = conn[c].pid]
             reply == conn[c].reply
  <2>1. Timed(k)
    BY DEF Timed, Closed, Found
  <2>2. \A b \in Connections : Timed(conn[b])'
    BY <1>2, <2>1, OneTimed DEF Reply, world
  <2>3. /\ conn[c].waited \in Nat /\ conn[c].waited <= ReplyTime /\ ReplyTime \in Nat
        /\ reply.head \in Heads
    BY TimeAssumption DEF TypeInv, Connection, Answers
  <2>4. reply.head # NoRepo => reply.dir \in Dirs /\ since[reply.dir][reply.head] <= ReplyTime
    <3>1. Timed(conn[c])
      BY DEF AgeInv
    <3>2. \A d \in Dirs, h \in Heads : since[d][h] \in Nat
      BY ReachIsNatural DEF TypeInv
    <3> QED
      BY <1>2, <2>3, <3>1, <3>2 DEF Reply, Timed
  <2>5. ParkedInv'
    <3> SUFFICES ASSUME NEW p \in Pids, dirCache'[p] \in Parked, dirCache'[p].head # NoRepo
                 PROVE  /\ dirCache'[p].dir \in Dirs
                        /\ since[dirCache'[p].dir][dirCache'[p].head] <= ReplyTime + dirCache'[p].age
      BY <1>2 DEF Reply, world, ParkedInv
    <3>1. CASE p = conn[c].pid
      <4>1. dirCache'[p] = [dir |-> reply.dir, head |-> reply.head, age |-> 0]
        BY <1>2, <3>1 DEF Reply, Remembered
      <4> QED
        BY <2>3, <2>4, <4>1
    <3>2. CASE p # conn[c].pid
      BY <1>2, <3>2 DEF Reply, Remembered, AgeInv, ParkedInv
    <3> QED
      BY <3>1, <3>2
  <2> QED
    BY <1>2, <2>2, <2>5 DEF Reply, world, AgeInv, KeptInv
<1> QED
  BY <1>1, <1>2

LEMMA AgesLookups ==
  ASSUME TypeInv, KnownInv, AgeInv, NEW c \in Connections,
         LookupDir(c) \/ BodyNamesDir(c) \/ Miss(c) \/ ReadRemembered(c)
  PROVE  AgeInv'
<1>0. conn[c] \in Connection /\ Timed(conn[c]) /\ Known(conn[c])
  BY DEF TypeInv, AgeInv, KnownInv
<1>1. SUFFICES \E k : Timed(k) /\ conn' = [conn EXCEPT ![c] = k]
  <2>1. UNCHANGED <<head, since, dirCache, cache>>
    BY DEF LookupDir, BodyNamesDir, Miss, ReadRemembered, world
  <2>2. ASSUME NEW k, Timed(k), conn' = [conn EXCEPT ![c] = k]
        PROVE  \A b \in Connections : Timed(conn[b])'
    BY <2>1, <2>2, OneTimed
  <2> QED
    BY <2>1, <2>2 DEF AgeInv, ParkedInv, KeptInv
<1>2. CASE LookupDir(c)
  <2> DEFINE k == [conn[c] EXCEPT !.pc = "resolving", !.dir = dirCache[conn[c].pid].dir]
  <2>1. Timed(k)
    BY <1>0 DEF Connection, Timed
  <2>2. Timed(Opened(conn[c], Found, TRUE))
    BY DEF Timed, Opened, Closed, Found
  <2>3. conn' = [conn EXCEPT ![c] = k] \/ conn' = [conn EXCEPT ![c] = Opened(conn[c], Found, TRUE)]
    BY <1>2 DEF LookupDir
  <2> QED
    BY <2>1, <2>2, <2>3
<1>3. CASE BodyNamesDir(c)
  <2>1. PICK d \in Dirs :
          conn' = [conn EXCEPT ![c] = [conn[c] EXCEPT !.pc = "resolving", !.for = "event", !.dir = d]]
    BY <1>3 DEF BodyNamesDir
  <2> DEFINE k == [conn[c] EXCEPT !.pc = "resolving", !.for = "event", !.dir = d]
  <2>2. Timed(k)
    BY <1>0 DEF Connection, Timed
  <2> QED
    BY <2>1, <2>2
<1>4. CASE Miss(c)
  <2> DEFINE k == [conn[c] EXCEPT !.pc = "missed"]
  <2>1. Timed(k)
    BY <1>0 DEF Connection, Timed
  <2> QED
    BY <1>4, <2>1 DEF Miss
<1>5. CASE ReadRemembered(c)
  <2>0. ReplyTime \in Nat /\ DirTTL \in Nat /\ \A d \in Dirs, h \in Heads : since[d][h] \in Nat
    BY TimeAssumption, ReachIsNatural DEF TypeInv
  <2>1. PICK h : /\ conn' = [conn EXCEPT ![c] = [conn[c] EXCEPT !.pc = "read", !.read = h]]
                 /\ h = NoRepo \/ \E p \in Candidates(conn[c].dir) : h = dirCache[p].head
    <3> DEFINE known == Candidates(conn[c].dir)
    <3>1. PICK h \in IF known = {} THEN {NoRepo} ELSE {dirCache[p].head : p \in known} :
            conn' = [conn EXCEPT ![c] = [conn[c] EXCEPT !.pc = "read", !.read = h]]
      BY <1>5 DEF ReadRemembered
    <3>2. h = NoRepo \/ \E p \in known : h = dirCache[p].head
      BY <3>1
    <3> QED
      BY <3>1, <3>2
  <2> DEFINE k == [conn[c] EXCEPT !.pc = "read", !.read = h]
  <2>2. h # NoRepo => since[conn[c].dir][h] <= ReplyTime + DirTTL
    <3> SUFFICES ASSUME h # NoRepo PROVE since[conn[c].dir][h] <= ReplyTime + DirTTL
      OBVIOUS
    <3>1. PICK p \in Pids : dirCache[p] # Never /\ dirCache[p].dir = conn[c].dir /\ h = dirCache[p].head
      BY <2>1 DEF Candidates, Fresh
    <3>2. dirCache[p] \in Parked /\ dirCache[p].age \in Nat /\ dirCache[p].age <= DirTTL /\ h \in Heads
      BY <2>0, <3>1 DEF TypeInv, Parked
    <3>3. conn[c].dir \in Dirs /\ since[conn[c].dir][h] <= ReplyTime + dirCache[p].age
      BY <3>1, <3>2 DEF AgeInv, ParkedInv
    <3> QED
      BY <2>0, <3>2, <3>3
  <2>3. Timed(k)
    BY <1>0, <2>2 DEF Connection, Timed
  <2> QED
    BY <2>1, <2>3
<1> QED
  BY <1>2, <1>3, <1>4, <1>5

(* The reach of the reply and of the two caches, put together.             *)
LEMMA ResolvedInTime ==
  ASSUME TypeInv, KnownInv, AgeInv, NEW c \in Connections, NEW h \in Heads,
         conn[c].pc \in {"resolving", "missed", "read"}, Resolved(c, h), UNCHANGED since,
         h # NoRepo => since[conn[c].dir][h] < Reach
  PROVE  \A b \in Connections : Timed(conn[b])'
<1> DEFINE info == IF conn[c].for = "event" THEN conn[c].info ELSE [dir |-> conn[c].dir, head |-> h]
           k == Opened(conn[c], info, conn[c].recent /\ Recent(conn[c].dir, h))
<1>1. conn[c].recent /\ Recent(conn[c].dir, h)
  BY DEF AgeInv, Timed, Recent
<1>2. k.pc = "open" /\ k.recent
  BY <1>1 DEF Opened, Closed
<1>3. Timed(k)
  BY <1>2 DEF Timed
<1> QED
  BY <1>3, OneTimed DEF Resolved

LEMMA AgesAnswers ==
  ASSUME TypeInv, KnownInv, AgeInv, NEW c \in Connections, Hit(c) \/ Store(c)
  PROVE  AgeInv'
<1>0. /\ ReplyTime \in Nat /\ DirTTL \in Nat /\ ResolverTTL \in Nat \ {0}
      /\ Reach = ReplyTime + DirTTL + ResolverTTL
      /\ \A d \in Dirs, h \in Heads : since[d][h] \in Nat
  BY TimeAssumption, ReachIsNatural DEF TypeInv, Reach
<1>1. /\ conn[c].pc \in {"resolving", "missed", "read"} => conn[c].dir \in Dirs
      /\ conn[c].read \in Heads /\ Timed(conn[c])
  BY DEF TypeInv, Connection, KnownInv, Known, AgeInv
<1>2. CASE Hit(c)
  <2> DEFINE d == conn[c].dir
  <2>1. d \in Dirs /\ cache[d] \in Kept
    BY <1>1, <1>2 DEF Hit, Young, TypeInv
  <2>2. cache[d].head \in Heads /\ cache[d].age \in Nat /\ cache[d].age < ResolverTTL
    BY <1>0, <2>1 DEF Kept
  <2>3. cache[d].head # NoRepo => since[d][cache[d].head] < Reach
    <3>1. cache[d].head # NoRepo => since[d][cache[d].head] <= ReplyTime + DirTTL + cache[d].age
      BY <2>1 DEF AgeInv, KeptInv
    <3> QED
      BY <1>0, <2>1, <2>2, <3>1
  <2>4. \A b \in Connections : Timed(conn[b])'
    BY <1>2, <2>2, <2>3, ResolvedInTime DEF Hit, world
  <2> QED
    BY <1>2, <2>4 DEF Hit, world, AgeInv, ParkedInv, KeptInv
<1>3. CASE Store(c)
  <2> DEFINE d == conn[c].dir
  <2>1. d \in Dirs /\ conn[c].pc = "read"
    BY <1>1, <1>3 DEF Store
  <2>2. conn[c].read # NoRepo => since[d][conn[c].read] <= ReplyTime + DirTTL
    BY <1>1, <2>1 DEF Timed
  <2>3. conn[c].read # NoRepo => since[d][conn[c].read] < Reach
    BY <1>0, <1>1, <2>1, <2>2
  <2>4. \A b \in Connections : Timed(conn[b])'
    BY <1>1, <1>3, <2>1, <2>3, ResolvedInTime DEF Store, world
  <2>5. KeptInv'
    <3> SUFFICES ASSUME NEW e \in Dirs, cache'[e] \in Kept, cache'[e].head # NoRepo
                 PROVE  since[e][cache'[e].head] <= ReplyTime + DirTTL + cache'[e].age
      BY <1>3 DEF Store, world, KeptInv
    <3>1. CASE e = d
      <4>1. cache'[e] = [head |-> conn[c].read, age |-> 0]
        BY <1>3, <3>1 DEF Store, TypeInv
      <4> QED
        BY <1>0, <1>1, <2>1, <2>2, <3>1, <4>1
    <3>2. CASE e # d
      BY <1>3, <3>2 DEF Store, AgeInv, KeptInv
    <3> QED
      BY <3>1, <3>2
  <2> QED
    BY <1>3, <2>4, <2>5 DEF Store, world, AgeInv, ParkedInv
<1> QED
  BY <1>2, <1>3

LEMMA AgesStep ==
  ASSUME TypeInv, KnownInv, AgeInv, [Next]_vars
  PROVE  AgeInv'
<1>1. CASE Tick
  BY <1>1, AgesTick
<1>2. CASE (\E d \in Dirs : Checkout(d)) \/ (\E p \in Pids : ChangesDir(p) \/ PidReused(p))
  BY <1>2, AgesWorld
<1>3. ASSUME NEW c \in Connections, Ask(c)
      PROVE  AgeInv'
  BY <1>3, AgesAsk
<1>4. ASSUME NEW c \in Connections, NoReply(c) \/ Reply(c) \/ Close(c)
      PROVE  AgeInv'
  BY <1>4, AgesReplies
<1>5. ASSUME NEW c \in Connections, LookupDir(c) \/ BodyNamesDir(c) \/ Miss(c) \/ ReadRemembered(c)
      PROVE  AgeInv'
  BY <1>5, AgesLookups
<1>6. ASSUME NEW c \in Connections, Hit(c) \/ Store(c)
      PROVE  AgeInv'
  BY <1>6, AgesAnswers
<1>7. CASE UNCHANGED vars
  BY <1>7 DEF vars, world, AgeInv, ParkedInv, KeptInv, Timed
<1> QED
  BY <1>1, <1>2, <1>3, <1>4, <1>5, <1>6, <1>7 DEF Next

(* A branch the resolver gives, for a connection that begins or for an     *)
(* event that names a directory, was then checked out there no longer ago  *)
(* than the reply, the parked entry and the resolver's answer can reach    *)
(* together, whatever happens meanwhile (dircache.go, ResolveWith).  What  *)
(* a connection keeps after that is not bounded.                           *)
THEOREM RecentAnswers == Spec => []RecentWhenResolved
<1>1. Init => TypeInv /\ KnownInv /\ AgeInv
  BY TypesInitially, AgesInitially
<1>2. TypeInv /\ KnownInv /\ AgeInv /\ [Next]_vars => (TypeInv /\ KnownInv /\ AgeInv)'
  BY TypesStep, AgesStep
<1>3. AgeInv => RecentWhenResolved
  BY DEF AgeInv, Timed, RecentWhenResolved
<1> QED
  BY <1>1, <1>2, <1>3, PTL DEF Spec

-----------------------------------------------------------------------------
(* Whose directory it is.                                                  *)

LEMMA OwnInitially == Init => OwnInv
<1> SUFFICES ASSUME Init PROVE OwnInv
  OBVIOUS
<1>1. \A p \in Pids : process[p].dir \in process[p].been
  BY DEF Init
<1>2. \A c \in Connections : Own(conn[c])
  BY DEF Init, Own, Closed, Found
<1> QED
  BY <1>1, <1>2 DEF OwnInv

LEMMA OwnTick ==
  ASSUME TypeInv, OwnInv, Tick
  PROVE  OwnInv'
<1>1. ASSUME NEW p \in Pids, dirCache'[p] \in Parked
      PROVE  dirCache[p] \in Parked /\ dirCache'[p].dir = dirCache[p].dir
  <2>1. dirCache'[p] = IF dirCache[p].age = DirTTL THEN Never
                       ELSE [dirCache[p] EXCEPT !.age = Older(@, DirTTL)]
    BY DEF Tick
  <2>2. dirCache[p].age # DirTTL
    BY <1>1, <2>1, NeverIsNone
  <2>3. dirCache[p] # Never
    BY <1>1, <2>1, <2>2, NeverIsNone DEF Never, Older
  <2>4. dirCache[p] \in Parked
    BY <2>3 DEF TypeInv
  <2> QED
    BY <2>1, <2>2, <2>4 DEF Parked
<1>2. ASSUME NEW c \in Connections
      PROVE  Own(conn[c])'
  <2>1. conn[c] \in Connection /\ Own(conn[c])
    BY DEF TypeInv, OwnInv
  <2>2. CASE conn[c].pc = "asked"
    <3>1. conn'[c] = [conn[c] EXCEPT !.waited = @ + 1]
      BY <2>2 DEF Tick
    <3>2. /\ conn'[c].pc = "asked" /\ conn'[c].reply = conn[c].reply
          /\ conn'[c].client = conn[c].client /\ conn'[c].info = conn[c].info
      BY <2>1, <2>2, <3>1 DEF Connection
    <3> QED
      BY <2>1, <2>2, <3>2 DEF Own, Tick
  <2>3. CASE conn[c].pc \in {"closed", "open"}
    <3>1. conn'[c] = conn[c]
      BY <2>3 DEF Tick, TypeInv
    <3> QED
      BY <2>1, <2>3, <3>1 DEF Own, Tick
  <2> QED
    BY <2>2, <2>3 DEF Tick
<1> QED
  BY <1>2 DEF OwnInv, Tick

(* A process keeps the directories it has worked in, and a pid is given to *)
(* another only when the connections of the one before are gone.           *)
LEMMA OwnWorld ==
  ASSUME TypeInv, KnownInv, OwnInv,
         \/ \E d \in Dirs : Checkout(d)
         \/ \E p \in Pids : ChangesDir(p) \/ PidReused(p)
  PROVE  OwnInv'
<1>1. CASE \E d \in Dirs : Checkout(d)
  BY <1>1 DEF Checkout, Changes, OwnInv, Own
<1>2. ASSUME NEW p \in Pids, ChangesDir(p)
      PROVE  OwnInv'
  <2>1. UNCHANGED <<conn, dirCache>>
    BY <1>2 DEF ChangesDir, Changes
  <2>2. \A q \in Pids : process[q].been \subseteq process'[q].been
    BY <1>2 DEF ChangesDir, TypeInv
  <2>3. \A q \in Pids : process'[q].dir \in process'[q].been
    BY <1>2 DEF ChangesDir, TypeInv, OwnInv
  <2>4. ASSUME NEW c \in Connections
        PROVE  Own(conn[c])'
    BY <2>1, <2>2 DEF OwnInv, Own, KnownInv, Known
  <2> QED
    BY <2>3, <2>4 DEF OwnInv
<1>3. ASSUME NEW p \in Pids, PidReused(p)
      PROVE  OwnInv'
  <2>1. UNCHANGED <<conn, dirCache>> /\ \A c \in Connections : conn[c].client # p
    BY <1>3 DEF PidReused, Changes
  <2>2. \A q \in Pids \ {p} : process'[q] = process[q]
    BY <1>3 DEF PidReused, TypeInv
  <2>3. process'[p].dir \in process'[p].been
    BY <1>3 DEF PidReused, TypeInv
  <2>4. ASSUME NEW c \in Connections
        PROVE  Own(conn[c])'
    BY <2>1, <2>2 DEF OwnInv, Own, KnownInv, Known
  <2> QED
    BY <2>2, <2>3, <2>4 DEF OwnInv
<1> QED
  BY <1>1, <1>2, <1>3

LEMMA OneOwn ==
  ASSUME TypeInv, OwnInv, NEW c \in Connections, NEW k, Own(k),
         conn' = [conn EXCEPT ![c] = k], UNCHANGED <<process, dirCache>>
  PROVE  OwnInv'
BY DEF TypeInv, OwnInv, Own

LEMMA OwnAsk ==
  ASSUME TypeInv, OwnInv, NEW c \in Connections, Ask(c)
  PROVE  OwnInv'
<1>1. PICK p \in Pids : conn' = [conn EXCEPT ![c] = Asking(p)]
  BY AsksOfItsClient
<1>2. WorkingDir(p) \in process[p].been \cup {Unknown}
  BY DEF WorkingDir, OwnInv
<1>3. /\ Asking(p).pc = "asked" /\ Asking(p).client = p
      /\ Asking(p).reply.dir = WorkingDir(p) /\ Asking(p).info.dir = Unknown
  BY DEF Asking, Closed, Found
<1>4. Own(Asking(p))
  BY <1>2, <1>3 DEF Own
<1> QED
  BY <1>1, <1>4, OneOwn DEF Ask, world

LEMMA OwnReplies ==
  ASSUME TypeInv, KnownInv, OwnInv, NEW c \in Connections, NoReply(c) \/ Reply(c) \/ Close(c)
  PROVE  OwnInv'
<1>1. CASE NoReply(c) \/ Close(c)
  <2>1. PICK k \in {Closed, [Closed EXCEPT !.pc = "open"]} : conn' = [conn EXCEPT ![c] = k]
    BY <1>1 DEF NoReply, Close
  <2>2. Own(k)
    BY <2>1 DEF Own, Closed, Found
  <2> QED
    BY <1>1, <2>1, <2>2, OneOwn DEF NoReply, Close, world
<1>2. CASE Reply(c)
  <2> DEFINE k == [Closed EXCEPT !.pc = "identified", !.client = conn[c].client, !.pid = conn[c].pid]
  <2>1. /\ conn[c].pid = conn[c].client /\ conn[c].client \in Pids
        /\ conn[c].reply.dir \in process[conn[c].client].been \cup {Unknown}
    BY <1>2 DEF Reply, KnownInv, Known, OwnInv, Own
  <2>2. /\ dirCache'[conn[c].pid].dir = conn[c].reply.dir
        /\ \A p \in Pids \ {conn[c].pid} : dirCache'[p] = dirCache[p]
    BY <1>2, <2>1 DEF Reply, Remembered
  <2>3. ASSUME NEW b \in Connections
        PROVE  Own(conn[b])'
    <3>1. CASE b = c
      <4>1. conn'[b] = k
        BY <1>2, <3>1 DEF Reply, TypeInv
      <4>2. /\ k.pc = "identified" /\ k.client = conn[c].client /\ k.pid = conn[c].client
            /\ k.info.dir = Unknown
        BY <2>1 DEF Closed, Found
      <4> QED
        BY <1>2, <2>1, <2>2, <4>1, <4>2 DEF Own, Reply, world
    <3>2. CASE b # c
      <4>1. conn'[b] = conn[b] /\ Own(conn[b]) /\ Known(conn[b])
        BY <1>2, <3>2 DEF Reply, TypeInv, OwnInv, KnownInv
      <4>2. process' = process
        BY <1>2 DEF Reply, world
      <4>3. ASSUME conn[b].pc = "identified", dirCache'[conn[b].pid] \in Parked
            PROVE  dirCache'[conn[b].pid].dir \in process[conn[b].client].been \cup {Unknown}
        <5>1. conn[b].pid \in Pids /\ conn[b].pid = conn[b].client
          BY <4>1, <4>3 DEF Known
        <5>2. CASE conn[b].pid = conn[c].pid
          BY <2>1, <2>2, <5>1, <5>2
        <5>3. CASE conn[b].pid # conn[c].pid
          <6>1. dirCache'[conn[b].pid] = dirCache[conn[b].pid]
            BY <2>2, <5>1, <5>3
          <6> QED
            BY <4>1, <4>3, <6>1 DEF Own
        <5> QED
          BY <5>2, <5>3
      <4> QED
        BY <4>1, <4>2, <4>3 DEF Own
    <3> QED
      BY <3>1, <3>2
  <2> QED
    BY <1>2, <2>3 DEF OwnInv, Reply, world
<1> QED
  BY <1>1, <1>2

LEMMA OwnLookups ==
  ASSUME TypeInv, KnownInv, OwnInv, NEW c \in Connections,
         LookupDir(c) \/ BodyNamesDir(c) \/ Miss(c) \/ ReadRemembered(c)
  PROVE  OwnInv'
<1>0. conn[c] \in Connection /\ Own(conn[c]) /\ Known(conn[c])
  BY DEF TypeInv, OwnInv, KnownInv
<1>1. SUFFICES \E k : Own(k) /\ conn' = [conn EXCEPT ![c] = k]
  <2>1. UNCHANGED <<process, dirCache>>
    BY DEF LookupDir, BodyNamesDir, Miss, ReadRemembered, world
  <2> QED
    BY <2>1, OneOwn
<1>2. CASE LookupDir(c)
  <2> DEFINE entry == dirCache[conn[c].pid]
             k == [conn[c] EXCEPT !.pc = "resolving", !.dir = entry.dir]
  <2>1. ASSUME Fresh(entry), entry.dir # Unknown
        PROVE  Own(k)
    <3>1. conn[c].pc = "identified" /\ conn[c].client \in Pids /\ conn[c].pid = conn[c].client
      BY <1>0, <1>2 DEF LookupDir, Known
    <3>2. entry \in Parked
      BY <2>1, <3>1 DEF TypeInv, Fresh
    <3>3. entry.dir \in process[conn[c].client].been
      BY <1>0, <2>1, <3>1, <3>2 DEF Own
    <3>4. k.pc = "resolving" /\ k.client = conn[c].client /\ k.dir = entry.dir /\ k.info = conn[c].info
      BY <1>0 DEF Connection
    <3> QED
      BY <1>0, <3>1, <3>3, <3>4 DEF Own
  <2>2. Own(Opened(conn[c], Found, TRUE))
    BY DEF Own, Opened, Closed, Found
  <2>3. \/ conn' = [conn EXCEPT ![c] = k] /\ Fresh(entry) /\ entry.dir # Unknown
        \/ conn' = [conn EXCEPT ![c] = Opened(conn[c], Found, TRUE)]
    BY <1>2 DEF LookupDir
  <2> QED
    BY <2>1, <2>2, <2>3
<1>3. CASE BodyNamesDir(c)
  <2>1. PICK d \in Dirs :
          conn' = [conn EXCEPT ![c] = [conn[c] EXCEPT !.pc = "resolving", !.for = "event", !.dir = d]]
    BY <1>3 DEF BodyNamesDir
  <2> DEFINE k == [conn[c] EXCEPT !.pc = "resolving", !.for = "event", !.dir = d]
  <2>2. Own(k)
    BY <1>0 DEF Connection, Own
  <2> QED
    BY <2>1, <2>2
<1>4. CASE Miss(c)
  <2> DEFINE k == [conn[c] EXCEPT !.pc = "missed"]
  <2>1. Own(k)
    BY <1>0, <1>4 DEF Miss, Connection, Own
  <2> QED
    BY <1>4, <2>1 DEF Miss
<1>5. CASE ReadRemembered(c)
  <2>1. PICK h : conn' = [conn EXCEPT ![c] = [conn[c] EXCEPT !.pc = "read", !.read = h]]
    BY <1>5 DEF ReadRemembered
  <2> DEFINE k == [conn[c] EXCEPT !.pc = "read", !.read = h]
  <2>2. Own(k)
    BY <1>0, <1>5 DEF ReadRemembered, Connection, Own
  <2> QED
    BY <2>1, <2>2
<1> QED
  BY <1>2, <1>3, <1>4, <1>5

LEMMA OwnAnswers ==
  ASSUME TypeInv, KnownInv, OwnInv, NEW c \in Connections, Hit(c) \/ Store(c)
  PROVE  OwnInv'
<1>0. Own(conn[c]) /\ conn[c].pc \in {"resolving", "missed", "read"}
  BY DEF OwnInv, Hit, Store
<1>1. PICK h : Resolved(c, h)
  BY DEF Hit, Store
<1> DEFINE info == IF conn[c].for = "event" THEN conn[c].info ELSE [dir |-> conn[c].dir, head |-> h]
           recent == conn[c].recent /\ Recent(conn[c].dir, h)
           k == Opened(conn[c], info, recent)
<1>2. k.pc = "open" /\ k.client = conn[c].client /\ k.info = info
  BY DEF Opened, Closed
<1>3. info.dir # Unknown => conn[c].client \in Pids /\ info.dir \in process[conn[c].client].been
  <2>1. CASE conn[c].for = "event"
    BY <1>0, <2>1 DEF Own
  <2>2. CASE conn[c].for # "event"
    <3>1. conn[c].for = "connection"
      BY <2>2 DEF TypeInv, Connection
    <3> QED
      BY <1>0, <3>1 DEF Own
  <2> QED
    BY <2>1, <2>2
<1>4. Own(k)
  BY <1>2, <1>3 DEF Own
<1>5. conn' = [conn EXCEPT ![c] = k]
  BY <1>1 DEF Resolved
<1>6. UNCHANGED <<process, dirCache>>
  BY DEF Hit, Store, world
<1> QED
  BY <1>4, <1>5, <1>6, OneOwn

LEMMA OwnStep ==
  ASSUME TypeInv, KnownInv, OwnInv, [Next]_vars
  PROVE  OwnInv'
<1>1. CASE Tick
  BY <1>1, OwnTick
<1>2. CASE (\E d \in Dirs : Checkout(d)) \/ (\E p \in Pids : ChangesDir(p) \/ PidReused(p))
  BY <1>2, OwnWorld
<1>3. ASSUME NEW c \in Connections, Ask(c)
      PROVE  OwnInv'
  BY <1>3, OwnAsk
<1>4. ASSUME NEW c \in Connections, NoReply(c) \/ Reply(c) \/ Close(c)
      PROVE  OwnInv'
  BY <1>4, OwnReplies
<1>5. ASSUME NEW c \in Connections, LookupDir(c) \/ BodyNamesDir(c) \/ Miss(c) \/ ReadRemembered(c)
      PROVE  OwnInv'
  BY <1>5, OwnLookups
<1>6. ASSUME NEW c \in Connections, Hit(c) \/ Store(c)
      PROVE  OwnInv'
  BY <1>6, OwnAnswers
<1>7. CASE UNCHANGED vars
  BY <1>7 DEF vars, world, OwnInv, Own
<1> QED
  BY <1>1, <1>2, <1>3, <1>4, <1>5, <1>6, <1>7 DEF Next

(* A connection is never given a directory its process has not worked in,  *)
(* although parked entries are found by a pid that may be another's by now *)
(* (dircache.go, contextOf).                                               *)
THEOREM DirectoriesAreTheirOwn == Spec => []OwnDirectory
<1>1. Init => TypeInv /\ KnownInv /\ OwnInv
  BY TypesInitially, OwnInitially
<1>2. TypeInv /\ KnownInv /\ OwnInv /\ [Next]_vars => (TypeInv /\ KnownInv /\ OwnInv)'
  BY TypesStep, OwnStep
<1>3. KnownInv /\ OwnInv => OwnDirectory
  BY DEF KnownInv, Known, OwnInv, Own, OwnDirectory
<1> QED
  BY <1>1, <1>2, <1>3, PTL DEF Spec

=============================================================================
