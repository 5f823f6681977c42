---------------------------- MODULE Attribution ----------------------------
(***************************************************************************)
(* Which directory and branch a connection's events are given              *)
(* (agent/internal/tasks, agent/internal/helper, agent/internal/platform:  *)
(* process_*.go; agent/cmd/aiul: dircache.go, privileged.go; contextOf and *)
(* resolveDir in agent/internal/proxy/event.go).                           *)
(*                                                                         *)
(* The helper reads the process, its directory and the checkout there in   *)
(* one reply.  The worker parks them by process (DirTTL), and the resolver *)
(* keeps its own answer by directory (ResolverTTL).  Time is counted in    *)
(* ticks, as ages, and an answer that has become too old to be used is as  *)
(* good as none; only the helper's reply takes any time.  The task is a    *)
(* function of the branch.  A connection is given its context once, before *)
(* its first request, and every event of it has that context, however long *)
(* it is kept alive, unless the event's body named a directory.            *)
(***************************************************************************)
EXTENDS Integers, FiniteSets

CONSTANTS
  Pids, Dirs, Branches, Connections,
  DirTTL, ResolverTTL, ReplyTime,
  MaxChanges     \* bound: what people and programs do besides connecting

ASSUME TimeAssumption ==
  {DirTTL, ResolverTTL} \subseteq Nat \ {0} /\ {ReplyTime, MaxChanges} \subseteq Nat

Unknown == "unknown"
NoRepo == "no repository"
Proxy == "port of the proxy"
ASSUME NamesAssumption ==
  Unknown \notin Dirs \cup Pids /\ NoRepo \notin Branches /\ Proxy \notin Connections

VARIABLES
  changes,
  process,     \* pid -> where it works, and the directories it has worked in
  head,        \* directory -> the branch checked out there, if it is a checkout
  dirCache,    \* pid -> what the worker parked
  cache,       \* directory -> what the resolver keeps
  conn,        \* the connections being captured
  since        \* history: how long ago a branch was last the one at a directory

world == <<process, head, since>>
vars == <<changes, world, dirCache, cache, conn>>

Heads == Branches \cup {NoRepo}
Never == [age |-> -1]
Found == [dir |-> Unknown, head |-> NoRepo]
Reach == ReplyTime + DirTTL + ResolverTTL

Closed ==
  [pc |-> "closed", for |-> "connection", client |-> Unknown, pid |-> Unknown,
   waited |-> 0, reply |-> Found, dir |-> Unknown, read |-> NoRepo, info |-> Found, recent |-> TRUE]

Init ==
  /\ changes = 0
  /\ process \in [Pids -> {[dir |-> d, been |-> {d}] : d \in Dirs \cup {Unknown}}]
  /\ head \in [Dirs -> Heads]
  /\ dirCache = [p \in Pids |-> Never] /\ cache = [d \in Dirs |-> Never]
  /\ conn = [c \in Connections |-> Closed]
  /\ since = [d \in Dirs |-> [h \in Heads |-> IF h = head[d] THEN 0 ELSE Reach]]

-----------------------------------------------------------------------------
(* The world.                                                              *)

Older(age, most) == IF age = -1 \/ age >= most THEN age ELSE age + 1

(* Nothing but the helper's reply takes time.                              *)
Tick ==
  /\ \A c \in Connections :
       \/ conn[c].pc \in {"closed", "open"}
       \/ conn[c].pc = "asked" /\ conn[c].waited < ReplyTime
  /\ conn' = [c \in Connections |->
       IF conn[c].pc = "asked" THEN [conn[c] EXCEPT !.waited = @ + 1] ELSE conn[c]]
  /\ since' = [d \in Dirs |-> [h \in Heads |->
       IF h = head[d] THEN 0 ELSE Older(since[d][h], Reach)]]
  /\ dirCache' = [p \in Pids |->
       IF dirCache[p].age = DirTTL THEN Never ELSE [dirCache[p] EXCEPT !.age = Older(@, DirTTL)]]
  /\ cache' = [d \in Dirs |->
       IF cache[d].age + 1 = ResolverTTL THEN Never
       ELSE [cache[d] EXCEPT !.age = Older(@, ResolverTTL)]]
  /\ UNCHANGED <<changes, process, head>>

Changes ==
  /\ changes < MaxChanges /\ changes' = changes + 1
  /\ UNCHANGED <<dirCache, cache, conn>>

Checkout(d) ==
  /\ \E h \in Heads \ {head[d]} :
       /\ head' = [head EXCEPT ![d] = h]
       /\ since' = [since EXCEPT ![d][h] = 0]
  /\ Changes /\ UNCHANGED process

ChangesDir(p) ==
  /\ \E d \in (Dirs \cup {Unknown}) \ {process[p].dir} :
       process' = [process EXCEPT ![p] = [dir |-> d, been |-> @.been \cup {d}]]
  /\ Changes /\ UNCHANGED <<head, since>>

(* A process ends, which closes its connections, and its pid is given to   *)
(* another one.                                                            *)
PidReused(p) ==
  /\ \E d \in Dirs \cup {Unknown} : process' = [process EXCEPT ![p] = [dir |-> d, been |-> {d}]]
  /\ \A c \in Connections : conn[c].client # p
  /\ Changes /\ UNCHANGED <<head, since>>

-----------------------------------------------------------------------------
(* The helper, asked by one connection at a time (Client.send).            *)

(* The two ends of a connection, as the tables of the operating system     *)
(* have them: the client's, from a port of its own, and the worker's.      *)
Worker == "worker"
EndsOf(p, c) ==
  {[pid |-> p, local |-> c, remote |-> Proxy], [pid |-> Worker, local |-> Proxy, remote |-> c]}

(* Slip: either end will do.                                               *)
LsofEither(ends, c) == {e.pid : e \in {e \in ends : c \in {e.local, e.remote}}}

(* ByLocalPort: lsof lists both ends, and the one that leaves from the     *)
(* port is the client's; /proc/net/tcp is searched for that end; and the   *)
(* table of Windows for the one that also arrives at the proxy.            *)
Lsof(ends, c) == {e.pid : e \in {e \in ends : c \in {e.local, e.remote} /\ e.local = c}}
ProcNet(ends, c) == {e.pid : e \in {e \in ends : e.local = c}}
TcpTable(ends, c) == {e.pid : e \in {e \in ends : e.local = c /\ e.remote = Proxy}}
ByLocalPort(ends, c) == Lsof(ends, c) \cup ProcNet(ends, c) \cup TcpTable(ends, c)

(* What the operating system says of a process; on Windows, and of one     *)
(* that is protected or gone, not where it works.                          *)
WorkingDir(p) == IF p = Worker THEN Unknown ELSE process[p].dir

(* CheckoutAt: the branch at a directory, read by the helper.              *)
CheckoutAt(d) == IF d = Unknown THEN NoRepo ELSE head[d]

(* VerbProcess: process, directory and checkout in one reply.  What is     *)
(* read later than here is only more recent.                               *)
Ask(c) ==
  /\ conn[c].pc = "closed" /\ \A b \in Connections : conn[b].pc # "asked"
  /\ \E client \in Pids : \E p \in ByLocalPort(EndsOf(client, c), c) :
       conn' = [conn EXCEPT ![c] =
         [Closed EXCEPT !.pc = "asked", !.client = client, !.pid = p,
            !.reply = [dir |-> WorkingDir(p), head |-> CheckoutAt(WorkingDir(p))]]]
  /\ UNCHANGED <<changes, world, dirCache, cache>>

(* processOf: without an answer the connection has no context.             *)
NoReply(c) ==
  /\ conn[c].pc = "asked"
  /\ conn' = [conn EXCEPT ![c] = [Closed EXCEPT !.pc = "open"]]
  /\ UNCHANGED <<changes, world, dirCache, cache>>

-----------------------------------------------------------------------------
(* The worker.                                                             *)

(* Slip: a reply without a directory leaves what was known.                *)
RememberedDir(c) ==
  [p \in Pids |->
    IF p = conn[c].pid /\ conn[c].reply.dir # Unknown
    THEN [dir |-> conn[c].reply.dir, head |-> conn[c].reply.head, age |-> 0]
    ELSE dirCache[p]]

(* remember: park the reply, whatever it says.                             *)
Remembered(c) ==
  [p \in Pids |->
    IF p = conn[c].pid THEN [dir |-> conn[c].reply.dir, head |-> conn[c].reply.head, age |-> 0]
    ELSE dirCache[p]]

Reply(c) ==
  /\ conn[c].pc = "asked"
  /\ dirCache' = Remembered(c)
  /\ conn' = [conn EXCEPT ![c] =
       [Closed EXCEPT !.pc = "identified", !.client = conn[c].client, !.pid = conn[c].pid]]
  /\ UNCHANGED <<changes, world, cache>>

Fresh(entry) == entry # Never

Recent(d, h) == h = NoRepo \/ since[d][h] < Reach

(* recent is a history: every answer of the resolver on this connection    *)
(* was recent when it was given.                                           *)
Opened(k, info, recent) ==
  [Closed EXCEPT !.pc = "open", !.client = k.client, !.pid = k.pid, !.info = info,
     !.recent = recent]

(* contextOf: where the process works, from what was just parked.          *)
LookupDir(c) ==
  /\ conn[c].pc = "identified"
  /\ LET entry == dirCache[conn[c].pid]
     IN conn' = IF Fresh(entry) /\ entry.dir # Unknown
                THEN [conn EXCEPT ![c].pc = "resolving", ![c].dir = entry.dir]
                ELSE [conn EXCEPT ![c] = Opened(@, Found, TRUE)]
  /\ UNCHANGED <<changes, world, dirCache, cache>>

(* A parser found a directory in a body: it counts when the connection has *)
(* no repository of its own.                                               *)
BodyNamesDir(c) ==
  /\ conn[c].pc = "open" /\ conn[c].info.head = NoRepo
  /\ \E d \in Dirs : conn' = [conn EXCEPT ![c].pc = "resolving", ![c].for = "event",
                                           ![c].dir = d]
  /\ UNCHANGED <<changes, world, dirCache, cache>>

(* Slip: the branch of an event's directory goes to the connection.        *)
ResolvedForAll(c, h) ==
  conn' = [conn EXCEPT ![c] =
    Opened(@, [dir |-> @.info.dir, head |-> h], @.recent /\ Recent(@.dir, h))]

(* The resolver's answer becomes the context of the connection, which all  *)
(* its events share, or is put on one event only.                          *)
Resolved(c, h) ==
  conn' = [conn EXCEPT ![c] =
    Opened(@, IF @.for = "event" THEN @.info ELSE [dir |-> @.dir, head |-> h],
           @.recent /\ Recent(@.dir, h))]

Young(d) == cache[d] # Never

(* ResolveWith: what the resolver keeps and is young enough.               *)
Hit(c) ==
  /\ conn[c].pc = "resolving" /\ Young(conn[c].dir)
  /\ Resolved(c, cache[conn[c].dir].head)
  /\ UNCHANGED <<changes, world, dirCache, cache>>

Miss(c) ==
  /\ conn[c].pc = "resolving" /\ ~Young(conn[c].dir)
  /\ conn' = [conn EXCEPT ![c].pc = "missed"]
  /\ UNCHANGED <<changes, world, dirCache, cache>>

Candidates(d) == {p \in Pids : Fresh(dirCache[p]) /\ dirCache[p].dir = d}

(* Slip: what is in use is kept.                                           *)
ReadKeeps(c) ==
  /\ conn[c].pc = "missed"
  /\ LET known == Candidates(conn[c].dir)
     IN IF known = {} THEN conn' = [conn EXCEPT ![c].pc = "read"] /\ UNCHANGED dirCache
        ELSE \E p \in known :
               /\ conn' = [conn EXCEPT ![c].pc = "read", ![c].read = dirCache[p].head]
               /\ dirCache' = [dirCache EXCEPT ![p].age = 0]
  /\ UNCHANGED <<changes, world, cache>>

(* rememberedCheckout: what any process was last said to find there.       *)
ReadRemembered(c) ==
  /\ conn[c].pc = "missed"
  /\ LET known == Candidates(conn[c].dir)
     IN \E h \in IF known = {} THEN {NoRepo} ELSE {dirCache[p].head : p \in known} :
          conn' = [conn EXCEPT ![c].pc = "read", ![c].read = h]
  /\ UNCHANGED <<changes, world, dirCache, cache>>

(* The answer is kept, also when there is none.                            *)
Store(c) ==
  /\ conn[c].pc = "read"
  /\ cache' = [cache EXCEPT ![conn[c].dir] = [head |-> conn[c].read, age |-> 0]]
  /\ Resolved(c, conn[c].read)
  /\ UNCHANGED <<changes, world, dirCache>>

Close(c) ==
  /\ conn[c].pc = "open" /\ conn' = [conn EXCEPT ![c] = Closed]
  /\ UNCHANGED <<changes, world, dirCache, cache>>

Next ==
  \/ Tick
  \/ \E d \in Dirs : Checkout(d)
  \/ \E p \in Pids : ChangesDir(p) \/ PidReused(p)
  \/ \E c \in Connections :
       \/ Ask(c) \/ NoReply(c) \/ Reply(c) \/ LookupDir(c)
       \/ Hit(c) \/ Miss(c) \/ ReadRemembered(c) \/ Store(c)
       \/ BodyNamesDir(c) \/ Close(c)

Spec == Init /\ [][Next]_vars

-----------------------------------------------------------------------------

Open == {c \in Connections : conn[c].pc = "open"}
AttributionTypeOK ==
  /\ changes \in 0..MaxChanges /\ head \in [Dirs -> Heads]
  /\ \A d \in Dirs :
       cache[d] # Never => cache[d].head \in Heads /\ cache[d].age \in 0..ResolverTTL - 1
  /\ \A p \in Pids :
       dirCache[p] # Never => dirCache[p].head \in Heads /\ dirCache[p].age \in 0..DirTTL
  /\ \A c \in Open : conn[c].info.head # NoRepo => conn[c].info.dir \in Dirs

(* The resolver's answer, for a new connection or for an event that names  *)
(* its own directory, is a branch that was checked out there as far back   *)
(* as the reply, the parked entry and the resolver's own answer can reach  *)
(* and no further, however the three overlap and whoever else asks         *)
(* meanwhile (dircache.go, ResolveWith).  It says nothing of what a        *)
(* connection that is kept alive still carries later.                      *)
RecentWhenResolved == \A c \in Connections : conn[c].recent

(* "Someone switches branch while a tool is open, and the next interaction *)
(* should land on the new task" (tasks.go:83-84): the branch that the next *)
(* event of a connection is given was there within the reach of the        *)
(* caches.  The code does not keep it, because the context of a connection *)
(* is never resolved again (capture.go:115, :240).                         *)
NextInteraction ==
  \A c \in Open : Recent(conn[c].info.dir, conn[c].info.head)

(* A connection is taken for one of the process that opened it and never   *)
(* given the directory of another, although entries are found by pid and   *)
(* pids are reused: "a stale directory would tag an event with the wrong   *)
(* task" (dircache.go:14-15).                                              *)
OwnDirectory ==
  \A c \in Connections :
    /\ conn[c].pid = conn[c].client
    /\ conn[c].info.dir # Unknown => conn[c].info.dir \in process[conn[c].client].been

=============================================================================
