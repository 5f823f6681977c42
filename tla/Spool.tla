------------------------------- MODULE Spool -------------------------------
(***************************************************************************)
(* The agent's spool (agent/internal/forward/spool.go): a directory with   *)
(* one JSON file per recorded copy.  A file's name is the time and a       *)
(* counter taken under the mutex, so names are totally ordered; the n-th   *)
(* name is written n here.  The bytes go to a temporary name, which nobody *)
(* lists, and are renamed into place, so two recorders can publish in the  *)
(* opposite order of their names.                                          *)
(***************************************************************************)
EXTENDS Events, Naturals, Sequences, FiniteSets

CONSTANT MaxRecords   \* bound: how many copies the proxy records

ASSUME SpoolAssumption == MaxRecords \in Nat

VARIABLES
  content,    \* content[n]: the copy recorded under the n-th name
  writing,    \* names taken by a write() that has not renamed its file yet
  files,      \* names with a .json file
  aside,      \* names with a .json.bad file
  corrupt,    \* files whose bytes are no longer a JSON object with an id
  published   \* history: every name that ever had a .json file

spoolVars == <<content, writing, files, aside, corrupt, published>>

Names == 1 .. Len(content)

SpoolTypeOK ==
  /\ content \in Seq(Copy)
  /\ published \subseteq Names
  /\ writing \subseteq Names \ published
  /\ files \subseteq published
  /\ aside \subseteq published \ files
  /\ corrupt \subseteq files

SpoolInit ==
  /\ content = <<>>
  /\ writing = {} /\ files = {} /\ aside = {} /\ corrupt = {} /\ published = {}

-----------------------------------------------------------------------------

(* Record -> write: the name is taken under the lock, the bytes follow.    *)
BeginRecord(c) ==
  /\ Len(content) < MaxRecords
  /\ content' = Append(content, c)
  /\ writing' = writing \cup {Len(content) + 1}
  /\ UNCHANGED <<files, aside, corrupt, published>>

(* The rename that makes the file visible to Pending.                      *)
Publish(n) ==
  /\ n \in writing
  /\ writing' = writing \ {n}
  /\ files' = files \cup {n}
  /\ published' = published \cup {n}
  /\ UNCHANGED <<content, aside, corrupt>>

(* WriteFile or Rename fails.  Record only prints it: the event is gone.   *)
RecordFails(n) ==
  /\ n \in writing
  /\ writing' = writing \ {n}
  /\ UNCHANGED <<content, files, aside, corrupt, published>>

(* The process dies: unfinished writes leave .tmp files nobody reads.      *)
SpoolCrash ==
  /\ writing' = {}
  /\ UNCHANGED <<content, files, aside, published>>

(* Pending, cut to the first k names: ReadDir sorts by name.               *)
Oldest(k) == {n \in files : Cardinality({m \in files : m < n}) < k}
=============================================================================
