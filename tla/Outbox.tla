------------------------------- MODULE Outbox -------------------------------
(***************************************************************************)
(* What spool, forwarder and ingestion promise together, as one outbox     *)
(* (EventIngestionController.php:19-22, forwarder.go:18-22): an entry that *)
(* is in the outbox leaves it only after the backend has settled its event *)
(* and never comes back; what is settled stays settled; and only events    *)
(* that were in the outbox are ever settled.                               *)
(***************************************************************************)
EXTENDS Naturals, Sequences

CONSTANT Event

VARIABLES
  log,      \* the event of every entry, in the order the names were taken
  waiting,  \* entries in the outbox
  spoilt,   \* entries set aside unreadable
  gone,     \* entries that have left
  settled   \* events the backend has dealt with

vars == <<log, waiting, spoilt, gone, settled>>

Entered == waiting \cup spoilt \cup gone

Init ==
  /\ log = <<>>
  /\ waiting = {} /\ spoilt = {} /\ gone = {} /\ settled = {}

Label(e) ==
  /\ log' = Append(log, e)
  /\ UNCHANGED <<waiting, spoilt, gone, settled>>

Enter(n) ==
  /\ n \in DOMAIN log \ Entered
  /\ waiting' = waiting \cup {n}
  /\ UNCHANGED <<log, spoilt, gone, settled>>

SetAside(S) ==
  /\ S \subseteq waiting
  /\ waiting' = waiting \ S
  /\ spoilt' = spoilt \cup S
  /\ UNCHANGED <<log, gone, settled>>

Settle(E) ==
  /\ E \subseteq {log[n] : n \in Entered}
  /\ settled' = settled \cup E
  /\ UNCHANGED <<log, waiting, spoilt, gone>>

Leave(n) ==
  /\ n \in waiting
  /\ log[n] \in settled
  /\ waiting' = waiting \ {n}
  /\ gone' = gone \cup {n}
  /\ UNCHANGED <<log, spoilt, settled>>

Next ==
  \/ \E e \in Event : Label(e)
  \/ \E n \in DOMAIN log : Enter(n) \/ Leave(n)
  \/ \E S \in SUBSET waiting : SetAside(S)
  \/ \E E \in SUBSET Event : Settle(E)

Spec == Init /\ [][Next]_vars
=============================================================================
