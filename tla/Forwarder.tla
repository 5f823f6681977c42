----------------------------- MODULE Forwarder -----------------------------
(***************************************************************************)
(* The forwarder (agent/internal/forward/forwarder.go), driven by the 30 s *)
(* tick of agentLoop (agent/cmd/aiul/run.go).  DrainOnce lists the spool,  *)
(* sends its oldest BatchSize files in one request, deletes the files the  *)
(* reply accepts and goes round again while batches are full.              *)
(*                                                                         *)
(* The backoff the forwarder computes is not state here: nothing waits for *)
(* it (it is only logged as "retry_in"); every retry is the next tick's.   *)
(***************************************************************************)
EXTENDS Spool

CONSTANT BatchSize    \* 50 in the code

ASSUME ForwarderAssumption == BatchSize \in Nat \ {0}

VARIABLES
  fpc,      \* where the housekeeping goroutine is
  sent,     \* names whose copies are in the current request
  full,     \* the current batch had BatchSize files
  doomed    \* names the reply confirmed, still to be deleted

forwarderVars == <<fpc, sent, full, doomed>>

ForwarderTypeOK ==
  /\ fpc \in {"idle", "listing", "sending", "waiting", "removing"}
  /\ sent \subseteq published
  /\ full \in BOOLEAN
  /\ doomed \subseteq published

ForwarderInit ==
  /\ fpc = "idle" /\ sent = {} /\ full = FALSE /\ doomed = {}

-----------------------------------------------------------------------------

(* The tick: drainSpool calls DrainOnce.                                   *)
Tick ==
  /\ fpc = "idle"
  /\ fpc' = "listing"
  /\ UNCHANGED <<spoolVars, sent, full, doomed>>

(* DrainOnce returns: its variables are gone.                              *)
Return == fpc' = "idle" /\ sent' = {} /\ full' = FALSE /\ doomed' = {}

(* Nothing is pending.                                                     *)
DrainEmpty ==
  /\ fpc = "listing"
  /\ files = {}
  /\ Return
  /\ UNCHANGED spoolVars

(* Slip: a file set aside is still listed.                                 *)
ReadBatchKeepsBad(unread) ==
  LET head == Oldest(BatchSize) \ unread
      bad  == head \cap corrupt
  IN /\ fpc = "listing"
     /\ files # {}
     /\ aside' = aside \cup bad
     /\ sent' = head \ bad
     /\ full' = (Cardinality(Oldest(BatchSize)) >= BatchSize)
     /\ doomed' = {}
     /\ fpc' = IF head = bad THEN "removing" ELSE "sending"
     /\ UNCHANGED <<content, writing, files, corrupt, published>>

(* List, cut to a batch, read each file; what cannot be read is passed     *)
(* over, and what does not parse is renamed .bad.  With nothing left to    *)
(* send there is nothing to delete either.                                 *)
ReadBatch(unread) ==
  LET head == Oldest(BatchSize) \ unread
      bad  == head \cap corrupt
  IN /\ fpc = "listing"
     /\ files # {}
     /\ aside' = aside \cup bad
     /\ files' = files \ bad
     /\ corrupt' = corrupt \ bad
     /\ sent' = head \ bad
     /\ full' = (Cardinality(Oldest(BatchSize)) >= BatchSize)
     /\ doomed' = {}
     /\ fpc' = IF head = bad THEN "removing" ELSE "sending"
     /\ UNCHANGED <<content, writing, published>>

(* No connection, a status outside 2xx, a timeout or a reply that does not *)
(* decode: every file stays and DrainOnce returns the error.               *)
SendFails ==
  /\ fpc \in {"sending", "waiting"}
  /\ Return
  /\ UNCHANGED spoolVars

(* A 2xx reply.  byID holds one path per event id, the last one read, so a *)
(* batch with two copies of an event loses only the later file; the other  *)
(* is sent again.                                                          *)
LastCopies(accepted) ==
  {n \in sent : /\ content[n].id \in accepted
                /\ \A m \in sent : content[m].id = content[n].id => m <= n}

(* Slip: a 2xx reply confirms the whole batch.                             *)
ConfirmAll(accepted) ==
  /\ fpc = "waiting"
  /\ fpc' = "removing"
  /\ doomed' = sent
  /\ UNCHANGED <<spoolVars, sent, full>>

Confirm(accepted) ==
  /\ fpc = "waiting"
  /\ fpc' = "removing"
  /\ doomed' = LastCopies(accepted)
  /\ UNCHANGED <<spoolVars, sent, full>>

(* os.Remove, one accepted id at a time.                                   *)
RemoveOne(n) ==
  /\ fpc = "removing"
  /\ n \in doomed
  /\ files' = files \ {n}
  /\ corrupt' = corrupt \ {n}
  /\ doomed' = doomed \ {n}
  /\ UNCHANGED <<content, writing, aside, published, fpc, sent, full>>

(* Slip: go round until the spool is empty.                                *)
FinishUntilEmpty ==
  /\ fpc = "removing"
  /\ doomed = {}
  /\ fpc' = "listing" /\ sent' = {} /\ UNCHANGED <<full, doomed>>
  /\ UNCHANGED spoolVars

(* A full batch means there may be more; a short one ends the drain.       *)
FinishBatch ==
  /\ fpc = "removing"
  /\ doomed = {}
  /\ IF full THEN fpc' = "listing" /\ sent' = {} /\ UNCHANGED <<full, doomed>>
             ELSE Return
  /\ UNCHANGED spoolVars

(* The agent process dies and is started again (KeepAlive): like Return.   *)
ForwarderCrash == Return
=============================================================================
