------------------------------ MODULE Delivery ------------------------------
(***************************************************************************)
(* Spool, forwarder and ingestion put together: from the moment the proxy  *)
(* records a copy to the moment its file is deleted.                       *)
(*                                                                         *)
(* The forwarder holds one request at a time, but giving a request up does *)
(* not stop the worker that serves it: the next request can run beside it. *)
(* link is the worker whose reply the forwarder is waiting for.            *)
(***************************************************************************)
EXTENDS Forwarder, Ingestion

CONSTANTS
  NoWorker,
  MaxFaults,   \* bound: timeouts, lost replies, crashes and power cuts
  MaxRefused   \* bound: recorded copies that are not "fits"

ASSUME DeliveryAssumption ==
  /\ NoWorker \notin Workers
  /\ MaxFaults \in Nat /\ MaxRefused \in Nat

VARIABLES
  link,   \* the worker whose reply the forwarder is waiting for
  faults  \* how much of MaxFaults is used up

vars == <<spoolVars, forwarderVars, ingestionVars, link, faults>>

DeliveryTypeOK ==
  /\ SpoolTypeOK /\ ForwarderTypeOK /\ IngestionTypeOK
  /\ link \in Workers \cup {NoWorker}
  /\ faults \in 0 .. MaxFaults

Init ==
  /\ SpoolInit /\ ForwarderInit /\ IngestionInit
  /\ link = NoWorker
  /\ faults = 0

Fault == faults < MaxFaults /\ faults' = faults + 1

-----------------------------------------------------------------------------
(* The proxy records; the spool publishes or loses the file.               *)

Refused == {n \in Names : content[n].fate # "fits"}

Record(c) ==
  /\ c.fate = "fits" \/ Cardinality(Refused) < MaxRefused
  /\ BeginRecord(c)
  /\ UNCHANGED <<forwarderVars, ingestionVars, link, faults>>

SpoolStep(n) ==
  /\ Publish(n) \/ RecordFails(n)
  /\ UNCHANGED <<forwarderVars, ingestionVars, link, faults>>

(* The forwarder's own steps.                                              *)

Start == Tick /\ UNCHANGED <<ingestionVars, link, faults>>

Housekeep ==
  /\ DrainEmpty \/ ReadBatch({}) \/ FinishBatch \/ \E n \in doomed : RemoveOne(n)
  /\ UNCHANGED <<ingestionVars, link, faults>>

(* client.Do: a free worker gets the batch.                                *)
Post(w) ==
  /\ fpc = "sending"
  /\ fpc' = "waiting"
  /\ Take(w, {[pos |-> n, copy |-> content[n]] : n \in sent})
  /\ link' = w
  /\ UNCHANGED <<spoolVars, sent, full, doomed, faults>>

Serve(w) ==
  /\ WorkerStep(w)
  /\ UNCHANGED <<spoolVars, forwarderVars, link, faults>>

(* The reply arrives and decodes.                                          *)
Replied(w) ==
  /\ wpc[w] = "reply" /\ link = w
  /\ Confirm(accepted[w])
  /\ Release(w)
  /\ link' = NoWorker
  /\ UNCHANGED faults

(* A 401 or a 500 arrives.                                                 *)
Failed(w) ==
  /\ wpc[w] = "fail" /\ link = w
  /\ SendFails
  /\ Release(w)
  /\ link' = NoWorker
  /\ UNCHANGED faults

(* The forwarder no longer listens to this worker.                         *)
Unheard(w) ==
  /\ wpc[w] \in {"reply", "fail"} /\ link # w
  /\ Release(w)
  /\ UNCHANGED <<spoolVars, forwarderVars, link, faults>>

-----------------------------------------------------------------------------
(* Faults.                                                                 *)

(* No connection, a timeout, a reply that is lost or does not decode: the  *)
(* worker, if there is one, carries on.                                    *)
GiveUp ==
  /\ Fault
  /\ SendFails
  /\ link' = NoWorker
  /\ UNCHANGED ingestionVars

(* os.ReadFile fails on files that are there.                              *)
ReadErrors ==
  /\ Fault
  /\ \E unread \in SUBSET Oldest(BatchSize) \ {{}} : ReadBatch(unread)
  /\ UNCHANGED <<ingestionVars, link>>

(* A PHP process dies in the middle of a request.                          *)
WorkerDies(w) ==
  /\ Fault
  /\ wpc[w] # "free"
  /\ Release(w)
  /\ IF link = w THEN SendFails /\ link' = NoWorker
                 ELSE UNCHANGED <<spoolVars, forwarderVars, link>>

AgentCrash ==
  /\ Fault
  /\ SpoolCrash /\ UNCHANGED corrupt
  /\ ForwarderCrash
  /\ link' = NoWorker
  /\ UNCHANGED ingestionVars

(* Nothing is flushed before the rename (spool.go:82-85), so after a power *)
(* cut any file can be there without its bytes.                            *)
PowerLoss ==
  /\ Fault
  /\ SpoolCrash
  /\ \E S \in SUBSET files : corrupt' = corrupt \cup S
  /\ ForwarderCrash
  /\ link' = NoWorker
  /\ UNCHANGED ingestionVars

AccessChanges ==
  /\ ChangeAccess
  /\ UNCHANGED <<spoolVars, forwarderVars, link, faults>>

-----------------------------------------------------------------------------

Next ==
  \/ \E c \in Recordable : Record(c)
  \/ \E n \in writing : SpoolStep(n)
  \/ Start \/ Housekeep
  \/ \E w \in Workers : \/ Post(w) \/ Serve(w) \/ Replied(w) \/ Failed(w)
                        \/ Unheard(w) \/ WorkerDies(w)
  \/ GiveUp \/ ReadErrors \/ AgentCrash \/ PowerLoss \/ AccessChanges

Spec == Init /\ [][Next]_vars

(* Fairness: the goroutines of a running agent, the PHP processes and the  *)
(* network between them keep going; a publisher either renames or fails.   *)
(* Nothing is assumed of what the proxy records, of faults or of people.   *)
Fairness ==
  /\ WF_vars(\E n \in writing : SpoolStep(n))
  /\ WF_vars(Start) /\ WF_vars(Housekeep)
  /\ WF_vars(\E w \in Workers : Post(w))
  /\ \A w \in Workers : /\ WF_vars(Serve(w))
                        /\ WF_vars(Replied(w) \/ Failed(w) \/ Unheard(w))

FairSpec == Spec /\ Fairness

-----------------------------------------------------------------------------

Settled == stored \cup discarded
Gone == published \ (files \cup aside)

(* The contract of EventIngestionController.php:19-22 and                  *)
(* forwarder.go:20-22: a file leaves the spool only when its event has a   *)
(* row, or was confirmed and thrown away for want of consent; whatever     *)
(* timed out, died or was sent twice on the way.                           *)
NoLoss == \A n \in Gone : content[n].id \in Settled

(* A finished turn is one of two copies under one event id, and the prompt *)
(* copy alone makes the id count as accepted.  Once the turn's file is     *)
(* deleted its answer is stored all the same (fillAnswer, and byID, which  *)
(* deletes the last copy of a batch and leaves the others to be sent       *)
(* again).                                                                 *)
AnswerNotLost ==
  \A n \in Gone :
    /\ content[n].answer /\ content[n].fate = "fits"
    /\ content[n].id \notin discarded
    => rows[content[n].id].answer # NoDay

(* Together, spool, forwarder and ingestion implement the outbox.          *)
Ledger == INSTANCE Outbox WITH
            Event   <- Ids,
            log     <- [n \in Names |-> content[n].id],
            waiting <- files,
            spoilt  <- aside,
            gone    <- Gone,
            settled <- Settled

ImplementsOutbox == Ledger!Spec

(* Something that waits in the spool and that the backend can store is     *)
(* delivered in the end, provided the device's token is eventually good:   *)
(* one bad record must not block every good one behind it                  *)
(* (EventIngestionController.php:80-81).                                   *)
Delivered ==
  <>[](access # "unknown") =>
    \A n \in 1 .. MaxRecords :
      (n \in files /\ content[n].fate = "fits") ~> n \notin files

(* DrainOnce returns, so that the housekeeping goroutine that called it    *)
(* gets back to its health checks (run.go: agentLoop).                     *)
DrainReturns == fpc # "idle" ~> fpc = "idle"
=============================================================================
