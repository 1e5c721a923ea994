------------------------------- MODULE Spool -------------------------------
(***************************************************************************)
(* The durable spool: SMTP sessions that enqueue, the single worker that   *)
(* submits and polls, the process they live in, its crashes and its        *)
(* startup recovery.                                                       *)
(*                                                                         *)
(* A mail is named by the record id that Enqueue draws for it (a fresh     *)
(* UUID), so the SMTP session that carries it is enq[i].  What is on disk  *)
(* (rows, payloads, orphans) survives a crash; what is in memory (the      *)
(* sessions, the worker, the recovery snapshot) does not.                  *)
(*                                                                         *)
(* Time.  The worker compares next_attempt_at and first_submitted_at +     *)
(* SubmittedTimeout with the `now` of its current iteration, and nothing   *)
(* else reads them: due[i] says next_attempt_at <= now, aged[i] that the   *)
(* submitted record has outlived SubmittedTimeout.  Writing either column  *)
(* clears its flag; Due and Age set it again.  The ORDER BY of the two     *)
(* queries is left open: any due record may be the one returned.           *)
(***************************************************************************)
EXTENDS Records

CONSTANTS Ids,         \* the record ids
          NoId,        \* the worker holds no record
          MaxFaults    \* bound on crashes, shutdowns and storage faults

ASSUME NoIdAssumption == NoId \notin Ids
ASSUME MaxFaultsAssumption == MaxFaults \in Nat

VARIABLES
  rows,       \* disk: the table `records`
  payloads,   \* disk: ids with an intact directory under payloads/
  orphans,    \* disk: ids moved to payload-orphans/
  due, aged,  \* the two time columns, as the worker sees them
  enq,        \* memory: where the Enqueue of mail i is
  proc,       \* the process
  todo,       \* memory: Recover's records whose payload is still to be loaded
  valid,      \* memory: Recover's snapshot of the record ids
  wpc,        \* memory: where the worker is
  cur, copy,  \* memory: the record the worker holds, as it was read
  upd,        \* memory: the row finalizeRecord is to write
  faults,     \* history: the faults so far
  submits,    \* history: Submit calls per record
  accepted,   \* history: records of which the provider accepted a Submit
  hit,        \* history: the provider accepted the Submit call in progress
  damaged     \* history: payloads damaged from outside

disk == <<rows, payloads, orphans, due, aged>>
worker == <<wpc, cur, copy, upd>>
history == <<submits, accepted, hit, damaged>>
recovery == <<todo, valid>>
vars == <<disk, enq, proc, recovery, worker, faults, history>>

EnqStates == {"idle", "saved", "committed", "cleanup", "acked", "refused", "lost"}
ProcStates == {"down", "recovering", "running", "stopping"}
WorkerStates == {"off", "top", "polling", "claim", "load", "submitting", "final",
                 "failed", "stopped"}

Serving == {"running", "stopping"}
Present == {i \in Ids : rows[i].state # "absent"}
Acked == {i \in Ids : enq[i] = "acked"}

\* The worker's loop has not returned.
WorkerLive == wpc \notin {"off", "failed", "stopped"}

TypeOK ==
  /\ rows \in [Ids -> Row]
  /\ payloads \in SUBSET Ids /\ orphans \in SUBSET Ids
  /\ due \in [Ids -> BOOLEAN] /\ aged \in [Ids -> BOOLEAN]
  /\ enq \in [Ids -> EnqStates]
  /\ proc \in ProcStates
  /\ todo \in SUBSET Ids /\ valid \in SUBSET Ids
  /\ wpc \in WorkerStates
  /\ cur \in Ids \cup {NoId}
  /\ copy \in Row /\ upd \in Row
  /\ faults \in 0..MaxFaults
  /\ submits \in [Ids -> Nat] /\ accepted \in SUBSET Ids
  /\ hit \in BOOLEAN
  /\ damaged \in SUBSET Ids

Init ==
  /\ rows = [i \in Ids |-> Absent]
  /\ payloads = {} /\ orphans = {}
  /\ due = [i \in Ids |-> FALSE] /\ aged = [i \in Ids |-> FALSE]
  /\ enq = [i \in Ids |-> "idle"]
  /\ proc = "down"
  /\ todo = {} /\ valid = {}
  /\ wpc = "off" /\ cur = NoId /\ copy = Absent /\ upd = Absent
  /\ faults = 0
  /\ submits = [i \in Ids |-> 0] /\ accepted = {}
  /\ hit = FALSE
  /\ damaged = {}

\* A step that includes a fault: the bound MaxFaults is spent here.
Fault == faults < MaxFaults /\ faults' = faults + 1

\* UPDATE ... WHERE id = ? AND state = ?, with the state of the copy read before.
updateRecord(i, read, r) ==
  IF rows[i].state = read.state THEN [rows EXCEPT ![i] = r] ELSE rows
----------------------------------------------------------------------------
(* Enqueue: payloads.Save, then insertRecord, then the SMTP reply.         *)

\* Listeners opened while startup recovery is still running.
SaveDuringRecovery(i) ==
  /\ proc # "down" /\ enq[i] = "idle"
  /\ payloads' = payloads \cup {i}
  /\ enq' = [enq EXCEPT ![i] = "saved"]
  /\ UNCHANGED <<rows, orphans, due, aged, proc, recovery, worker, faults, history>>

Save(i) ==
  /\ proc \in Serving /\ enq[i] = "idle"
  /\ payloads' = payloads \cup {i}
  /\ enq' = [enq EXCEPT ![i] = "saved"]
  /\ UNCHANGED <<rows, orphans, due, aged, proc, recovery, worker, faults, history>>

\* Save reports an error: nothing was published, or only a directory sync
\* after the rename failed.  Enqueue does not call Remove on this path.
SaveFails(i) ==
  /\ proc \in Serving /\ enq[i] = "idle"
  /\ Fault
  /\ payloads' \in {payloads, payloads \cup {i}}
  /\ enq' = [enq EXCEPT ![i] = "refused"]
  /\ UNCHANGED <<rows, orphans, due, aged, proc, recovery, worker, history>>

InsertRecord(i) ==
  /\ enq[i] = "saved"
  /\ rows' = [rows EXCEPT ![i] = Queued0]
  /\ enq' = [enq EXCEPT ![i] = "committed"]
  /\ UNCHANGED <<payloads, orphans, due, aged, proc, recovery, worker, faults, history>>

\* insertRecord reports an error; a failed COMMIT may still have committed.
InsertRecordFails(i) ==
  /\ enq[i] = "saved"
  /\ Fault
  /\ rows' \in {rows, [rows EXCEPT ![i] = Queued0]}
  /\ enq' = [enq EXCEPT ![i] = "cleanup"]
  /\ UNCHANGED <<payloads, orphans, due, aged, proc, recovery, worker, history>>

\* `_ = s.payloads.Remove(id)`: best effort, then the error is returned.
RemovePayload(i) ==
  /\ enq[i] = "cleanup"
  /\ payloads' \in {payloads, payloads \ {i}}
  /\ enq' = [enq EXCEPT ![i] = "refused"]
  /\ UNCHANGED <<rows, orphans, due, aged, proc, recovery, worker, faults, history>>

\* The session answers 250 before the INSERT has been committed.
Reply250Early(i) ==
  /\ enq[i] \in {"saved", "committed"}
  /\ enq' = [enq EXCEPT ![i] = "acked"]
  /\ UNCHANGED <<disk, proc, recovery, worker, faults, history>>

Reply250(i) ==
  /\ enq[i] = "committed"
  /\ enq' = [enq EXCEPT ![i] = "acked"]
  /\ UNCHANGED <<disk, proc, recovery, worker, faults, history>>
----------------------------------------------------------------------------
(* The process: startup recovery, serving, shutdown, crash.                *)

\* Recovery that leaves interrupted records in `working`.
RecoverMetadataForgets ==
  /\ proc = "down"
  /\ todo' = {i \in Ids : rows[i].state = "submitted"}
  /\ valid' = Present
  /\ proc' = "recovering"
  /\ UNCHANGED <<disk, enq, worker, faults, history>>

\* recoverMetadata: one transaction.  Opening the store has no effect on the
\* variables of this module.
RecoverMetadata ==
  LET working == {i \in Ids : rows[i].state = "working"}
      submitted == {i \in Ids : rows[i].state = "submitted"}
  IN /\ proc = "down"
     /\ rows' = [i \in Ids |-> IF i \in working THEN recovered(rows[i]) ELSE rows[i]]
     /\ due' = [i \in Ids |-> i \notin working /\ due[i]]
     /\ todo' = working \cup submitted
     /\ valid' = Present
     /\ proc' = "recovering"
     /\ UNCHANGED <<payloads, orphans, aged, enq, worker, faults, history>>

\* One Load of Recover's two loops; a corrupt payload dead-letters its record.
VerifyPayload(i) ==
  /\ proc = "recovering" /\ i \in todo
  /\ todo' = todo \ {i}
  /\ rows' = IF i \in payloads THEN rows
             ELSE updateRecord(i, rows[i], deadLetterCorruptRecord(rows[i]))
  /\ UNCHANGED <<payloads, orphans, due, aged, enq, proc, valid, worker, faults, history>>

Unreferenced == payloads \ valid

\* One entry of QuarantineOrphans.
QuarantineOrphan(i) ==
  /\ proc = "recovering" /\ todo = {} /\ i \in Unreferenced
  /\ payloads' = payloads \ {i}
  /\ orphans' = orphans \cup {i}
  /\ UNCHANGED <<rows, due, aged, enq, proc, recovery, worker, faults, history>>

\* Listeners that do not wait for QuarantineOrphans.
StartServingEarly ==
  /\ proc = "recovering" /\ todo = {}
  /\ proc' = "running"
  /\ wpc' = "top"
  /\ valid' = {}
  /\ UNCHANGED <<disk, enq, todo, cur, copy, upd, faults, history>>

\* main: Recover has returned; worker and listeners start.
StartServing ==
  /\ proc = "recovering" /\ todo = {} /\ Unreferenced = {}
  /\ proc' = "running"
  /\ wpc' = "top"
  /\ valid' = {}
  /\ UNCHANGED <<disk, enq, todo, cur, copy, upd, faults, history>>

\* SIGTERM, or the failure of a server: the context is cancelled.
Shutdown ==
  /\ proc = "running" /\ Fault
  /\ proc' = "stopping"
  /\ UNCHANGED <<disk, enq, recovery, worker, history>>

\* main receives the worker's error on errCh and calls stop().
WorkerErrorStops ==
  /\ proc = "running" /\ wpc = "failed"
  /\ proc' = "stopping"
  /\ UNCHANGED <<disk, enq, recovery, worker, faults, history>>

\* What is left of the process when it ends: the disk, and what each client
\* was told.  A session without a reply is lost: its client sees a dropped
\* connection.
Memory ==
  /\ proc' = "down"
  /\ enq' = [i \in Ids |-> IF enq[i] \in {"saved", "committed", "cleanup"}
                           THEN "lost" ELSE enq[i]]
  /\ todo' = {} /\ valid' = {}
  /\ wpc' = "off" /\ cur' = NoId /\ copy' = Absent /\ upd' = Absent
  /\ hit' = FALSE
  /\ UNCHANGED <<disk, submits, accepted, damaged>>

\* <-workerDone, then the store is closed and main returns.
Exit ==
  /\ proc = "stopping" /\ wpc \in {"failed", "stopped"}
  /\ Memory
  /\ UNCHANGED faults

\* A crash at any point; also a startup that ends with an error of Recover.
Crash ==
  /\ proc # "down" /\ Fault
  /\ Memory
----------------------------------------------------------------------------
(* The worker.                                                             *)

Release == cur' = NoId /\ copy' = Absent /\ upd' = Absent

Hold(i, r) == cur' = i /\ copy' = r

DueIn(s) == {i \in Ids : rows[i].state = s /\ due[i]}

\* processSubmittedOnce up to the Poll call, or to the timeout's dead-letter.
NextSubmittedReady ==
  /\ wpc = "top" /\ proc = "running"
  /\ \/ \E i \in DueIn("submitted") :
          /\ Hold(i, rows[i])
          /\ IF aged[i]
             THEN wpc' = "final" /\ upd' = markDeadLetter(rows[i], "permanent")
             ELSE wpc' = "polling" /\ UNCHANGED upd
     \/ /\ DueIn("submitted") = {}
        /\ wpc' = "claim"
        /\ UNCHANGED <<cur, copy, upd>>
  /\ UNCHANGED <<disk, enq, proc, recovery, faults, history>>

PollReturns(a) ==
  /\ wpc = "polling"
  /\ upd' = afterPoll(copy, a)
  /\ wpc' = "final"
  /\ UNCHANGED <<disk, enq, proc, recovery, cur, copy, faults, history>>

\* The metadata returned by the claim is the row before the UPDATE.
ClaimReadyOldCopy ==
  /\ wpc = "claim" /\ proc = "running"
  /\ \/ \E i \in DueIn("queued") :
          /\ rows' = [rows EXCEPT ![i] = claimReady(@)]
          /\ Hold(i, rows[i])
          /\ wpc' = "load"
     \/ DueIn("queued") = {} /\ wpc' = "top" /\ UNCHANGED <<rows, cur, copy>>
  /\ UNCHANGED <<payloads, orphans, due, aged, enq, proc, recovery, upd, faults, history>>

\* claimReadyMetadata: queued -> working in one transaction.
ClaimReady ==
  /\ wpc = "claim" /\ proc = "running"
  /\ \/ \E i \in DueIn("queued") :
          /\ rows' = [rows EXCEPT ![i] = claimReady(@)]
          /\ Hold(i, claimReady(rows[i]))
          /\ wpc' = "load"
     \/ /\ DueIn("queued") = {}
        /\ wpc' = "top"
        /\ UNCHANGED <<rows, cur, copy>>
  /\ UNCHANGED <<payloads, orphans, due, aged, enq, proc, recovery, upd, faults, history>>

\* The payload loads and Submit is called; the provider may accept the mail
\* whatever answer the worker will get.
Submit ==
  /\ wpc = "load" /\ cur \in payloads
  /\ wpc' = "submitting"
  /\ submits' = [submits EXCEPT ![cur] = @ + 1]
  /\ hit' \in BOOLEAN
  /\ accepted' = IF hit' THEN accepted \cup {cur} ELSE accepted
  /\ UNCHANGED <<disk, enq, proc, recovery, cur, copy, upd, faults, damaged>>

\* The payload is corrupt: dead-letter the record and claim the next one.
LoadCorruptPayload ==
  /\ wpc = "load" /\ cur \notin payloads
  /\ rows' = updateRecord(cur, copy, deadLetterCorruptRecord(copy))
  /\ wpc' = "claim" /\ Release
  /\ UNCHANGED <<payloads, orphans, due, aged, enq, proc, recovery, faults, history>>

\* The payload cannot be read for another reason (requeueClaimedRecord, then
\* Start returns the error), or the write that follows the Load fails.
LoadFails ==
  /\ wpc = "load" /\ Fault
  /\ \/ rows' \in {rows, updateRecord(cur, copy, requeueClaimedRecord(copy))}
     \/ /\ cur \notin payloads
        /\ rows' = updateRecord(cur, copy, deadLetterCorruptRecord(copy))
  /\ wpc' = "failed" /\ Release
  /\ UNCHANGED <<payloads, orphans, due, aged, enq, proc, recovery, history>>

SubmitReturns(a) ==
  /\ wpc = "submitting"
  /\ a \in {"succeeded", "running"} => hit
  /\ upd' = afterSubmit(copy, a)
  /\ wpc' = "final"
  /\ hit' = FALSE
  /\ UNCHANGED <<disk, enq, proc, recovery, cur, copy, faults, submits, accepted, damaged>>

\* The store fails while it looks for a due record; the claim's COMMIT may
\* have taken effect.
FindFails ==
  /\ wpc \in {"top", "claim"} /\ proc = "running" /\ Fault
  /\ \/ UNCHANGED rows
     \/ /\ wpc = "claim"
        /\ \E i \in DueIn("queued") : rows' = [rows EXCEPT ![i] = claimReady(@)]
  /\ wpc' = "failed"
  /\ UNCHANGED <<payloads, orphans, due, aged, enq, proc, recovery, cur, copy, upd, history>>

\* The row, and with it next_attempt_at and first_submitted_at.
WriteUpdate ==
  /\ rows' = updateRecord(cur, copy, upd)
  /\ due' = [due EXCEPT ![cur] = FALSE]
  /\ aged' = [aged EXCEPT ![cur] = @ /\ upd.state = "submitted"]

\* finalizeRecord: the context is fresh, so a shutdown does not stop it.  An
\* UPDATE that matches no row is an error.
FinalizeRecord ==
  /\ wpc = "final"
  /\ WriteUpdate
  /\ IF rows[cur].state # copy.state
     THEN wpc' = "failed"
     ELSE wpc' = IF copy.state = "submitted" THEN "claim" ELSE "top"
  /\ Release
  /\ UNCHANGED <<payloads, orphans, enq, proc, recovery, faults, history>>

\* finalizeRecord fails; its transaction may have committed all the same.
FinalizeRecordFails ==
  /\ wpc = "final" /\ Fault
  /\ WriteUpdate \/ UNCHANGED <<rows, due, aged>>
  /\ wpc' = "failed"
  /\ Release
  /\ UNCHANGED <<payloads, orphans, enq, proc, recovery, history>>

\* The cancelled context is noticed at the top of the loop, by the next query,
\* while the worker sleeps, or by the dead-letter write of a corrupt payload.
WorkerStops ==
  /\ proc = "stopping"
  /\ wpc \in {"top", "claim"} \/ (wpc = "load" /\ cur \notin payloads)
  /\ wpc' = "stopped"
  /\ Release
  /\ UNCHANGED <<disk, enq, proc, recovery, faults, history>>
----------------------------------------------------------------------------
(* Time and the world outside.                                             *)

\* next_attempt_at is reached.
Due(i) ==
  /\ rows[i].state \in Live /\ ~due[i]
  /\ due' = [due EXCEPT ![i] = TRUE]
  /\ UNCHANGED <<rows, payloads, orphans, aged, enq, proc, recovery, worker, faults, history>>

\* SubmittedTimeout has passed since first_submitted_at.
Age(i) ==
  /\ rows[i].state = "submitted" /\ ~aged[i]
  /\ aged' = [aged EXCEPT ![i] = TRUE]
  /\ UNCHANGED <<rows, payloads, orphans, due, enq, proc, recovery, worker, faults, history>>

\* Something outside the relay damages or removes a payload that is still needed.
DamagePayload(i) ==
  /\ i \in payloads /\ rows[i].state \in Live /\ Fault
  /\ payloads' = payloads \ {i}
  /\ damaged' = damaged \cup {i}
  /\ UNCHANGED <<rows, orphans, due, aged, enq, proc, recovery, worker, submits, accepted, hit>>
----------------------------------------------------------------------------
Enqueue(i) ==
  \/ Save(i) \/ SaveFails(i) \/ InsertRecord(i) \/ InsertRecordFails(i)
  \/ RemovePayload(i) \/ Reply250(i)

Process ==
  \/ RecoverMetadata \/ StartServing \/ Shutdown \/ WorkerErrorStops \/ Exit \/ Crash
  \/ \E i \in Ids : VerifyPayload(i) \/ QuarantineOrphan(i)

Work ==
  \/ NextSubmittedReady \/ ClaimReady \/ Submit \/ LoadCorruptPayload \/ FinalizeRecord
  \/ LoadFails \/ FindFails \/ FinalizeRecordFails \/ WorkerStops
  \/ \E a \in Answers : PollReturns(a) \/ SubmitReturns(a)

Environment == \E i \in Ids : Due(i) \/ Age(i) \/ DamagePayload(i)

Next == Process \/ Work \/ Environment \/ \E i \in Ids : Enqueue(i)

Spec == Init /\ [][Next]_vars
----------------------------------------------------------------------------
(* Safety.                                                                 *)

\* "SMTP 250 means the message was durably enqueued": a mail whose client was
\* told 250 has a record in every later state, whatever crashed in between, and
\* its payload is where Enqueue published it unless something outside the relay
\* damaged it.  In particular recovery never quarantines it and no record of it
\* is dead-lettered for a corrupt payload that the relay itself removed.
NoFalseSuccess ==
  \A i \in Acked :
    /\ rows[i].state # "absent"
    /\ i \in payloads \cup damaged
    /\ rows[i].err = "corrupt" => i \in damaged

\* updateRecord overwrites the whole row and compares only its state.  No update
\* is lost, because the copy the worker holds across a provider call is the row.
HeldRecord ==
  /\ wpc \in {"polling", "load", "submitting", "final"} => cur \in Ids /\ copy = rows[cur]
  /\ wpc = "polling" => copy.state = "submitted"
  /\ wpc \in {"load", "submitting"} => copy.state = "working"
  /\ wpc = "final" => copy.state \in {"working", "submitted"}

\* Nothing but Recover takes a record out of `working`.  While the worker's loop
\* runs, a working record is the one the worker holds: no error path leaves one
\* behind that would wait for the next restart.
NoStuckWork ==
  \A i \in Ids :
    rows[i].state = "working" /\ WorkerLive
      => cur = i /\ wpc \in {"load", "submitting", "final"}

\* A record says succeeded, or waits for a poll, only if the provider accepted a
\* Submit of that very mail, across crashes, retries and failed writes.
SucceededWasAccepted ==
  \A i \in Ids : rows[i].state \in {"submitted", "succeeded"} => i \in accepted

\* The retry budget bounds what the provider sees: a mail is submitted at most
\* RetryAttempts + 1 times, plus once for every crash or failed write that kept
\* an attempt from being recorded.
SubmitBudget ==
  \A i \in Ids : submits[i] <= RetryAttempts + 1 + faults

\* A mail whose last failure was temporary is given up only when all its retries
\* are used (submitRetryAllowed, and the attempt counts that restarts preserve).
RetriesUsedUp ==
  \A i \in Ids :
    rows[i].state = "dead-letter" /\ rows[i].err = "temporary"
      => rows[i].attempt = RetryAttempts + 1

\* A submitted record always has the operation id that Poll needs, and a record
\* that will be submitted again carries none from an earlier attempt, whichever
\* of the worker's and recovery's paths led there.
OperationMatchesState ==
  \A i \in Ids :
    /\ rows[i].state = "submitted" => rows[i].op
    /\ rows[i].state \in {"absent", "queued", "working"} => ~rows[i].op

\* Once listeners are open, no payload of a session that died with an earlier
\* process is left under payloads/, and no recorded mail is among the orphans.
OrphansSetAside ==
  /\ proc \in Serving => \A i \in payloads \ Present : enq[i] # "lost"
  /\ orphans \cap Present = {}

\* succeeded and dead-letter are final: no step, recovery after a crash between
\* any two steps included, writes such a row again.
TerminalIsFinal ==
  [][\A i \in Ids : rows[i].state \in Terminal => rows'[i] = rows[i]]_vars

\* A row as the ledger sees it.
ledgerOf(s) ==
  IF s = "absent" THEN "none" ELSE IF s \in Live THEN "owed" ELSE s

status == [i \in Ids |-> ledgerOf(rows[i].state)]

Ledger == INSTANCE MailLedger WITH told <- Acked

\* The spool implements the ledger: whatever crashes, a recorded mail stays owed
\* until it is settled for good, and 250 is said only of recorded mail.
ImplementsLedger == Ledger!Spec
----------------------------------------------------------------------------
(* The inductive invariant behind the theorems of SpoolProofs.             *)

\* What the progress of a session says of the disk.
SessionOf(i) ==
  /\ enq[i] \in {"idle", "saved"} => rows[i].state = "absent"
  /\ enq[i] = "idle" => i \notin payloads
  /\ enq[i] = "saved" => i \in payloads
  /\ enq[i] \in {"committed", "acked"} =>
       /\ rows[i].state # "absent"
       /\ i \in payloads \cup damaged
       /\ rows[i].err = "corrupt" => i \in damaged

SessionInv == \A i \in Ids : SessionOf(i)

\* No session and no worker outside the serving process; recovery works on a
\* snapshot that nobody changes.
ProcessInv ==
  /\ wpc = "off" <=> proc \notin Serving
  /\ proc \notin Serving => \A i \in Ids : enq[i] \notin {"saved", "committed", "cleanup"}
  /\ proc = "recovering" =>
       /\ valid = Present
       /\ \A i \in Ids : rows[i].state # "working"
       /\ \A i \in todo : rows[i].state \in {"queued", "submitted"}

\* Payloads without a record.
OrphanInv ==
  /\ proc \in Serving => \A i \in payloads \ Present : enq[i] # "lost"
  /\ \A i \in orphans : rows[i].state = "absent" /\ enq[i] \notin {"idle", "saved"}

\* What the update in the worker's hands will write.
UpdateInv ==
  wpc = "final" =>
    /\ upd.state \in {"queued", "submitted"} \cup Terminal
    /\ upd.err # "corrupt"
    /\ upd.attempt = IF copy.state = "working" THEN copy.attempt + 1 ELSE copy.attempt
    /\ upd.state = "queued" => upd.attempt <= RetryAttempts
    /\ upd.state = "dead-letter" /\ upd.err = "temporary" => upd.attempt = RetryAttempts + 1
    /\ upd.state \in {"submitted", "succeeded"} => cur \in accepted
    /\ upd.state = "submitted" => upd.op
    /\ upd.state = "queued" => ~upd.op

\* A record that can still be submitted has an attempt left.
AttemptInv ==
  \A i \in Ids :
    /\ rows[i].state = "absent" => rows[i].attempt = 0
    /\ rows[i].attempt <= RetryAttempts + 1
    /\ rows[i].state \in {"queued", "working"} => rows[i].attempt <= RetryAttempts

\* A Submit call of i whose attempt is not in its row yet.
Uncharged(i) ==
  cur = i /\ (wpc = "submitting" \/ (wpc = "final" /\ copy.state = "working"))

\* Every Submit call is charged to the row, is about to be, or was lost in a fault.
ChargeOf(i) ==
  submits[i] <= rows[i].attempt + faults + (IF Uncharged(i) THEN 1 ELSE 0)

ChargeInv == \A i \in Ids : ChargeOf(i)

\* What each call of the provider has achieved.
AcceptInv ==
  /\ wpc = "submitting" /\ hit => cur \in accepted
  /\ SucceededWasAccepted

\* The conjunction that every step preserves: it makes the safety properties
\* above, which are not inductive one by one, provable for all constants.
IInv ==
  /\ TypeOK /\ SessionInv /\ ProcessInv /\ OrphanInv /\ HeldRecord /\ NoStuckWork
  /\ UpdateInv /\ AttemptInv /\ RetriesUsedUp /\ ChargeInv /\ AcceptInv
  /\ OperationMatchesState
----------------------------------------------------------------------------
(* Liveness.                                                               *)

\* The worker, the sessions and recovery are never descheduled for ever, both
\* provider calls end (they run under a timeout), time passes, main stops on the
\* worker's error, and the process is restarted when it is down.
Fairness ==
  /\ WF_vars(NextSubmittedReady) /\ WF_vars(ClaimReady) /\ WF_vars(Submit)
  /\ WF_vars(LoadCorruptPayload) /\ WF_vars(FinalizeRecord)
  /\ WF_vars(\E a \in Answers : PollReturns(a))
  /\ WF_vars(\E a \in Answers : SubmitReturns(a))
  /\ WF_vars(WorkerStops) /\ WF_vars(WorkerErrorStops) /\ WF_vars(Exit)
  /\ WF_vars(RecoverMetadata) /\ WF_vars(StartServing)
  /\ \A i \in Ids :
       /\ WF_vars(VerifyPayload(i)) /\ WF_vars(QuarantineOrphan(i))
       /\ WF_vars(Due(i)) /\ WF_vars(Age(i))
       /\ WF_vars(InsertRecord(i)) /\ WF_vars(RemovePayload(i)) /\ WF_vars(Reply250(i))

FairSpec == Spec /\ Fairness

\* Every recorded mail is settled, although a provider may answer "running" or
\* fail temporarily for ever, provided faults stop at some point.
EveryMailSettles ==
  \A i \in Ids : rows[i].state # "absent" ~> rows[i].state \in Terminal
============================================================================
