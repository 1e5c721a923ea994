---------------------------- MODULE SpoolProofs ----------------------------
(***************************************************************************)
(* The theorems about Spool, for any set of mails, any RetryAttempts and   *)
(* any MaxFaults.                                                          *)
(*                                                                         *)
(* IInv is inductive: it holds initially (InitIInv), and each *Step lemma  *)
(* shows that every action preserves one conjunct of it, with one step     *)
(* per action or group of actions that leave the conjunct's variables      *)
(* alone.  The other theorems follow from Invariance.                      *)
(***************************************************************************)
EXTENDS Spool, TLAPS

---------------------------------------------------------------------------
(* What the transitions of Records yield.                                  *)

\* Every transition of the record store yields a row that the schema allows.
LEMMA RowTypes ==
  /\ Absent \in Row /\ Queued0 \in Row
  /\ \A r \in Row :
       /\ claimReady(r) \in Row /\ requeueClaimedRecord(r) \in Row
       /\ recovered(r) \in Row /\ deadLetterCorruptRecord(r) \in Row
       /\ markDeadLetter(r, "permanent") \in Row
       /\ \A a \in Answers : afterSubmit(r, a) \in Row /\ afterPoll(r, a) \in Row
  /\ \A r \in Row : r.attempt \in Nat
BY DEF Row, row, Absent, Queued0, claimReady, requeueClaimedRecord, recovered,
       deadLetterCorruptRecord, markDeadLetter, markRetry, markSubmitted, markSucceeded,
       afterSubmit, afterPoll, submitRetryAllowed, Answers, Live, Terminal, ErrKind

\* What processQueuedOnce may write after Submit: the attempt is counted, a record goes
\* back to the queue only with a retry left, and is kept as submitted or succeeded only
\* if the provider said so.
LEMMA AfterSubmitFacts ==
  ASSUME NEW r \in Row, r.state = "working", r.attempt <= RetryAttempts, NEW a \in Answers
  PROVE  LET u == afterSubmit(r, a)
         IN /\ u.state \in {"queued", "submitted"} \cup Terminal
            /\ u.err # "corrupt"
            /\ u.attempt = r.attempt + 1
            /\ u.state = "queued" => u.attempt <= RetryAttempts
            /\ u.state = "dead-letter" /\ u.err = "temporary" => u.attempt = RetryAttempts + 1
            /\ u.state \in {"submitted", "succeeded"} => a \in {"succeeded", "running"}
            /\ u.state = "submitted" => u.op
            /\ u.state = "queued" => ~u.op
BY RetryAttemptsAssumption
DEF Row, row, afterSubmit, markRetry, markSubmitted, markSucceeded, markDeadLetter,
    submitRetryAllowed, Answers, Terminal

\* What processSubmittedOnce may write after Poll: never back to the queue, no attempt
\* counted, the operation kept while the record is submitted.
LEMMA AfterPollFacts ==
  ASSUME NEW r \in Row, r.state = "submitted", r.op, NEW a \in Answers
  PROVE  LET u == afterPoll(r, a)
         IN /\ u.state \in {"submitted"} \cup Terminal
            /\ u.err # "corrupt"
            /\ u.attempt = r.attempt
            /\ u.state = "dead-letter" => u.err = "permanent"
            /\ u.state = "submitted" => u.op
BY Zenon DEF Row, row, afterPoll, markRetry, markSucceeded, markDeadLetter, Answers, Terminal

\* The fault counter stays within its bound; the only arithmetic TypeStep needs.
LEMMA FaultType == faults \in 0..MaxFaults /\ Fault => faults' \in 0..MaxFaults
BY MaxFaultsAssumption DEF Fault

\* Every action keeps every variable in its type.
LEMMA TypeStep == IInv /\ [Next]_vars => TypeOK'
<1>. SUFFICES ASSUME IInv, [Next]_vars PROVE TypeOK'
  OBVIOUS
<1>. USE RowTypes, FaultType DEF IInv, TypeOK, EnqStates, ProcStates,
     WorkerStates, disk, worker, history, recovery
<1>1. CASE RecoverMetadata
  BY <1>1, Zenon DEF RecoverMetadata, Present
<1>2. CASE Exit
  BY <1>2, ZenonT(30) DEF Exit, Memory
<1>3. CASE Crash
  BY <1>3, ZenonT(30) DEF Crash, Memory
<1>4. CASE NextSubmittedReady
  BY <1>4 DEF NextSubmittedReady, Hold, DueIn
<1>5. CASE ClaimReady
  BY <1>5 DEF ClaimReady, Hold, DueIn
<1>6. CASE Submit
  BY <1>6 DEF Submit, HeldRecord
<1>7. CASE LoadCorruptPayload
  BY <1>7, ZenonT(30) DEF LoadCorruptPayload, updateRecord, Release
<1>8. CASE LoadFails
  BY <1>8, Zenon DEF LoadFails, updateRecord, Release
<1>9. CASE FindFails
  BY <1>9 DEF FindFails, DueIn
<1>10. CASE FinalizeRecord
  BY <1>10, ZenonT(30) DEF FinalizeRecord, WriteUpdate, updateRecord, Release
<1>11. CASE FinalizeRecordFails
  <2>1. rows' \in [Ids -> Row]
    BY <1>11, ZenonT(60) DEF FinalizeRecordFails, WriteUpdate, updateRecord
  <2>2. due' \in [Ids -> BOOLEAN] /\ aged' \in [Ids -> BOOLEAN]
    BY <1>11, ZenonT(30) DEF FinalizeRecordFails, WriteUpdate
  <2>. QED
    BY <1>11, <2>1, <2>2, Zenon DEF FinalizeRecordFails, Release
<1>12. ASSUME NEW i \in Ids, VerifyPayload(i) PROVE TypeOK'
  BY <1>12, Zenon DEF VerifyPayload, updateRecord
<1>13. ASSUME NEW i \in Ids, DamagePayload(i) PROVE TypeOK'
  BY <1>13, Zenon DEF DamagePayload
<1>14. ASSUME NEW i \in Ids, Due(i) PROVE TypeOK'
  BY <1>14, Zenon DEF Due
<1>15. ASSUME NEW i \in Ids, Age(i) PROVE TypeOK'
  BY <1>15, Zenon DEF Age
<1>16. CASE StartServing \/ Shutdown \/ WorkerErrorStops \/ WorkerStops
  BY <1>16, Zenon DEF StartServing, Unreferenced, Shutdown, WorkerErrorStops, WorkerStops,
     Release
<1>17. ASSUME NEW i \in Ids,
             Save(i) \/ SaveFails(i) \/ InsertRecord(i) \/ InsertRecordFails(i) \/ RemovePayload(i)
      PROVE  TypeOK'
  BY <1>17 DEF Save, SaveFails, InsertRecord, InsertRecordFails, RemovePayload
<1>18. ASSUME NEW i \in Ids, Reply250(i) \/ QuarantineOrphan(i) PROVE TypeOK'
  BY <1>18, Zenon DEF Reply250, QuarantineOrphan, Unreferenced
<1>19. ASSUME NEW a \in Answers, PollReturns(a) \/ SubmitReturns(a) PROVE TypeOK'
  BY <1>19, ZenonT(30) DEF PollReturns, SubmitReturns
<1>20. CASE UNCHANGED vars
  BY <1>20, Zenon DEF vars
<1>. QED
  BY <1>1, <1>2, <1>3, <1>4, <1>5, <1>6, <1>7, <1>8, <1>9, <1>10, <1>11, <1>12, <1>13,
     <1>14, <1>15, <1>16, <1>17, <1>18, <1>19, <1>20, ZenonT(30)
  DEF Next, Process, Work, Environment, Enqueue

\* Every action keeps what a session knows in step with the disk: each phase of Enqueue
\* has the payload and the record it has written, a 250 both.
LEMMA SessionStep == IInv /\ [Next]_vars => SessionInv'
<1>. SUFFICES ASSUME IInv, [Next]_vars, NEW j \in Ids PROVE SessionOf(j)'
  BY Zenon DEF SessionInv
<1>. USE RowTypes DEF IInv, TypeOK, SessionInv, SessionOf, Serving, disk, worker, history,
     recovery
<1>1. ASSUME NEW i \in Ids, Save(i) PROVE SessionOf(j)'
  BY <1>1, Zenon DEF Save
<1>2. ASSUME NEW i \in Ids, SaveFails(i) PROVE SessionOf(j)'
  BY <1>2, Zenon DEF SaveFails, Fault
<1>3. ASSUME NEW i \in Ids, InsertRecord(i) PROVE SessionOf(j)'
  BY <1>3, Zenon DEF InsertRecord, row, Absent, Queued0
<1>4. ASSUME NEW i \in Ids, InsertRecordFails(i) PROVE SessionOf(j)'
  BY <1>4, Zenon DEF InsertRecordFails, Fault, row, Absent, Queued0
<1>5. ASSUME NEW i \in Ids, RemovePayload(i) PROVE SessionOf(j)'
  BY <1>5, Zenon DEF RemovePayload
<1>6. ASSUME NEW i \in Ids, Reply250(i) PROVE SessionOf(j)'
  BY <1>6, Zenon DEF Reply250
<1>7. CASE RecoverMetadata
  BY <1>7, Zenon DEF RecoverMetadata, Present, row, recovered
<1>8. ASSUME NEW i \in Ids, VerifyPayload(i) PROVE SessionOf(j)'
  BY <1>8, Zenon DEF VerifyPayload, updateRecord, row, deadLetterCorruptRecord, ProcessInv
<1>9. ASSUME NEW i \in Ids, QuarantineOrphan(i) PROVE SessionOf(j)'
  BY <1>9, Zenon DEF QuarantineOrphan, Unreferenced, ProcessInv, Present
<1>10. CASE Exit
  BY <1>10, Zenon DEF Exit, Memory
<1>11. CASE Crash
  BY <1>11, Zenon DEF Crash, Memory, Fault
<1>12. CASE ClaimReady
  BY <1>12 DEF ClaimReady, Hold, DueIn, row, claimReady
<1>13. CASE LoadCorruptPayload
  BY <1>13, Zenon DEF LoadCorruptPayload, updateRecord, Release, row, deadLetterCorruptRecord,
     HeldRecord
<1>14. CASE LoadFails
  BY <1>14 DEF LoadFails, updateRecord, Release, Fault, row, deadLetterCorruptRecord,
     requeueClaimedRecord, HeldRecord
<1>15. CASE FindFails
  BY <1>15 DEF FindFails, DueIn, Fault, row, claimReady
<1>16. CASE FinalizeRecord
  BY <1>16, Zenon DEF FinalizeRecord, WriteUpdate, updateRecord, Release, HeldRecord, UpdateInv,
     Terminal
<1>17. CASE FinalizeRecordFails
  BY <1>17, ZenonT(60) DEF FinalizeRecordFails, WriteUpdate, updateRecord, Release, Fault, HeldRecord,
     UpdateInv, Terminal
<1>18. ASSUME NEW i \in Ids, DamagePayload(i) PROVE SessionOf(j)'
  BY <1>18, SMTT(30) DEF DamagePayload, Fault, Live, row, Absent
<1>19. CASE StartServing \/ Shutdown \/ WorkerErrorStops \/ NextSubmittedReady \/ Submit
  BY <1>19, Zenon DEF StartServing, Unreferenced, Shutdown, Fault, WorkerErrorStops,
     NextSubmittedReady, Hold, DueIn, Submit
<1>20. CASE WorkerStops
  BY <1>20, Zenon DEF WorkerStops, Release
<1>21. ASSUME NEW i \in Ids, Due(i) \/ Age(i) PROVE SessionOf(j)'
  BY <1>21, Zenon DEF Due, Age
<1>22. ASSUME NEW a \in Answers, PollReturns(a) \/ SubmitReturns(a) PROVE SessionOf(j)'
  BY <1>22, Zenon DEF PollReturns, SubmitReturns
<1>23. CASE UNCHANGED vars
  BY <1>23, Zenon DEF vars
<1>. QED
  BY <1>1, <1>2, <1>3, <1>4, <1>5, <1>6, <1>7, <1>8, <1>9, <1>10, <1>11, <1>12, <1>13,
     <1>14, <1>15, <1>16, <1>17, <1>18, <1>19, <1>20, <1>21, <1>22, <1>23, ZenonT(30)
  DEF Next, Process, Work, Environment, Enqueue

\* Every action keeps recovery alone: while Recover runs no session and no worker does.
LEMMA ProcessStep == IInv /\ [Next]_vars => ProcessInv'
<1>. SUFFICES ASSUME IInv, [Next]_vars PROVE ProcessInv'
  OBVIOUS
<1>. USE RowTypes DEF IInv, TypeOK, ProcessInv, Serving, Present, disk, worker, history,
     recovery
<1>1. CASE RecoverMetadata
  BY <1>1, Zenon DEF RecoverMetadata, row, recovered
<1>2. ASSUME NEW i \in Ids, VerifyPayload(i) PROVE ProcessInv'
  BY <1>2, Zenon DEF VerifyPayload, updateRecord, row, deadLetterCorruptRecord
<1>3. CASE StartServing
  BY <1>3, Zenon DEF StartServing, Unreferenced
<1>4. CASE Exit \/ Crash
  BY <1>4, Zenon DEF Exit, Memory, Crash, Fault
<1>5. CASE ClaimReady
  BY <1>5, Zenon DEF ClaimReady, Hold, DueIn, row, claimReady
<1>6. CASE LoadCorruptPayload
  BY <1>6, Zenon DEF LoadCorruptPayload, updateRecord, Release, row, deadLetterCorruptRecord,
     HeldRecord
<1>7. CASE LoadFails
  BY <1>7, Zenon DEF LoadFails, updateRecord, Release, Fault, row, deadLetterCorruptRecord,
     requeueClaimedRecord, HeldRecord
<1>8. CASE FindFails
  BY <1>8, Zenon DEF FindFails, DueIn, Fault, row, claimReady
<1>9. CASE FinalizeRecord
  BY <1>9, Zenon DEF FinalizeRecord, WriteUpdate, updateRecord, Release, HeldRecord, UpdateInv,
     Terminal
<1>10. CASE FinalizeRecordFails
  BY <1>10, Zenon DEF FinalizeRecordFails, WriteUpdate, updateRecord, Release, Fault, HeldRecord,
     UpdateInv, Terminal
<1>11. ASSUME NEW i \in Ids, InsertRecord(i) PROVE ProcessInv'
  BY <1>11, Zenon DEF InsertRecord, row, Absent, Queued0
<1>12. ASSUME NEW i \in Ids, InsertRecordFails(i) PROVE ProcessInv'
  BY <1>12, SMTT(30) DEF InsertRecordFails, Fault, row, Absent, Queued0
<1>13. CASE Shutdown \/ WorkerErrorStops \/ NextSubmittedReady \/ Submit \/ WorkerStops
  BY <1>13, ZenonT(90) DEF Shutdown, Fault, WorkerErrorStops, NextSubmittedReady, Hold, DueIn, Submit,
     WorkerStops, Release
<1>14. ASSUME NEW i \in Ids,
             Save(i) \/ SaveFails(i) \/ RemovePayload(i) \/ Reply250(i) \/ QuarantineOrphan(i)
      PROVE  ProcessInv'
  BY <1>14, Zenon DEF Save, SaveFails, Fault, RemovePayload, Reply250, QuarantineOrphan,
     Unreferenced
<1>15. ASSUME NEW i \in Ids, Due(i) \/ Age(i) \/ DamagePayload(i) PROVE ProcessInv'
  BY <1>15, Zenon DEF Due, Age, DamagePayload, Fault
<1>16. ASSUME NEW a \in Answers, PollReturns(a) \/ SubmitReturns(a) PROVE ProcessInv'
  BY <1>16, Zenon DEF PollReturns, SubmitReturns
<1>17. CASE UNCHANGED vars
  BY <1>17, Zenon DEF vars
<1>. QED
  BY <1>1, <1>2, <1>3, <1>4, <1>5, <1>6, <1>7, <1>8, <1>9, <1>10, <1>11, <1>12, <1>13,
     <1>14, <1>15, <1>16, <1>17, ZenonT(30)
  DEF Next, Process, Work, Environment, Enqueue

\* Every action keeps the snapshot of QuarantineOrphans right: it names every id with a
\* record, and payloads without one are left only before the listeners open.
LEMMA OrphanStep == IInv /\ [Next]_vars => OrphanInv'
<1>. SUFFICES ASSUME IInv, [Next]_vars PROVE OrphanInv'
  OBVIOUS
<1>. USE RowTypes DEF IInv, TypeOK, OrphanInv, ProcessInv, Serving, Present, disk, worker,
     history, recovery
<1>1. ASSUME NEW i \in Ids, Save(i) \/ SaveFails(i) PROVE OrphanInv'
  BY <1>1, ZenonT(60) DEF Save, SaveFails, Fault, SessionInv, SessionOf
<1>2. ASSUME NEW i \in Ids, InsertRecord(i) PROVE OrphanInv'
  BY <1>2, Zenon DEF InsertRecord, row, Absent, Queued0, SessionInv, SessionOf
<1>3. ASSUME NEW i \in Ids, InsertRecordFails(i) PROVE OrphanInv'
  BY <1>3, Zenon DEF InsertRecordFails, Fault, row, Absent, Queued0, SessionInv, SessionOf
<1>4. ASSUME NEW i \in Ids, RemovePayload(i) PROVE OrphanInv'
  BY <1>4, Zenon DEF RemovePayload
<1>5. CASE RecoverMetadata
  BY <1>5, Zenon DEF RecoverMetadata, row, recovered
<1>6. ASSUME NEW i \in Ids, VerifyPayload(i) PROVE OrphanInv'
  BY <1>6, Zenon DEF VerifyPayload, updateRecord, row, deadLetterCorruptRecord
<1>7. CASE ClaimReady
  <2>1. \/ rows' = rows
        \/ \E k \in Ids : /\ rows[k].state = "queued"
                          /\ rows' = [rows EXCEPT ![k] = claimReady(rows[k])]
    BY <1>7, Zenon DEF ClaimReady, DueIn
  <2>2. \A j \in Ids : rows'[j].state = "absent" <=> rows[j].state = "absent"
    BY <2>1 DEF row, claimReady
  <2>. QED
    BY <1>7, <2>2, Zenon DEF ClaimReady
<1>8. CASE LoadCorruptPayload
  BY <1>8, Zenon DEF LoadCorruptPayload, updateRecord, Release, row, deadLetterCorruptRecord,
     HeldRecord
<1>9. CASE LoadFails
  <2>1. \A j \in Ids : rows'[j].state = "absent" <=> rows[j].state = "absent"
    BY <1>9 DEF LoadFails, HeldRecord, updateRecord, row, deadLetterCorruptRecord,
       requeueClaimedRecord
  <2>. QED
    BY <1>9, <2>1, Zenon DEF LoadFails
<1>10. CASE FindFails
  BY <1>10 DEF FindFails, DueIn, Fault, row, claimReady
<1>11. ASSUME NEW i \in Ids, QuarantineOrphan(i) PROVE OrphanInv'
  BY <1>11, Zenon DEF QuarantineOrphan, Unreferenced, SessionInv, SessionOf
<1>12. CASE StartServing
  BY <1>12, Zenon DEF StartServing, Unreferenced
<1>13. CASE Exit \/ Crash
  BY <1>13, Zenon DEF Exit, Memory, Crash, Fault
<1>14. CASE FinalizeRecord
  BY <1>14, Zenon DEF FinalizeRecord, WriteUpdate, updateRecord, Release, HeldRecord, UpdateInv,
     Terminal
<1>15. CASE FinalizeRecordFails
  BY <1>15 DEF FinalizeRecordFails, WriteUpdate, updateRecord, Release, Fault, HeldRecord,
     UpdateInv, Terminal
<1>16. ASSUME NEW i \in Ids, DamagePayload(i) PROVE OrphanInv'
  BY <1>16, SMTT(30) DEF DamagePayload, Fault
<1>17. CASE Shutdown \/ WorkerErrorStops \/ NextSubmittedReady \/ Submit \/ WorkerStops
  BY <1>17, Zenon DEF Shutdown, Fault, WorkerErrorStops, NextSubmittedReady, Hold, DueIn, Submit,
     WorkerStops, Release
<1>18. ASSUME NEW i \in Ids, Reply250(i) \/ Due(i) \/ Age(i) PROVE OrphanInv'
  BY <1>18 DEF Reply250, Due, Age
<1>19. ASSUME NEW a \in Answers, PollReturns(a) \/ SubmitReturns(a) PROVE OrphanInv'
  BY <1>19, Zenon DEF PollReturns, SubmitReturns
<1>20. CASE UNCHANGED vars
  BY <1>20, Zenon DEF vars
<1>. QED
  BY <1>1, <1>2, <1>3, <1>4, <1>5, <1>6, <1>7, <1>8, <1>9, <1>10, <1>11, <1>12, <1>13,
     <1>14, <1>15, <1>16, <1>17, <1>18, <1>19, <1>20, ZenonT(30)
  DEF Next, Process, Work, Environment, Enqueue

---------------------------------------------------------------------------
(* The record in the hands of the worker, and the provider: retries,       *)
(* acceptance, submissions and operations.                                 *)

\* Every action keeps the worker's copy equal to the row it will overwrite.
LEMMA HeldStep == IInv /\ [Next]_vars => HeldRecord'
<1>. SUFFICES ASSUME IInv, [Next]_vars PROVE HeldRecord'
  OBVIOUS
<1>. USE RowTypes DEF IInv, TypeOK, HeldRecord, ProcessInv, Serving, disk, worker, history,
     recovery
<1>1. ASSUME NEW i \in Ids, InsertRecord(i) PROVE HeldRecord'
  BY <1>1, Zenon DEF InsertRecord, row, Absent, Queued0, SessionInv, SessionOf
<1>2. ASSUME NEW i \in Ids, InsertRecordFails(i) PROVE HeldRecord'
  BY <1>2, Zenon DEF InsertRecordFails, Fault, row, Absent, Queued0, SessionInv, SessionOf
<1>3. CASE RecoverMetadata
  BY <1>3, Zenon DEF RecoverMetadata, Present, row, recovered
<1>4. ASSUME NEW i \in Ids, VerifyPayload(i) PROVE HeldRecord'
  BY <1>4, Zenon DEF VerifyPayload, updateRecord, row, deadLetterCorruptRecord
<1>5. CASE ClaimReady
  BY <1>5 DEF ClaimReady, Hold, DueIn, row, claimReady
<1>6. CASE LoadCorruptPayload
  BY <1>6, Zenon DEF LoadCorruptPayload, updateRecord, Release, row, deadLetterCorruptRecord
<1>7. CASE LoadFails
  BY <1>7, Zenon DEF LoadFails, updateRecord, Release, Fault, row, deadLetterCorruptRecord,
     requeueClaimedRecord
<1>8. CASE FindFails
  BY <1>8, Zenon DEF FindFails, DueIn, Fault, row, claimReady
<1>9. CASE FinalizeRecord
  BY <1>9, Zenon DEF FinalizeRecord, WriteUpdate, updateRecord, Release
<1>10. CASE FinalizeRecordFails
  BY <1>10, Zenon DEF FinalizeRecordFails, WriteUpdate, updateRecord, Release, Fault
<1>11. CASE NextSubmittedReady
  BY <1>11, Zenon DEF NextSubmittedReady, Hold, DueIn
<1>12. CASE StartServing \/ Shutdown \/ WorkerErrorStops \/ Exit \/ Crash
  BY <1>12, Zenon DEF StartServing, Unreferenced, Shutdown, Fault, WorkerErrorStops, Exit, Memory,
     Crash
<1>13. CASE Submit \/ WorkerStops
  BY <1>13, Zenon DEF Submit, WorkerStops, Release
<1>14. ASSUME NEW i \in Ids,
             Save(i) \/ SaveFails(i) \/ RemovePayload(i) \/ Reply250(i) \/ QuarantineOrphan(i)
      PROVE  HeldRecord'
  BY <1>14, Zenon DEF Save, SaveFails, Fault, RemovePayload, Reply250, QuarantineOrphan,
     Unreferenced
<1>15. ASSUME NEW i \in Ids, Due(i) \/ Age(i) \/ DamagePayload(i) PROVE HeldRecord'
  BY <1>15, Zenon DEF Due, Age, DamagePayload, Fault
<1>16. ASSUME NEW a \in Answers, PollReturns(a) \/ SubmitReturns(a) PROVE HeldRecord'
  BY <1>16, Zenon DEF PollReturns, SubmitReturns
<1>17. CASE UNCHANGED vars
  BY <1>17, Zenon DEF vars
<1>. QED
  BY <1>1, <1>2, <1>3, <1>4, <1>5, <1>6, <1>7, <1>8, <1>9, <1>10, <1>11, <1>12, <1>13,
     <1>14, <1>15, <1>16, <1>17, ZenonT(30)
  DEF Next, Process, Work, Environment, Enqueue

\* Every action keeps each working record in the hands of the worker or of recovery.
LEMMA WorkStep == IInv /\ [Next]_vars => NoStuckWork'
<1>. SUFFICES ASSUME IInv, [Next]_vars PROVE NoStuckWork'
  OBVIOUS
<1>. USE RowTypes DEF IInv, TypeOK, NoStuckWork, WorkerLive, HeldRecord, ProcessInv,
     Serving, disk, worker, history, recovery
<1>1. ASSUME NEW i \in Ids, InsertRecord(i) PROVE NoStuckWork'
  BY <1>1, Zenon DEF InsertRecord, row, Absent, Queued0, SessionInv, SessionOf
<1>2. ASSUME NEW i \in Ids, InsertRecordFails(i) PROVE NoStuckWork'
  BY <1>2 DEF InsertRecordFails, Fault, row, Absent, Queued0, SessionInv, SessionOf
<1>3. CASE RecoverMetadata
  BY <1>3, Zenon DEF RecoverMetadata, Present, row, recovered
<1>4. ASSUME NEW i \in Ids, VerifyPayload(i) PROVE NoStuckWork'
  BY <1>4, Zenon DEF VerifyPayload, updateRecord, row, deadLetterCorruptRecord
<1>5. CASE ClaimReady
  BY <1>5, ZenonT(60) DEF ClaimReady, Hold, DueIn, row, claimReady
<1>6. CASE LoadCorruptPayload
  BY <1>6, Zenon DEF LoadCorruptPayload, updateRecord, Release, row, deadLetterCorruptRecord
<1>7. CASE LoadFails
  BY <1>7, Zenon DEF LoadFails, updateRecord, Release, Fault, row, deadLetterCorruptRecord,
     requeueClaimedRecord
<1>8. CASE FindFails
  BY <1>8, Zenon DEF FindFails, DueIn, Fault, row, claimReady
<1>9. CASE FinalizeRecord
  BY <1>9, Zenon DEF FinalizeRecord, WriteUpdate, updateRecord, Release, UpdateInv, Terminal
<1>10. CASE FinalizeRecordFails
  BY <1>10, Zenon DEF FinalizeRecordFails, WriteUpdate, updateRecord, Release, Fault, UpdateInv,
     Terminal
<1>11. CASE StartServing \/ Shutdown \/ WorkerErrorStops \/ Exit \/ Crash
  BY <1>11, Zenon DEF StartServing, Unreferenced, Shutdown, Fault, WorkerErrorStops, Exit, Memory,
     Crash
<1>12. CASE NextSubmittedReady \/ Submit \/ WorkerStops
  BY <1>12, Zenon DEF NextSubmittedReady, Hold, DueIn, Submit, WorkerStops, Release
<1>13. ASSUME NEW i \in Ids,
             Save(i) \/ SaveFails(i) \/ RemovePayload(i) \/ Reply250(i) \/ QuarantineOrphan(i)
      PROVE  NoStuckWork'
  BY <1>13, Zenon DEF Save, SaveFails, Fault, RemovePayload, Reply250, QuarantineOrphan,
     Unreferenced
<1>14. ASSUME NEW i \in Ids, Due(i) \/ Age(i) \/ DamagePayload(i) PROVE NoStuckWork'
  BY <1>14, Zenon DEF Due, Age, DamagePayload, Fault
<1>15. ASSUME NEW a \in Answers, PollReturns(a) \/ SubmitReturns(a) PROVE NoStuckWork'
  BY <1>15, Zenon DEF PollReturns, SubmitReturns
<1>16. CASE UNCHANGED vars
  BY <1>16, Zenon DEF vars
<1>. QED
  BY <1>1, <1>2, <1>3, <1>4, <1>5, <1>6, <1>7, <1>8, <1>9, <1>10, <1>11, <1>12, <1>13,
     <1>14, <1>15, <1>16, ZenonT(30)
  DEF Next, Process, Work, Environment, Enqueue

\* Every action keeps the update that finalizeRecord is to write one that the state
\* of the record allows.
LEMMA UpdateStep == IInv /\ [Next]_vars => UpdateInv'
<1>. SUFFICES ASSUME IInv, [Next]_vars PROVE UpdateInv'
  OBVIOUS
<1>. USE RowTypes DEF IInv, TypeOK, UpdateInv, HeldRecord, Terminal, disk, worker, history,
     recovery
<1>1. CASE NextSubmittedReady
  BY <1>1 DEF NextSubmittedReady, Hold, DueIn, row, markDeadLetter, AcceptInv,
     SucceededWasAccepted
<1>2. ASSUME NEW a \in Answers, PollReturns(a) PROVE UpdateInv'
  BY <1>2, AfterPollFacts DEF PollReturns, AcceptInv, SucceededWasAccepted,
     OperationMatchesState
<1>3. ASSUME NEW a \in Answers, SubmitReturns(a) PROVE UpdateInv'
  BY <1>3, AfterSubmitFacts DEF SubmitReturns, AttemptInv, AcceptInv
<1>4. CASE RecoverMetadata \/ StartServing \/ Shutdown \/ WorkerErrorStops \/ Exit
  <2>1. wpc' # "final" \/ UNCHANGED <<wpc, upd, copy, cur, accepted>>
    BY <1>4, ZenonT(60) DEF RecoverMetadata, Present, StartServing, Unreferenced, Shutdown, Fault,
       WorkerErrorStops, Exit, Memory
  <2>. QED
    BY <2>1
<1>5. CASE Crash \/ ClaimReady \/ Submit \/ LoadCorruptPayload \/ LoadFails
  BY <1>5, Zenon DEF Crash, Memory, Fault, ClaimReady, Hold, DueIn, Submit, LoadCorruptPayload,
     updateRecord, Release, LoadFails
<1>6. CASE FindFails \/ FinalizeRecord \/ FinalizeRecordFails \/ WorkerStops
  BY <1>6, Zenon DEF FindFails, DueIn, Fault, FinalizeRecord, WriteUpdate, updateRecord, Release,
     FinalizeRecordFails, WorkerStops
<1>7. ASSUME NEW i \in Ids,
             Save(i) \/ SaveFails(i) \/ InsertRecord(i) \/ InsertRecordFails(i) \/ RemovePayload(i)
      PROVE  UpdateInv'
  <2>1. UNCHANGED <<wpc, upd, copy, cur, accepted>>
    BY <1>7, ZenonT(60) DEF Save, SaveFails, Fault, InsertRecord, InsertRecordFails, RemovePayload
  <2>. QED
    BY <2>1
<1>8. ASSUME NEW i \in Ids,
             Reply250(i) \/ VerifyPayload(i) \/ QuarantineOrphan(i) \/ Due(i) \/ Age(i)
      PROVE  UpdateInv'
  <2>1. UNCHANGED <<wpc, upd, copy, cur, accepted>>
    BY <1>8, ZenonT(60) DEF Reply250, VerifyPayload, updateRecord, QuarantineOrphan, Unreferenced, Due,
       Age
  <2>. QED
    BY <2>1
<1>9. ASSUME NEW i \in Ids, DamagePayload(i) PROVE UpdateInv'
  BY <1>9, Zenon DEF DamagePayload, Fault
<1>10. CASE UNCHANGED vars
  BY <1>10, Zenon DEF vars
<1>. QED
  BY <1>1, <1>2, <1>3, <1>4, <1>5, <1>6, <1>7, <1>8, <1>9, <1>10, ZenonT(30)
  DEF Next, Process, Work, Environment, Enqueue

\* Every action keeps the attempt column within the retry budget of its state.
LEMMA AttemptStep == IInv /\ [Next]_vars => AttemptInv'
<1>. SUFFICES ASSUME IInv, [Next]_vars PROVE AttemptInv'
  OBVIOUS
<1>. USE RowTypes, RetryAttemptsAssumption DEF IInv, TypeOK, AttemptInv, HeldRecord, disk,
     worker, history, recovery
<1>1. ASSUME NEW i \in Ids, InsertRecord(i) PROVE AttemptInv'
  BY <1>1 DEF InsertRecord, row, Absent, Queued0, SessionInv, SessionOf
<1>2. ASSUME NEW i \in Ids, InsertRecordFails(i) PROVE AttemptInv'
  BY <1>2 DEF InsertRecordFails, Fault, row, Absent, Queued0, SessionInv, SessionOf
<1>3. CASE RecoverMetadata
  BY <1>3, Zenon DEF RecoverMetadata, Present, row, recovered
<1>4. ASSUME NEW i \in Ids, VerifyPayload(i) PROVE AttemptInv'
  BY <1>4, Zenon DEF VerifyPayload, updateRecord, row, deadLetterCorruptRecord
<1>5. CASE ClaimReady
  BY <1>5 DEF ClaimReady, Hold, DueIn, row, claimReady
<1>6. CASE LoadCorruptPayload
  BY <1>6, Zenon DEF LoadCorruptPayload, updateRecord, Release, row, deadLetterCorruptRecord
<1>7. CASE LoadFails
  BY <1>7 DEF LoadFails, updateRecord, Release, Fault, row, deadLetterCorruptRecord,
     requeueClaimedRecord
<1>8. CASE FindFails
  BY <1>8 DEF FindFails, DueIn, Fault, row, claimReady
<1>9. CASE FinalizeRecord
  BY <1>9 DEF FinalizeRecord, WriteUpdate, updateRecord, Release, UpdateInv, Terminal
<1>10. CASE FinalizeRecordFails
  BY <1>10 DEF FinalizeRecordFails, WriteUpdate, updateRecord, Release, Fault, UpdateInv,
     Terminal
<1>11. CASE StartServing \/ Shutdown \/ WorkerErrorStops \/ Exit \/ Crash
  BY <1>11, Zenon DEF StartServing, Unreferenced, Shutdown, Fault, WorkerErrorStops, Exit, Memory,
     Crash
<1>12. CASE NextSubmittedReady \/ Submit \/ WorkerStops
  BY <1>12, SMTT(30) DEF NextSubmittedReady, Hold, DueIn, Submit, WorkerStops, Release
<1>13. ASSUME NEW i \in Ids,
             Save(i) \/ SaveFails(i) \/ RemovePayload(i) \/ Reply250(i) \/ QuarantineOrphan(i)
      PROVE  AttemptInv'
  BY <1>13, Zenon DEF Save, SaveFails, Fault, RemovePayload, Reply250, QuarantineOrphan,
     Unreferenced
<1>14. ASSUME NEW i \in Ids, Due(i) \/ Age(i) \/ DamagePayload(i) PROVE AttemptInv'
  BY <1>14, Zenon DEF Due, Age, DamagePayload, Fault
<1>15. ASSUME NEW a \in Answers, PollReturns(a) \/ SubmitReturns(a) PROVE AttemptInv'
  BY <1>15, Zenon DEF PollReturns, SubmitReturns
<1>16. CASE UNCHANGED vars
  BY <1>16, Zenon DEF vars
<1>. QED
  BY <1>1, <1>2, <1>3, <1>4, <1>5, <1>6, <1>7, <1>8, <1>9, <1>10, <1>11, <1>12, <1>13,
     <1>14, <1>15, <1>16, ZenonT(30)
  DEF Next, Process, Work, Environment, Enqueue

\* No action dead-letters a temporary failure while a retry is left.
LEMMA RetriesStep == IInv /\ [Next]_vars => RetriesUsedUp'
<1>. SUFFICES ASSUME IInv, [Next]_vars PROVE RetriesUsedUp'
  OBVIOUS
<1>. USE RowTypes DEF IInv, TypeOK, RetriesUsedUp, HeldRecord, disk, worker, history,
     recovery
<1>1. ASSUME NEW i \in Ids, InsertRecord(i) PROVE RetriesUsedUp'
  BY <1>1, Zenon DEF InsertRecord, row, Absent, Queued0, SessionInv, SessionOf
<1>2. ASSUME NEW i \in Ids, InsertRecordFails(i) PROVE RetriesUsedUp'
  BY <1>2 DEF InsertRecordFails, Fault, row, Absent, Queued0, SessionInv, SessionOf
<1>3. CASE RecoverMetadata
  BY <1>3, Zenon DEF RecoverMetadata, Present, row, recovered
<1>4. ASSUME NEW i \in Ids, VerifyPayload(i) PROVE RetriesUsedUp'
  BY <1>4, Zenon DEF VerifyPayload, updateRecord, row, deadLetterCorruptRecord
<1>5. CASE ClaimReady
  BY <1>5 DEF ClaimReady, Hold, DueIn, row, claimReady
<1>6. CASE LoadCorruptPayload
  BY <1>6, Zenon DEF LoadCorruptPayload, updateRecord, Release, row, deadLetterCorruptRecord
<1>7. CASE LoadFails
  BY <1>7 DEF LoadFails, updateRecord, Release, Fault, row, deadLetterCorruptRecord,
     requeueClaimedRecord
<1>8. CASE FindFails
  BY <1>8 DEF FindFails, DueIn, Fault, row, claimReady
<1>9. CASE FinalizeRecord
  BY <1>9, Zenon DEF FinalizeRecord, WriteUpdate, updateRecord, Release, UpdateInv, Terminal
<1>10. CASE FinalizeRecordFails
  BY <1>10, ZenonT(60) DEF FinalizeRecordFails, WriteUpdate, updateRecord, Release, Fault, UpdateInv,
     Terminal
<1>11. CASE StartServing \/ Shutdown \/ WorkerErrorStops \/ Exit \/ Crash
  BY <1>11, Zenon DEF StartServing, Unreferenced, Shutdown, Fault, WorkerErrorStops, Exit, Memory,
     Crash
<1>12. CASE NextSubmittedReady \/ Submit \/ WorkerStops
  BY <1>12, Zenon DEF NextSubmittedReady, Hold, DueIn, Submit, WorkerStops, Release
<1>13. ASSUME NEW i \in Ids,
             Save(i) \/ SaveFails(i) \/ RemovePayload(i) \/ Reply250(i) \/ QuarantineOrphan(i)
      PROVE  RetriesUsedUp'
  BY <1>13, Zenon DEF Save, SaveFails, Fault, RemovePayload, Reply250, QuarantineOrphan,
     Unreferenced
<1>14. ASSUME NEW i \in Ids, Due(i) \/ Age(i) \/ DamagePayload(i) PROVE RetriesUsedUp'
  BY <1>14, Zenon DEF Due, Age, DamagePayload, Fault
<1>15. ASSUME NEW a \in Answers, PollReturns(a) \/ SubmitReturns(a) PROVE RetriesUsedUp'
  BY <1>15, Zenon DEF PollReturns, SubmitReturns
<1>16. CASE UNCHANGED vars
  BY <1>16, Zenon DEF vars
<1>. QED
  BY <1>1, <1>2, <1>3, <1>4, <1>5, <1>6, <1>7, <1>8, <1>9, <1>10, <1>11, <1>12, <1>13,
     <1>14, <1>15, <1>16, ZenonT(30)
  DEF Next, Process, Work, Environment, Enqueue

\* No action records as submitted or succeeded what the provider has not accepted.
LEMMA AcceptStep == IInv /\ [Next]_vars => AcceptInv'
<1>. SUFFICES ASSUME IInv, [Next]_vars PROVE AcceptInv'
  OBVIOUS
<1>. USE RowTypes DEF IInv, TypeOK, AcceptInv, SucceededWasAccepted, HeldRecord, disk,
     worker, history, recovery
<1>1. ASSUME NEW i \in Ids, InsertRecord(i) PROVE AcceptInv'
  BY <1>1, Zenon DEF InsertRecord, row, Absent, Queued0, SessionInv, SessionOf
<1>2. ASSUME NEW i \in Ids, InsertRecordFails(i) PROVE AcceptInv'
  BY <1>2 DEF InsertRecordFails, Fault, row, Absent, Queued0, SessionInv, SessionOf
<1>3. CASE RecoverMetadata
  BY <1>3, Zenon DEF RecoverMetadata, Present, row, recovered
<1>4. ASSUME NEW i \in Ids, VerifyPayload(i) PROVE AcceptInv'
  BY <1>4, Zenon DEF VerifyPayload, updateRecord, row, deadLetterCorruptRecord
<1>5. CASE ClaimReady
  BY <1>5 DEF ClaimReady, Hold, DueIn, row, claimReady
<1>6. CASE LoadCorruptPayload
  BY <1>6, Zenon DEF LoadCorruptPayload, updateRecord, Release, row, deadLetterCorruptRecord
<1>7. CASE LoadFails
  BY <1>7 DEF LoadFails, updateRecord, Release, Fault, row, deadLetterCorruptRecord,
     requeueClaimedRecord
<1>8. CASE FindFails
  BY <1>8 DEF FindFails, DueIn, Fault, row, claimReady
<1>9. CASE FinalizeRecord
  BY <1>9, Zenon DEF FinalizeRecord, WriteUpdate, updateRecord, Release, UpdateInv, Terminal
<1>10. CASE FinalizeRecordFails
  BY <1>10, ZenonT(60) DEF FinalizeRecordFails, WriteUpdate, updateRecord, Release, Fault, UpdateInv,
     Terminal
<1>11. CASE Submit
  BY <1>11, Zenon DEF Submit
<1>12. CASE StartServing \/ Shutdown \/ WorkerErrorStops \/ Exit \/ Crash
  <2>1. UNCHANGED <<accepted, rows>> /\ (wpc' = wpc \/ wpc' # "submitting")
    BY <1>12, ZenonT(60) DEF StartServing, Unreferenced, Shutdown, Fault, WorkerErrorStops, Exit,
       Memory, Crash
  <2>2. wpc' = "submitting" => UNCHANGED <<hit, cur>>
    BY <1>12, ZenonT(60) DEF StartServing, Unreferenced, Shutdown, Fault, WorkerErrorStops, Exit,
       Memory, Crash
  <2>. QED
    BY <2>1, <2>2
<1>13. CASE NextSubmittedReady \/ WorkerStops
  BY <1>13, Zenon DEF NextSubmittedReady, Hold, DueIn, WorkerStops, Release
<1>14. ASSUME NEW i \in Ids,
             Save(i) \/ SaveFails(i) \/ RemovePayload(i) \/ Reply250(i) \/ QuarantineOrphan(i)
      PROVE  AcceptInv'
  <2>1. UNCHANGED <<wpc, hit, cur, accepted, rows>>
    BY <1>14, ZenonT(60) DEF Save, SaveFails, Fault, RemovePayload, Reply250, QuarantineOrphan,
       Unreferenced
  <2>. QED
    BY <2>1
<1>15. ASSUME NEW i \in Ids, Due(i) \/ Age(i) \/ DamagePayload(i) PROVE AcceptInv'
  BY <1>15 DEF Due, Age, DamagePayload, Fault
<1>16. ASSUME NEW a \in Answers, PollReturns(a) \/ SubmitReturns(a) PROVE AcceptInv'
  BY <1>16, Zenon DEF PollReturns, SubmitReturns
<1>17. CASE UNCHANGED vars
  BY <1>17, Zenon DEF vars
<1>. QED
  BY <1>1, <1>2, <1>3, <1>4, <1>5, <1>6, <1>7, <1>8, <1>9, <1>10, <1>11, <1>12, <1>13,
     <1>14, <1>15, <1>16, <1>17, ZenonT(30)
  DEF Next, Process, Work, Environment, Enqueue

\* Every action pays for each Submit call: by the attempt column, by the call still
\* in progress, or by a fault.
LEMMA ChargeStep == IInv /\ [Next]_vars => ChargeInv'
<1>. SUFFICES ASSUME IInv, [Next]_vars, NEW j \in Ids PROVE ChargeOf(j)'
  BY Zenon DEF ChargeInv
<1>. USE RowTypes DEF IInv, TypeOK, ChargeInv, ChargeOf, Uncharged, HeldRecord, disk,
     worker, history, recovery
<1>1. ASSUME NEW i \in Ids, InsertRecord(i) PROVE ChargeOf(j)'
  BY <1>1, Zenon DEF InsertRecord, row, Absent, Queued0, SessionInv, SessionOf, AttemptInv
<1>2. ASSUME NEW i \in Ids, InsertRecordFails(i) PROVE ChargeOf(j)'
  BY <1>2 DEF InsertRecordFails, Fault, row, Absent, Queued0, SessionInv, SessionOf,
     AttemptInv
<1>3. CASE RecoverMetadata
  BY <1>3, Zenon DEF RecoverMetadata, Present, row, recovered
<1>4. ASSUME NEW i \in Ids, VerifyPayload(i) PROVE ChargeOf(j)'
  BY <1>4, Zenon DEF VerifyPayload, updateRecord, row, deadLetterCorruptRecord
<1>5. CASE ClaimReady
  BY <1>5 DEF ClaimReady, Hold, DueIn, row, claimReady
<1>6. CASE LoadCorruptPayload
  BY <1>6, Zenon DEF LoadCorruptPayload, updateRecord, Release, row, deadLetterCorruptRecord
<1>7. CASE LoadFails
  BY <1>7 DEF LoadFails, updateRecord, Release, Fault, row, deadLetterCorruptRecord,
     requeueClaimedRecord
<1>8. CASE FindFails
  BY <1>8 DEF FindFails, DueIn, Fault, row, claimReady
<1>9. CASE FinalizeRecord
  BY <1>9 DEF FinalizeRecord, WriteUpdate, updateRecord, Release, UpdateInv, Terminal
<1>10. CASE FinalizeRecordFails
  BY <1>10 DEF FinalizeRecordFails, WriteUpdate, updateRecord, Release, Fault, UpdateInv,
     Terminal
<1>11. CASE Submit
  BY <1>11 DEF Submit
<1>12. CASE Exit
  BY <1>12, Zenon DEF Exit, Memory
<1>13. CASE Crash
  BY <1>13 DEF Crash, Memory, Fault
<1>14. CASE Shutdown
  BY <1>14 DEF Shutdown, Fault
<1>15. CASE StartServing
  BY <1>15, Zenon DEF StartServing, Unreferenced, ProcessInv, Serving
<1>16. CASE WorkerErrorStops
  BY <1>16, Zenon DEF WorkerErrorStops
<1>17. CASE WorkerStops
  BY <1>17, Zenon DEF WorkerStops, Release
<1>18. CASE NextSubmittedReady
  BY <1>18, Zenon DEF NextSubmittedReady, Hold, DueIn
<1>19. ASSUME NEW a \in Answers, SubmitReturns(a) PROVE ChargeOf(j)'
  BY <1>19, Zenon DEF SubmitReturns
<1>20. ASSUME NEW i \in Ids,
             Save(i) \/ SaveFails(i) \/ RemovePayload(i) \/ Reply250(i) \/ QuarantineOrphan(i)
      PROVE  ChargeOf(j)'
  <2>1. UNCHANGED <<wpc, cur, copy, upd, rows, submits>> /\ faults' \in {faults, faults + 1}
    BY <1>20, ZenonT(60) DEF Save, SaveFails, Fault, RemovePayload, Reply250, QuarantineOrphan,
       Unreferenced
  <2>. QED
    BY <2>1
<1>21. ASSUME NEW i \in Ids, Due(i) \/ Age(i) \/ DamagePayload(i) PROVE ChargeOf(j)'
  BY <1>21 DEF Due, Age, DamagePayload, Fault
<1>22. ASSUME NEW a \in Answers, PollReturns(a) PROVE ChargeOf(j)'
  BY <1>22, Zenon DEF PollReturns
<1>23. CASE UNCHANGED vars
  BY <1>23, Zenon DEF vars
<1>. QED
  BY <1>1, <1>2, <1>3, <1>4, <1>5, <1>6, <1>7, <1>8, <1>9, <1>10, <1>11, <1>12, <1>13,
     <1>14, <1>15, <1>16, <1>17, <1>18, <1>19, <1>20, <1>21, <1>22, <1>23, ZenonT(30)
  DEF Next, Process, Work, Environment, Enqueue

\* Every action keeps the operation columns in step with the state column.
LEMMA OperationStep == IInv /\ [Next]_vars => OperationMatchesState'
<1>. SUFFICES ASSUME IInv, [Next]_vars PROVE OperationMatchesState'
  OBVIOUS
<1>. USE RowTypes DEF IInv, TypeOK, OperationMatchesState, HeldRecord, disk, worker,
     history, recovery
<1>1. ASSUME NEW i \in Ids, InsertRecord(i) PROVE OperationMatchesState'
  BY <1>1, Zenon DEF InsertRecord, row, Absent, Queued0, SessionInv, SessionOf
<1>2. ASSUME NEW i \in Ids, InsertRecordFails(i) PROVE OperationMatchesState'
  BY <1>2 DEF InsertRecordFails, Fault, row, Absent, Queued0, SessionInv, SessionOf
<1>3. CASE RecoverMetadata
  BY <1>3, Zenon DEF RecoverMetadata, Present, row, recovered
<1>4. ASSUME NEW i \in Ids, VerifyPayload(i) PROVE OperationMatchesState'
  BY <1>4, Zenon DEF VerifyPayload, updateRecord, row, deadLetterCorruptRecord
<1>5. CASE ClaimReady
  BY <1>5 DEF ClaimReady, Hold, DueIn, row, claimReady
<1>6. CASE LoadCorruptPayload
  BY <1>6, Zenon DEF LoadCorruptPayload, updateRecord, Release, row, deadLetterCorruptRecord
<1>7. CASE LoadFails
  BY <1>7 DEF LoadFails, updateRecord, Release, Fault, row, deadLetterCorruptRecord,
     requeueClaimedRecord
<1>8. CASE FindFails
  BY <1>8 DEF FindFails, DueIn, Fault, row, claimReady
<1>9. CASE FinalizeRecord
  BY <1>9, Zenon DEF FinalizeRecord, WriteUpdate, updateRecord, Release, UpdateInv, Terminal
<1>10. CASE FinalizeRecordFails
  BY <1>10, ZenonT(60) DEF FinalizeRecordFails, WriteUpdate, updateRecord, Release, Fault, UpdateInv,
     Terminal
<1>11. CASE StartServing \/ Shutdown \/ WorkerErrorStops \/ Exit \/ Crash
  BY <1>11, Zenon DEF StartServing, Unreferenced, Shutdown, Fault, WorkerErrorStops, Exit, Memory,
     Crash
<1>12. CASE NextSubmittedReady \/ Submit \/ WorkerStops
  BY <1>12, ZenonT(90) DEF NextSubmittedReady, Hold, DueIn, Submit, WorkerStops, Release
<1>13. ASSUME NEW i \in Ids,
             Save(i) \/ SaveFails(i) \/ RemovePayload(i) \/ Reply250(i) \/ QuarantineOrphan(i)
      PROVE  OperationMatchesState'
  BY <1>13, Zenon DEF Save, SaveFails, Fault, RemovePayload, Reply250, QuarantineOrphan,
     Unreferenced
<1>14. ASSUME NEW i \in Ids, Due(i) \/ Age(i) \/ DamagePayload(i) PROVE OperationMatchesState'
  BY <1>14, Zenon DEF Due, Age, DamagePayload, Fault
<1>15. ASSUME NEW a \in Answers, PollReturns(a) \/ SubmitReturns(a) PROVE OperationMatchesState'
  BY <1>15, Zenon DEF PollReturns, SubmitReturns
<1>16. CASE UNCHANGED vars
  BY <1>16, Zenon DEF vars
<1>. QED
  BY <1>1, <1>2, <1>3, <1>4, <1>5, <1>6, <1>7, <1>8, <1>9, <1>10, <1>11, <1>12, <1>13,
     <1>14, <1>15, <1>16, ZenonT(30)
  DEF Next, Process, Work, Environment, Enqueue

---------------------------------------------------------------------------
(* The theorems.                                                           *)

\* An empty spool satisfies the invariant.
LEMMA InitIInv == Init => IInv
<1>. SUFFICES ASSUME Init PROVE IInv
  OBVIOUS
<1>1. TypeOK
  <2>1. rows \in [Ids -> Row] /\ copy \in Row /\ upd \in Row
    BY RowTypes, Zenon DEF Init
  <2>2. due \in [Ids -> BOOLEAN] /\ aged \in [Ids -> BOOLEAN] /\ hit \in BOOLEAN
    BY ZenonT(30) DEF Init
  <2>3. faults \in 0..MaxFaults /\ submits \in [Ids -> Nat]
    BY MaxFaultsAssumption DEF Init
  <2>. QED
    BY <2>1, <2>2, <2>3, Zenon DEF Init, TypeOK, EnqStates, ProcStates, WorkerStates
<1>2. SessionInv /\ ProcessInv /\ OrphanInv
  BY Zenon DEF Init, SessionInv, SessionOf, ProcessInv, OrphanInv, Serving, Absent, row
<1>3. HeldRecord /\ NoStuckWork /\ UpdateInv /\ RetriesUsedUp /\ AcceptInv
      /\ OperationMatchesState
  BY Zenon DEF Init, HeldRecord, NoStuckWork, WorkerLive, UpdateInv, RetriesUsedUp, AcceptInv,
         SucceededWasAccepted, OperationMatchesState, Absent, row
<1>4. AttemptInv /\ ChargeInv
  BY RetryAttemptsAssumption
  DEF Init, AttemptInv, ChargeInv, ChargeOf, Uncharged, Absent, row
<1>. QED
  BY <1>1, <1>2, <1>3, <1>4, Zenon DEF IInv

\* The inductive invariant holds in every reachable state of the spool, for any
\* set of mails, any retry budget and any number of faults.
THEOREM Invariance == Spec => []IInv
<1>1. IInv /\ [Next]_vars => IInv'
  <2>. SUFFICES ASSUME IInv, [Next]_vars PROVE IInv'
    OBVIOUS
  <2>. QED
    BY TypeStep, SessionStep, ProcessStep, OrphanStep, HeldStep, WorkStep, UpdateStep,
       AttemptStep, RetriesStep, ChargeStep, AcceptStep, OperationStep, Zenon
    DEF IInv
<1>. QED
  BY InitIInv, <1>1, PTL DEF Spec

\* Every variable keeps its type: rows hold one of the five states the schema's
\* CHECK allows, or do not exist.
THEOREM TypeCorrect == Spec => []TypeOK
<1>1. IInv => TypeOK
  BY Zenon DEF IInv
<1>. QED
  BY Invariance, <1>1, PTL

\* Enqueue's promise: a mail answered with 250 keeps its record and its payload
\* through every crash, recovery and failed write of the relay.
THEOREM Durability == Spec => []NoFalseSuccess
<1>1. IInv => NoFalseSuccess
  BY Zenon DEF IInv, SessionInv, SessionOf, NoFalseSuccess, Acked
<1>. QED
  BY Invariance, <1>1, PTL

\* updateRecord never overwrites a change it has not seen, and no record is left
\* in `working` while the worker's loop runs.
THEOREM Ownership == Spec => [](HeldRecord /\ NoStuckWork)
<1>1. IInv => HeldRecord /\ NoStuckWork
  BY Zenon DEF IInv
<1>. QED
  BY Invariance, <1>1, PTL

\* A record is marked submitted or succeeded only for mail the provider accepted.
THEOREM Acceptance == Spec => []SucceededWasAccepted
<1>1. IInv => SucceededWasAccepted
  BY Zenon DEF IInv, AcceptInv
<1>. QED
  BY Invariance, <1>1, PTL

\* The provider sees a mail at most RetryAttempts + 1 times, plus once per fault.
THEOREM BoundedSubmission == Spec => []SubmitBudget
<1>1. ASSUME IInv, NEW i \in Ids PROVE submits[i] <= RetryAttempts + 1 + faults
  <2>1. /\ submits[i] \in Nat /\ faults \in Nat /\ rows[i].attempt \in Nat
        /\ submits[i] <= rows[i].attempt + faults + (IF Uncharged(i) THEN 1 ELSE 0)
        /\ rows[i].attempt <= RetryAttempts + 1
    BY <1>1, RowTypes, MaxFaultsAssumption
    DEF IInv, TypeOK, ChargeInv, ChargeOf, AttemptInv
  <2>2. Uncharged(i) => rows[i].attempt <= RetryAttempts
    BY <1>1, Zenon DEF IInv, Uncharged, HeldRecord, AttemptInv
  <2>. QED
    BY <2>1, <2>2, RetryAttemptsAssumption
<1>2. IInv => SubmitBudget
  BY <1>1, Zenon DEF SubmitBudget
<1>. QED
  BY Invariance, <1>2, PTL

\* A mail whose last failure was temporary is dead-lettered only after its last
\* retry.
THEOREM RetryHonoured == Spec => []RetriesUsedUp
<1>1. IInv => RetriesUsedUp
  BY Zenon DEF IInv
<1>. QED
  BY Invariance, <1>1, PTL

\* A submitted record can be polled, and a resubmission starts without the
\* operation of an earlier attempt.
THEOREM Pollable == Spec => []OperationMatchesState
<1>1. IInv => OperationMatchesState
  BY Zenon DEF IInv
<1>. QED
  BY Invariance, <1>1, PTL

\* QuarantineOrphans finishes before the listeners open, and takes no payload that
\* has a record.
THEOREM OrphanSafety == Spec => []OrphansSetAside
<1>1. IInv => OrphansSetAside
  BY Zenon DEF IInv, TypeOK, OrphanInv, OrphansSetAside, Present
<1>. QED
  BY Invariance, <1>1, PTL

\* No action writes to a row in a terminal state.
LEMMA FinalStep ==
  IInv /\ [Next]_vars => \A j \in Ids : rows[j].state \in Terminal => rows'[j] = rows[j]
<1>. SUFFICES ASSUME IInv, [Next]_vars, NEW j \in Ids, rows[j].state \in Terminal
              PROVE  rows'[j] = rows[j]
  OBVIOUS
<1>. USE RowTypes DEF IInv, TypeOK, HeldRecord, Terminal, disk, worker, history, recovery
<1>1. ASSUME NEW i \in Ids, InsertRecord(i) PROVE rows'[j] = rows[j]
  BY <1>1, Zenon DEF InsertRecord, row, Absent, Queued0, SessionInv, SessionOf
<1>2. ASSUME NEW i \in Ids, InsertRecordFails(i) PROVE rows'[j] = rows[j]
  BY <1>2, Zenon DEF InsertRecordFails, Fault, row, Absent, Queued0, SessionInv, SessionOf
<1>3. CASE RecoverMetadata
  BY <1>3, Zenon DEF RecoverMetadata, Present, row, recovered
<1>4. ASSUME NEW i \in Ids, VerifyPayload(i) PROVE rows'[j] = rows[j]
  BY <1>4, Zenon DEF VerifyPayload, updateRecord, row, deadLetterCorruptRecord, ProcessInv
<1>5. CASE ClaimReady
  BY <1>5, Zenon DEF ClaimReady, Hold, DueIn, row, claimReady
<1>6. CASE LoadCorruptPayload
  BY <1>6, Zenon DEF LoadCorruptPayload, updateRecord, Release, row, deadLetterCorruptRecord
<1>7. CASE LoadFails
  BY <1>7, Zenon DEF LoadFails, updateRecord, Release, Fault, row, deadLetterCorruptRecord,
     requeueClaimedRecord
<1>8. CASE FindFails
  BY <1>8, Zenon DEF FindFails, DueIn, Fault, row, claimReady
<1>9. CASE FinalizeRecord
  BY <1>9, Zenon DEF FinalizeRecord, WriteUpdate, updateRecord, Release
<1>10. CASE FinalizeRecordFails
  BY <1>10, Zenon DEF FinalizeRecordFails, WriteUpdate, updateRecord, Release, Fault
<1>11. CASE StartServing \/ Shutdown \/ WorkerErrorStops \/ Exit \/ Crash
  BY <1>11, Zenon DEF StartServing, Unreferenced, Shutdown, Fault, WorkerErrorStops, Exit, Memory,
     Crash
<1>12. CASE NextSubmittedReady \/ Submit \/ WorkerStops
  BY <1>12, Zenon DEF NextSubmittedReady, Hold, DueIn, Submit, WorkerStops, Release
<1>13. ASSUME NEW i \in Ids,
             Save(i) \/ SaveFails(i) \/ RemovePayload(i) \/ Reply250(i) \/ QuarantineOrphan(i)
      PROVE  rows'[j] = rows[j]
  BY <1>13, Zenon DEF Save, SaveFails, Fault, RemovePayload, Reply250, QuarantineOrphan,
     Unreferenced
<1>14. ASSUME NEW i \in Ids, Due(i) \/ Age(i) \/ DamagePayload(i) PROVE rows'[j] = rows[j]
  BY <1>14, Zenon DEF Due, Age, DamagePayload, Fault
<1>15. ASSUME NEW a \in Answers, PollReturns(a) \/ SubmitReturns(a) PROVE rows'[j] = rows[j]
  BY <1>15, Zenon DEF PollReturns, SubmitReturns
<1>16. CASE UNCHANGED vars
  BY <1>16, Zenon DEF vars
<1>. QED
  BY <1>1, <1>2, <1>3, <1>4, <1>5, <1>6, <1>7, <1>8, <1>9, <1>10, <1>11, <1>12, <1>13,
     <1>14, <1>15, <1>16, ZenonT(30)
  DEF Next, Process, Work, Environment, Enqueue

\* succeeded and dead-letter are final, across restarts too.
THEOREM Finality == Spec => TerminalIsFinal
<1>1. IInv /\ [Next]_vars => [\A i \in Ids : rows[i].state \in Terminal => rows'[i] = rows[i]]_vars
  BY FinalStep, Zenon
<1>. QED
  BY Invariance, <1>1, PTL DEF Spec, TerminalIsFinal

(* The refinement.                                                         *)

\* A write to one row changes the ledger's entry for that mail only.
LEMMA StatusUpdate ==
  ASSUME TypeOK, NEW k \in Ids, NEW r, rows' = [rows EXCEPT ![k] = r]
  PROVE  status' = [status EXCEPT ![k] = ledgerOf(r.state)]
BY ZenonT(30) DEF TypeOK, status

\* Every step of the spool is a step of the ledger or leaves it alone.
LEMMA LedgerStep == IInv /\ [Next]_vars => [Ledger!Next]_Ledger!vars
<1>. SUFFICES ASSUME IInv, Next PROVE [Ledger!Next]_Ledger!vars
  BY Zenon DEF vars, disk, Ledger!vars, status, Acked
<1>. USE DEF IInv, disk, worker, history, recovery
\* A step that leaves the ledger's view of every row, and every 250, alone.
<1>1. ASSUME status' = status, Acked' = Acked PROVE [Ledger!Next]_Ledger!vars
  BY <1>1, Zenon DEF Ledger!vars
\* A write to one row: the ledger takes the mail on, settles it or sees nothing.
<1>2. ASSUME NEW k \in Ids, NEW r, rows' = [rows EXCEPT ![k] = r], Acked' = Acked,
             \/ rows[k].state = "absent" /\ r.state = "queued"
             \/ rows[k].state \in Live /\ r.state \in Live \cup Terminal
      PROVE  [Ledger!Next]_Ledger!vars
  <2>1. status' = [status EXCEPT ![k] = ledgerOf(r.state)]
    BY <1>2, StatusUpdate, ZenonT(30)
  <2>2. status = [status EXCEPT ![k] = status[k]] /\ status[k] = ledgerOf(rows[k].state)
    BY Zenon DEF status
  <2>3. CASE rows[k].state = "absent" /\ r.state = "queued"
    BY <1>2, <2>1, <2>2, <2>3, ZenonT(30) DEF Ledger!Next, Ledger!TakeOn, ledgerOf, Live
  <2>4. CASE rows[k].state \in Live /\ r.state \in Live
    BY <1>1, <1>2, <2>1, <2>2, <2>4, Zenon DEF ledgerOf, Live
  <2>5. CASE rows[k].state \in Live /\ r.state \in Terminal
    <3>1. status[k] = "owed" /\ ledgerOf(r.state) \in Terminal
      BY <2>2, <2>5, Zenon DEF ledgerOf, Live, Terminal
    <3>. QED
      BY <1>2, <2>1, <3>1, ZenonT(30) DEF Ledger!Next, Ledger!Settle, Terminal
  <2>. QED
    BY <1>2, <2>3, <2>4, <2>5, Zenon
<1>3. ASSUME NEW i \in Ids, Save(i) \/ SaveFails(i) \/ RemovePayload(i)
      PROVE  [Ledger!Next]_Ledger!vars
  BY <1>1, <1>3, Zenon DEF Save, SaveFails, RemovePayload, status, Acked, TypeOK
<1>4. ASSUME NEW i \in Ids, InsertRecord(i) \/ InsertRecordFails(i) PROVE [Ledger!Next]_Ledger!vars
  <2>1. Acked' = Acked /\ rows[i].state = "absent" /\ Queued0.state = "queued"
    BY <1>4, Zenon DEF InsertRecord, InsertRecordFails, Acked, TypeOK, SessionInv, SessionOf, Queued0, row
  <2>2. rows' = rows \/ rows' = [rows EXCEPT ![i] = Queued0]
    BY <1>4, Zenon DEF InsertRecord, InsertRecordFails
  <2>. QED
    BY <1>1, <1>2, <2>1, <2>2, Zenon DEF status
<1>5. ASSUME NEW i \in Ids, Reply250(i) PROVE [Ledger!Next]_Ledger!vars
  <2>1. status' = status /\ Acked' = Acked \cup {i}
    BY <1>5, Zenon DEF Reply250, Acked, status, TypeOK
  <2>2. rows[i].state \in Live \cup Terminal
    BY <1>5, Zenon DEF Reply250, SessionInv, SessionOf, TypeOK, Row
  <2>3. status[i] # "none"
    BY <2>2, Zenon DEF status, ledgerOf, Live, Terminal
  <2>. QED
    BY <2>1, <2>3, Zenon DEF Ledger!Next, Ledger!Acknowledge
<1>6. CASE RecoverMetadata
  <2>1. \A j \in Ids : ledgerOf(rows'[j].state) = ledgerOf(rows[j].state)
    BY <1>6, Zenon DEF RecoverMetadata, recovered, row, ledgerOf, Live, TypeOK
  <2>. QED
    BY <1>1, <1>6, <2>1, Zenon DEF RecoverMetadata, status, Acked
<1>7. ASSUME NEW i \in Ids, VerifyPayload(i) PROVE [Ledger!Next]_Ledger!vars
  <2>1. Acked' = Acked /\ rows[i].state \in Live
    BY <1>7, Zenon DEF VerifyPayload, Acked, ProcessInv, Live
  <2>2. \/ rows' = rows
        \/ rows' = [rows EXCEPT ![i] = deadLetterCorruptRecord(rows[i])]
    BY <1>7, Zenon DEF VerifyPayload, updateRecord
  <2>3. deadLetterCorruptRecord(rows[i]).state \in Terminal
    BY Zenon DEF deadLetterCorruptRecord, row, Terminal
  <2>. QED
    BY <1>1, <1>2, <2>1, <2>2, <2>3, Zenon DEF status
<1>8. CASE Exit \/ Crash
  BY <1>1, <1>8, Zenon DEF Exit, Crash, Memory, status, Acked, TypeOK
<1>9. CASE ClaimReady \/ FindFails
  <2>1. Acked' = Acked
    BY <1>9, Zenon DEF ClaimReady, FindFails, Acked
  <2>2. \/ rows' = rows
        \/ \E k \in Ids : /\ rows[k].state = "queued"
                          /\ rows' = [rows EXCEPT ![k] = claimReady(rows[k])]
    BY <1>9, Zenon DEF ClaimReady, FindFails, DueIn
  <2>3. \A k \in Ids : claimReady(rows[k]).state \in Live
    BY Zenon DEF claimReady, row, Live
  <2>. QED
    BY <1>1, <1>2, <2>1, <2>2, <2>3, Zenon DEF status, Live
<1>10. CASE LoadCorruptPayload \/ LoadFails
  <2>1. Acked' = Acked /\ cur \in Ids /\ rows[cur].state \in Live
    BY <1>10, Zenon DEF LoadCorruptPayload, LoadFails, Acked, HeldRecord, Live
  <2>2. \/ rows' = rows
        \/ rows' = [rows EXCEPT ![cur] = deadLetterCorruptRecord(copy)]
        \/ rows' = [rows EXCEPT ![cur] = requeueClaimedRecord(copy)]
    BY <1>10, Zenon DEF LoadCorruptPayload, LoadFails, updateRecord
  <2>3. /\ deadLetterCorruptRecord(copy).state \in Terminal
        /\ requeueClaimedRecord(copy).state \in Live
    BY Zenon DEF deadLetterCorruptRecord, requeueClaimedRecord, row, Terminal, Live
  <2>. QED
    BY <1>1, <1>2, <2>1, <2>2, <2>3, SMTT(30) DEF status
<1>11. CASE FinalizeRecord \/ FinalizeRecordFails
  <2>1. Acked' = Acked /\ cur \in Ids /\ rows[cur].state \in Live
    BY <1>11, Zenon DEF FinalizeRecord, FinalizeRecordFails, Acked, HeldRecord, Live
  <2>2. rows' = rows \/ rows' = [rows EXCEPT ![cur] = upd]
    BY <1>11, Zenon DEF FinalizeRecord, FinalizeRecordFails, WriteUpdate, updateRecord
  <2>3. upd.state \in Live \cup Terminal
    BY <1>11, Zenon DEF FinalizeRecord, FinalizeRecordFails, UpdateInv, Live
  <2>. QED
    BY <1>1, <1>2, <2>1, <2>2, <2>3, Zenon DEF status
<1>12. CASE StartServing \/ Shutdown \/ WorkerErrorStops
  BY <1>1, <1>12, Zenon DEF StartServing, Shutdown, WorkerErrorStops, status, Acked
<1>13. CASE NextSubmittedReady \/ Submit \/ WorkerStops
  BY <1>1, <1>13, Zenon DEF NextSubmittedReady, Submit, WorkerStops, status, Acked
<1>14. ASSUME NEW i \in Ids, QuarantineOrphan(i) PROVE [Ledger!Next]_Ledger!vars
  BY <1>1, <1>14, Zenon DEF QuarantineOrphan, status, Acked
<1>15. ASSUME NEW a \in Answers, PollReturns(a) \/ SubmitReturns(a) PROVE [Ledger!Next]_Ledger!vars
  BY <1>1, <1>15, ZenonT(90) DEF PollReturns, SubmitReturns, status, Acked
<1>16. ASSUME NEW i \in Ids, Due(i) \/ Age(i) \/ DamagePayload(i) PROVE [Ledger!Next]_Ledger!vars
  BY <1>1, <1>16, Zenon DEF Due, Age, DamagePayload, status, Acked
<1>. QED
  BY <1>3, <1>4, <1>5, <1>6, <1>7, <1>8, <1>9, <1>10, <1>11, <1>12, <1>13, <1>14, <1>15,
     <1>16, ZenonT(30)
  DEF Next, Process, Work, Environment, Enqueue

\* The spool, with its crashes and its failing writes, implements the ledger.
THEOREM Refinement == Spec => ImplementsLedger
<1>1. Init => Ledger!Init
  BY DEF Init, Ledger!Init, status, ledgerOf, Acked, Absent, row
<1>. QED
  BY Invariance, <1>1, LedgerStep, PTL DEF Spec, ImplementsLedger, Ledger!Spec
============================================================================
