--------------------------- MODULE RecordDBProofs ---------------------------
(***************************************************************************)
(* The theorems about RecordDB, for any set of sessions and any number of   *)
(* faults.  IInv is inductive: what a COMMIT makes durable is known         *)
(* beforehand (PendingInv), and a transaction that was left open is never   *)
(* committed, because BEGIN is refused on top of it.                        *)
(***************************************************************************)
EXTENDS RecordDB, FiniteSetTheorems, TLAPS
-----------------------------------------------------------------------------
(* The types, who holds the one connection, and who can be inside an        *)
(* operation in which state of the process.                                 *)

\* The one connection: a caller inside an operation holds it, every other is idle.
LEMMA Mutex ==
  ASSUME TypeOK, NEW c \in Callers, pc[c] # "idle"
  PROVE  holder = c /\ \A d \in Callers : d # c => pc[d] = "idle"
BY Zenon DEF TypeOK

\* The callers are distinct, and none of them is the pool.
LEMMA Distinct ==
  /\ Sessions \subseteq Callers /\ Main \in Callers /\ Worker \in Callers
  /\ Main \notin Sessions /\ Worker \notin Sessions /\ Main # Worker
  /\ \A c \in Callers : c # "pool"
  /\ \A c \in Callers : c \in Sessions \/ c = Main \/ c = Worker
BY CallersAssumption, Zenon DEF Callers

\* Every way an operation ends keeps the caller's variables in their types.
LEMMA EndTypes ==
  ASSUME TypeOK, NEW c \in Callers, Failed(c) \/ Succeeded(c)
  PROVE  /\ pc' = [pc EXCEPT ![c] = "idle"]
         /\ proc' \in {"down", "init", "recover", "up", "ending", "failed", "refused"}
         /\ told' \in [Sessions -> {"none", "ok", "error", "lost"}]
         /\ job' \in [op: {"query", "claim", "update"}, id: SUBSET Sessions,
                      seen: {"none", "working", "submitted"}]
BY DEF TypeOK, Failed, Succeeded, NoJob

\* The types of the database, the caller's statements included.
LEMMA DataTypes ==
  ASSUME TypeOK, [Next]_vars
  PROVE  disk' \in DB /\ tx' \in DB /\ open' \in BOOLEAN
<1>1. CASE UNCHANGED vars
  BY <1>1, Zenon DEF vars, TypeOK
<1>2. ASSUME NEW c \in Callers, Conn(c) \/ ExecFails(c)  PROVE disk' \in DB /\ tx' \in DB /\ open' \in BOOLEAN
  BY <1>2, Zenon DEF TypeOK, Conn, ExecFails
<1>3. ASSUME NEW c \in Callers, beginImmediate(c)  PROVE disk' \in DB /\ tx' \in DB /\ open' \in BOOLEAN
  BY <1>3, Zenon DEF TypeOK, beginImmediate
<1>4. ASSUME NEW c \in Callers, Exec(c)  PROVE disk' \in DB /\ tx' \in DB /\ open' \in BOOLEAN
  <2>1. CASE bootstrapSchema(c)
    <3>1. tx' = [table |-> TRUE, version |-> 1, rows |-> tx.rows] /\ tx.rows \in RowSet
      BY <2>1, Zenon DEF TypeOK, bootstrapSchema, DB
    <3>2. TRUE \in BOOLEAN /\ 1 \in 0..1
      OBVIOUS
    <3>3. tx' \in DB
      BY <3>1, <3>2, Zenon DEF DB
    <3>. QED
      BY <1>4, <2>1, <3>3, Zenon DEF TypeOK, Exec, bootstrapSchema
  <2>2. CASE insertRecord(c) /\ UNCHANGED disk
    BY <1>4, <2>2, Zenon DEF TypeOK, Exec, insertRecord, DB, Rows, RowSet, States
  <2>3. CASE recoverMetadata(c) /\ UNCHANGED disk
    BY <1>4, <2>3, Zenon DEF TypeOK, Exec, recoverMetadata, DB, Rows, RowSet, States
  <2>4. CASE claimReadyMetadata(c) /\ UNCHANGED disk
    BY <1>4, <2>4 DEF TypeOK, Exec, claimReadyMetadata, DB, Rows, RowSet, States
  <2>5. CASE updateRecord(c) /\ UNCHANGED disk
    BY <1>4, <2>5 DEF TypeOK, Exec, updateRecord, DB, Rows, RowSet, States
  <2>. QED
    BY <1>4, <2>1, <2>2, <2>3, <2>4, <2>5, Zenon DEF Exec
<1>5. ASSUME NEW c \in Callers, commitImmediate(c) \/ finishImmediate(c)
      PROVE  disk' \in DB /\ tx' \in DB /\ open' \in BOOLEAN
  BY <1>5, Zenon DEF TypeOK, commitImmediate, finishImmediate
<1>6. CASE ClaimNothing \/ nextSubmittedReady \/ SubmittedNotDue \/ Start \/ init \/ Signal
           \/ Exit \/ Crash
  BY <1>6, ZenonT(60) DEF TypeOK, ClaimNothing, nextSubmittedReady, SubmittedNotDue, Start, init, Signal,
              Exit, Crash, Ends
<1>. QED
  BY <1>1, <1>2, <1>3, <1>4, <1>5, <1>6, ZenonT(30) DEF Next

\* Every step keeps every variable in its type, and the connection with one caller.
LEMMA TypeStep == IInv /\ [Next]_vars => TypeOK'
<1>. SUFFICES ASSUME TypeOK, LifeInv, [Next]_vars PROVE TypeOK'
  BY Zenon DEF IInv
<1>. USE Distinct, DataTypes, FaultsAssumption
<1>1. CASE UNCHANGED vars
  BY <1>1, Zenon DEF vars, TypeOK
<1>2. ASSUME NEW c \in Callers, Conn(c)  PROVE TypeOK'
  BY <1>2 DEF TypeOK, Conn
<1>3. ASSUME NEW c \in Callers, beginImmediate(c)  PROVE TypeOK'
  <2>1. CASE ~open /\ pc' = [pc EXCEPT ![c] = "exec"]
             /\ UNCHANGED <<holder, told, proc, job, faults>> /\ open' = TRUE
    BY <1>3, <2>1, ZenonT(60) DEF TypeOK, beginImmediate
  <2>2. CASE Failed(c) /\ holder' = "pool" /\ faults' \in 0..MaxFaults
    BY <1>3, <2>2, EndTypes, Mutex DEF TypeOK, beginImmediate
  <2>3. faults' \in 0..MaxFaults
    BY <1>3 DEF TypeOK, beginImmediate, Faulty
  <2>. QED
    BY <1>3, <2>1, <2>2, <2>3, Zenon DEF beginImmediate
<1>4. ASSUME NEW c \in Callers, Exec(c)  PROVE TypeOK'
  <2>1. job' \in [op: {"query", "claim", "update"}, id: SUBSET Sessions,
                  seen: {"none", "working", "submitted"}]
    <3>1. CASE job' = job
      BY <3>1, Zenon DEF TypeOK
    <3>2. ASSUME NEW s \in Sessions, job' = [job EXCEPT !.id = {s}]
          PROVE  job' \in [op: {"query", "claim", "update"}, id: SUBSET Sessions,
                           seen: {"none", "working", "submitted"}]
      BY <3>2, ZenonT(60) DEF TypeOK
    <3>. QED
      BY <1>4, <3>1, <3>2, Zenon DEF Exec, bootstrapSchema, insertRecord, recoverMetadata,
                claimReadyMetadata, updateRecord
  <2>. QED
    BY <1>4, <2>1, ZenonT(60) DEF TypeOK, Exec
<1>5. ASSUME NEW c \in Callers, ExecFails(c)  PROVE TypeOK'
  BY <1>5 DEF TypeOK, ExecFails, Faulty
<1>6. ASSUME NEW c \in Callers, commitImmediate(c)  PROVE TypeOK'
  <2>1. unsure' \subseteq Callers /\ faults' \in 0..MaxFaults
    BY <1>6 DEF TypeOK, commitImmediate, Faulty
  <2>2. Failed(c) \/ Succeeded(c)
    BY <1>6, Zenon DEF commitImmediate
  <2>. QED
    BY <1>6, <2>1, <2>2, EndTypes, Mutex DEF TypeOK, commitImmediate
<1>7. ASSUME NEW c \in Callers, finishImmediate(c)  PROVE TypeOK'
  <2>1. CASE pc[c] = "abort"
    BY <1>7, <2>1, EndTypes, Mutex DEF TypeOK, finishImmediate
  <2>2. CASE pc[c] # "abort"
    BY <1>7, <2>2, Mutex DEF TypeOK, finishImmediate, NoJob
  <2>. QED
    BY <2>1, <2>2, Zenon
<1>8. CASE ClaimNothing \/ nextSubmittedReady \/ SubmittedNotDue
  BY <1>8 DEF TypeOK, ClaimNothing, nextSubmittedReady, SubmittedNotDue, NoJob
<1>9. CASE Start \/ init \/ Signal
  BY <1>9 DEF TypeOK, Start, init, Signal, Faulty
<1>10. CASE Exit \/ Crash
  <2>1. faults' \in 0..MaxFaults
    BY <1>10 DEF TypeOK, Exit, Crash, Faulty
  <2>. QED
    BY <1>10, <2>1 DEF TypeOK, Exit, Crash, Ends, NoJob
<1>. QED
  BY <1>1, <1>2, <1>3, <1>4, <1>5, <1>6, <1>7, <1>8, <1>9, <1>10, ZenonT(30) DEF Next

\* Every step keeps LifeInv: an operation that ends leaves nobody inside one, and
\* what ends the process or a start also empties the worker's hands.
LEMMA LifeStep == IInv /\ [Next]_vars => LifeInv'
<1>. SUFFICES ASSUME TypeOK, LifeInv, SchemaInv, [Next]_vars PROVE LifeInv'
  BY Zenon DEF IInv
<1>. USE Distinct
<1>1. CASE UNCHANGED vars
  BY <1>1, Zenon DEF vars, LifeInv, NoJob
<1>2. ASSUME NEW c \in Callers, Conn(c)  PROVE LifeInv'
  BY <1>2 DEF TypeOK, LifeInv, Conn, Wants, NoJob
<1>3. ASSUME NEW c \in Callers, beginImmediate(c)  PROVE LifeInv'
  <2>1. CASE pc' = [pc EXCEPT ![c] = "exec"] /\ UNCHANGED <<holder, told, proc, job, faults>>
             /\ ~open
    BY <1>3, <2>1, Mutex, SMTT(30) DEF TypeOK, LifeInv, beginImmediate, NoJob
  <2>2. CASE Failed(c) /\ holder' = "pool" /\ UNCHANGED <<open, tx>>
    BY <1>3, <2>2, Mutex, SMTT(30) DEF TypeOK, LifeInv, beginImmediate, Failed, NoJob
  <2>. QED
    BY <1>3, <2>1, <2>2, Zenon DEF beginImmediate
<1>4. ASSUME NEW c \in Callers, Exec(c)  PROVE LifeInv'
  <2>1. CASE job' = job
    BY <1>4, <2>1, Mutex, SMTT(30) DEF TypeOK, LifeInv, Exec, NoJob
  <2>2. ASSUME NEW s \in Sessions, job' = [job EXCEPT !.id = {s}], job.op = "claim", c = Worker
        PROVE  LifeInv'
    <3>1. job'.op = "claim" /\ job # NoJob
      BY <2>2 DEF TypeOK, NoJob
    <3>. QED
      BY <1>4, <2>2, <3>1, Mutex, SMTT(30) DEF TypeOK, LifeInv, Exec
  <2>. QED
    BY <1>4, <2>1, <2>2, Zenon DEF Exec, bootstrapSchema, insertRecord, recoverMetadata,
              claimReadyMetadata, updateRecord
<1>5. ASSUME NEW c \in Callers, ExecFails(c)  PROVE LifeInv'
  BY <1>5, Mutex, SMTT(30) DEF TypeOK, LifeInv, ExecFails, NoJob
<1>6. ASSUME NEW c \in Callers, commitImmediate(c)  PROVE LifeInv'
  <2>1. CASE Succeeded(c) /\ open' = FALSE
    BY <1>6, <2>1, Mutex, SMTT(30) DEF TypeOK, LifeInv, commitImmediate, Succeeded, NoJob
  <2>2. CASE Failed(c)
    BY <1>6, <2>2, Mutex, SMTT(30) DEF TypeOK, LifeInv, commitImmediate, Failed, NoJob
  <2>. QED
    BY <1>6, <2>1, <2>2, Zenon DEF commitImmediate
<1>7. ASSUME NEW c \in Callers, finishImmediate(c)  PROVE LifeInv'
  <2>1. CASE Failed(c)
    BY <1>7, <2>1, Mutex, SMTT(30) DEF TypeOK, LifeInv, finishImmediate, Failed, MayHaveEnded, NoJob
  <2>2. CASE pc[c] = "finish"
    BY <1>7, <2>2, Mutex, SMTT(30) DEF TypeOK, LifeInv, finishImmediate, MayHaveEnded, NoJob
  <2>. QED
    BY <1>7, <2>1, <2>2, Zenon DEF finishImmediate
<1>8. CASE ClaimNothing \/ nextSubmittedReady \/ SubmittedNotDue
  BY <1>8, Mutex, SMTT(30) DEF TypeOK, LifeInv, ClaimNothing, nextSubmittedReady, SubmittedNotDue, NoJob
<1>9. CASE Start \/ init \/ Signal
  BY <1>9, Mutex, SMTT(30) DEF TypeOK, LifeInv, SchemaInv, Start, init, Signal, NoJob
<1>10. CASE Exit \/ Crash
  BY <1>10 DEF TypeOK, LifeInv, Exit, Crash, Ends, NoJob
<1>. QED
  BY <1>1, <1>2, <1>3, <1>4, <1>5, <1>6, <1>7, <1>8, <1>9, <1>10, ZenonT(30) DEF Next

\* What the statements of one operation leave in the transaction, from what the
\* database held when it began.
LEMMA ExecPends ==
  ASSUME IInv, NEW c \in Callers, Exec(c)
  PROVE  PendingInv'
<1>. USE Distinct
<1>1. pc[c] = "exec" /\ tx = disk /\ UNCHANGED <<disk, proc>> /\ pc' = [pc EXCEPT ![c] = "commit"]
  BY Zenon DEF Exec, bootstrapSchema, IInv, PendingInv
<1>2. pc'[c] = "commit" /\ \A d \in Callers : d # c => pc'[d] = "idle"
  BY <1>1, Mutex, ZenonT(60) DEF IInv, TypeOK
<1>3. CASE c \in Sessions
  <2>1. tx' = Rows(tx, [tx.rows EXCEPT ![c] = "queued"])
    BY <1>3, Zenon DEF Exec, bootstrapSchema, insertRecord, recoverMetadata, claimReadyMetadata,
                updateRecord
  <2>. QED
    BY <1>1, <1>2, <1>3, <2>1, Zenon DEF PendingInv
<1>4. CASE c = Main
  <2>1. \/ proc = "init" /\ tx' = [tx EXCEPT !.table = TRUE, !.version = 1]
        \/ /\ proc = "recover"
           /\ tx' = Rows(tx, [s \in Sessions |->
                 IF tx.rows[s] = "working" THEN "queued" ELSE tx.rows[s]])
    BY <1>4, Zenon DEF Exec, bootstrapSchema, insertRecord, recoverMetadata, claimReadyMetadata,
                updateRecord
  <2>. QED
    BY <1>1, <1>2, <1>4, <2>1, Zenon DEF PendingInv
<1>5. CASE c = Worker /\ claimReadyMetadata(c)
  <2>1. PICK s \in Sessions : /\ tx.rows[s] = "queued"
                             /\ tx' = Rows(tx, [tx.rows EXCEPT ![s] = "working"])
                             /\ job' = [job EXCEPT !.id = {s}]
    BY <1>5, Zenon DEF claimReadyMetadata
  <2>2. job'.id = {s} /\ job'.op = "claim"
    BY <1>5, <2>1, Zenon DEF IInv, TypeOK, claimReadyMetadata
  <2>. QED
    BY <1>1, <1>2, <1>5, <2>1, <2>2, Zenon DEF PendingInv
<1>6. CASE c = Worker /\ updateRecord(c)
  <2>1. PICK s \in job.id, to \in {"queued", "submitted", "final"} :
          tx' = Rows(tx, [tx.rows EXCEPT ![s] = to])
    BY <1>6, Zenon DEF updateRecord
  <2>2. job' = job /\ job.op = "update"
    BY <1>6, Zenon DEF updateRecord
  <2>. QED
    BY <1>1, <1>2, <1>6, <2>1, <2>2, Zenon DEF PendingInv
<1>. QED
  BY <1>3, <1>4, <1>5, <1>6, Zenon DEF Exec, bootstrapSchema, insertRecord, recoverMetadata

\* Every step keeps PendingInv: whoever is inside a transaction is alone, so
\* nobody else changes the database it began from.
LEMMA PendingStep == IInv /\ [Next]_vars => PendingInv'
<1>. SUFFICES ASSUME IInv, [Next]_vars PROVE PendingInv'
  OBVIOUS
<1>. USE Distinct
<1>0. /\ \A d \in Callers : pc[d] # "idle" <=> holder = d
      /\ pc \in [Callers -> {"idle", "begin", "exec", "commit", "finish", "abort"}]
  BY Zenon DEF IInv, TypeOK
<1>1. ASSUME \A d \in Callers : pc'[d] \notin {"exec", "commit"}  PROVE PendingInv'
  BY <1>1, Zenon DEF PendingInv
<1>2. ASSUME NEW c \in Callers, pc[c] # "idle", pc'[c] \notin {"exec", "commit"},
             \A d \in Callers : d # c => pc'[d] = pc[d]
      PROVE  PendingInv'
  BY <1>1, <1>2, Mutex, Zenon DEF IInv
<1>3. ASSUME NEW c \in Callers, Conn(c)  PROVE PendingInv'
  <2>1. \A d \in Callers : holder # d
    BY <1>3, Zenon DEF Conn
  <2>2. \A d \in Callers : pc[d] = "idle"
    BY <1>0, <2>1, Zenon
  <2>. QED
    BY <1>0, <1>1, <1>3, <2>2 DEF Conn
<1>4. ASSUME NEW c \in Callers, beginImmediate(c)  PROVE PendingInv'
  <2>1. CASE Failed(c)
    BY <1>0, <1>2, <1>4, <2>1, Zenon DEF beginImmediate, Failed
  <2>2. CASE tx' = disk /\ pc' = [pc EXCEPT ![c] = "exec"] /\ disk' = disk
    <3>1. pc'[c] = "exec" /\ \A d \in Callers : d # c => pc'[d] = "idle"
      BY <1>0, <1>4, <2>2, Mutex, Zenon DEF IInv, beginImmediate
    <3>. QED
      BY <2>2, <3>1, Zenon DEF PendingInv
  <2>. QED
    BY <1>4, <2>1, <2>2, Zenon DEF beginImmediate
<1>5. ASSUME NEW c \in Callers, ExecFails(c) \/ commitImmediate(c) \/ finishImmediate(c)
      PROVE  PendingInv'
  BY <1>0, <1>2, <1>5, Zenon DEF ExecFails, commitImmediate, finishImmediate, Failed, Succeeded
<1>6. CASE ClaimNothing
  BY <1>0, <1>2, <1>6, Zenon DEF ClaimNothing
<1>7. CASE nextSubmittedReady \/ SubmittedNotDue
  <2>1. \A d \in Callers : holder # d
    BY <1>7, Zenon DEF nextSubmittedReady, SubmittedNotDue
  <2>2. \A d \in Callers : pc[d] = "idle"
    BY <1>0, <2>1, Zenon
  <2>. QED
    BY <1>1, <1>7, <2>2, Zenon DEF nextSubmittedReady, SubmittedNotDue
<1>8. CASE Start \/ init
  <2>1. \A d \in Callers : pc[d] = "idle"
    BY <1>8 DEF IInv, LifeInv, Start, init, NoJob
  <2>. QED
    BY <1>1, <1>8, <2>1, Zenon DEF Start, init
<1>9. CASE Signal
  <2>1. pc[Main] = "idle"
    BY <1>9, Zenon DEF IInv, LifeInv, Signal
  <2>. QED
    BY <1>9, <2>1, Zenon DEF IInv, PendingInv, Signal
<1>10. CASE Exit \/ Crash
  BY <1>1, <1>10, Zenon DEF Exit, Crash, Ends
<1>11. CASE UNCHANGED vars
  BY <1>11, Zenon DEF IInv, PendingInv, vars
<1>. QED
  BY <1>3, <1>4, <1>5, <1>6, <1>7, <1>8, <1>9, <1>10, <1>11, ExecPends, ZenonT(30) DEF Next
-----------------------------------------------------------------------------
(* What commits make durable, and the theorems.                             *)

\* The rows a COMMIT changes: a session adds its own record and touches no other.
LEMMA SessionCommit ==
  ASSUME IInv, NEW c \in Sessions, pc[c] = "commit"
  PROVE  /\ tx.rows[c] = "queued" /\ disk.rows[c] = "none"
         /\ \A s \in Sessions : s # c => tx.rows[s] = disk.rows[s]
         /\ tx.table = disk.table /\ tx.version = disk.version
<1>1. tx = Rows(disk, [disk.rows EXCEPT ![c] = "queued"])
  BY Zenon DEF IInv, PendingInv
<1>2. told[c] = "none"
  BY Zenon DEF IInv, LifeInv
<1>. QED
  BY <1>1, <1>2 DEF IInv, InsertInv, TypeOK, DB, RowSet, Rows

\* The worker's COMMIT changes at most one row, of a record that exists.
LEMMA WorkerCommit ==
  ASSUME IInv, pc[Worker] = "commit"
  PROVE  /\ job.op \in {"claim", "update"}
         /\ \E t \in job.id : /\ t \in Sessions /\ disk.rows[t] # "none"
                              /\ tx.rows[t] # "none"
                              /\ job.op = "claim" => job.id = {t} /\ tx.rows[t] = "working"
                              /\ \A s \in Sessions : s # t => tx.rows[s] = disk.rows[s]
         /\ tx.table = disk.table /\ tx.version = disk.version
<1>0. job.op \in {"claim", "update"} /\ job.id \subseteq Sessions
  BY Distinct, Zenon DEF IInv, LifeInv, TypeOK
<1>1. CASE job.op = "claim"
  BY <1>0, <1>1 DEF IInv, PendingInv, TypeOK, DB, RowSet, Rows
<1>2. CASE job.op = "update"
  <2>1. PICK t \in job.id, to \in {"queued", "submitted", "final"} :
          tx = Rows(disk, [disk.rows EXCEPT ![t] = to])
    BY <1>2, Zenon DEF IInv, PendingInv
  <2>2. disk.rows[t] # "none"
    BY <1>2, Zenon DEF IInv, LifeInv, WorkerSeesCommitted
  <2>. QED
    BY <1>0, <1>2, <2>1, <2>2, ZenonT(60) DEF IInv, TypeOK, DB, RowSet, Rows
<1>. QED
  BY <1>0, <1>1, <1>2, Zenon

\* The COMMIT of a start adds and removes no record; it changes rows only in the
\* recovery, and the schema only with the version.
LEMMA MainCommit ==
  ASSUME IInv, pc[Main] = "commit"
  PROVE  /\ \A s \in Sessions : tx.rows[s] = "none" <=> disk.rows[s] = "none"
         /\ proc = "init" => tx.rows = disk.rows
         /\ proc \in {"init", "recover"}
         /\ (proc = "init" /\ tx.table = TRUE /\ tx.version = 1)
            \/ (tx.table = disk.table /\ tx.version = disk.version)
<1>0. proc \in {"init", "recover"}
  BY Distinct, Zenon DEF IInv, LifeInv
<1>1. CASE proc = "init"
  BY <1>1, ZenonT(60) DEF IInv, PendingInv, TypeOK, DB, RowSet
<1>2. CASE proc = "recover"
  BY <1>2 DEF IInv, PendingInv, TypeOK, DB, RowSet, Rows
<1>. QED
  BY <1>0, <1>1, <1>2, Zenon

\* A step that commits nothing leaves the database alone.
LEMMA OnlyCommits ==
  ASSUME IInv, [Next]_vars
  PROVE  disk' = disk \/ \E c \in Callers : commitImmediate(c) /\ disk' = tx
BY Zenon DEF Next, vars, Conn, beginImmediate, Exec, bootstrapSchema, ExecFails, commitImmediate,
       finishImmediate, ClaimNothing, nextSubmittedReady, SubmittedNotDue, Start, init, Signal,
       Exit, Crash, Ends

\* Every step keeps what a session was told true of the database.
LEMMA InsertStep == IInv /\ [Next]_vars => InsertInv'
<1>. SUFFICES ASSUME IInv, [Next]_vars PROVE InsertInv'
  OBVIOUS
<1>. USE Distinct
<1>1. ASSUME UNCHANGED <<disk, told, unsure>>  PROVE InsertInv'
  BY <1>1, Zenon DEF IInv, InsertInv
<1>2. ASSUME NEW c \in Callers, pc[c] # "idle", Failed(c), UNCHANGED <<disk, unsure>>
      PROVE  InsertInv'
  <2>1. c \in Sessions => disk.rows[c] = "none"
    BY <1>2, Zenon DEF IInv, LifeInv, InsertInv
  <2>. QED
    BY <1>2, <2>1 DEF IInv, InsertInv, TypeOK, Failed
<1>3. ASSUME NEW c \in Callers, commitImmediate(c), disk' = tx  PROVE InsertInv'
  <2>0. pc[c] = "commit" /\ \/ Succeeded(c) /\ unsure' = unsure
                            \/ Failed(c) /\ unsure' = unsure \cup {c}
                            \/ Failed(c) /\ unsure' = unsure /\ disk' = disk
    BY <1>3, Zenon DEF commitImmediate
  <2>1. CASE c \in Sessions
    <3>1. told' = [told EXCEPT ![c] = "ok"] \/ told' = [told EXCEPT ![c] = "error"]
      BY <2>0, <2>1, Zenon DEF Succeeded, Failed
    <3>2. told'[c] = "error" => c \in unsure' \/ disk' = disk
      BY <2>0, <2>1, <3>1 DEF IInv, TypeOK, Succeeded
    <3>3. disk'.rows[c] = "queued" /\ \A s \in Sessions : s # c => disk'.rows[s] = disk.rows[s]
      BY <1>3, <2>0, <2>1, SessionCommit, Zenon
    <3>4. disk.rows[c] = "none"
      BY <2>0, <2>1, SessionCommit, Zenon
    <3>. QED
      BY <2>0, <2>1, <3>1, <3>2, <3>3, <3>4 DEF IInv, InsertInv, TypeOK
  <2>2. CASE c \in {Main, Worker}
    <3>1. told' = told /\ unsure \subseteq unsure' /\ unsure' \subseteq unsure \cup {c}
      BY <2>0, <2>2, Zenon DEF Succeeded, Failed
    <3>2. \A s \in Sessions : disk'.rows[s] = "none" <=> disk.rows[s] = "none"
      BY <1>3, <2>0, <2>2, MainCommit, WorkerCommit, Zenon
    <3>. QED
      BY <2>2, <3>1, <3>2, Zenon DEF IInv, InsertInv
  <2>. QED
    BY <2>1, <2>2, Zenon
<1>4. ASSUME Exit \/ Crash  PROVE InsertInv'
  BY <1>4 DEF IInv, InsertInv, TypeOK, Exit, Crash, Ends
<1>5. \/ UNCHANGED <<disk, told, unsure>>
      \/ \E c \in Callers : pc[c] # "idle" /\ Failed(c) /\ UNCHANGED <<disk, unsure>>
      \/ \E c \in Callers : commitImmediate(c) /\ disk' = tx
      \/ Exit \/ Crash
  BY Zenon DEF Next, vars, Conn, beginImmediate, Exec, bootstrapSchema, ExecFails, commitImmediate,
       finishImmediate, ClaimNothing, nextSubmittedReady, SubmittedNotDue, Start, init, Signal
<1>. QED
  BY <1>1, <1>2, <1>3, <1>4, <1>5, Zenon

\* Every step keeps the table and the version together.
LEMMA SchemaStep == IInv /\ [Next]_vars => SchemaInv'
<1>. SUFFICES ASSUME IInv, [Next]_vars PROVE SchemaInv'
  OBVIOUS
<1>1. disk'.table = (disk'.version = 1)
  <2>1. CASE disk' = disk
    BY <2>1, Zenon DEF IInv, SchemaInv
  <2>2. ASSUME NEW c \in Callers, commitImmediate(c), disk' = tx
        PROVE  disk'.table = (disk'.version = 1)
    <3>1. pc[c] = "commit"
      BY <2>2, Zenon DEF commitImmediate
    <3>2. (disk'.table = TRUE /\ disk'.version = 1)
          \/ (disk'.table = disk.table /\ disk'.version = disk.version)
      BY <2>2, <3>1, Distinct, SessionCommit, WorkerCommit, MainCommit, Zenon
    <3>. QED
      BY <3>2, Zenon DEF IInv, SchemaInv
  <2>. QED
    BY <2>1, <2>2, OnlyCommits, Zenon
<1>2. proc' # "refused"
  <2>1. CASE init
    BY <2>1, Zenon DEF IInv, SchemaInv, TypeOK, DB, init
  <2>2. CASE ~init
    BY <2>2, Zenon DEF IInv, SchemaInv, Next, vars, Conn, beginImmediate, Exec, ExecFails,
       commitImmediate, finishImmediate, ClaimNothing, nextSubmittedReady, SubmittedNotDue,
       Start, Signal, Exit, Crash, Ends, Failed, Succeeded
  <2>. QED
    BY <2>1, <2>2, Zenon
<1>. QED
  BY <1>1, <1>2, Zenon DEF SchemaInv

\* Every step keeps the worker's record as it was read: only the worker changes it.
LEMMA WorkerStep == IInv /\ [Next]_vars => WorkerSeesCommitted'
<1>. SUFFICES ASSUME IInv, [Next]_vars PROVE WorkerSeesCommitted'
  OBVIOUS
<1>. USE Distinct
<1>1. ASSUME UNCHANGED <<disk, job>>  PROVE WorkerSeesCommitted'
  BY <1>1, Zenon DEF IInv, WorkerSeesCommitted
<1>2. ASSUME job' = NoJob \/ job'.op = "claim"  PROVE WorkerSeesCommitted'
  BY <1>2 DEF WorkerSeesCommitted, NoJob
<1>3. ASSUME NEW c \in Callers, commitImmediate(c)  PROVE WorkerSeesCommitted'
  <2>0. pc[c] = "commit" /\ ((Succeeded(c) /\ disk' = tx) \/ Failed(c))
        /\ (disk' = tx \/ disk' = disk)
    BY <1>3, Zenon DEF commitImmediate
  <2>1. CASE c \in Sessions
    <3>1. job' = job
      BY <2>0, <2>1, Zenon DEF Succeeded, Failed
    <3>2. \A s \in Sessions : disk.rows[s] # "none" => disk'.rows[s] = disk.rows[s]
      BY <2>0, <2>1, SessionCommit, Zenon
    <3>3. job.op = "update" => job.seen # "none" /\ job.id \subseteq Sessions
      BY Zenon DEF IInv, LifeInv, TypeOK
    <3>. QED
      BY <3>1, <3>2, <3>3, Zenon DEF IInv, WorkerSeesCommitted
  <2>2. CASE c = Main
    <3>1. proc \in {"init", "recover"} /\ job' = job
      BY <2>0, <2>2, MainCommit, Zenon DEF Succeeded, Failed
    <3>. QED
      BY <3>1, <1>2, Zenon DEF IInv, LifeInv
  <2>3. CASE c = Worker
    <3>1. CASE Failed(c)
      BY <1>2, <2>3, <3>1, Zenon DEF Failed
    <3>2. CASE Succeeded(c) /\ job.op = "update"
      BY <1>2, <2>3, <3>2, Zenon DEF Succeeded
    <3>3. CASE Succeeded(c) /\ job.op = "claim" /\ disk' = tx
      <4>1. job' = [op |-> "update", id |-> job.id, seen |-> "working"]
        BY <2>3, <3>3, Zenon DEF Succeeded
      <4>2. \A s \in job.id : disk'.rows[s] = "working"
        BY <2>0, <2>3, <3>3, WorkerCommit, Zenon
      <4>. QED
        BY <4>1, <4>2, Zenon DEF WorkerSeesCommitted
    <3>. QED
      BY <2>0, <2>3, <3>1, <3>2, <3>3, WorkerCommit, Zenon
  <2>. QED
    BY <2>1, <2>2, <2>3, Zenon
<1>4. ASSUME nextSubmittedReady  PROVE WorkerSeesCommitted'
  <2>1. \A d \in Callers : pc[d] = "idle"
    BY <1>4 DEF IInv, TypeOK, nextSubmittedReady
  <2>2. \A s \in Sessions : View.rows[s] = "submitted" => disk.rows[s] = "submitted"
    BY <1>4, <2>1, Zenon DEF IInv, LeftoverInv, nextSubmittedReady, View
  <2>3. CASE job' = [NoJob EXCEPT !.op = "claim"]
    BY <1>2, <2>3, Zenon DEF NoJob
  <2>. QED
    BY <1>4, <2>2, <2>3 DEF nextSubmittedReady, WorkerSeesCommitted
<1>5. ASSUME NEW c \in Callers, Exec(c)  PROVE WorkerSeesCommitted'
  <2>1. disk' = disk /\ (job' = job \/ (job.op = "claim" /\ \E s \in Sessions : job' = [job EXCEPT !.id = {s}]))
    BY <1>5, Zenon DEF Exec, bootstrapSchema, insertRecord, recoverMetadata, claimReadyMetadata,
                updateRecord
  <2>2. job' = job \/ job'.op = "claim"
    BY <2>1, ZenonT(60) DEF IInv, TypeOK
  <2>. QED
    BY <1>1, <1>2, <2>1, <2>2, Zenon
<1>6. \/ UNCHANGED <<disk, job>> \/ job' = NoJob \/ job' = [NoJob EXCEPT !.op = "claim"]
      \/ nextSubmittedReady
      \/ \E c \in Callers : commitImmediate(c) \/ Exec(c)
  BY Zenon DEF Next, vars, Conn, beginImmediate, ExecFails, finishImmediate, Failed, ClaimNothing,
         SubmittedNotDue, Start, init, Signal, Exit, Crash, Ends
<1>7. [NoJob EXCEPT !.op = "claim"].op = "claim"
  BY Zenon DEF NoJob
<1>. QED
  BY <1>1, <1>2, <1>3, <1>4, <1>5, <1>6, <1>7, Zenon

\* Every step keeps LeftoverInv: only a session's failed COMMIT leaves a transaction
\* open while the process stays up.
LEMMA LeftoverStep == IInv /\ [Next]_vars => LeftoverInv'
<1>. SUFFICES ASSUME IInv, [Next]_vars, open', proc' = "up",
                     \A c \in Callers : pc'[c] \in {"idle", "begin"}
              PROVE  \A s \in Sessions : tx'.rows[s] = "submitted" => disk'.rows[s] = "submitted"
  BY Zenon DEF LeftoverInv
<1>. USE Distinct
<1>0. /\ \A d \in Callers : pc[d] # "idle" <=> holder = d
      /\ \A d \in Callers : d # "pool"
      /\ pc \in [Callers -> {"idle", "begin", "exec", "commit", "finish", "abort"}]
  BY Zenon DEF IInv, TypeOK
<1>1. ASSUME UNCHANGED <<disk, tx, open, proc>>, \A c \in Callers : pc[c] \in {"idle", "begin"}
      PROVE  \A s \in Sessions : tx'.rows[s] = "submitted" => disk'.rows[s] = "submitted"
  BY <1>1, Zenon DEF IInv, LeftoverInv
<1>2. CASE UNCHANGED <<disk, tx, open, proc, pc>>
  BY <1>1, <1>2, Zenon
<1>3. ASSUME NEW c \in Callers, Conn(c)
      PROVE  UNCHANGED <<disk, tx, open, proc>> /\ \A d \in Callers : pc[d] \in {"idle", "begin"}
  <2>1. \A d \in Callers : holder # d
    BY <1>3, Zenon DEF Conn
  <2>2. \A d \in Callers : pc[d] = "idle"
    BY <1>0, <2>1, Zenon
  <2>. QED
    BY <1>3, <2>2, Zenon DEF Conn
<1>4. ASSUME NEW c \in Callers, beginImmediate(c)
      PROVE  UNCHANGED <<disk, tx, open, proc>> /\ \A d \in Callers : pc[d] \in {"idle", "begin"}
  <2>1. pc' # [pc EXCEPT ![c] = "exec"]
    BY <1>0, Zenon
  <2>2. UNCHANGED <<disk, tx, open>> /\ Failed(c) /\ pc[c] = "begin"
    BY <1>4, <2>1, Zenon DEF beginImmediate
  <2>3. proc' = proc
    BY <2>2, Zenon DEF Failed
  <2>. QED
    BY <1>0, <2>2, <2>3, Zenon
<1>5. ASSUME NEW c \in Callers, Exec(c) \/ ExecFails(c)  PROVE FALSE
  BY <1>0, <1>5, Zenon DEF Exec, ExecFails
<1>6. ASSUME NEW c \in Callers, commitImmediate(c)
      PROVE  \A s \in Sessions : tx'.rows[s] = "submitted" => disk'.rows[s] = "submitted"
  <2>1. Failed(c) /\ disk' = disk /\ tx' = tx /\ pc[c] = "commit"
    BY <1>6, Zenon DEF commitImmediate
  <2>2. c \in Sessions
    BY <2>1, Zenon DEF Failed
  <2>. QED
    BY <2>1, <2>2, SessionCommit, Zenon
<1>7. ASSUME NEW c \in Callers, finishImmediate(c)  PROVE FALSE
  <2>1. MayHaveEnded(c) /\ (Failed(c) \/ (pc[c] = "finish" /\ proc' = proc))
    BY <1>7, Zenon DEF finishImmediate
  <2>. QED
    BY <2>1, Zenon DEF IInv, LifeInv, MayHaveEnded, Failed
<1>8. CASE ClaimNothing
  BY <1>0, <1>8, Zenon DEF ClaimNothing
<1>. QED
  BY <1>1, <1>2, <1>3, <1>4, <1>5, <1>6, <1>7, <1>8, Zenon
  DEF Next, vars, nextSubmittedReady, SubmittedNotDue, Start, init, Signal, Exit, Crash, Ends

\* A new spool directory: no database, nobody inside an operation.
LEMMA InitIInv == Init => IInv
<1>. SUFFICES ASSUME Init PROVE IInv
  OBVIOUS
<1>1. disk \in DB /\ tx \in DB /\ open \in BOOLEAN
  <2>. DEFINE NoRows == [s \in Sessions |-> "none"]
  <2>1. Empty = [table |-> FALSE, version |-> 0, rows |-> NoRows]
    BY Zenon DEF Empty
  <2>2. NoRows \in RowSet
    BY Zenon DEF RowSet
  <2>3. 0 \in 0..1
    OBVIOUS
  <2>. HIDE DEF NoRows
  <2>4. Empty \in DB
    BY <2>1, <2>2, <2>3, Zenon DEF DB
  <2>. QED
    BY <2>4, Zenon DEF Init
<1>2. TypeOK
  BY <1>1, Distinct, FaultsAssumption DEF Init, TypeOK, NoJob
<1>3. LifeInv /\ LeftoverInv /\ WorkerSeesCommitted
  BY Distinct, Zenon DEF Init, LifeInv, LeftoverInv, WorkerSeesCommitted, NoJob
<1>4. InsertInv
  BY Zenon DEF Init, InsertInv, Empty
<1>5. SchemaInv
  <2>1. disk.table = FALSE /\ disk.version # 1
    BY DEF Init, Empty
  <2>. QED
    BY <2>1, Zenon DEF Init, SchemaInv
<1>6. PendingInv
  BY Distinct, Zenon DEF Init, PendingInv
<1>. QED
  BY <1>2, <1>3, <1>4, <1>5, <1>6, Zenon DEF IInv

\* IInv is an invariant: of the connection with its one transaction at a time
\* (sqlite_record_store.go, 739-772), whoever fails where.
THEOREM Invariance == Spec => []IInv
<1>1. IInv /\ [Next]_vars => IInv'
  BY TypeStep, LifeStep, InsertStep, PendingStep, LeftoverStep, SchemaStep, WorkerStep, Zenon DEF IInv
<1>. QED
  BY <1>1, InitIInv, PTL DEF Spec

\* A session whose Enqueue returned nil has its record in the database, for good.
THEOREM AcknowledgedInserts == Spec => []ToldIsDurable
<1>1. IInv => ToldIsDurable
  BY Zenon DEF IInv, InsertInv, ToldIsDurable
<1>. QED
  BY <1>1, Invariance, PTL

\* A session whose Enqueue returned an error has no record, unless its own COMMIT
\* took effect: no later operation commits what a failed one left open.
THEOREM FailedInserts == Spec => []FailedStaysOut
<1>1. IInv => FailedStaysOut
  BY Zenon DEF IInv, InsertInv, FailedStaysOut
<1>. QED
  BY <1>1, Invariance, PTL

\* The worker acts on committed records only, although nextSubmittedReady reads on
\* a connection that may have a failed transaction open.
THEOREM WorkerReads == Spec => []WorkerSeesCommitted
<1>1. IInv => WorkerSeesCommitted
  BY Zenon DEF IInv
<1>. QED
  BY <1>1, Invariance, PTL

\* A start is never refused by validateSchema on a spool only this code has written.
THEOREM SchemaAccepted == Spec => []NeverRefused
<1>1. IInv => NeverRefused
  BY Zenon DEF IInv, SchemaInv, NeverRefused
<1>. QED
  BY <1>1, Invariance, PTL

\* A set inside a singleton has at most one element.
LEMMA AtMostOne ==
  ASSUME NEW S, NEW t, S \subseteq {t}
  PROVE  ~(Cardinality(S) > 1)
<1>1. IsFiniteSet({t}) /\ Cardinality({t}) = 1
  BY FS_Singleton, Zenon
<1>2. IsFiniteSet(S) /\ Cardinality(S) <= 1
  BY <1>1, FS_Subset, Zenon
<1>. QED
  BY <1>2, FS_CardinalityType

\* A COMMIT makes one operation durable: one record of a session or of the worker,
\* or the whole recovery; never the rest of somebody's failed one.
THEOREM CommitsAreSingle == Spec => OneOperationPerCommit
<1>. DEFINE One == /\ Cardinality(Changed) > 1 => proc = "recover"
                   /\ \A s \in Changed :
                        \/ disk.rows[s] = "none" /\ disk'.rows[s] = "queued" /\ pc[s] = "commit"
                        \/ disk.rows[s] # "none" /\ holder \in {Worker, Main}
<1>1. ASSUME IInv, [Next]_vars  PROVE One
  <2>1. CASE disk' = disk
    <3>1. Changed = {}
      BY <2>1, Zenon DEF Changed
    <3>2. ~(Cardinality(Changed) > 1)
      BY <3>1, AtMostOne, Zenon
    <3>. QED
      BY <3>1, <3>2, Zenon
  <2>2. ASSUME NEW c \in Callers, commitImmediate(c), disk' = tx  PROVE One
    <3>0. pc[c] = "commit" /\ holder = c
      BY <1>1, <2>2, Mutex, Zenon DEF commitImmediate, IInv
    <3>1. CASE c \in Sessions
      <4>1. Changed \subseteq {c} /\ disk.rows[c] = "none" /\ disk'.rows[c] = "queued"
        BY <1>1, <2>2, <3>0, <3>1, SessionCommit, Zenon DEF Changed
      <4>2. ~(Cardinality(Changed) > 1)
        BY <4>1, AtMostOne, Zenon
      <4>. QED
        BY <3>0, <4>1, <4>2, Zenon
    <3>2. CASE c = Worker
      <4>1. PICK t \in job.id : /\ disk.rows[t] # "none"
                                /\ \A s \in Sessions : s # t => tx.rows[s] = disk.rows[s]
        BY <1>1, <3>0, <3>2, WorkerCommit, Zenon
      <4>2. Changed \subseteq {t}
        BY <2>2, <4>1, Zenon DEF Changed
      <4>3. ~(Cardinality(Changed) > 1)
        BY <4>2, AtMostOne, Zenon
      <4>. QED
        BY <3>0, <3>2, <4>1, <4>2, <4>3, Zenon
    <3>3. CASE c = Main
      <4>1. Cardinality(Changed) > 1 => proc = "recover"
        <5>1. CASE proc = "init"
          <6>1. Changed = {}
            BY <1>1, <2>2, <3>0, <3>3, <5>1, MainCommit, Zenon DEF Changed
          <6>. QED
            BY <6>1, AtMostOne, Zenon
        <5>. QED
          BY <1>1, <3>0, <3>3, <5>1, MainCommit, Zenon
      <4>2. \A s \in Changed : disk.rows[s] # "none"
        BY <1>1, <2>2, <3>0, <3>3, MainCommit, Zenon DEF Changed
      <4>. QED
        BY <3>0, <3>3, <4>1, <4>2, Zenon
    <3>. QED
      BY <3>1, <3>2, <3>3, Distinct, Zenon
  <2>. QED
    BY <1>1, <2>1, <2>2, OnlyCommits, Zenon
<1>2. IInv /\ [Next]_vars => [One]_vars
  BY <1>1, Zenon
<1>. QED
  BY <1>2, Invariance, PTL DEF Spec, OneOperationPerCommit
=============================================================================
