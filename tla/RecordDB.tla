------------------------------ MODULE RecordDB ------------------------------
(***************************************************************************)
(* The SQLite metadata store of internal/spool (sqlite_record_store.go):    *)
(* one pooled connection (SetMaxOpenConns(1)), hand-written BEGIN IMMEDIATE *)
(* / COMMIT / ROLLBACK on it, and the schema bootstrap of a start.          *)
(*                                                                          *)
(* Spool.tla takes a store operation as one step that commits, fails or     *)
(* fails after committing.  This module goes below that: it shows what the  *)
(* connection holds when an operation fails half way, and that no later     *)
(* operation of another caller commits it.                                  *)
(*                                                                          *)
(* Callers are the sessions (each inserts one record, under a context that  *)
(* is never cancelled) and the worker (claims, reads and updates, under     *)
(* contexts that end).  `disk` is the committed database; `tx` is what the  *)
(* connection sees while a transaction is open on it.                       *)
(***************************************************************************)
EXTENDS Naturals, FiniteSets

CONSTANTS
  Sessions,    \* the sessions that enqueue; a record is named by its session
  Main,        \* the goroutine of a start: schema, then recovery
  Worker,      \* the delivery worker
  MaxFaults    \* bound on failures, crashes and signals together

ASSUME FaultsAssumption == MaxFaults \in Nat
ASSUME CallersAssumption ==
  /\ Main \notin Sessions /\ Worker \notin Sessions /\ Main # Worker
  /\ "pool" \notin Sessions \cup {Main, Worker}

VARIABLES
  disk,     \* the committed database: [table, version, rows]
  open,     \* a transaction is open on the connection
  tx,       \* the database as the connection sees it (when open)
  holder,   \* who holds the connection, or "pool"
  pc,       \* where each caller is
  proc,     \* the process: down, init, recover, up, ending, failed, refused
  told,     \* what each session was told of its insert
  unsure,   \* history: sessions whose COMMIT failed after taking effect
  job,      \* the worker's work in hand: [op, id, seen]
  faults

vars == <<disk, open, tx, holder, pc, proc, told, unsure, job, faults>>

Callers == Sessions \cup {Main, Worker}
States  == {"queued", "working", "submitted", "final"}
RowSet  == [Sessions -> States \cup {"none"}]
DB      == [table: BOOLEAN, version: 0..1, rows: RowSet]
NoJob   == [op |-> "query", id |-> {}, seen |-> "none"]
Empty   == [table |-> FALSE, version |-> 0, rows |-> [s \in Sessions |-> "none"]]

\* The database a statement on the connection reads.
View == IF open THEN tx ELSE disk

Rows(db, f) == [db EXCEPT !.rows = f]
Faulty == faults < MaxFaults /\ faults' = faults + 1

Init ==
  /\ disk = Empty /\ open = FALSE /\ tx = Empty
  /\ holder = "pool" /\ pc = [c \in Callers |-> "idle"]
  /\ proc = "down"
  /\ told = [s \in Sessions |-> "none"] /\ unsure = {}
  /\ job = NoJob /\ faults = 0

-----------------------------------------------------------------------------
(* Where an operation that ends leaves its caller. *)

\* (Wrong) the worker's loop logs the error and goes round again.
FailedContinues(c) ==
  /\ pc' = [pc EXCEPT ![c] = "idle"]
  /\ told' = IF c \in Sessions THEN [told EXCEPT ![c] = "error"] ELSE told
  /\ proc' = IF c = Main THEN "failed" ELSE proc
  /\ job' = IF c = Worker THEN NoJob ELSE job

\* The operation failed: a session answers its client, the worker's loop
\* returns the error and the process ends, a start fails.
Failed(c) ==
  /\ pc' = [pc EXCEPT ![c] = "idle"]
  /\ told' = IF c \in Sessions THEN [told EXCEPT ![c] = "error"] ELSE told
  /\ proc' = CASE c = Worker -> "ending" [] c = Main -> "failed" [] OTHER -> proc
  /\ job' = IF c = Worker THEN NoJob ELSE job

\* The operation committed.  A claim hands its record to the worker, which
\* comes back with an update; an update ends the worker's round.
Succeeded(c) ==
  /\ pc' = [pc EXCEPT ![c] = "idle"]
  /\ told' = IF c \in Sessions THEN [told EXCEPT ![c] = "ok"] ELSE told
  /\ proc' = CASE c = Main /\ proc = "init"    -> "recover"
               [] c = Main /\ proc = "recover" -> "up"
               [] OTHER                         -> proc
  /\ job' = CASE c = Worker /\ job.op = "claim" ->
                   [op |-> "update", id |-> job.id, seen |-> "working"]
              [] c = Worker /\ job.op = "update" -> NoJob
              [] OTHER -> job

-----------------------------------------------------------------------------
(* The transaction helpers. *)

\* A caller has something to do in a transaction.
Wants(c) ==
  \/ c \in Sessions /\ proc \in {"up", "ending"} /\ told[c] = "none"
  \/ c = Main /\ proc = "recover"
  \/ c = Main /\ proc = "init" /\ disk.version = 0 /\ ~disk.table
  \/ c = Worker /\ job.op = "update" /\ proc \in {"up", "ending"}
  \/ c = Worker /\ job.op = "claim" /\ proc = "up"

\* db.Conn: wait for the only connection of the pool.
Conn(c) ==
  /\ Wants(c) /\ pc[c] = "idle" /\ holder = "pool"
  /\ holder' = c
  /\ pc' = [pc EXCEPT ![c] = "begin"]
  /\ UNCHANGED <<disk, open, tx, proc, told, unsure, job, faults>>

\* The context an operation runs under can have ended: a claim's with the
\* process, an update's by the finalize timeout, the recovery's by a signal.  A
\* session's and the schema's never do.
MayHaveEnded(c) ==
  \/ c = Worker /\ (job.op = "update" \/ proc = "ending")
  \/ c = Main /\ proc = "recover"

\* (Wrong) BEGIN's "within a transaction" error is taken as success.
beginImmediateNested(c) ==
  /\ pc[c] = "begin"
  /\ open' = TRUE /\ tx' = View
  /\ pc' = [pc EXCEPT ![c] = "exec"]
  /\ UNCHANGED <<disk, unsure, holder, told, proc, job, faults>>

\* BEGIN IMMEDIATE.  SQLite refuses it on a connection that already has a
\* transaction; a refusal gives the connection back as it is.
beginImmediate(c) ==
  /\ pc[c] = "begin"
  /\ \/ /\ ~open
        /\ open' = TRUE /\ tx' = disk
        /\ pc' = [pc EXCEPT ![c] = "exec"]
        /\ UNCHANGED <<holder, told, proc, job, faults>>
     \/ /\ IF open THEN UNCHANGED faults ELSE Faulty
        /\ holder' = "pool" /\ Failed(c)
        /\ UNCHANGED <<open, tx>>
  /\ UNCHANGED <<disk, unsure>>

\* The statements of each operation, on the connection's view: insertRecord,
\* recoverMetadata, claimReadyMetadata, updateRecord.
insertRecord(c) ==
  c \in Sessions /\ tx' = Rows(tx, [tx.rows EXCEPT ![c] = "queued"]) /\ UNCHANGED job

recoverMetadata(c) ==
  /\ c = Main /\ proc = "recover"
  /\ tx' = Rows(tx, [s \in Sessions |->
              IF tx.rows[s] = "working" THEN "queued" ELSE tx.rows[s]])
  /\ UNCHANGED job

claimReadyMetadata(c) ==
  /\ c = Worker /\ job.op = "claim"
  /\ \E s \in Sessions :
       /\ tx.rows[s] = "queued"
       /\ tx' = Rows(tx, [tx.rows EXCEPT ![s] = "working"])
       /\ job' = [job EXCEPT !.id = {s}]

updateRecord(c) ==
  /\ c = Worker /\ job.op = "update"
  /\ \E s \in job.id, to \in {"queued", "submitted", "final"} :
       /\ tx.rows[s] = job.seen
       /\ tx' = Rows(tx, [tx.rows EXCEPT ![s] = to])
  /\ UNCHANGED job

\* (Wrong) the schema is created outside the transaction that sets the version.
bootstrapSchemaTwice(c) ==
  /\ c = Main /\ proc = "init"
  /\ tx' = [tx EXCEPT !.table = TRUE, !.version = 1]
  /\ disk' = [disk EXCEPT !.table = TRUE]
  /\ UNCHANGED job

\* CREATE TABLE, the indexes and PRAGMA user_version, in one transaction.
bootstrapSchema(c) ==
  /\ c = Main /\ proc = "init"
  /\ tx' = [tx EXCEPT !.table = TRUE, !.version = 1]
  /\ UNCHANGED <<job, disk>>

Exec(c) ==
  /\ pc[c] = "exec"
  /\ \/ bootstrapSchema(c)
     \/ /\ UNCHANGED disk
        /\ \/ insertRecord(c) \/ recoverMetadata(c)
           \/ claimReadyMetadata(c) \/ updateRecord(c)
  /\ pc' = [pc EXCEPT ![c] = "commit"]
  /\ UNCHANGED <<open, holder, proc, told, unsure, faults>>

\* claimReadyMetadata finds no queued record: return before COMMIT.
ClaimNothing ==
  /\ pc[Worker] = "exec" /\ job.op = "claim"
  /\ \A s \in Sessions : tx.rows[s] # "queued"
  /\ pc' = [pc EXCEPT ![Worker] = "finish"]
  /\ UNCHANGED <<disk, open, tx, holder, proc, told, unsure, job, faults>>

\* A statement fails (an I/O error, a context that ended).
ExecFails(c) ==
  /\ pc[c] = "exec" /\ Faulty
  /\ pc' = [pc EXCEPT ![c] = "abort"]
  /\ UNCHANGED <<disk, open, tx, holder, proc, told, unsure, job>>

\* finishImmediate without a commit: ROLLBACK under the caller's context, which
\* does nothing when that context has ended, then the connection goes back.
finishImmediate(c) ==
  /\ pc[c] \in {"finish", "abort"}
  /\ \/ open' = FALSE
     \/ MayHaveEnded(c) /\ open' = open
  /\ holder' = "pool"
  /\ IF pc[c] = "abort" THEN Failed(c)
     ELSE /\ pc' = [pc EXCEPT ![c] = "idle"] /\ job' = NoJob
          /\ UNCHANGED <<told, proc>>
  /\ UNCHANGED <<disk, tx, unsure, faults>>

\* (Wrong) a failed COMMIT is reported as done.
commitImmediateTrusted(c) ==
  /\ pc[c] = "commit"
  /\ holder' = "pool"
  /\ \/ disk' = tx /\ open' = FALSE /\ UNCHANGED faults
     \/ Faulty /\ disk' = disk /\ open' = FALSE
  /\ Succeeded(c)
  /\ UNCHANGED <<tx, unsure>>

\* COMMIT.  When it fails the connection is closed (returned to the pool)
\* before the deferred finishImmediate, whose ROLLBACK then has no connection
\* to run on: the transaction stays open unless SQLite ended it itself.
commitImmediate(c) ==
  /\ pc[c] = "commit"
  /\ holder' = "pool"
  /\ \/ /\ disk' = tx /\ open' = FALSE /\ Succeeded(c)
        /\ UNCHANGED <<unsure, faults>>
     \/ /\ Faulty /\ Failed(c)
        /\ \/ disk' = disk /\ open' \in BOOLEAN /\ UNCHANGED unsure
           \/ disk' = tx /\ open' = FALSE /\ unsure' = unsure \cup {c}
  /\ UNCHANGED tx

-----------------------------------------------------------------------------
(* The worker's read and the life of the process. *)

\* nextSubmittedReady runs outside any transaction, on whatever the connection
\* has open.  No submitted record: the loop goes on to the claim.
nextSubmittedReady ==
  /\ proc = "up" /\ pc[Worker] = "idle" /\ job = NoJob /\ holder = "pool"
  /\ \/ \E s \in Sessions :
          /\ View.rows[s] = "submitted"
          /\ job' = [op |-> "update", id |-> {s}, seen |-> "submitted"]
     \/ /\ \A s \in Sessions : View.rows[s] # "submitted"
        /\ job' = [NoJob EXCEPT !.op = "claim"]
  /\ UNCHANGED <<disk, open, tx, holder, pc, proc, told, unsure, faults>>

\* The loop also goes on to the claim when a submitted record is not due yet.
SubmittedNotDue ==
  /\ proc = "up" /\ pc[Worker] = "idle" /\ job = NoJob /\ holder = "pool"
  /\ job' = [NoJob EXCEPT !.op = "claim"]
  /\ UNCHANGED <<disk, open, tx, holder, pc, proc, told, unsure, faults>>

\* A start opens the database and looks at user_version.
Start ==
  /\ proc = "down"
  /\ proc' = "init"
  /\ UNCHANGED <<disk, open, tx, holder, pc, told, unsure, job, faults>>

\* Version 1 with its table: go on to recovery.  Version 0 with a table, or
\* version 1 without: the start refuses the spool.
init ==
  /\ proc = "init" /\ pc[Main] = "idle"
  /\ disk.version = 1 \/ disk.table
  /\ proc' = IF disk.version = 1 /\ disk.table THEN "recover" ELSE "refused"
  /\ UNCHANGED <<disk, open, tx, holder, pc, told, unsure, job, faults>>

\* SIGTERM: the worker's context ends; sessions in DATA go on.
Signal ==
  /\ proc = "up" /\ Faulty
  /\ proc' = "ending"
  /\ UNCHANGED <<disk, open, tx, holder, pc, told, unsure, job>>

\* The process ends, by itself or killed: the open transaction is gone, and
\* the sessions that had no answer yet never get one.
Ends ==
  /\ proc' = "down" /\ open' = FALSE /\ holder' = "pool"
  /\ pc' = [c \in Callers |-> "idle"] /\ job' = NoJob
  /\ told' = [s \in Sessions |-> IF pc[s] # "idle" THEN "lost" ELSE told[s]]
  /\ UNCHANGED <<disk, tx, unsure>>

Exit  == proc \in {"ending", "failed"} /\ pc[Worker] = "idle" /\ Ends /\ UNCHANGED faults
Crash == proc \in {"init", "recover", "up", "ending"} /\ Faulty /\ Ends

Next ==
  \/ \E c \in Callers : Conn(c) \/ beginImmediate(c) \/ Exec(c) \/ ExecFails(c)
                        \/ commitImmediate(c) \/ finishImmediate(c)
  \/ ClaimNothing \/ nextSubmittedReady \/ SubmittedNotDue
  \/ Start \/ init \/ Signal \/ Exit \/ Crash

\* The scheduler runs every goroutine; a caller in a transaction goes on, the
\* worker's loop goes round, main ends the process once the worker is back and
\* the supervisor starts it again.
Fairness ==
  /\ \A c \in Callers :
       WF_vars(beginImmediate(c) \/ Exec(c) \/ commitImmediate(c) \/ finishImmediate(c))
  /\ \A c \in Callers : SF_vars(Conn(c))
  /\ WF_vars(ClaimNothing) /\ WF_vars(init) /\ WF_vars(Exit) /\ WF_vars(Start)
  /\ SF_vars(nextSubmittedReady)

Spec == Init /\ [][Next]_vars /\ Fairness

-----------------------------------------------------------------------------
(* Properties. *)

\* The types; whoever is inside an operation holds the only connection, nobody
\* else does, and its statements run in an open transaction.
TypeOK ==
  /\ disk \in DB /\ tx \in DB /\ open \in BOOLEAN
  /\ holder \in Callers \cup {"pool"}
  /\ pc \in [Callers -> {"idle", "begin", "exec", "commit", "finish", "abort"}]
  /\ proc \in {"down", "init", "recover", "up", "ending", "failed", "refused"}
  /\ told \in [Sessions -> {"none", "ok", "error", "lost"}]
  /\ unsure \subseteq Callers
  /\ job \in [op: {"query", "claim", "update"}, id: SUBSET Sessions,
              seen: {"none", "working", "submitted"}]
  /\ faults \in 0..MaxFaults
  /\ \A c \in Callers :
       /\ pc[c] # "idle" <=> holder = c
       /\ pc[c] \in {"exec", "commit", "finish", "abort"} => open

\* A session is told of success only once its record is committed, and a record
\* once committed is never taken out again.
ToldIsDurable == \A s \in Sessions : told[s] = "ok" => disk.rows[s] # "none"

\* A session that was told its insert failed has no record in the database,
\* now or after any later commit by anyone else, except when it was its own
\* COMMIT that failed after taking effect.
FailedStaysOut ==
  \A s \in Sessions :
    told[s] = "error" /\ s \notin unsure => disk.rows[s] = "none"

\* The worker acts on committed state only: although its reads run on a
\* connection that may still have a failed transaction open, the record it
\* holds is in the committed database, in the state it read.
WorkerSeesCommitted ==
  \A s \in job.id :
    job.op = "update" => disk.rows[s] = job.seen

\* Changed rows of a step.
Changed == {s \in Sessions : disk'.rows[s] # disk.rows[s]}

\* What one commit makes durable is one operation: a single record of a session
\* or of the worker, or the recovery's return of working records to queued.
OneOperationPerCommit ==
  [][ /\ Cardinality(Changed) > 1 => proc = "recover"
      /\ \A s \in Changed :
           \/ disk.rows[s] = "none" /\ disk'.rows[s] = "queued" /\ pc[s] = "commit"
           \/ disk.rows[s] # "none" /\ holder \in {Worker, Main} ]_vars

\* A crash at any point of a bootstrap leaves a database the next start takes:
\* the store never refuses a spool that only it has written.
NeverRefused == proc # "refused"

\* A transaction left open on the pooled connection does not stay: BEGIN fails
\* for the worker, its error ends the process, and the restart begins clean.
LeftoverIsCleared == (open /\ holder = "pool") ~> ~open
-----------------------------------------------------------------------------
(* The inductive invariant of RecordDBProofs. *)

\* Who can be inside an operation while the process is in which state, and with
\* which job in hand.
LifeInv ==
  /\ \A s \in Sessions : pc[s] # "idle" => proc \in {"up", "ending"} /\ told[s] = "none"
  /\ pc[Main] # "idle" => proc \in {"init", "recover"}
  /\ pc[Worker] # "idle" => job.op \in {"claim", "update"}
  /\ job # NoJob => proc \in {"up", "ending"}
  /\ job.op = "update" => job.seen # "none"
  /\ \A c \in Callers : pc[c] = "finish" => c = Worker /\ job.op = "claim"
  /\ proc \in {"down", "init", "recover"} /\ open => holder = Main /\ pc[Main] # "begin"

\* A session that has not been told of success, and whose COMMIT did not take
\* effect unnoticed, has no record yet.
InsertInv ==
  \A s \in Sessions :
    /\ told[s] = "none" => disk.rows[s] = "none"
    /\ told[s] = "error" /\ s \notin unsure => disk.rows[s] = "none"
    /\ told[s] = "ok" => disk.rows[s] # "none"

\* What COMMIT is about to make durable: the statements of the one operation whose
\* caller holds the connection, on top of what was committed before.
PendingInv ==
  /\ \A c \in Callers : pc[c] = "exec" => tx = disk
  /\ \A s \in Sessions : pc[s] = "commit" =>
       tx = Rows(disk, [disk.rows EXCEPT ![s] = "queued"])
  /\ pc[Main] = "commit" /\ proc = "init" =>
       tx = [disk EXCEPT !.table = TRUE, !.version = 1]
  /\ pc[Main] = "commit" /\ proc = "recover" =>
       tx = Rows(disk, [s \in Sessions |->
              IF disk.rows[s] = "working" THEN "queued" ELSE disk.rows[s]])
  /\ pc[Worker] = "commit" /\ job.op = "claim" => \E s \in Sessions :
       /\ job.id = {s} /\ disk.rows[s] = "queued"
       /\ tx = Rows(disk, [disk.rows EXCEPT ![s] = "working"])
  /\ pc[Worker] = "commit" /\ job.op = "update" =>
       \E s \in job.id, to \in {"queued", "submitted", "final"} :
         tx = Rows(disk, [disk.rows EXCEPT ![s] = to])

\* A transaction that was left open while the worker goes on is a session's: it
\* shows the worker no submitted record that is not committed.
LeftoverInv ==
  open /\ proc = "up" /\ (\A c \in Callers : pc[c] \in {"idle", "begin"})
    => \A s \in Sessions : tx.rows[s] = "submitted" => disk.rows[s] = "submitted"

SchemaInv == disk.table = (disk.version = 1) /\ proc # "refused"

\* Every one of them, with the types: on every transition of the connection each
\* holds if all did (739-772).
IInv ==
  TypeOK /\ LifeInv /\ InsertInv /\ PendingInv /\ LeftoverInv /\ SchemaInv /\ WorkerSeesCommitted
=============================================================================
