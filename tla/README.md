# smtp-cloud-relay: TLA+ specification

The relay takes mail over SMTP, stores it durably, and hands it to a cloud mail
API in the background. This directory holds TLA+ modules translated from the Go
source, TLC configurations that check them on small instances, and proofs that
TLAPS checks for all values of the constants. Paths below are relative to the
repository; `src/` is its root.

## 1. The system

### Components, state and operations

| component | source | state | operations that change it |
|---|---|---|---|
| SMTP server and sessions | `internal/smtp/server.go` | listeners, start/ready/closed flags, `serveWG`, per session: auth, envelope | `Start`, `Shutdown`, `Close`, `NewSession`, `Auth`, `Mail`, `Rcpt`, `Data`, `Reset` |
| message parser | `internal/smtp/parser.go` | none | `ParseMessage` (pure) |
| SMTP reply mapping | `internal/smtp/delivery_status.go` | none | error -> reply code (pure) |
| relay handler | `internal/relay/handler.go` | the in-flight semaphore | `HandleMessage` |
| sender policy | `internal/email/sender_policy.go` | none | `ApplySenderPolicy` (pure) |
| spool store | `internal/spool/spool_store.go` | payload store + record store | `Enqueue`, `ClaimReady`, `NextSubmittedReady`, `Mark*`, `Recover` |
| record store | `internal/spool/sqlite_record_store.go` | SQLite table `records` | one transaction per transition |
| payload store | `internal/spool/payload_store.go`, `payload_fs.go` | directories `staging/`, `payloads/`, `payload-orphans/` | `Save`, `Load`, `Remove`, `QuarantineOrphans`, temp cleanup |
| worker | `internal/spool/worker.go` | the record it holds | the single-threaded loop: poll one due submitted record, then submit one due queued record |
| ACS provider | `internal/providers/acs/provider.go` | the operation at the service | `Submit` (POST with retries), `Poll` |
| SES provider | `internal/providers/ses/provider.go` | none | `Submit` (the SDK retries) |
| noop provider | `internal/providers/noop/provider.go` | none | `Submit` |
| provider factory | `internal/providers/factory.go` | none | builds the provider and its send timeout (pure arithmetic) |
| process | `cmd/relay/main.go` | context, `errCh`, `workerDone`, readiness | startup recovery, serving, shutdown |
| configuration | `internal/config/config.go` | none | `Load`, `Validate` (pure) |
| observability | `internal/observability/` | counters, readiness endpoint | metrics only |

### How they interact

1. A session's `Data` parses the message and calls `HandleMessage`, which applies
   the sender policy and the in-flight limit and calls `SpoolStore.Enqueue`.
2. `Enqueue` publishes the payload directory, then inserts the record; only when
   both succeeded is the reply 250. A failed insert removes the payload again, best
   effort.
3. The worker claims a due `queued` record (`working`), loads the payload, calls
   `Submit` and writes the outcome: `succeeded`, `submitted`, back to `queued`, or
   `dead-letter`. A `submitted` record is polled until the operation ends or
   `SubmittedTimeout` has passed.
4. A storage error makes the worker return it; `main` then stops everything and
   exits, to be restarted from outside.
5. At startup, before any listener is open, `Recover` requeues `working` records,
   loads the payloads of requeued and submitted records, and moves payload
   directories without a record to `payload-orphans/`.

### What makes it hard

* two stores (files and SQLite) that a crash can separate at any point;
* a COMMIT that reports an error and yet took effect;
* a provider call between the read of a record and its write, and an update that
  overwrites the whole row and compares only its state;
* a provider that accepted a mail although the relay saw an error, a timeout, or
  crashed;
* a shutdown that cancels a provider call in progress;
* a provider that answers "running" or fails temporarily for ever;
* recovery that works on a snapshot of the record ids;
* one pooled SQLite connection on which a failed operation can leave its
  transaction open for the next one;
* a server whose `Start`, `Shutdown` and `Close` may overlap at any point;
* a mail API (SES) that has no operation id, so that a retry can send a mail twice;
* a wall clock that decides what is due and may be set back.

## 2. Modules

| module | models | extends |
|---|---|---|
| `Records` | one row of `records` and what each transition writes into it; the worker's decision on each provider answer | |
| `Timing` | the duration arithmetic of `factory.go` and `retryBackoff` | |
| `Spool` | the core: sessions enqueueing, the worker, recovery, shutdown, crashes and failing writes over disk and memory | `Records` |
| `MailLedger` | what the spool promises, in four states per mail | |
| `RecordDB` | the pooled SQLite connection: BEGIN, statements, COMMIT and ROLLBACK of sessions, startup and worker, and the schema bootstrap | |
| `PayloadStore` | payload directories down to single writes, renames and syncs, with losses of power | |
| `Schedule` | when the worker gets to a record: the clock, both queries with ORDER BY, backoff, Retry-After, `SubmittedTimeout` | |
| `DeliveryContract` | what the worker relies on in any provider | |
| `AcsDelivery` | one mail through ACS: HTTP exchanges, the retry loop inside `Submit`, its deadline, shutdowns in mid-call | `Records`, `Timing` |
| `SesDelivery` | one mail through SES: the SDK's attempts inside `Submit`, lost answers, the classification of errors | `Records`, `Timing` |
| `Ingress` | connections and sessions, the in-flight limit, the reply to each DATA | |
| `SenderPolicy` | address headers and `ApplySenderPolicy`, pure | |
| `MailContent` | the content of a mail from `ParseMessage` over policy, payload, damage and `Load` to the provider's request | `SenderPolicy` |
| `SmtpServer` | `Start`, its listeners and serve goroutines, beside calls of `Shutdown` and `Close` | |
| `Startup` | from the environment to a running relay: `Load`, `Validate`, the constructors in main's order | |
| `Process` | `main` after its startup: goroutines, `errCh`, readiness and shutdown | `Startup` |
| `SpoolProofs`, `RecordDBProofs`, `PayloadProofs`, `ProcessProofs` | theorems about `Spool`, `RecordDB`, `PayloadStore` and about `Startup` with `Process`, and the lemmas they rest on | these |
| `SmtpProofs` | the same for `Ingress` and `SmtpServer` | both |
| `DeliveryProofs` | the same for `SesDelivery`, `AcsDelivery`, `Timing` and their composition | `MCDelivery` |
| `ScheduleSteps`, `ScheduleProofs` | the same for `Schedule` | `Schedule` |
| `MCSpool`, `MCPayloadStore`, `MCDelivery`, `MCMailContent`, `MCProcess` | instances for TLC; `MCDelivery` joins both providers, one per behaviour | |

`PROJECT.json` lists, for every definition, the lines it stands for. Definitions
named `...Early`, `...Late`, `...Skipped`, `...NoRetry` and the like, each standing
just before the definition it resembles, are plausible mistakes: putting one in
the place of its neighbour must make TLC report the property it is paired with.

### How they fit together

`Spool` is the core. It treats several of its parts as single steps, and each has
a module that opens it up:

* A store operation commits, fails, or fails after committing. `RecordDB` shows
  this for the real sequence of BEGIN, statement, COMMIT and ROLLBACK on the shared
  connection (`ToldIsDurable`, `FailedStaysOut`, `WorkerSeesCommitted`).
* A session publishes a payload in one step that survives crashes. `PayloadStore`
  shows it for the sequence of system calls (`SavedIsDurable`,
  `RecoveryFindsOnlyRecords`).
* A provider call answers `succeeded`, `running`, `temporary` or `permanent`, the
  first two only for mail a provider has accepted. This is `DeliveryContract`, and
  `AcsDelivery` and `SesDelivery` implement it (`ProvidersKeepContract`). Both take
  their row transitions from `Records`, as `Spool` does.
* A record becomes due, or too old, at some time. `Schedule` gives these times
  numbers (`DueIsTaken`, `SubmittedEnds`).
* No session runs during recovery, the store is open while it is used, and an error
  of the worker ends the process. `Process` shows it (`StoreOutlivesUse`,
  `FailureEndsProcess`).

`Ingress` is what precedes `Enqueue`: which command reaches a session, and what the
reply to DATA means. `MailContent` follows what a mail contains along the same path.
`Startup` decides with which configuration all of them run, and `Process` continues
where it ends. `Process` takes the SMTP server as one goroutine; `SmtpServer` goes
below that and lets anyone stop it at any moment. `Spool` in turn implements
`MailLedger`, the promise to the client: every mail is `none`, `owed`, `succeeded` or
`dead-letter`, and moves only forward.

### Correspondence with the code

**`Spool`.** A mail is named by the id of its record, so that the session which
enqueues it is `enq[i]`. `rows` and `payloads` are the disk; `wpc`, `cur`, `copy`
and `upd` are the worker's local variables: where it is, which record it holds,
the record as it was read, and the row `finalizeRecord` is about to write.
`updateRecord` compares only the state column and writes the whole row, as the
SQL does. `next_attempt_at_ms <= now` and the `SubmittedTimeout` condition are the
flags `due[i]` and `aged[i]`, which become true at any time; the order in which due
records are taken is left open, which includes the one of ORDER BY. A write may
succeed, fail, or fail after taking effect (`InsertRecordFails`,
`FinalizeRecordFails`). `hit`, `accepted`, `submits`, `damaged` and `faults` are
history.

**`RecordDB`.** `disk` is the committed database, `tx` what the connection sees
while a transaction is open on it, `holder` the caller that has the connection.
Sessions insert under a context that is never cancelled, the worker's contexts end.
A statement or a COMMIT may fail, a COMMIT also after taking effect. The ROLLBACK of
`finishImmediate` does nothing when its context has ended, and has no connection to
run on after a failed COMMIT: either leaves the transaction open on the connection
that goes back to the pool, and the next BEGIN is refused there. `init` is the schema bootstrap, with a crash
possible inside.

**`PayloadStore`.** Every directory is followed by its place: `loc` and `has` are
what the running system sees, `dloc` and `dhas` what is on disk. `PowerLoss` picks,
for every change not yet synced, whether it survives. `xdev` decides which of the
two ways to publish, and to quarantine, is taken. The order in which the files of
one staged directory are written is left open.

**`Schedule`.** Every instant is relative to the clock, so that time needs no bound
and a mail that has ended makes room for a new one. `lag` is how old the loop's one
reading of the clock is when it is used. A clock set back makes the CHECKs on
`updated_at_ms` fail, hence the worker stop and the process restart.

**`AcsDelivery`, `SesDelivery`.** `Outcomes` are the ways an exchange can end, as
the code tells them apart; a request whose exchange fails may have arrived. Time is
counted inside one call: up to `HttpTimeout` per request, exactly the backoff per
wait. ACS is external: an `Operation-Id` names an operation. SES and its SDK are
external: a SendEmail that arrives is a mail sent (`copies`), and the SDK returns
the last error, which `classifySendError` judges. `unsent` is a request that cannot be
built or signed, which ACS's `Submit` reports as permanent. `foreign` is a record that another
provider submitted before a restart. In `MCDelivery` the variable `mode` selects the
provider and the other one never moves.

**`Ingress`.** go-smtp is external: it decides which command reaches the session,
replaces the session after STARTTLS and calls `Reset` after every DATA. `to` keeps
apart the recipients given after the last MAIL, after a MAIL that another one has
replaced, and before a `Reset`; `inflight` is the length of the semaphore channel. A lost connection does not stop its handler.

**`SenderPolicy`, `MailContent`.** An address is a record of the parts the code
looks at; a text or a file is a sequence of tokens, one of which is not UTF-8. A
mail passes the stages data, parsed, allowed, stored, loaded, sent; while it is
stored the disk may be damaged. What a reader of the provider's request sees (`Seen`) is
compared with what the client wrote.

**`SmtpServer`.** Every step is what happens between two points where another
goroutine may run: `beginStart`, each bind, `storeManagedListeners`, the launch of
each serve goroutine, the select; in `Shutdown` and `Close` taking the listeners,
closing each of them and each server, waiting. go-smtp's `Close` is one step.

**`Startup`, `Process`.** A setting is the class of its text (a number, zero, a
word, blank, ...), given by its variable, its `_FILE`, or its alias. A number of
milliseconds becomes a duration by a product that wraps at the width of an int64, as
in Go; the width is scaled down to 2^16 and `time.Millisecond` to 1000, so that 33 and
66 stand for the first numbers (9223372036855 and 18446744073710) whose products wrap to
a negative duration and to a positive one. The steps of main are those of `main.go` in their order. When the goroutines start, the
environment and the configuration are forgotten: nothing reads them any more. From
there `main` names main's place and each goroutine has a state of its own.
`listening` is true while an SMTP listener is open, also when `Start` binds it only
after main's `Shutdown` found nothing to close; such a listener lives until the process
does, hence the place `closed` of main between the end of the store and `Exit`. A signal is possible from
`NotifyContext` on; one that arrives during `Recover` is one of the ways in which
`Recover` breaks. `shutdownCtx` bounds both calls of `Shutdown`, so they are one step.

## 3. Runs

| run | instance | distinct states | what it shows |
|---|---|---|---|
| `spool_safety` | 2 mails, 1 retry, 2 faults | 1.06 million | acknowledged mail is kept, submissions are bounded, retries are used, orphans are set aside; refinement of the ledger |
| `spool_progress` | 2 mails, 1 retry, 1 fault | 376,925 | every acknowledged mail is settled, across a restart; `IInv` |
| `delivery` | 2 retries, 2 faults; durations to 255 | 194,498 | requests and copies are bounded, deadlines cover the retries and all of them are made, both providers implement the contract, the timeout arithmetic is exact |
| `record_db` | 2 sessions, 3 faults | 29,387 | no caller commits, sees or loses the work of another; a transaction left open is cleared |
| `payload_store` | 2 payloads of 2 files, 3 faults | 19,978 | durability, no partial entries, startup possible, orphans kept |
| `schedule` | 2 records, 1 retry, clock set back by 1 | 1.78 million | how late a due record and a submitted one can be, how long a restart can fail |
| `ingress` | 2 connections, limit 1 | 117,506 | session policy, no recipient from before a Reset, truth of replies, every DATA ends |
| `mail_content` | mails of up to 2 parts, 1 damage | 1.26 million | content arrives whole, damage is noticed, Reply-To follows the list |
| `process` | 3 modes, any two settings changed | 294,538 | configuration, order of startup and shutdown, readiness, termination |
| `smtp_server` | 2 listeners, 1 stopper | 49,552 | nothing is served once Start is back, every call returns |
| `process_noop` | as `process` | violated | finding 1 |
| `delivery_temporary` | as `delivery` | violated | finding 2 |

**Bounds.** `MaxFaults` bounds crashes, shutdowns, failing writes and damage
together. Two faults allow what is hardest in the spool, a failure while the
consequences of an earlier one are being repaired (an ambiguous commit followed by a
crash during recovery). `spool_progress` has one: liveness is about what follows the
last fault, and the states an earlier one leads to satisfy the proved `IInv`
whatever their number. One retry distinguishes the first and the last attempt; the
run `delivery` has two. Two mails suffice for the worker to hold one while the other
is enqueued, recovered or due; the worker is single-threaded and the store has no
operation on more than one record, except recovery, which has both in hand. In
`record_db` three faults allow a failed COMMIT, a failure of the operation that finds
the transaction left open, and a crash. In `payload_store` three
allow a failed Save, a loss of power and a failure during the recovery from it. In
`schedule` a Submit call can take twice the poll interval, a Retry-After is longer
than both, and `SubmittedTimeout` leaves room for several polls. In `delivery` the
largest duration is 255 instead of 2^63 - 1, and inputs go to 33 with 10 attempts, so
that the comparisons with `maxDuration/2` and `maxDuration - v` meet every case on
both sides. In `process` every pair of settings is tried against a working
environment of each mode: every single condition of `Validate` and of the constructors
is met on both sides, alone and together with every other setting, and the working
environments have a valid key pair, so that two changes reach each way to ask for TLS.
Every duration is also tried with a product that wraps below zero and one that wraps
above it. `smtp_server` has one caller of `Shutdown` or `Close` beside the cancellation
of Start's context.

**Type invariants** stand in every module. Those of `Spool`, `RecordDB`, `PayloadStore`
and `Ingress` are proved; the other modules hold theirs on the instances above and
prove of the types what their inductive invariants need. They are not listed in the
configurations, which name what says more.

**Deadlock** is checked in every run except `process` and `smtp_server` (they end),
`mail_content` (the mail has been sent or refused) and `payload_store` (once every
id has been used a serving store has nothing to do).

**Symmetry** is used in `spool_safety` and `payload_store`, where ids are
interchangeable and no liveness is checked.

**Fairness.**

* `Spool`: weak fairness of the worker's steps, recovery, sessions, exit and
  restart, of the end of a provider call, and of time. The loop has no other exit
  than the context or an error, each provider call runs under `SubmitTimeout`, each
  write under `FinalizeTimeout`, the sleep is `PollInterval`, and the deployment
  restarts the process. Faults are never forced, and nothing is assumed about what
  the provider answers.
* `RecordDB`: weak fairness of every step on a connection one holds, strong fairness
  of getting it. `database/sql` hands a connection that becomes free to the longest
  waiting request, so that nobody is passed over for ever.
* `Ingress`: weak fairness of the end of `Enqueue` and of the reply.
* `Process`: weak fairness of main's steps, of sending an error, and of the worker's
  return once the context is cancelled.
* `SmtpServer`: weak fairness of every goroutine's next step and of the expiry of
  `Shutdown`'s context. Neither cancellation nor a stop is forced.

The other modules have no liveness property; `Schedule` states bounds on time as
invariants instead.

## 4. Proofs

The theorems hold for every number of retries and of faults, all durations, all
environments, and every set of mails or sessions, finite or not (`Ingress` and
`Schedule`, which count, take finite sets).

| module | theorem | statement |
|---|---|---|
| `SpoolProofs` | `Invariance`, `TypeCorrect` | `IInv`, `TypeOK` |
| | `Durability` | `NoFalseSuccess`: acknowledged mail has a record and its payload |
| | `Ownership` | `HeldRecord`, `NoStuckWork`: the worker's copy is never stale |
| | `Acceptance` | `SucceededWasAccepted` |
| | `BoundedSubmission` | `SubmitBudget` |
| | `RetryHonoured` | `RetriesUsedUp` |
| | `Pollable` | `OperationMatchesState` |
| | `OrphanSafety` | `OrphansSetAside` |
| | `Finality` | `TerminalIsFinal` |
| | `Refinement` | `ImplementsLedger` |
| `RecordDBProofs` | `Invariance` | `IInv` |
| | `AcknowledgedInserts` | `ToldIsDurable`: a session told of success has its row on disk |
| | `FailedInserts` | `FailedStaysOut`: a session told of failure has none, unless its COMMIT took effect |
| | `WorkerReads` | `WorkerSeesCommitted`: the worker acts on committed rows only |
| | `SchemaAccepted` | `NeverRefused`: no crash leaves a database that a later start refuses |
| | `CommitsAreSingle` | `OneOperationPerCommit`: no commit takes another caller's work along |
| `PayloadProofs` | `Invariance` | `IInv` |
| | `SavedDurable` | `SavedIsDurable`: what Save has returned survives any loss of power |
| | `RecoveryClean` | `RecoveryFindsOnlyRecords` |
| | `OrphansKept` | `OrphanKept`: the quarantine never leaves an orphan incomplete on disk |
| `SmtpProofs` | `Invariance`, `TypeCorrect` | `IInv`, `TypeOK` of `Ingress` |
| | `SlotsExact` | `InflightExact`: the semaphore holds one slot per handler, never more than the limit |
| | `PolicyEnforced` | `PolicyHolds` |
| | `EnvelopesSeparate` | `EnvelopeIsolated`: no recipient from before a `Reset` is in a mail |
| | `RepliesTrue` | `ReplyIsTrue` |
| | `ServerInvariance` | `ServerIInv` of `SmtpServer` |
| | `StartEndsService` | `NothingServedAfterStart`, for any number of concurrent calls of `Shutdown` and `Close` |
| `DeliveryProofs` | `Invariance`, `AcsInvariance` | `IInv` of `SesDelivery`, of `AcsDelivery` |
| | `CopiesBounded` | `CopiesExplained`: every copy beyond the first follows a lost answer |
| | `HeardIsKept` | `HeardIsNotGivenUp` |
| | `TriesUsed` | `AllTriesAreUsed`: without a shutdown or a crash no mail is given up for a temporary failure while attempts are left, for a timeout that did not saturate |
| | `SubmittedKept` | `SubmittedIsKept`: a submitted mail is not posted again, and a poll without a response does not end it |
| | `RequestsBounded` | `RequestBudget`, from `SendsBounded` (SES) and `AcsPosts` |
| | `ContractKept` | `ProvidersKeepContract`, from `SesImplements` and `AcsImplements` |
| | `DeadlinesSuffice` | `DeadlinesCoverRetries`, for a timeout that did not saturate |
| | `TimeoutExact` | `SendTimeoutIsExact`: the saturating loops of `runtimeSendTimeout` compute the capped closed form |
| `ProcessProofs` | `Invariance` | `IInv` |
| | `ConfigurationAgreement` | `ConstructorsAgree`: after `Load` only the texts it does not parse, noop's timeout and durations that wrap are refused |
| | `GuardedWhenRunning` | `RunningIsGuarded` |
| | `StoreLifetime` | `StoreOutlivesUse`: the store is open while the worker runs, and while a listener does until main, asked to stop, has closed it |
| `ScheduleProofs` | `Invariance` | `IInv` |
| | `DueInTurn` | `DueIsTaken`: neither queue starves the other |
| | `SubmittedInTime` | `SubmittedEnds` |
| | `DownInTime` | `DownNoLonger` |

None of the invariants is inductive alone.

* **Spool.** `NoFalseSuccess`, for instance, speaks of acknowledged mail, but is
  preserved only because a session that has saved has its payload, because no session
  is in that phase while recovery runs, and because the snapshot `valid` that recovery
  works on is the set of ids with a row. `IInv` adds these: `SessionInv` (each phase of
  a session and what is on disk), `ProcessInv` (recovery runs alone, on an accurate
  snapshot), `OrphanInv`, `UpdateInv` (what the row in the worker's hands may be),
  `AttemptInv` and `ChargeInv` (every Submit call is in the attempt column, in
  progress, or paid for by a fault), `AcceptInv`. There is one lemma per conjunct, with
  one step per action. `spool_progress` checks `IInv` with TLC.
* **RecordDB.** What a COMMIT makes durable is what the connection holds, so `IInv`
  says what that can be: `PendingInv` (an open transaction differs from the disk by
  the work of its owner alone), `LeftoverInv` (a transaction left open while the
  worker goes on shows it no submitted record that is not committed), `LifeInv` (who
  may hold the connection in which phase of the process), `InsertInv`, `SchemaInv`.
* **PayloadStore.** `PayloadInv(i)` speaks of one payload, so a step has to be examined
  for the payload it works on, for a sync (which touches the disk state of all) and for
  starts and ends of the process. `DirInv` says what can be under `payloads/`, now or
  after a loss of power: one directory per payload, complete unless its removal has
  begun; and that a temporary directory is where the disk has it, so that the clean-up
  of the next start finds it. `SaveInv` says how far each step of Save has come,
  `OrphanInv` where an orphan is complete at each step of the quarantine, `PhaseInv`
  who runs when.
* **Ingress.** `ConnInv` ties a connection's place to its session, its reply and the
  history of its mail. That the semaphore's length is the number of handlers follows by
  counting: a step moves at most one connection in or out of a finite set. The lemmas
  `OthersUntouched` and `OwnStep` split each step into the connection that moves and all
  others.
* **SmtpServer.** When `Start` is back nothing is served, because it leaves by one of a
  few ways and each has waited for the serve goroutines or never started any.
  `LaunchInv` says which of them exist at each point of `Start`, and that one ends only
  for a closed socket or a failed accept; `WaitInv` that the channel `wait` and Start's
  own `Shutdown` stand for the end of all of them; `CloseInv` what a call that came
  after the beginning of `Start` knows.
* **SesDelivery.** `CallInv` says what the worker is about to write and on which
  record, `HeardInv` that an acceptance that was heard of is concluded, or about to be,
  unless a crash came in between. `SendInv` is the account of requests: those that the
  attempts in the record and the faults do not explain belong to the call in progress.
  `TriesInv`, here and in `AcsDelivery`, is about the time before the first fault: a call
  whose last try failed temporarily ends as a temporary failure, and with ACS the record
  accounts for every POST exactly. It rests on the deadlines (`SesDeadline`,
  `AcsDeadline`), for one that expired would end a call with tries left.
* **AcsDelivery.** `OperationInv` says that ACS knows at most the one operation, `CallInv`
  on which record the worker works, what it is about to write, and that a submitted
  record has its operation; `PostInv` accounts for requests as `SendInv` does. The
  composition `MCDelivery` inherits all of it: the provider that was not built stutters
  in its initial state (`EachProvider`).
* **Timing.** `retryBackoffTotal` and the backoff are loops, written as recursive
  functions. That these have values, and which, is proved without induction over an
  operator: the set of lengths for which a loop's table exists contains 0 and the
  successor of each of its members, hence every number (`SetInduction`), and two tables
  agree where both are defined (`Unique`). By the same rule the saturating sum grows
  by exactly one backoff until it reaches the largest duration (`TotalStep`, `Room`),
  and capping at every step equals capping once (`CappedProduct`, `CappedTotal`).
  `TimeInv` then bounds the time a call has taken by its finished tries and the delays
  between them, which the deadline exceeds. `DeadlinesSuffice` has the hypothesis
  `Deadline < MaxDuration`, as the statement is false without it: a timeout that was cut
  off at 2^63 - 1 nanoseconds (292 years) is shorter than the retries it is meant for.
* **Startup, Process.** `LoadedInv` is what the constructors may rely on in a
  configuration that `Load` returned, `ProviderInv` and `ListenerInv` are what
  `providers.Build` and `PrepareListeners` have found out, `WorkerInv` that recovery is
  reached with a worker that `NewWorker` accepted, `StageInv` says which steps of
  main are behind. The constructors' repeated checks then succeed one by one. `MainInv`
  ties the store to main, the worker and a listener that was bound late. Nothing is assumed about the environment.
* **Schedule.** That a due record is taken in time is proved by counting down. `TurnInv`
  says of every queued or submitted record that its age, the rounds of the records that
  may be preferred to it (`Ahead`), and the time the process may yet be down fit into its
  bound. It differs for every place of the worker's loop, since a round works with the
  clock as it read it: what became due during the round waits for the next one. Time
  uses the bound up, and every round removes the first due record of each queue from
  before all others. `WorkerInv` says how old the round's clock is and what the worker
  holds, `ClockInv` how far a creation can be ahead of a clock that was set back (which
  is how long the CHECKs refuse every write), `LateInv` that a submitted record which is
  not due is not late. The steps use of the constants only what `Measures` says of them:
  sizes, and that one record less is one round less; `MeasuresHold` proves it.

Assumptions, each on constants only: `RetryAttemptsAssumption` (at least one attempt:
`Validate` demands it at `internal/config/config.go:348` and `NewWorker` at
`internal/spool/worker.go:68`), `MaxFaultsAssumption`, `FaultsAssumption` (natural
numbers), `PayloadAssumption` (a payload has at least one file: message.json),
`NoIdAssumption` (no mail is called `NoId`), `CallersAssumption` (sessions, main, worker
and the pool have different names), `InflightAssumption` (the limit is positive, as
`NewHandler` demands), `ConnsAssumption` (finitely many connections), `SesAssumption`
and `DurationAssumption` (durations are natural numbers, the grace period is one of
them), `ScheduleAssumption` (the durations `NewWorker` checks are positive, finitely many
records are live at a time, and a provider's Retry-After values have a maximum),
`ConfiguredAssumption` (the listeners are smtp, smtps or both), `StarterAssumption`
(Start's own call of `Shutdown` is not one of the others).

Only model-checked: liveness (`EveryMailSettles`, `LeftoverIsCleared`, `DataEnds`,
`FailureEndsProcess`, `StopsWhenAsked`, `CancelEndsCalls`), which is outside the
prover's reach, and the three properties of `MailContent`, whose recursion over MIME
parts uses RECURSIVE operators, which the prover does not support. Every other
property of a passing run is the statement of a theorem.

## 5. Findings

Two have a run of their own:

1. **The relay does not start in noop mode** (`process_noop`). `Build` leaves
   `SendTimeout` at zero for noop (`internal/providers/factory.go:33`), `NewWorker`
   refuses it (`internal/spool/worker.go:59`). README.md:15 and :169 describe the mode.
2. **Temporary failures that end a delivery** (`delivery_temporary`). The provider
   reports them as permanent and the worker writes `dead-letter` with retries left, in
   four cases: the context ends while ACS's `Submit` waits after a retryable answer
   (`acs/provider.go:370`); a connection breaks, or a shutdown cuts it off, in the body of
   a 202 (`acs/provider.go:539`, `:621`) or of the 200 of a poll (`:404`); net/http's client timeout on the way to SES, whose
   text contains "context deadline exceeded" (`ses/provider.go:347`, `:587`); a
   ThrottlingException, which has HTTP status 400 (`ses/provider.go:330`).
   FEATURE.md:1627: "A provider temporary failure is retried with backoff."; FEATURE.md:279
   and :283 say the same of ACS transport errors and of SES transport and throttling
   errors.

Nine more statements are defined in the modules and are not satisfied by the code: seven
of the documentation, and two (`RecipientsOfOneMail`, `LoneFileIsAttached`) that no
document makes but that a reader may take for granted. TLC refutes each when it replaces
the properties of the configuration named:

| statement | configuration | what happens |
|---|---|---|
| `ShutdownStopsServing` | `SmtpServer.cfg` | a `Shutdown` that comes before `Start` has stored its listeners finds nothing to close and returns; `Start` then serves (`internal/smtp/server.go:353`; server.go:301, FEATURE.md:224) |
| `FatalErrorReturned` | `SmtpServer.cfg` | the select of `Start` may see the end of its goroutines before the error that ended them, and returns nil (`server.go:288`; server.go:219) |
| `ShutdownNeverPanics` | `SmtpServer.cfg` | `serveWG.Add` runs beside a `Wait` that has just been released (`server.go:260`, `:318`; FEATURE.md:204) |
| `RetryWaits` | `Schedule.cfg` | the next attempt is computed from the clock as the round read it, so a Submit call longer than the backoff is repeated at once (`internal/spool/worker.go:109`, `:155`; FEATURE.md:1627) |
| `LoadReconstructs` | `MCMailContent.cfg` | a text that is not UTF-8 is altered when the manifest is written as JSON (`internal/spool/payload_store.go:225`; payload_store.go:255, FEATURE.md:664) |
| `EmptyListAllowsValid` | `MCMailContent.cfg` | an address whose local part needs quotes loses them before it is parsed again, and is refused (`internal/email/sender_policy.go:130`; FEATURE.md:382) |
| `FirstValidReplyTo` | `MCMailContent.cfg` | one address that cannot be read discards the whole Reply-To, and a first one that needs quotes is chosen and then refused (`internal/smtp/parser.go:197`, `sender_policy.go:124`; FEATURE.md:384) |
| `LoneFileIsAttached` | `MCMailContent.cfg` | a mail that is nothing but a file, without a multipart, becomes the text of the mail (`parser.go:59`) |
| `RecipientsOfOneMail` | `Ingress.cfg` | a second MAIL without RSET replaces the sender and keeps the recipients (`internal/smtp/server.go:500`) |

Limits of what holds, visible in the statements of the properties:

* `SubmitBudget` and `RequestBudget` grow with each fault: a crash between the
  provider's answer and the write leaves no trace of the attempt. With ACS all of
  them carry the `Operation-Id` that `operationID` makes of the record's id; with SES each
  may be a copy of the mail (`CopiesExplained`).
* `AllTriesAreUsed` leaves out shutdowns and crashes, and with SES counts the worker's
  attempts only: how often the SDK tries in a call is up to its retry quota.
* `SubmittedIsKept` lets a poll whose 200 has an unusable body end the mail, also when it
  was a shutdown that cut the body off (finding 2).
* `EnvelopeIsolated` separates recipients by `Reset`, not by MAIL (`RecipientsOfOneMail`).
* `StoreOutlivesUse` excepts a listener that `Start` binds during the shutdown
  (`ShutdownStopsServing`): it may be open beside the closed store until the process ends.
* `ConstructorsAgree` lists what passes `Validate` and is refused later. Durations are
  among it: `Validate` compares milliseconds with 1 and the constructors the product with
  `time.Millisecond`, which wraps (`factory.go:37`, `main.go:52`). A product that wraps to
  a positive duration is accepted as that duration. The poll interval is checked by
  `NewWorker` only, after the store has been opened.
* `OrphanKept` leaves out an orphan whose removal failed after it was copied:
  `copyAndRemoveOrphan` then deletes the copy (`payload_store.go:493`).
* `FailureEndsProcess` leaves out the error that `Start` drops (`FatalErrorReturned`).
* `RetriesUsedUp` concerns failures classified as temporary; finding 2 is about the
  classification.
* `ContentArrives` and `DamageNoticed` allow for U+FFFD in place of what is not UTF-8, and
  `ContentArrives` for a lone file that arrives as text (`LoneFileIsAttached`).
  `DamageNoticed` is about the files that have a checksum: another text, address or name
  in a manifest that is still valid JSON goes unnoticed.
* `ReplyToFollowsList` takes a Reply-To with an unreadable address for absent, and
  requires nothing to be given for a first address that needs quotes (`FirstValidReplyTo`).

## 6. Not modelled

* Request signing and the construction of URLs: computations on strings that nothing
  else depends on.
* Metrics, logging and the wording of refusals: nothing reads them back.
* The scanning of columns and the conversion of times to milliseconds.
* Subject, To and the normalisation of recipients, and the text of trace headers
  beyond the addresses they carry. Quoted-printable is taken together with base64. The
  parser drops inline parts that are neither text nor named, and nested multiparts
  without a boundary; the model does so too, and no property claims them.
* A change of the manifest that leaves it valid JSON: it has no checksum, so `Load`
  cannot notice.
* Transport settings of the HTTP client, apart from the timeout and the checks made
  on them.
* A change of delivery mode between two starts, apart from `foreign` in `SesDelivery`.
* In `SmtpServer`, a second `Start` (it is refused and changes nothing) and more than
  one stopper at a time in the run; the module itself has a set of them.
* The contract of the file system is assumed: a rename is atomic and is durable when
  its target's parent is synced. So is SQLite's: a transaction is atomic and a COMMIT
  that succeeded is durable.
