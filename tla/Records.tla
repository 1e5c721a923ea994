------------------------------ MODULE Records ------------------------------
(***************************************************************************)
(* One row of the SQLite table `records` and what each transition of the   *)
(* record store writes into it.                                            *)
(*                                                                         *)
(* A row keeps the columns the worker's decisions depend on: state,        *)
(* attempt, whether operation_id is set (and with it operation_location    *)
(* and first_submitted_at_ms), and the class of last_error.  The two time  *)
(* columns are compared with the worker's clock only, so they appear in    *)
(* Spool as `due` and `aged`.                                              *)
(***************************************************************************)
EXTENDS Naturals

CONSTANT RetryAttempts   \* WorkerConfig.RetryAttempts

ASSUME RetryAttemptsAssumption == RetryAttempts \in Nat \ {0}

Live == {"queued", "working", "submitted"}
Terminal == {"succeeded", "dead-letter"}

\* "corrupt" is the LastError that deadLetterCorruptRecord stores.
ErrKind == {"none", "temporary", "permanent", "corrupt"}

Row == [state : Live \cup Terminal \cup {"absent"},
        attempt : Nat, op : BOOLEAN, err : ErrKind]

\* A row with the given columns.
row(s, n, o, e) == [state |-> s, attempt |-> n, op |-> o, err |-> e]

Absent == row("absent", 0, FALSE, "none")

\* The row that Enqueue inserts.
Queued0 == row("queued", 0, FALSE, "none")
----------------------------------------------------------------------------
(***************************************************************************)
(* The transitions.  markX leaves a row in a state it does not accept to   *)
(* its `default: return error` branch; the invariant HeldRecord of Spool   *)
(* shows that the worker never gets there.                                 *)
(***************************************************************************)
claimReady(r) == row("working", r.attempt, r.op, r.err)

requeueClaimedRecord(r) == row("queued", r.attempt, r.op, r.err)

recovered(r) == row("queued", r.attempt, FALSE, r.err)

deadLetterCorruptRecord(r) ==
  row("dead-letter", r.attempt, r.state = "submitted" /\ r.op, "corrupt")

markSubmitted(r) == row("submitted", r.attempt + 1, TRUE, "none")

\* A queued retry that forgets to charge the attempt it has just used.
markRetryKeepsAttempt(r, e) ==
  IF r.state = "working" THEN row("queued", r.attempt, FALSE, e)
                         ELSE row("submitted", r.attempt, r.op, e)

markRetry(r, e) ==
  IF r.state = "working" THEN row("queued", r.attempt + 1, FALSE, e)
                         ELSE row("submitted", r.attempt, r.op, e)

markSucceeded(r) ==
  IF r.state = "working" THEN row("succeeded", r.attempt + 1, r.op, "none")
                         ELSE row("succeeded", r.attempt, r.op, "none")

markDeadLetter(r, e) ==
  IF r.state = "working" THEN row("dead-letter", r.attempt + 1, FALSE, e)
                         ELSE row("dead-letter", r.attempt, r.op, e)
----------------------------------------------------------------------------
(***************************************************************************)
(* What the worker does with a provider's answer.  An answer is one of     *)
(*   succeeded  State == succeeded                                         *)
(*   running    State == running (Submit: with an operation id)            *)
(*   temporary  an error, or for Submit a failed/canceled result, that     *)
(*              lastErrorFromProviderError / -SubmissionFailure classify   *)
(*              as Temporary                                               *)
(*   permanent  every other error; failed, canceled and unsupported        *)
(*              states; a running Submit without an operation id           *)
(* (a failed or canceled Poll is never retried; ACS, the only provider     *)
(* that is polled, reports it with Temporary false).                       *)
(***************************************************************************)
Answers == {"succeeded", "running", "temporary", "permanent"}

\* The retry budget compared one attempt too late.
submitRetryAllowedLate(r) == r.attempt <= RetryAttempts

\* The attempt that has just ended counted twice.
submitRetryAllowedEarly(r) == r.attempt + 1 < RetryAttempts

submitRetryAllowed(r) == r.attempt < RetryAttempts

\* Every temporary failure is treated as final.
afterSubmitNoRetry(r, a) ==
  CASE a = "succeeded" -> markSucceeded(r)
    [] a = "running"   -> markSubmitted(r)
    [] OTHER           -> markDeadLetter(r, a)

afterSubmit(r, a) ==
  CASE a = "succeeded" -> markSucceeded(r)
    [] a = "running"   -> markSubmitted(r)
    [] a = "temporary" /\ submitRetryAllowed(r) -> markRetry(r, a)
    [] OTHER           -> markDeadLetter(r, a)

afterPoll(r, a) ==
  CASE a = "succeeded" -> markSucceeded(r)
    [] a = "running"   -> markRetry(r, "none")
    [] a = "temporary" -> markRetry(r, a)
    [] OTHER           -> markDeadLetter(r, a)
============================================================================
