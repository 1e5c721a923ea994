---------------------------- MODULE AcsDelivery ----------------------------
(***************************************************************************)
(* One mail on its way through Azure Communication Services: the worker's  *)
(* Submit and Poll calls opened up into HTTP requests, with lost answers,  *)
(* the retry loop inside Submit, the call's deadline, shutdowns that       *)
(* cancel the call, and crashes.  The storage side (failing writes, other  *)
(* mails) is Spool's subject; here a write succeeds or the process dies.   *)
(*                                                                         *)
(* ACS itself is external.  It is modelled from how the code uses it: a    *)
(* POST with the header Operation-Id starts the operation of that name, or *)
(* finds it already started; a GET reports its state.                      *)
(*                                                                         *)
(* Time is counted within one call only: a POST takes at most HttpTimeout  *)
(* (the http.Client's), a backoff its delay, and the call's context        *)
(* expires after runtimeSendTimeout.                                       *)
(***************************************************************************)
EXTENDS Records, Timing

CONSTANTS HttpTimeout,   \* cfg.DeliveryHTTPTimeoutMS
          BaseDelay,     \* cfg.DeliveryRetryBaseDelayMS
          MaxFaults      \* bound on crashes and shutdowns

VARIABLES
  r,        \* disk: the record
  proc,     \* the process
  pc,       \* the worker, inside Submit or Poll
  n,        \* Submit's loop variable `attempt`
  ctx,      \* the call's context
  elapsed,  \* time since the call began
  upd,      \* the row finalizeRecord is to write
  ops,      \* ACS: the names of the operations it has started
  opState,  \* ACS: how far the operation is
  posts,    \* history: POST requests
  last,     \* history: what the last provider call ended with
  faults    \* history: crashes and shutdowns

call == <<n, ctx, elapsed>>
acs == <<ops, opState>>
vars == <<r, proc, pc, call, upd, acs, posts, last, faults>>

\* How one HTTP exchange can end:
\*   unsent       a permanent error before it: no body, request id, signature or request
\*   transport    httpClient.Do returns an error; the request may have arrived
\*   unavailable  429 or 5xx
\*   rejected     any other unexpected status
\*   broken       the expected status, but reading the body fails
\*   garbled      the expected status, but the body does not decode
\*   answered     the expected status and a body
Outcomes == {"unsent", "transport", "unavailable", "rejected", "broken", "garbled", "answered"}

\* A deadline or a shutdown ends the exchange in Do or while the body is read; what
\* comes before them does not look at the context.
Interrupted == {"unsent", "transport", "broken"}

\* A failed exchange classified like a rejected one.
RetryableStatusOnly(o) == o = "unavailable"

\* SendError.Retryable, through temporarySendError, statusSendError and
\* permanentSendError.
Retryable(o) == o \in {"transport", "unavailable"}

\* The Runtime.SendTimeout that providers.Build computes, the worker's SubmitTimeout.
Deadline == runtimeSendTimeout(HttpTimeout, BaseDelay, RetryAttempts)

InCall == {"posting", "backoff", "polling"}

TypeOK ==
  /\ r \in Row /\ upd \in Row
  /\ proc \in {"running", "stopping", "down"}
  /\ pc \in InCall \cup {"idle", "final"}
  /\ n \in Nat
  /\ ctx \in {"live", "canceled", "expired"}
  /\ elapsed \in Nat
  /\ opState \in {"none", "running", "succeeded", "failed"}
  /\ posts \in Nat
  /\ last \in Outcomes \cup {"none", "timeout"}
  /\ faults \in 0..MaxFaults

Init ==
  /\ r = Queued0 /\ upd = Absent
  /\ proc = "running" /\ pc = "idle"
  /\ n = 1 /\ ctx = "live" /\ elapsed = 0
  /\ ops = {} /\ opState = "none"
  /\ posts = 0 /\ last = "none" /\ faults = 0
----------------------------------------------------------------------------
\* processQueuedOnce passes the record's id, every POST sends it as Operation-Id.
operationID == "record"

Call(p) == pc' = p /\ n' = 1 /\ ctx' = "live" /\ elapsed' = 0

\* processQueuedOnce: claim the record and enter Submit.
BeginSubmit ==
  /\ proc = "running" /\ pc = "idle" /\ r.state = "queued"
  /\ r' = claimReady(r)
  /\ Call("posting")
  /\ UNCHANGED <<proc, upd, acs, posts, last, faults>>

\* processSubmittedOnce: enter Poll.
BeginPoll ==
  /\ proc = "running" /\ pc = "idle" /\ r.state = "submitted"
  /\ Call("polling")
  /\ UNCHANGED <<r, proc, upd, acs, posts, last, faults>>

\* processSubmittedOnce: SubmittedTimeout has passed.
SubmittedTimeout ==
  /\ proc = "running" /\ pc = "idle" /\ r.state = "submitted"
  /\ upd' = markDeadLetter(r, "permanent")
  /\ pc' = "final"
  /\ last' = "timeout"
  /\ UNCHANGED <<r, proc, call, acs, posts, faults>>

\* A wait of d inside the call; past the deadline its context has expired.
Wait(d) ==
  /\ elapsed' = elapsed + d
  /\ ctx' = IF ctx = "live" /\ elapsed + d > Deadline THEN "expired" ELSE ctx

\* What Submit returns to the worker, which decides on the next row.
SubmitReturns(a) == upd' = afterSubmit(r, a) /\ pc' = "final"

\* ACS may have started the operation unless it says it has not.
Start(o) ==
  \/ o \notin {"unsent", "rejected"} /\ ops' = ops \cup {operationID}
     /\ opState' = IF opState = "none" THEN "running" ELSE opState
  \/ o \notin {"broken", "garbled", "answered"} /\ UNCHANGED acs

\* submitOnce, and what the loop of Submit does with its result; before the first POST
\* Submit builds the body of all of them.
SubmitOnce(o) ==
  /\ pc = "posting"
  /\ \E d \in 0..HttpTimeout : Wait(d)
  /\ ctx' # "live" => o \in Interrupted
  /\ Start(o)
  /\ posts' = IF o = "unsent" THEN posts ELSE posts + 1
  /\ last' = o
  /\ CASE o = "answered"                      -> SubmitReturns("running")
       [] Retryable(o) /\ n < RetryAttempts   -> pc' = "backoff" /\ UNCHANGED upd
       [] Retryable(o) /\ n = RetryAttempts   -> SubmitReturns("temporary")
       [] OTHER                               -> SubmitReturns("permanent")
  /\ UNCHANGED <<r, proc, n, faults>>

\* The backoff ends: with its timer, or because the deadline comes first, which is
\* a permanent error like any end of the context.
Backoff ==
  /\ pc = "backoff"
  /\ Wait(retryBackoff(BaseDelay, n))
  /\ IF ctx' = "expired" THEN SubmitReturns("permanent") /\ UNCHANGED n
     ELSE pc' = "posting" /\ n' = n + 1 /\ UNCHANGED upd
  /\ UNCHANGED <<r, proc, acs, posts, last, faults>>

\* A shutdown ends the backoff: permanentSendError(..., ctx.Err()).  Its select may
\* still choose the timer if that has fired too.
BackoffCanceled ==
  /\ pc = "backoff" /\ ctx = "canceled"
  /\ SubmitReturns("permanent")
  /\ UNCHANGED <<r, proc, call, acs, posts, last, faults>>

\* Poll: one GET, no loop.
Poll(o) ==
  /\ pc = "polling"
  /\ \E d \in 0..HttpTimeout : Wait(d)
  /\ ctx' # "live" => o \in Interrupted
  /\ last' = o
  /\ upd' = afterPoll(r, CASE Retryable(o) -> "temporary"
                           [] o = "answered" /\ opState # "failed" -> opState
                           [] OTHER -> "permanent")
  /\ pc' = "final"
  /\ UNCHANGED <<r, proc, n, acs, posts, faults>>

FinalizeRecord ==
  /\ pc = "final"
  /\ r' = upd
  /\ pc' = "idle"
  /\ UNCHANGED <<proc, call, upd, acs, posts, last, faults>>

\* The loop finds nothing to do and sleeps.
Idle ==
  /\ proc = "running" /\ pc = "idle" /\ r.state \in Terminal
  /\ UNCHANGED vars
----------------------------------------------------------------------------
\* ACS works on the operation.
OperationEnds ==
  /\ opState = "running"
  /\ opState' \in {"succeeded", "failed"}
  /\ UNCHANGED <<r, proc, pc, call, upd, ops, posts, last, faults>>

Fault == faults < MaxFaults /\ faults' = faults + 1

\* SIGTERM cancels the context of the call in progress.
Shutdown ==
  /\ proc = "running" /\ Fault
  /\ proc' = "stopping"
  /\ ctx' = IF pc \in InCall /\ ctx = "live" THEN "canceled" ELSE ctx
  /\ UNCHANGED <<r, pc, n, elapsed, upd, acs, posts, last>>

Exit ==
  /\ proc = "stopping" /\ pc = "idle"
  /\ proc' = "down"
  /\ UNCHANGED <<r, pc, call, upd, acs, posts, last, faults>>

Crash ==
  /\ proc # "down" /\ Fault
  /\ proc' = "down" /\ pc' = "idle"
  /\ UNCHANGED <<r, call, upd, acs, posts, last>>

\* recoverMetadata requeues an interrupted record.
Restart ==
  /\ proc = "down"
  /\ proc' = "running"
  /\ r' = IF r.state = "working" THEN recovered(r) ELSE r
  /\ UNCHANGED <<pc, call, upd, acs, posts, last, faults>>

Next ==
  \/ BeginSubmit \/ BeginPoll \/ SubmittedTimeout \/ Backoff \/ BackoffCanceled
  \/ Idle \/ FinalizeRecord \/ OperationEnds \/ Shutdown \/ Exit \/ Crash \/ Restart
  \/ \E o \in Outcomes : SubmitOnce(o) \/ Poll(o)

Spec == Init /\ [][Next]_vars
----------------------------------------------------------------------------
\* runtimeSendTimeout leaves room for every POST and every backoff of a Submit
\* call: its deadline never cuts the retries of the provider short.
DeadlineCoversRetries == ctx # "expired"

\* The two retry loops multiply: ACS sees at most RetryAttempts POSTs for each of
\* the RetryAttempts + 1 Submit calls, plus those of calls lost in a crash.
PostBudget == posts <= RetryAttempts * (RetryAttempts + 1 + faults)

\* The ways a poll ends a submitted mail without a verdict of ACS, and SubmittedTimeout.
EndsPoll == {"unsent", "rejected", "broken", "garbled", "timeout"}

\* A submitted mail is not posted again, succeeds only when its operation has, and is given
\* up only for an operation that has failed, an answer that cannot be used or after
\* SubmittedTimeout.  A poll that fails, or is cancelled, before there is a response, and a
\* 429 or 5xx, leave it submitted.  (A body that breaks off, also by a shutdown, counts as
\* an answer that cannot be used: TransportErrorIsTemporary.)
SubmittedIsKept ==
  [][r.state = "submitted" =>
       /\ posts' = posts /\ r'.state \in {"submitted"} \cup Terminal
       /\ r'.state = "succeeded" => opState = "succeeded"
       /\ r'.state = "dead-letter" =>
            (last = "answered" /\ opState = "failed") \/ last \in EndsPoll]_vars

\* While nothing is shut down or dies, a mail that was given up although its last exchange
\* failed temporarily has had all its tries: RetryAttempts POSTs in each of
\* RetryAttempts + 1 Submit calls, no fewer.
AllTriesUsed ==
  r.state = "dead-letter" /\ faults = 0 /\ Retryable(last)
    => r.attempt = RetryAttempts + 1 /\ posts = RetryAttempts * (RetryAttempts + 1)

\* ACS, with its operations that are started, found again and polled, keeps the
\* contract of a provider: submitted or succeeded only once ACS has the mail, at
\* most RetryAttempts retries, and an end that is final.
Contract == INSTANCE DeliveryContract
              WITH state <- r.state, attempt <- r.attempt, accepted <- (ops # {})
ImplementsContract == Contract!Spec
----------------------------------------------------------------------------
(* The inductive invariant of DeliveryProofs. *)

\* ACS knows at most the one operation, and has a state for it exactly when it does.
OperationInv ==
  /\ ops \subseteq {operationID}
  /\ opState \in {"none", "running", "succeeded", "failed"}
  /\ ops = {} <=> opState = "none"

\* On which record the worker is working, and what it is about to write.
CallInv ==
  /\ pc \in {"posting", "backoff"} => r.state = "working"
  /\ pc = "polling" => r.state = "submitted"
  /\ r.state = "submitted" => ops # {}
  /\ pc = "final" /\ r.state # "submitted" =>
       /\ r.state = "working"
       /\ \E a \in {"running", "temporary", "permanent"} :
            upd = afterSubmit(r, a) /\ (a = "running" => ops # {})
  /\ pc = "final" /\ r.state = "submitted" =>
       /\ upd.attempt = r.attempt
       /\ \/ upd.state = "submitted"
          \/ upd.state = "succeeded" /\ opState = "succeeded"
          \/ /\ upd.state = "dead-letter"
             /\ (last = "answered" /\ opState = "failed") \/ last \in EndsPoll

\* The POSTs that the attempts in the record and the faults account for.
Accounted == RetryAttempts * (r.attempt + faults)

\* Every other POST belongs to the call in progress.
PostInv ==
  /\ r.attempt <= RetryAttempts + 1
  /\ r.state \in {"queued", "working"} => r.attempt <= RetryAttempts
  /\ pc = "posting" => n <= RetryAttempts /\ posts < Accounted + n
  /\ pc = "backoff" => n < RetryAttempts /\ posts <= Accounted + n
  /\ pc = "final" /\ r.state = "working" => posts <= Accounted + RetryAttempts
  /\ pc \in {"idle", "polling"} \/ r.state = "submitted" => posts <= Accounted

\* Until the first fault the account is exact, as long as the tries fail temporarily; and a
\* call whose last try did ends as a temporary failure.
TriesInv ==
  faults = 0 =>
    /\ proc = "running" /\ ctx # "canceled"
    /\ r.state = "queued" => posts = RetryAttempts * r.attempt
    /\ pc = "posting" => posts = RetryAttempts * r.attempt + (n - 1)
    /\ pc = "backoff" => posts = RetryAttempts * r.attempt + n
    /\ pc = "final" /\ r.state = "working" =>
         \/ /\ upd = afterSubmit(r, "temporary")
            /\ posts = RetryAttempts * r.attempt + RetryAttempts
         \/ upd.state # "queued" /\ ~Retryable(last)
    /\ AllTriesUsed

\* The types these need, and that a process that is down has no worker.
Typed ==
  /\ r \in Row /\ upd \in Row /\ faults \in Nat /\ posts \in Nat /\ n \in Nat \ {0}
  /\ pc \in InCall \cup {"idle", "final"}
  /\ proc = "down" => pc = "idle"

\* All of them; a relay makes at least one attempt (Submit and Poll in acs/provider.go,
\* 317-422).
IInv == Typed /\ OperationInv /\ CallInv /\ PostInv

\* The time a call has taken: a Submit its finished POSTs, HttpTimeout each at most, and the
\* delays between them, a Poll nothing before its one GET; so far it has not met its deadline.
TimeInv ==
  /\ elapsed \in Nat /\ ctx # "expired"
  /\ pc = "posting" => elapsed <= HttpTimeout * (n - 1) + retryBackoffTotal(BaseDelay, n)
  /\ pc = "backoff" => elapsed <= HttpTimeout * n + retryBackoffTotal(BaseDelay, n)
  /\ pc = "polling" => elapsed = 0
----------------------------------------------------------------------------
(* Two statements of the documentation that the code does not satisfy.     *)

\* FEATURE.md: "A provider temporary failure is retried with backoff."  A mail
\* whose last answer from ACS was 429 or 5xx is given up only when its retries
\* are used.  (Submit turns a shutdown during the backoff into a permanent error.)
TemporaryFailureIsRetried ==
  r.state = "dead-letter" /\ last = "unavailable" => r.attempt = RetryAttempts + 1

\* FEATURE.md: "ACS transport errors implement `email.DeliveryError` with
\* `Temporary() == true`": a mail is not given up because the connection broke.
\* (An error while the body of the answer is read is a permanent error.)
TransportErrorIsTemporary ==
  r.state = "dead-letter" /\ last = "broken" => r.attempt = RetryAttempts + 1
============================================================================
