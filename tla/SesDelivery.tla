---------------------------- MODULE SesDelivery ----------------------------
(***************************************************************************)
(* One mail on its way through Amazon SES: the worker's Submit call opened  *)
(* up into the attempts the AWS SDK makes inside it, with lost answers,     *)
(* the SDK's backoff, the call's deadline, shutdowns and crashes, and the   *)
(* classification of the error that comes out.  SES has no operation id: a  *)
(* SendEmail that arrives is a mail sent.                                   *)
(*                                                                          *)
(* The SDK and SES are external, modelled from how the provider uses them:  *)
(* the SDK tries up to RetryAttempts times with the provider's              *)
(* exponentialBackoff between tries (or stops earlier, when its retry quota *)
(* is used up) and returns the last error, which carries a status when      *)
(* there was an HTTP response (0 or none when there was not), an API error  *)
(* code when the body had one, and a text.                                  *)
(***************************************************************************)
EXTENDS Records, Timing

CONSTANTS HttpTimeout, BaseDelay, MaxFaults

ASSUME SesAssumption == HttpTimeout \in Nat /\ BaseDelay \in Nat /\ MaxFaults \in Nat

VARIABLES
  r, proc, pc, ctx, elapsed, upd,  \* as in AcsDelivery
  n,        \* the SDK's attempt
  foreign,  \* the record was submitted by another provider before a restart
  built,    \* buildRawMessage can build this mail
  copies,   \* SES: how often it has accepted the mail
  lost,     \* history: acceptances whose answer did not reach the relay
  heard,    \* history: the relay has heard of an acceptance
  sends,    \* history: SendEmail requests
  last,     \* history: how the last one ended
  faults    \* history: crashes and shutdowns

call == <<n, ctx, elapsed>>
ses  == <<copies, lost, heard, sends>>
vars == <<r, proc, pc, call, upd, foreign, built, ses, last, faults>>

\* How one attempt of the SDK ends.
Outcomes == {"transport", "timeout", "unavailable", "throttled", "rejected",
             "garbled", "canceled", "answered"}

NoStatus == {{}, {0}}

\* What the SDK makes of it: the errors classifySendError may be given.
SdkErrors(o) ==
  CASE o = "transport"   -> [status: NoStatus, code: {"none"}, text: {"plain"}]
    [] o = "timeout"     -> [status: NoStatus, code: {"none"}, text: {"context"}]
    [] o = "canceled"    -> [status: NoStatus, code: {"none"}, text: {"context"}]
    [] o = "unavailable" -> [status: {{429}, {503}}, code: {"none", "throttling"}, text: {"plain"}]
    [] o = "throttled"   -> [status: {{400}}, code: {"throttling"}, text: {"plain"}]
    [] o = "rejected"    -> [status: {{400}}, code: {"rejected"}, text: {"plain"}]
    [] o = "garbled"     -> [status: {{200}}, code: {"none"}, text: {"plain"}]

SdkRetries == {"transport", "timeout", "unavailable", "throttled"}

isRetryableStatus(status) == status = 429 \/ status >= 500

isRetryableAPIError(code) == code = "throttling"

errorsIsContextCanceled(text) == text = "context"

\* A response error decides by its status, else an API error by its code, else an
\* ended context is permanent and everything else temporary.
classifySendError(e) ==
  IF e.status # {} THEN IF \E s \in e.status : isRetryableStatus(s) THEN "temporary" ELSE "permanent"
  ELSE IF e.code # "none" THEN IF isRetryableAPIError(e.code) THEN "temporary" ELSE "permanent"
  ELSE IF errorsIsContextCanceled(e.text) THEN "permanent" ELSE "temporary"

\* exponentialBackoff.BackoffDelay, the loop of Timing's retryBackoff.
BackoffDelay(base, attempt) == retryBackoff(base, attempt)

Deadline == runtimeSendTimeout(HttpTimeout, BaseDelay, RetryAttempts)

Foreign0 == row("submitted", 1, TRUE, "none")

Init ==
  /\ r \in {Queued0, Foreign0} /\ upd = Absent
  /\ foreign = (r = Foreign0) /\ built \in BOOLEAN
  /\ proc = "running" /\ pc = "idle"
  /\ n = 1 /\ ctx = "live" /\ elapsed = 0
  /\ copies = 0 /\ lost = 0 /\ heard = FALSE /\ sends = 0
  /\ last = "none" /\ faults = 0
-----------------------------------------------------------------------------
\* What Submit returns to the worker, which decides on the next row.
SubmitReturns(a) == upd' = afterSubmit(r, a) /\ pc' = "final"

\* processQueuedOnce claims the record and enters Submit; a mail that cannot be
\* built is a permanent error before anything is sent.
BeginSubmit ==
  /\ proc = "running" /\ pc = "idle" /\ r.state = "queued"
  /\ r' = claimReady(r)
  /\ n' = 1 /\ ctx' = "live" /\ elapsed' = 0
  /\ IF built THEN pc' = "sending" /\ UNCHANGED upd
     ELSE pc' = "final" /\ upd' = afterSubmit(r', "permanent")
  /\ UNCHANGED <<proc, foreign, built, ses, last, faults>>

Wait(d) ==
  /\ elapsed' = elapsed + d
  /\ ctx' = IF ctx = "live" /\ elapsed + d > Deadline THEN "expired" ELSE ctx

\* SES accepts the mail, or does not.  Without a complete answer the relay does
\* not know.
Accepts(o) ==
  \/ /\ o \notin {"unavailable", "throttled", "rejected"}
     /\ copies' = copies + 1
     /\ lost' = IF o = "answered" THEN lost ELSE lost + 1
     /\ heard' = (heard \/ o = "answered")
  \/ o \notin {"answered", "garbled"} /\ UNCHANGED <<copies, lost, heard>>

\* (Wrong) an unreadable answer counts as delivery; an acceptance without a
\* readable message id as a temporary failure; an acceptance as an operation
\* in progress, which has no operation id.
SubmitTrusting(o) ==
  IF o \in {"answered", "garbled", "timeout"} THEN {"succeeded"}
  ELSE {classifySendError(e) : e \in SdkErrors(o)}
SubmitForgets(o) ==
  IF o = "answered" THEN {"temporary"} ELSE {classifySendError(e) : e \in SdkErrors(o)}
SubmitRunning(o) ==
  IF o = "answered" THEN {"permanent"} ELSE {classifySendError(e) : e \in SdkErrors(o)}

\* The result of Submit for the SDK's last outcome.
Submit(o) ==
  IF o = "answered" THEN {"succeeded"} ELSE {classifySendError(e) : e \in SdkErrors(o)}

\* One attempt of client.SendEmail, and what follows it.
SendEmail(o) ==
  /\ pc = "sending"
  /\ \E d \in 0..HttpTimeout : Wait(d)
  /\ o = "canceled" <=> ctx' # "live"
  /\ Accepts(o)
  /\ sends' = sends + 1 /\ last' = o
  /\ \/ \E a \in Submit(o) : SubmitReturns(a)
     \/ o \in SdkRetries /\ n < RetryAttempts /\ pc' = "backoff" /\ UNCHANGED upd
  /\ UNCHANGED <<r, proc, n, foreign, built, faults>>

Backoff ==
  /\ pc = "backoff"
  /\ Wait(BackoffDelay(BaseDelay, n))
  /\ IF ctx' = "expired" THEN (\E a \in Submit("canceled") : SubmitReturns(a)) /\ UNCHANGED n
     ELSE pc' = "sending" /\ n' = n + 1 /\ UNCHANGED upd
  /\ UNCHANGED <<r, proc, foreign, built, ses, last, faults>>

\* A shutdown ends the SDK's sleep.
BackoffCanceled ==
  /\ pc = "backoff" /\ ctx = "canceled"
  /\ \E a \in Submit("canceled") : SubmitReturns(a)
  /\ UNCHANGED <<r, proc, call, foreign, built, ses, last, faults>>

\* Poll answers succeeded, whatever it is asked about.
Poll ==
  /\ proc = "running" /\ pc = "idle" /\ r.state = "submitted"
  /\ upd' = afterPoll(r, "succeeded") /\ pc' = "final"
  /\ UNCHANGED <<r, proc, call, foreign, built, ses, last, faults>>

FinalizeRecord ==
  /\ pc = "final"
  /\ r' = upd /\ pc' = "idle"
  /\ UNCHANGED <<proc, call, upd, foreign, built, ses, last, faults>>

\* The loop finds nothing to do and sleeps.
Idle ==
  /\ proc = "running" /\ pc = "idle" /\ r.state \in Terminal
  /\ UNCHANGED vars
-----------------------------------------------------------------------------
Fault == faults < MaxFaults /\ faults' = faults + 1

Shutdown ==
  /\ proc = "running" /\ Fault
  /\ proc' = "stopping"
  /\ ctx' = IF pc \in {"sending", "backoff"} /\ ctx = "live" THEN "canceled" ELSE ctx
  /\ UNCHANGED <<r, pc, n, elapsed, upd, foreign, built, ses, last>>

Exit ==
  /\ proc = "stopping" /\ pc = "idle" /\ proc' = "down"
  /\ UNCHANGED <<r, pc, call, upd, foreign, built, ses, last, faults>>

Crash ==
  /\ proc # "down" /\ Fault
  /\ proc' = "down" /\ pc' = "idle"
  /\ UNCHANGED <<r, call, upd, foreign, built, ses, last>>

Restart ==
  /\ proc = "down" /\ proc' = "running"
  /\ r' = IF r.state = "working" THEN recovered(r) ELSE r
  /\ UNCHANGED <<pc, call, upd, foreign, built, ses, last, faults>>

Next ==
  \/ BeginSubmit \/ Backoff \/ BackoffCanceled \/ Poll \/ FinalizeRecord \/ Idle
  \/ Shutdown \/ Exit \/ Crash \/ Restart
  \/ \E o \in Outcomes : SendEmail(o)

Spec == Init /\ [][Next]_vars
-----------------------------------------------------------------------------
\* The types; the SDK's attempts stay within RetryAttempts.
TypeOK ==
  /\ r \in Row /\ upd \in Row
  /\ proc \in {"running", "stopping", "down"}
  /\ pc \in {"idle", "sending", "backoff", "final"}
  /\ n \in 1..RetryAttempts /\ ctx \in {"live", "canceled", "expired"} /\ elapsed \in Nat
  /\ {foreign, built, heard} \subseteq BOOLEAN
  /\ copies \in Nat /\ lost \in Nat /\ sends \in Nat
  /\ last \in Outcomes \cup {"none"} /\ faults \in 0..MaxFaults

\* A mail goes out more than once only for an answer that was lost on the way or
\* with a crash: an acceptance Submit has heard of is never followed by another.
CopiesExplained == copies <= 1 + lost + faults

\* The SDK's tries and the worker's multiply, and nothing else sends.
SendBudget == sends <= RetryAttempts * (RetryAttempts + 1 + faults)

\* A mail that SES is known to have accepted is not given up, unless a crash lost
\* that knowledge.
HeardIsNotGivenUp == heard /\ r.state = "dead-letter" => faults > 0

\* While nothing is shut down or dies, a mail that was given up although SES last answered
\* 429 or 5xx has been submitted RetryAttempts + 1 times.  (How often the SDK tried in each
\* of these calls is up to its retry quota.)
AllTriesUsed ==
  r.state = "dead-letter" /\ faults = 0 /\ last = "unavailable" => r.attempt = RetryAttempts + 1

\* runtimeSendTimeout also covers the SDK's tries and the exponentialBackoff
\* between them.
DeadlineCoversRetries == ctx # "expired"

\* SES, with its immediate success, its lost answers and its restarts, keeps the
\* contract of a provider.  (A record that another provider submitted counts as
\* accepted: Poll says succeeded for it without asking anybody.)
Contract == INSTANCE DeliveryContract
              WITH state <- r.state, attempt <- r.attempt, accepted <- foreign \/ copies > 0
ImplementsContract == Contract!Spec
-----------------------------------------------------------------------------
(* The inductive invariant of DeliveryProofs. *)

\* What the worker is about to write, and on which record.
CallInv ==
  /\ pc \in {"sending", "backoff"} => r.state = "working"
  /\ pc = "final" =>
       \/ /\ r.state = "working"
          /\ \E a \in {"succeeded", "temporary", "permanent"} :
               upd = afterSubmit(r, a) /\ (a = "succeeded" => copies > 0)
       \/ r.state = "submitted" /\ upd = afterPoll(r, "succeeded")
  /\ r.state = "submitted" => foreign
  /\ proc = "down" => pc = "idle"

\* The mail's success is in the record, or about to be written.
Concluded == r.state = "succeeded" \/ (pc = "final" /\ upd.state = "succeeded")

\* An acceptance that was heard of is concluded, unless a crash came in between.
HeardInv ==
  /\ copies <= lost + faults \/ (copies <= lost + faults + 1 /\ Concluded)
  /\ heard => faults > 0 \/ Concluded

\* Both, on a row and counters of their types: each of classifySendError's results is
\* an answer the worker has a transition for (ses/provider.go, 284-352).
IInv ==
  /\ r \in Row /\ upd \in Row /\ copies \in Nat /\ lost \in Nat /\ faults \in Nat
  /\ pc \in {"idle", "sending", "backoff", "final"}
  /\ CallInv /\ HeardInv

\* The requests that the attempts in the record and the faults account for.
Accounted == RetryAttempts * (r.attempt + faults)

\* Every other request belongs to the call in progress.
SendInv ==
  /\ sends \in Nat /\ n \in Nat \ {0}
  /\ r.attempt <= RetryAttempts + 1
  /\ r.state \in {"queued", "working"} => r.attempt <= RetryAttempts
  /\ pc = "sending" => n <= RetryAttempts /\ sends < Accounted + n
  /\ pc = "backoff" => n < RetryAttempts /\ sends <= Accounted + n
  /\ pc = "final" /\ r.state = "working" => sends <= Accounted + RetryAttempts
  /\ pc = "idle" \/ r.state = "submitted" => sends <= Accounted

\* Until the first fault, a call whose last try ended with 429 or 5xx ends as a temporary
\* failure.
TriesInv ==
  faults = 0 =>
    /\ proc = "running" /\ ctx # "canceled"
    /\ r.state = "submitted" => last = "none"
    /\ pc \in {"sending", "backoff"} \/ last # "none" => built
    /\ pc = "final" /\ r.state = "working" /\ last = "unavailable" => upd = afterSubmit(r, "temporary")
    /\ AllTriesUsed

\* The time a call has taken: its finished tries, HttpTimeout each at most, and the delays
\* between them; so far it has not met its deadline.
TimeInv ==
  /\ elapsed \in Nat /\ ctx # "expired"
  /\ pc = "sending" => elapsed <= HttpTimeout * (n - 1) + retryBackoffTotal(BaseDelay, n)
  /\ pc = "backoff" => elapsed <= HttpTimeout * n + retryBackoffTotal(BaseDelay, n)
-----------------------------------------------------------------------------
(* Two readings of FEATURE.md:283 that the code does not satisfy: "SES SDK
   transport or throttling failures implement `email.DeliveryError` with
   `Temporary() == true`". *)

\* While nothing cancels the call, a mail whose last send ran into the HTTP
\* client's timeout is given up only when its retries are used.  (The text of that
\* error contains "context deadline exceeded".)
TimeoutIsTemporary ==
  r.state = "dead-letter" /\ faults = 0 /\ last = "timeout"
    => r.attempt = RetryAttempts + 1

\* The same for a mail that SES throttled.  (The status of the response, 400, is
\* looked at before the error code.)
ThrottlingIsTemporary ==
  r.state = "dead-letter" /\ faults = 0 /\ last = "throttled"
    => r.attempt = RetryAttempts + 1
=============================================================================
