------------------------------ MODULE Schedule ------------------------------
(***************************************************************************)
(* When the worker of internal/spool/worker.go gets to a record: the wall   *)
(* clock, next_attempt_at, the order of the two queries, the poll interval, *)
(* the backoff, Retry-After, SubmittedTimeout and a clock that is set back. *)
(*                                                                          *)
(* In Spool.tla a record becomes due at some time; here time is a number.   *)
(* Every instant is kept relative to the wall clock (a record is due in 2,  *)
(* or since 3), so the model needs no bound on the clock and mails keep     *)
(* coming for ever.  Local steps take no time, a provider call takes up to  *)
(* SubmitTimeout and the sleep of an idle round takes PollInterval.         *)
(***************************************************************************)
EXTENDS Integers, FiniteSets, FiniteSetsExt

CONSTANTS
  Ids,            \* the mails in the spool at any one time
  SubmitTimeout, PollInterval, RetryAttempts, RetryBaseDelay, SubmittedTimeout,
  RetryAfters,    \* the Retry-After a provider may send, 0 for none
  MaxStepBack     \* bound on how far the clock is set back in all

ASSUME ScheduleAssumption ==
  /\ {SubmitTimeout, PollInterval, RetryAttempts, RetryBaseDelay, SubmittedTimeout}
       \subseteq Nat \ {0}
  /\ RetryAfters \subseteq Nat /\ 0 \in RetryAfters /\ IsFiniteSet(RetryAfters)
  /\ MaxStepBack \in Nat
  /\ IsFiniteSet(Ids)

VARIABLES
  rows,      \* the table: state, attempt, due, born, since (see Row)
  wpc,       \* the worker: round, poll, claim, submit, sleep, down
  lag,       \* how long ago the loop read the clock of this round
  cur,       \* the record in the worker's hands, as a set
  worked,    \* the round has handled a submitted record
  left,      \* time the call or the sleep in progress may still take
  rest,      \* history: time since the record's last Submit call failed
  early,     \* history: records submitted again sooner than their backoff
  stepped,   \* history: how far the clock was set back
  downFor    \* history: time the process could not start

vars == <<rows, wpc, lag, cur, worked, left, rest, early, stepped, downFor>>
hist == <<early, stepped, downFor>>

-----------------------------------------------------------------------------
(* Instants. *)

\* The longest n rounds take: a poll and a submission each.
Rounds(n) == 2 * SubmitTimeout * n

\* The longest a due record waits: the round in progress, a round for each
\* record before it, and the poll that precedes the claim of its own round.
Turn == Rounds(Cardinality(Ids)) + PollInterval

\* The longest delay a poll is put off by.
MaxAfter == Max(RetryAfters \cup {PollInterval})

\* Where counting stops: past these an instant makes no difference, and the
\* properties are violated before.
Overdue == Turn + SubmitTimeout + MaxStepBack + 1
Aged    == SubmittedTimeout + MaxAfter + Turn + 2 * MaxStepBack + 1

\* A row: due is next_attempt_at - now, born is created_at - now, and since is
\* now - first_submitted_at, all in whole units.
None == [state |-> "none", attempt |-> 0, due |-> 0, born |-> 0, since |-> 0]

Final == [None EXCEPT !.state = "final"]

\* The same row after the clock moved by d.
Moved(r, d) ==
  IF rows[r].state \in {"none", "final"} THEN rows[r]
  ELSE [rows[r] EXCEPT !.due = Max({@ - d, -Overdue}),
                       !.born = Max({@ - d, -MaxStepBack}),
                       !.since = IF rows[r].state = "submitted" THEN Min({@ + d, Aged}) ELSE 0]

Init ==
  /\ rows = [r \in Ids |-> None]
  /\ wpc = "round" /\ lag = 0 /\ cur = {} /\ worked = FALSE /\ left = 0
  /\ rest = [r \in Ids |-> 0]
  /\ early = {} /\ stepped = 0 /\ downFor = 0

-----------------------------------------------------------------------------
(* The table. *)

\* 1 << n.
PowerOfTwo[n \in Nat] == IF n = 0 THEN 1 ELSE 2 * PowerOfTwo[n - 1]

submitRetryDelay(attempt) == RetryBaseDelay * PowerOfTwo[IF attempt > 30 THEN 30 ELSE attempt]

submitRetryAllowed(r) == rows[r].attempt < RetryAttempts

\* (Wrong) recovery stamps its updates with an instant before its own start.
CheckHoldsStrict(r) == rows[r].born + (IF wpc = "down" THEN 1 ELSE 0) <= 0

\* CHECK (updated_at_ms >= created_at_ms), updated_at being the clock.
CheckHolds(r) == rows[r].born <= 0

\* WHERE state = st AND next_attempt_at_ms <= now + t ORDER BY next_attempt_at_ms,
\* created_at_ms, id LIMIT 1.  Records due at the same instant come in any order.
FirstDue(st, t) ==
  LET due == {r \in Ids : rows[r].state = st /\ rows[r].due <= t}
  IN {r \in due : \A s \in due : rows[r].due <= rows[s].due}

Write(r, new) == rows' = [rows EXCEPT ![r] = new]

\* The CHECK refuses the write: the worker's error ends the process and the
\* supervisor starts it again.
ProcessEnds ==
  /\ wpc' = "down" /\ cur' = {} /\ left' = 0 /\ worked' = FALSE /\ lag' = 0
  /\ UNCHANGED <<rows, rest, hist>>

\* A session stores a mail; the id of a settled one stands for a new one.
Enqueue(r) ==
  /\ rows[r].state \in {"none", "final"} /\ wpc # "down"
  /\ Write(r, [None EXCEPT !.state = "queued"])
  /\ early' = early \ {r} /\ rest' = [rest EXCEPT ![r] = 0]
  /\ UNCHANGED <<wpc, lag, cur, worked, left, stepped, downFor>>

-----------------------------------------------------------------------------
(* One round of Worker.Start. *)

\* (Wrong) the timeout is not looked at.
processSubmittedOnceEndless ==
  /\ wpc = "round" /\ lag' = 0
  /\ \/ /\ FirstDue("submitted", 0) = {}
        /\ wpc' = "claim" /\ worked' = FALSE
        /\ UNCHANGED <<rows, cur, left, rest, hist>>
     \/ \E r \in FirstDue("submitted", 0) :
          /\ wpc' = "poll" /\ cur' = {r} /\ left' = SubmitTimeout
          /\ UNCHANGED <<rows, worked, rest, hist>>

\* The loop reads the clock at the top of the round, for both queries and every
\* delay of the round.  NextSubmittedReady; a record past SubmittedTimeout is
\* dead-lettered without a poll.
processSubmittedOnce ==
  /\ wpc = "round" /\ lag' = 0
  /\ \/ /\ FirstDue("submitted", 0) = {}
        /\ wpc' = "claim" /\ worked' = FALSE
        /\ UNCHANGED <<rows, cur, left, rest, hist>>
     \/ \E r \in FirstDue("submitted", 0) :
          IF rows[r].since >= SubmittedTimeout
          THEN /\ Write(r, Final)
               /\ wpc' = "claim" /\ worked' = TRUE
               /\ UNCHANGED <<cur, left, rest, hist>>
          ELSE /\ wpc' = "poll" /\ cur' = {r} /\ left' = SubmitTimeout
               /\ UNCHANGED <<rows, worked, rest, hist>>

\* Relative to the round's clock, not to the clock.
NextPoll(after) == (IF after > 0 THEN after ELSE PollInterval) - lag

\* Poll answers: running (with or without Retry-After) or a temporary error is
\* polled again later; everything else is final.
PollReturns ==
  /\ wpc = "poll"
  /\ \E r \in cur :
       \/ /\ CheckHolds(r)
          /\ \/ \E after \in RetryAfters : Write(r, [rows[r] EXCEPT !.due = NextPoll(after)])
             \/ Write(r, Final)
          /\ wpc' = "claim" /\ worked' = TRUE /\ cur' = {} /\ left' = 0
          /\ UNCHANGED <<lag, rest, hist>>
       \/ ~CheckHolds(r) /\ ProcessEnds

\* (Wrong) a round that polled goes back to the top.
processQueuedOnceSkipped ==
  /\ wpc = "claim"
  /\ \/ /\ worked \/ FirstDue("queued", -lag) = {}
        /\ wpc' = IF worked THEN "round" ELSE "sleep"
        /\ left' = IF worked THEN 0 ELSE PollInterval
        /\ UNCHANGED <<rows, cur>>
     \/ /\ ~worked
        /\ \E r \in FirstDue("queued", -lag) :
             /\ Write(r, [rows[r] EXCEPT !.state = "working"])
             /\ wpc' = "submit" /\ cur' = {r} /\ left' = SubmitTimeout
  /\ UNCHANGED <<lag, worked, rest, hist>>

\* ClaimReady with the round's clock, or the end of the round: at once if the
\* round did something, after the poll interval if not.
processQueuedOnce ==
  /\ wpc = "claim"
  /\ \/ /\ FirstDue("queued", -lag) = {}
        /\ wpc' = IF worked THEN "round" ELSE "sleep"
        /\ left' = IF worked THEN 0 ELSE PollInterval
        /\ UNCHANGED <<rows, cur, lag, worked, rest, hist>>
     \/ \E r \in FirstDue("queued", -lag) :
          \/ /\ CheckHolds(r)
             /\ Write(r, [rows[r] EXCEPT !.state = "working"])
             /\ early' = IF rows[r].attempt > 0
                            /\ rest[r] < submitRetryDelay(rows[r].attempt - 1)
                         THEN early \cup {r} ELSE early
             /\ wpc' = "submit" /\ cur' = {r} /\ left' = SubmitTimeout
             /\ UNCHANGED <<lag, worked, rest, stepped, downFor>>
          \/ ~CheckHolds(r) /\ ProcessEnds

\* Submit answers: running, a temporary error with retries left, or an end.
SubmitReturns ==
  /\ wpc = "submit"
  /\ \E r \in cur :
       \/ /\ CheckHolds(r)
          /\ \/ \E after \in RetryAfters :
                  /\ Write(r, [rows[r] EXCEPT !.state = "submitted", !.attempt = @ + 1,
                                              !.due = NextPoll(after), !.since = 0])
                  /\ UNCHANGED rest
             \/ /\ submitRetryAllowed(r)
                /\ Write(r, [rows[r] EXCEPT !.state = "queued", !.attempt = @ + 1,
                               !.due = submitRetryDelay(rows[r].attempt) - lag])
                /\ rest' = [rest EXCEPT ![r] = 0]
             \/ Write(r, Final) /\ UNCHANGED rest
          /\ wpc' = "round" /\ cur' = {} /\ left' = 0
          /\ UNCHANGED <<lag, worked, hist>>
       \/ ~CheckHolds(r) /\ ProcessEnds

SleepEnds ==
  /\ wpc = "sleep" /\ left = 0
  /\ wpc' = "round"
  /\ UNCHANGED <<rows, lag, cur, worked, left, rest, hist>>

-----------------------------------------------------------------------------
(* Restart and time. *)

Working == {r \in Ids : rows[r].state = "working"}

\* Recovery writes every working row, due now; the CHECK of one refuses all.
recoverMetadata ==
  /\ wpc = "down" /\ \A r \in Working : CheckHolds(r)
  /\ rows' = [r \in Ids |-> IF r \in Working
                            THEN [rows[r] EXCEPT !.state = "queued", !.due = 0]
                            ELSE rows[r]]
  /\ wpc' = "round" /\ downFor' = 0
  /\ UNCHANGED <<lag, cur, worked, left, rest, early, stepped>>

\* Time passes while a call or the sleep is in progress, or the process cannot
\* start.  (Otherwise the worker's next step comes first.)
Tick ==
  /\ \/ /\ wpc \in {"poll", "submit", "sleep"} /\ left > 0
        /\ left' = left - 1 /\ lag' = IF wpc = "sleep" THEN lag ELSE lag + 1
        /\ UNCHANGED downFor
     \/ /\ wpc = "down" /\ \E r \in Working : ~CheckHolds(r)
        /\ downFor' = downFor + 1 /\ UNCHANGED <<left, lag>>
  /\ rows' = [r \in Ids |-> Moved(r, 1)]
  /\ rest' = [r \in Ids |->
               IF rows[r].state = "queued" /\ rows[r].attempt > 0
               THEN Min({rest[r] + 1, submitRetryDelay(RetryAttempts)}) ELSE 0]
  /\ UNCHANGED <<wpc, cur, worked, early, stepped>>

\* The wall clock is set back (external: the host).
StepBack ==
  \E d \in 1..MaxStepBack :
    /\ stepped + d <= MaxStepBack
    /\ stepped' = stepped + d
    /\ rows' = [r \in Ids |-> Moved(r, -d)]
    /\ lag' = IF wpc \in {"poll", "claim", "submit"} THEN lag - d ELSE lag
    /\ UNCHANGED <<wpc, cur, worked, left, rest, early, downFor>>

Next ==
  \/ \E r \in Ids : Enqueue(r)
  \/ processSubmittedOnce \/ PollReturns \/ processQueuedOnce \/ SubmitReturns
  \/ SleepEnds \/ recoverMetadata \/ Tick \/ StepBack

Spec == Init /\ [][Next]_vars

-----------------------------------------------------------------------------
(* Properties. *)

\* The types, and that a working row is the one in the worker's hands.
TypeOK ==
  /\ wpc \in {"round", "poll", "claim", "submit", "sleep", "down"}
  /\ cur \subseteq Ids /\ Cardinality(cur) <= 1
  /\ left \in 0..Max({SubmitTimeout, PollInterval})
  /\ lag \in -MaxStepBack..(2 * SubmitTimeout)
  /\ stepped \in 0..MaxStepBack
  /\ \A r \in Ids :
       /\ rows[r].attempt \in 0..(RetryAttempts + 1)
       /\ rows[r].state \in {"none", "queued", "working", "submitted", "final"}
  /\ wpc # "down" => Working = IF wpc = "submit" THEN cur ELSE {}

\* Neither queue starves the other, and no record is passed over for ever,
\* although mails keep coming: a due record, queued or submitted, is taken within
\* Turn, plus what the clock was set back meanwhile.
DueIsTaken ==
  \A r \in Ids :
    rows[r].state \in {"queued", "submitted"} /\ r \notin cur
      => -rows[r].due <= Turn + stepped

\* A submitted record leaves that state within SubmittedTimeout, the longest
\* Retry-After (or the poll interval) and its turn: the timeout is looked at only
\* when the record is due.
SubmittedEnds ==
  \A r \in Ids :
    rows[r].state = "submitted" =>
      rows[r].since <= SubmittedTimeout + MaxAfter + Turn + stepped

\* A clock set back makes writes fail and the process restart, but the process is
\* not kept from starting longer than the clock was set back.
DownNoLonger == downFor <= stepped

\* "A provider temporary failure is retried with backoff" (FEATURE.md:1627):
\* between the failure of a Submit call and the next one its backoff passes.
RetryWaits == early = {}
-----------------------------------------------------------------------------
(* The inductive invariant of the three properties. *)

\* The columns of a record's row.
State(r) == rows[r].state
Due(r)   == rows[r].due
Born(r)  == rows[r].born
Since(r) == rows[r].since

Live(r) == State(r) \notin {"none", "final"}

\* How far ahead of the clock a record was created; 0 for none of them.
Leads == {0} \cup {Born(r) : r \in {s \in Ids : Live(s)}}

Age(r) == -Due(r)

\* The age at the round's clock; a record is in the round's queries from 0 on.
RoundAge(r) == Age(r) - lag

\* How long a submitted record has outlived SubmittedTimeout and its last delay.
Late(r) == Since(r) - SubmittedTimeout - MaxAfter

\* What must stay within the turn: of a submitted record both.
Wait(r) == IF State(r) = "submitted" /\ Late(r) > Age(r) THEN Late(r) ELSE Age(r)

\* The records the queries may prefer to r, and these with the one in the
\* worker's hands.
Before(r) ==
  {s \in Ids \ {r} : State(s) = State(r) /\ Due(s) <= Due(r)}

Ahead(r)     == Cardinality(Before(r))
AheadHeld(r) == Cardinality(Before(r) \cup (cur \ {r}))

\* A wait that has lasted w still ends in time: n more rounds, and the process
\* down until the clock has reached the last creation, are left for.
Room(w, n, leads, back) == \A b \in leads : w + Rounds(n) + b <= Turn + back

\* A wait of at most d, apart from what the clock was set back.
Recent(w, d, leads, back) == \A b \in leads : w + b <= d + back

Row ==
  [state : {"none", "queued", "working", "submitted", "final"},
   attempt : Nat, due : Int, born : Int, since : Int]

ScheduleTypes ==
  /\ rows \in [Ids -> Row]
  /\ wpc \in {"round", "poll", "claim", "submit", "sleep", "down"}
  /\ cur \subseteq Ids /\ worked \in BOOLEAN
  /\ lag \in Int /\ left \in Nat /\ downFor \in Nat
  /\ stepped \in 0..MaxStepBack

\* What the worker holds, how long ago it read the clock, what a round without a
\* poll has found, and that in a round with one some record is not in the queue, or
\* not for longer than since the poll.
WorkerInv ==
  /\ wpc \notin {"poll", "submit"} => cur = {}
  /\ wpc \in {"poll", "submit"} =>
       \E r \in Ids :
         /\ cur = {r} /\ RoundAge(r) >= 0 /\ left <= SubmitTimeout
         /\ State(r) = IF wpc = "poll" THEN "submitted" ELSE "working"
         /\ wpc = "poll" => Since(r) - lag <= SubmittedTimeout
  /\ wpc = "poll" => lag + left <= SubmitTimeout
  /\ wpc = "submit" => lag + left <= 2 * SubmitTimeout
  /\ wpc = "claim" => lag <= SubmitTimeout
  /\ wpc = "sleep" => left <= PollInterval
  /\ wpc \in {"poll", "claim", "submit"} => -lag <= stepped
  /\ wpc = "claim" /\ ~worked =>
       lag <= 0 /\ \A r \in Ids : State(r) = "submitted" => RoundAge(r) < 0
  /\ wpc = "claim" /\ worked =>
       \E r \in Ids : ~ (State(r) = "queued" /\ Age(r) >= 1)
  /\ wpc = "submit" /\ lag + left > SubmitTimeout =>
       \E r \in Ids \ cur : ~ (State(r) = "queued" /\ Age(r) + left > SubmitTimeout)
  /\ wpc # "down" => downFor = 0

\* No record was created further ahead of the clock than the clock was set back,
\* less the time the process was down; none is due before its creation.
ClockInv ==
  /\ downFor <= stepped
  /\ \A b \in Leads : b > 0 => b + downFor <= stepped
  /\ \A r \in Ids :
       Live(r) => Born(r) <= Due(r) \/ Born(r) <= stepped - MaxStepBack

\* A submitted record that is not due yet is not late either.
LateInv ==
  \A r \in Ids : State(r) = "submitted" =>
    /\ Late(r) - Age(r) <= stepped
    /\ \A b \in Leads :
         Late(r) + b <= stepped \/ (Age(r) > 0 /\ Late(r) - Age(r) + b <= stepped)

\* The turn of a queued record.  What became due in the course of the round (the
\* later alternatives) has waited no longer than the round has lasted.
QueuedTurn(r) ==
  /\ wpc \in {"round", "down"} => Room(Age(r) + SubmitTimeout, Ahead(r), Leads, stepped)
  /\ wpc = "sleep" => Room(Age(r) + left + SubmitTimeout, Ahead(r), Leads, stepped)
  /\ wpc = "poll" =>
       \/ RoundAge(r) >= 0 /\ Room(RoundAge(r) + SubmitTimeout, Ahead(r), Leads, stepped)
       \/ Age(r) + left <= SubmitTimeout
  /\ wpc = "claim" =>
       \/ RoundAge(r) >= 0 /\ Room(RoundAge(r) + SubmitTimeout, Ahead(r), Leads, stepped)
       \/ Age(r) <= SubmitTimeout
  /\ wpc = "submit" =>
       \/ RoundAge(r) >= 0 /\ Room(RoundAge(r) + SubmitTimeout, AheadHeld(r), Leads, stepped)
       \/ Age(r) + left <= 2 * SubmitTimeout

\* The turn of a submitted record.
SubmittedTurn(r) ==
  /\ wpc \in {"round", "down"} => Room(Wait(r), Ahead(r), Leads, stepped)
  /\ wpc = "sleep" => Room(Wait(r) + left, Ahead(r), Leads, stepped)
  /\ wpc = "poll" =>
       \/ RoundAge(r) >= 0 /\ Room(Wait(r) - lag, AheadHeld(r), Leads, stepped)
       \/ r \notin cur /\ Recent(Wait(r) + left, SubmitTimeout, Leads, stepped)
  /\ wpc = "claim" =>
       \/ RoundAge(r) >= 0 /\ Room(Wait(r) - lag + 2 * SubmitTimeout, Ahead(r), Leads, stepped)
       \/ Recent(Wait(r), SubmitTimeout, Leads, stepped)
  /\ wpc = "submit" =>
       \/ RoundAge(r) >= 0 /\ Room(Wait(r) - lag + 2 * SubmitTimeout, Ahead(r), Leads, stepped)
       \/ Recent(Wait(r) + left, 2 * SubmitTimeout, Leads, stepped)

TurnInv ==
  \A r \in Ids :
    /\ State(r) = "queued" => QueuedTurn(r)
    /\ State(r) = "submitted" => SubmittedTurn(r)

IInv ==
  ScheduleTypes /\ WorkerInv /\ ClockInv /\ LateInv /\ TurnInv
=============================================================================
