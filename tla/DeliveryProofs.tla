--------------------------- MODULE DeliveryProofs ---------------------------
(***************************************************************************)
(* The theorems about the delivery of one mail: through SES (SesDelivery),  *)
(* through ACS (AcsDelivery, under the names MCDelivery gives its variables *)
(* and operators), and through the one of them that DELIVERY_MODE selects   *)
(* (MCDelivery); and about the timeout of a call (Timing).                  *)
(***************************************************************************)
EXTENDS MCDelivery, TLAPS

\* One more attempt or fault accounts for RetryAttempts more requests.
LEMMA Product ==
  ASSUME NEW a \in Nat, NEW b \in Nat
  PROVE  a * b \in Nat /\ a * (b + 1) = a * b + a
OBVIOUS

\* A larger factor.
LEMMA ProductGrows ==
  ASSUME NEW a \in Nat, NEW b \in Nat, NEW c \in Nat, b <= c
  PROVE  a * b <= a * c
<1>1. c - b \in Nat /\ a * (c - b) \in Nat
  OBVIOUS
<1>2. a * c = a * b + a * (c - b)
  OBVIOUS
<1>3. a * b \in Nat
  OBVIOUS
<1>. QED
  BY <1>1, <1>2, <1>3

\* Submit's answers: delivered exactly when the SDK returned an answer, and an error
\* is temporary or permanent.
LEMMA SubmitAnswers ==
  ASSUME NEW o, NEW a \in Submit(o)
  PROVE  a \in {"succeeded", "temporary", "permanent"} /\ (a = "succeeded" <=> o = "answered")
<1>1. \A e : classifySendError(e) \in {"temporary", "permanent"}
  BY DEF classifySendError
<1>. QED
  BY <1>1 DEF Submit

\* What the worker writes after a Submit: it charges the attempt, and the record is
\* queued again, succeeded or a dead letter.
LEMMA AfterSubmit ==
  ASSUME NEW x \in Row, x.state = "working", NEW a \in {"succeeded", "temporary", "permanent"}
  PROVE  /\ afterSubmit(x, a) \in Row
         /\ afterSubmit(x, a).attempt = x.attempt + 1
         /\ \/ afterSubmit(x, a).state = "queued" /\ a = "temporary" /\ x.attempt < RetryAttempts
            \/ afterSubmit(x, a).state = "succeeded" /\ a = "succeeded"
            \/ afterSubmit(x, a).state = "dead-letter" /\ a # "succeeded"
<1>0. x.attempt \in Nat /\ x.op \in BOOLEAN
  BY DEF Row
<1>1. CASE a = "succeeded"
  <2>1. afterSubmit(x, a) = row("succeeded", x.attempt + 1, x.op, "none")
    BY <1>1 DEF afterSubmit, markSucceeded
  <2>. QED
    BY <1>0, <1>1, <2>1 DEF row, Row, Terminal, ErrKind
<1>2. CASE a = "temporary" /\ submitRetryAllowed(x)
  <2>1. afterSubmit(x, a) = row("queued", x.attempt + 1, FALSE, "temporary")
    BY <1>2 DEF afterSubmit, markRetry
  <2>2. x.attempt < RetryAttempts
    BY <1>2 DEF submitRetryAllowed
  <2>3. /\ afterSubmit(x, a) \in Row /\ afterSubmit(x, a).state = "queued"
        /\ afterSubmit(x, a).attempt = x.attempt + 1
    BY <1>0, <2>1 DEF row, Row, Live, ErrKind
  <2>. QED
    BY <1>2, <2>2, <2>3
<1>3. CASE a # "succeeded" /\ ~(a = "temporary" /\ submitRetryAllowed(x))
  <2>1. afterSubmit(x, a) = row("dead-letter", x.attempt + 1, FALSE, a)
    BY <1>3, Zenon DEF afterSubmit, markDeadLetter
  <2>. QED
    BY <1>0, <1>3, <2>1 DEF row, Row, Terminal, ErrKind
<1>. QED
  BY <1>1, <1>2, <1>3

\* What the worker writes after a Poll, which always answers succeeded.
LEMMA AfterPoll ==
  ASSUME NEW x \in Row, x.state = "submitted"
  PROVE  /\ afterPoll(x, "succeeded") \in Row
         /\ afterPoll(x, "succeeded").attempt = x.attempt
         /\ afterPoll(x, "succeeded").state = "succeeded"
<1>0. x.attempt \in Nat /\ x.op \in BOOLEAN
  BY DEF Row
<1>1. afterPoll(x, "succeeded") = row("succeeded", x.attempt, x.op, "none")
  BY DEF afterPoll, markSucceeded
<1>. QED
  BY <1>0, <1>1 DEF row, Row, Terminal, ErrKind

\* A claim and a recovery change the state only.
LEMMA Moves ==
  ASSUME NEW x \in Row
  PROVE  /\ claimReady(x) \in Row /\ claimReady(x).state = "working"
         /\ claimReady(x).attempt = x.attempt
         /\ recovered(x) \in Row /\ recovered(x).state = "queued"
         /\ recovered(x).attempt = x.attempt
<1>0. x.attempt \in Nat /\ x.op \in BOOLEAN /\ x.err \in ErrKind
  BY DEF Row
<1>. QED
  BY <1>0 DEF claimReady, recovered, row, Row, Live, ErrKind

\* How a SendEmail changes the counters: an acceptance is answered or its answer lost.
LEMMA Counts ==
  ASSUME IInv, NEW o, Accepts(o)
  PROVE  /\ copies' \in Nat /\ lost' \in Nat /\ copies' >= copies /\ (o = "answered" => copies' > 0)
         /\ o # "answered" => \/ copies' = copies + 1 /\ lost' = lost + 1
                              \/ copies' = copies /\ lost' = lost
         /\ o = "answered" => copies' = copies + 1 /\ lost' = lost
<1>1. CASE o = "answered"
  BY <1>1 DEF IInv, Accepts
<1>2. CASE o # "answered"
  <2>1. \/ copies' = copies + 1 /\ lost' = lost + 1
        \/ copies' = copies /\ lost' = lost
    BY <1>2, Zenon DEF Accepts
  <2>3. copies \in Nat /\ lost \in Nat
    BY DEF IInv
  <2>4. copies' \in Nat /\ lost' \in Nat /\ copies' >= copies
    BY <2>1, <2>3
  <2>. QED
    BY <1>2, <2>1, <2>4
<1>. QED
  BY <1>1, <1>2

\* Nothing but an answer tells the relay of an acceptance.
LEMMA HearsOnlyAnswers ==
  ASSUME NEW o, Accepts(o), o # "answered"
  PROVE  heard' => heard
BY Zenon DEF Accepts

\* The end of a Submit call that has just sent: what it writes is settled by its answer.
LEMMA CallEnds ==
  ASSUME IInv, r' = r, proc' = proc, foreign' = foreign, faults' = faults, copies' \in Nat,
         lost' \in Nat, r.state = "working", proc # "down",
         NEW a \in {"succeeded", "temporary", "permanent"}, SubmitReturns(a),
         a = "succeeded" => copies' > 0 /\ copies' <= lost' + faults + 1,
         a # "succeeded" => copies' <= lost' + faults /\ (heard' => faults > 0)
  PROVE  IInv'
<1>1. upd' = afterSubmit(r, a) /\ pc' = "final"
  BY DEF SubmitReturns
<1>2. upd' \in Row /\ (a = "succeeded" => upd'.state = "succeeded")
  BY <1>1, AfterSubmit DEF IInv
<1>3. CallInv'
  BY <1>1 DEF CallInv
<1>4. HeardInv'
  BY <1>1, <1>2 DEF HeardInv, Concluded
<1>. QED
  BY <1>1, <1>2, <1>3, <1>4 DEF IInv

\* Every step keeps IInv.
LEMMA Step == IInv /\ [Next]_vars => IInv'
<1>. SUFFICES ASSUME IInv, [Next]_vars PROVE IInv'
  OBVIOUS
<1>0. r \in Row /\ upd \in Row /\ copies \in Nat /\ lost \in Nat /\ faults \in Nat
  BY DEF IInv
<1>1. CASE UNCHANGED vars
  BY <1>1 DEF vars, call, ses, IInv, CallInv, HeardInv, Concluded
<1>2. CASE BeginSubmit
  <2>1. r' \in Row /\ r'.state = "working" /\ r.state = "queued" /\ pc = "idle"
    BY <1>0, <1>2, Moves DEF BeginSubmit
  <2>2. UNCHANGED <<proc, foreign, copies, lost, heard, faults>> /\ proc = "running"
    BY <1>2 DEF BeginSubmit, ses
  <2>3. copies <= lost + faults /\ (heard => faults > 0)
    BY <2>1 DEF IInv, HeardInv, Concluded
  <2>4. CASE pc' = "sending" /\ upd' = upd
    BY <2>1, <2>2, <2>3, <2>4 DEF IInv, CallInv, HeardInv
  <2>5. CASE pc' = "final" /\ upd' = afterSubmit(r', "permanent")
    <3>1. upd' \in Row
      BY <2>1, <2>5, AfterSubmit
    <3>. QED
      BY <2>1, <2>2, <2>3, <2>5, <3>1 DEF IInv, CallInv, HeardInv
  <2>. QED
    BY <1>2, <2>4, <2>5 DEF BeginSubmit
<1>3. ASSUME NEW o \in Outcomes, SendEmail(o)  PROVE IInv'
  <2>1. pc = "sending" /\ UNCHANGED <<r, proc, foreign, faults>> /\ Accepts(o)
    BY <1>3 DEF SendEmail
  <2>2. r.state = "working" /\ proc # "down" /\ copies <= lost + faults /\ (heard => faults > 0)
    BY <2>1 DEF IInv, CallInv, HeardInv, Concluded
  <2>3. /\ copies' \in Nat /\ lost' \in Nat /\ copies' >= copies /\ (o = "answered" => copies' > 0)
        /\ o # "answered" => \/ copies' = copies + 1 /\ lost' = lost + 1
                             \/ copies' = copies /\ lost' = lost
        /\ o = "answered" => copies' = copies + 1 /\ lost' = lost
    BY <2>1, Counts
  <2>4. o # "answered" => (heard' => heard)
    BY <2>1, HearsOnlyAnswers
  <2>5. o # "answered" => copies' <= lost' + faults
    <3>1. CASE o # "answered"
      <4>1. \/ copies' = copies + 1 /\ lost' = lost + 1
            \/ copies' = copies /\ lost' = lost
        BY <2>3, <3>1, Zenon
      <4>2. copies <= lost + faults
        BY <2>2, Zenon
      <4>3. copies \in Nat /\ lost \in Nat /\ faults \in Nat
        BY <1>0, Zenon
      <4>. QED
        BY <4>1, <4>2, <4>3
    <3>. QED
      BY <3>1
  <2>6. ASSUME NEW a \in Submit(o), SubmitReturns(a)  PROVE IInv'
    <3>1. a \in {"succeeded", "temporary", "permanent"} /\ (a = "succeeded" <=> o = "answered")
      BY <2>6, SubmitAnswers
    <3>2. /\ a = "succeeded" => copies' > 0 /\ copies' <= lost' + faults + 1
          /\ a # "succeeded" => copies' <= lost' + faults /\ (heard' => faults > 0)
      <4>1. a = "succeeded" => copies' > 0 /\ copies' <= lost' + faults + 1
        BY <1>0, <2>2, <2>3, <3>1
      <4>2. a # "succeeded" => copies' <= lost' + faults
        BY <2>5, <3>1
      <4>3. a # "succeeded" => (heard' => faults > 0)
        BY <2>2, <2>4, <3>1, Zenon
      <4>. QED
        BY <4>1, <4>2, <4>3
    <3>. QED
      BY <2>1, <2>2, <2>3, <2>6, <3>1, <3>2, CallEnds
  <2>7. CASE o \in SdkRetries /\ pc' = "backoff" /\ upd' = upd
    <3>1. o # "answered"
      BY <2>7 DEF SdkRetries
    <3>2. copies' <= lost' + faults /\ (heard' => faults > 0)
      <4>1. copies' <= lost' + faults
        BY <2>5, <3>1
      <4>2. heard' => faults > 0
        BY <2>2, <2>4, <3>1, Zenon
      <4>. QED
        BY <4>1, <4>2
    <3>. QED
      BY <2>1, <2>2, <2>3, <2>7, <3>2, ZenonT(60) DEF IInv, CallInv, HeardInv
  <2>. QED
    BY <1>3, <2>6, <2>7 DEF SendEmail
<1>4. CASE Backoff \/ BackoffCanceled
  <2>1. pc = "backoff" /\ UNCHANGED <<r, proc, foreign, copies, lost, heard, faults>>
    BY <1>4 DEF Backoff, BackoffCanceled, ses
  <2>2. r.state = "working" /\ proc # "down" /\ copies <= lost + faults /\ (heard => faults > 0)
    BY <2>1 DEF IInv, CallInv, HeardInv, Concluded
  <2>3. ASSUME NEW a \in Submit("canceled"), SubmitReturns(a)  PROVE IInv'
    <3>1. a \in {"temporary", "permanent"}
      BY <2>3, SubmitAnswers
    <3>. QED
      BY <1>0, <2>1, <2>2, <2>3, <3>1, CallEnds
  <2>4. CASE pc' = "sending" /\ upd' = upd
    BY <2>1, <2>2, <2>4 DEF IInv, CallInv, HeardInv
  <2>. QED
    BY <1>4, <2>3, <2>4 DEF Backoff, BackoffCanceled
<1>5. CASE Poll
  <2>1. upd' \in Row /\ upd'.state = "succeeded"
    BY <1>0, <1>5, AfterPoll DEF Poll
  <2>. QED
    BY <1>5, <2>1 DEF Poll, ses, IInv, CallInv, HeardInv, Concluded
<1>6. CASE FinalizeRecord
  <2>1. r' = upd /\ pc = "final" /\ pc' = "idle"
        /\ UNCHANGED <<proc, upd, foreign, copies, lost, heard, faults>>
    BY <1>6 DEF FinalizeRecord, ses
  <2>2. upd.state # "submitted" /\ upd.state # "working"
    BY <1>0, <2>1, AfterSubmit, AfterPoll DEF IInv, CallInv
  <2>3. r.state # "succeeded"
    BY <2>1 DEF IInv, CallInv
  <2>. QED
    BY <1>0, <2>1, <2>2, <2>3 DEF IInv, CallInv, HeardInv, Concluded
<1>7. CASE Idle
  BY <1>1, <1>7 DEF Idle
<1>8. CASE Shutdown
  <2>1. UNCHANGED <<r, pc, upd, foreign, copies, lost, heard>> /\ faults' = faults + 1
        /\ proc' = "stopping" /\ proc = "running"
    BY <1>8 DEF Shutdown, Fault, ses
  <2>. QED
    BY <1>0, <2>1 DEF IInv, CallInv, HeardInv, Concluded
<1>9. CASE Exit
  BY <1>9 DEF Exit, ses, IInv, CallInv, HeardInv, Concluded
<1>10. CASE Crash
  <2>1. UNCHANGED <<r, upd, foreign, copies, lost, heard>> /\ faults' = faults + 1 /\ pc' = "idle"
    BY <1>10 DEF Crash, Fault, ses
  <2>2. copies <= lost + faults'
    BY <1>0, <2>1 DEF IInv, HeardInv
  <2>. QED
    BY <1>0, <2>1, <2>2 DEF IInv, CallInv, HeardInv
<1>11. CASE Restart
  <2>1. UNCHANGED <<pc, upd, foreign, copies, lost, heard, faults>> /\ pc = "idle"
        /\ proc' = "running"
    BY <1>11 DEF Restart, ses, IInv, CallInv
  <2>2. r' = r \/ (r.state = "working" /\ r' \in Row /\ r'.state = "queued")
    BY <1>0, <1>11, Moves DEF Restart
  <2>. QED
    BY <1>0, <2>1, <2>2 DEF IInv, CallInv, HeardInv, Concluded
<1>. QED
  BY <1>1, <1>2, <1>3, <1>4, <1>5, <1>6, <1>7, <1>8, <1>9, <1>10, <1>11 DEF Next

\* The record as Enqueue left it, or as ACS left it before the provider was changed.
LEMMA InitIInv == Init => IInv
<1>. SUFFICES ASSUME Init PROVE IInv
  OBVIOUS
<1>1. r \in Row /\ upd \in Row
  <2>1. Queued0 \in Row /\ Foreign0 \in Row /\ Absent \in Row
    BY DEF Queued0, Foreign0, Absent, row, Row, Live, Terminal, ErrKind
  <2>. QED
    BY <2>1, Zenon DEF Init
<1>2. copies = 0 /\ lost = 0 /\ faults = 0 /\ ~heard /\ pc = "idle" /\ proc = "running"
  BY DEF Init
<1>3. r.state = "submitted" => foreign
  <2>1. Queued0.state # "submitted"
    BY DEF Queued0, row
  <2>. QED
    BY <2>1, Zenon DEF Init
<1>. QED
  BY <1>1, <1>2, <1>3 DEF IInv, CallInv, HeardInv

\* IInv is an invariant.
THEOREM Invariance == Spec => []IInv
BY InitIInv, Step, PTL DEF Spec

\* A mail goes out again only after an answer that was lost, or a crash or shutdown,
\* whatever the number of the SDK's and the worker's retries.
THEOREM CopiesBounded == Spec => []CopiesExplained
<1>1. IInv => CopiesExplained
  <2>. SUFFICES ASSUME IInv PROVE CopiesExplained
    OBVIOUS
  <2>1. copies \in Nat /\ lost \in Nat /\ faults \in Nat /\ HeardInv
    BY DEF IInv
  <2>2. copies <= lost + faults \/ copies <= lost + faults + 1
    BY <2>1 DEF HeardInv
  <2>3. copies \in Nat /\ lost \in Nat /\ faults \in Nat
    BY <2>1
  <2>. QED
    BY <2>2, <2>3 DEF CopiesExplained
<1>. QED
  BY <1>1, Invariance, PTL

\* A mail SES has acknowledged to the relay is not given up while nothing fails.
THEOREM HeardIsKept == Spec => []HeardIsNotGivenUp
<1>1. IInv => HeardIsNotGivenUp
  <2>. SUFFICES ASSUME IInv, heard, r.state = "dead-letter" PROVE faults > 0
    BY DEF HeardIsNotGivenUp
  <2>1. pc # "final"
    BY DEF IInv, CallInv
  <2>. QED
    BY <2>1 DEF IInv, HeardInv, Concluded
<1>. QED
  BY <1>1, Invariance, PTL

\* Every request is accounted for: in the call in progress, and when that ends by the
\* attempt it adds to the record, or by the fault that ended it.
LEMMA SendStep == IInv /\ SendInv /\ [Next]_vars => SendInv'
<1>. SUFFICES ASSUME IInv, SendInv, [Next]_vars PROVE SendInv'
  OBVIOUS
<1>0. CallInv
  BY DEF IInv
<1>1. /\ RetryAttempts \in Nat \ {0} /\ r \in Row /\ r.attempt \in Nat
      /\ faults \in Nat /\ sends \in Nat /\ n \in Nat \ {0}
      /\ pc \in {"sending", "backoff", "idle", "final"}
  BY RetryAttemptsAssumption DEF IInv, SendInv, Row
<1>2. Accounted \in Nat
  BY <1>1, Product DEF Accounted
<1>3. /\ r'.attempt = r.attempt /\ faults' = faults => Accounted' = Accounted
      /\ r'.attempt = r.attempt /\ faults' = faults + 1 => Accounted' = Accounted + RetryAttempts
      /\ r'.attempt = r.attempt + 1 /\ faults' = faults => Accounted' = Accounted + RetryAttempts
  <2>1. RetryAttempts * (r.attempt + faults + 1) = Accounted + RetryAttempts
    BY <1>1, Product DEF Accounted
  <2>2. /\ r.attempt + (faults + 1) = r.attempt + faults + 1
        /\ (r.attempt + 1) + faults = r.attempt + faults + 1
    BY <1>1
  <2>. QED
    BY <2>1, <2>2, Zenon DEF Accounted
<1>4. CASE UNCHANGED <<r, pc, n, sends, faults>>
  <2>1. Accounted' = Accounted
    BY <1>3, <1>4
  <2>. QED
    BY <1>4, <2>1 DEF SendInv
<1>5. CASE BeginSubmit
  <2>1. r'.state = "working" /\ r'.attempt = r.attempt /\ r.state = "queued" /\ pc = "idle"
        /\ pc' \in {"sending", "final"} /\ n' = 1 /\ UNCHANGED <<sends, faults>>
    BY <1>1, <1>5, Moves DEF BeginSubmit, ses
  <2>2. Accounted' = Accounted
    BY <1>3, <2>1
  <2>. QED
    BY <1>1, <1>2, <2>1, <2>2 DEF SendInv
<1>6. CASE Poll
  <2>1. r.state = "submitted" /\ pc' = "final" /\ UNCHANGED <<r, n, sends, faults>>
    BY <1>6 DEF Poll, call, ses
  <2>2. Accounted' = Accounted
    BY <1>3, <2>1
  <2>. QED
    BY <2>1, <2>2 DEF SendInv
<1>7. ASSUME NEW o \in Outcomes, SendEmail(o)  PROVE SendInv'
  <2>1. pc = "sending" /\ sends' = sends + 1 /\ UNCHANGED <<r, n, faults>>
    BY <1>7 DEF SendEmail
  <2>2. Accounted' = Accounted /\ r.state = "working"
    BY <1>0, <1>3, <2>1 DEF CallInv
  <2>3. (pc' = "backoff" /\ n < RetryAttempts) \/ pc' = "final"
    BY <1>7, Zenon DEF SendEmail, SubmitReturns
  <2>4. sends < Accounted + n /\ n <= RetryAttempts
    BY <2>1 DEF SendInv
  <2>5. sends' \in Nat /\ sends' <= Accounted' + n' /\ sends' <= Accounted' + RetryAttempts
    BY <1>1, <1>2, <2>1, <2>2, <2>4
  <2>. QED
    BY <2>1, <2>2, <2>3, <2>4, <2>5 DEF SendInv
<1>8. CASE Backoff \/ BackoffCanceled
  <2>1. pc = "backoff" /\ UNCHANGED <<r, sends, faults>>
    BY <1>8 DEF Backoff, BackoffCanceled, ses
  <2>2. Accounted' = Accounted /\ r.state = "working"
    BY <1>0, <1>3, <2>1 DEF CallInv
  <2>3. n < RetryAttempts /\ sends <= Accounted + n
    BY <2>1 DEF SendInv
  <2>4. (pc' = "sending" /\ n' = n + 1) \/ (pc' = "final" /\ n' = n)
    BY <1>8, Zenon DEF Backoff, BackoffCanceled, SubmitReturns, call
  <2>5. /\ n' = n + 1 => n' \in Nat \ {0} /\ n' <= RetryAttempts /\ sends' < Accounted' + n'
        /\ sends' <= Accounted' + RetryAttempts
    BY <1>1, <1>2, <2>1, <2>2, <2>3
  <2>. QED
    BY <1>1, <2>1, <2>2, <2>4, <2>5 DEF SendInv
<1>10. CASE FinalizeRecord
  <2>1. r' = upd /\ pc = "final" /\ pc' = "idle" /\ UNCHANGED <<n, sends, faults>>
    BY <1>10 DEF FinalizeRecord, call, ses
  <2>2. CASE r.state = "submitted" /\ upd = afterPoll(r, "succeeded")
    <3>1. r'.attempt = r.attempt /\ r'.state = "succeeded"
      BY <1>1, <2>1, <2>2, AfterPoll
    <3>2. Accounted' = Accounted
      BY <1>3, <2>1, <3>1
    <3>. QED
      BY <2>1, <2>2, <3>1, <3>2 DEF SendInv
  <2>3. ASSUME r.state = "working", NEW a \in {"succeeded", "temporary", "permanent"},
               upd = afterSubmit(r, a)
        PROVE  SendInv'
    <3>1. r'.attempt = r.attempt + 1
          /\ r'.state # "working" /\ (r'.state = "queued" => r.attempt < RetryAttempts)
      BY <1>1, <2>1, <2>3, AfterSubmit
    <3>2. Accounted' = Accounted + RetryAttempts
      BY <1>3, <2>1, <3>1
    <3>3. r.attempt <= RetryAttempts /\ sends <= Accounted + RetryAttempts
      BY <2>1, <2>3 DEF SendInv
    <3>4. r'.attempt <= RetryAttempts + 1 /\ (r'.state = "queued" => r'.attempt <= RetryAttempts)
      BY <1>1, <3>1, <3>3
    <3>. QED
      BY <1>1, <2>1, <3>1, <3>2, <3>3, <3>4 DEF SendInv
  <2>. QED
    BY <1>0, <2>1, <2>2, <2>3 DEF CallInv
<1>11. CASE Shutdown
  <2>1. UNCHANGED <<r, pc, n, sends>> /\ faults' = faults + 1
    BY <1>11 DEF Shutdown, Fault, ses
  <2>2. Accounted' = Accounted + RetryAttempts
    BY <1>3, <2>1
  <2>. QED
    BY <1>1, <1>2, <2>1, <2>2 DEF SendInv
<1>12. CASE Crash
  <2>1. UNCHANGED <<r, n, sends>> /\ faults' = faults + 1 /\ pc' = "idle"
    BY <1>12 DEF Crash, Fault, call, ses
  <2>2. Accounted' = Accounted + RetryAttempts
    BY <1>3, <2>1
  <2>3. sends <= Accounted + RetryAttempts
    <3>1. CASE pc = "sending"
      BY <1>1, <1>2, <3>1 DEF SendInv
    <3>2. CASE pc = "backoff"
      BY <1>1, <1>2, <3>2 DEF SendInv
    <3>3. CASE pc \notin {"sending", "backoff"}
      BY <1>0, <1>1, <1>2, <3>3 DEF SendInv, CallInv
    <3>. QED
      BY <3>1, <3>2, <3>3
  <2>. QED
    BY <1>1, <1>2, <2>1, <2>2, <2>3 DEF SendInv
<1>13. CASE Restart
  <2>1. UNCHANGED <<pc, n, sends, faults>> /\ pc = "idle"
    BY <1>0, <1>13 DEF Restart, call, ses, CallInv
  <2>2. /\ r'.attempt = r.attempt
        /\ r' = r \/ (r.state = "working" /\ r'.state = "queued")
    BY <1>1, <1>13, Moves DEF Restart
  <2>3. Accounted' = Accounted
    BY <1>3, <2>1, <2>2
  <2>. QED
    BY <2>1, <2>2, <2>3 DEF SendInv
<1>. QED
  BY <1>4, <1>5, <1>6, <1>7, <1>8, <1>10, <1>11, <1>12, <1>13
  DEF Next, vars, call, ses, Idle, Exit

\* What SendBudget needs is invariant: every request belongs to an attempt, a fault or the
\* call in progress (ses/provider.go, Submit).
LEMMA SendInvariance == Spec => []SendInv
<1>1. Init => SendInv
  <2>. SUFFICES ASSUME Init PROVE SendInv
    OBVIOUS
  <2>1. r.attempt \in {0, 1} /\ (r.state = "queued" => r.attempt = 0) /\ r.state # "working"
    BY DEF Init, Queued0, Foreign0, row
  <2>2. Accounted \in Nat
    BY <2>1, Product, RetryAttemptsAssumption DEF Init, Accounted
  <2>. QED
    BY <2>1, <2>2, RetryAttemptsAssumption DEF Init, SendInv
<1>. QED
  BY <1>1, SendStep, Invariance, PTL DEF Spec

\* The SDK's attempts and the worker's retries multiply, and each fault costs one call:
\* the requests SES sees stay within this, whatever the number of retries.
THEOREM SendsBounded == Spec => []SendBudget
<1>1. IInv /\ SendInv => SendBudget
  <2>. SUFFICES ASSUME IInv, SendInv PROVE SendBudget
    OBVIOUS
  <2>1. /\ RetryAttempts \in Nat \ {0} /\ r.attempt \in Nat /\ faults \in Nat
        /\ sends \in Nat /\ n \in Nat /\ CallInv
        /\ pc \in {"sending", "backoff", "idle", "final"}
    BY RetryAttemptsAssumption DEF IInv, SendInv, Row
  <2>2. PICK k \in Nat : sends <= RetryAttempts * k /\ k <= RetryAttempts + 1 + faults
    <3>1. CASE r.state = "working" /\ pc \in {"sending", "backoff", "final"}
      <4>1. sends <= Accounted + RetryAttempts /\ r.attempt <= RetryAttempts
        <5>1. Accounted \in Nat
          BY <2>1, Product DEF Accounted
        <5>2. r.attempt <= RetryAttempts
          BY <3>1 DEF SendInv
        <5>3. CASE pc = "final"
          BY <3>1, <5>2, <5>3 DEF SendInv
        <5>4. CASE pc \in {"sending", "backoff"}
          <6>1. n <= RetryAttempts /\ sends <= Accounted + n
            BY <2>1, <5>1, <5>4 DEF SendInv
          <6>. QED
            BY <2>1, <5>1, <5>2, <6>1
        <5>. QED
          BY <3>1, <5>3, <5>4
      <4>2. RetryAttempts * (r.attempt + faults + 1) = Accounted + RetryAttempts
        BY <2>1, Product DEF Accounted
      <4>3. r.attempt + faults + 1 \in Nat /\ r.attempt + faults + 1 <= RetryAttempts + 1 + faults
        BY <2>1, <4>1
      <4>. QED
        BY <4>1, <4>2, <4>3, Zenon
    <3>2. CASE ~(r.state = "working" /\ pc \in {"sending", "backoff", "final"})
      <4>1. sends <= RetryAttempts * (r.attempt + faults) /\ r.attempt <= RetryAttempts + 1
        BY <2>1, <3>2 DEF SendInv, CallInv, Accounted
      <4>2. r.attempt + faults \in Nat /\ r.attempt + faults <= RetryAttempts + 1 + faults
        BY <2>1, <4>1
      <4>. QED
        BY <4>1, <4>2, Zenon
    <3>. QED
      BY <3>1, <3>2
  <2>3. RetryAttempts * k <= RetryAttempts * (RetryAttempts + 1 + faults)
    BY <2>1, <2>2, ProductGrows
  <2>4. RetryAttempts * k \in Nat /\ RetryAttempts * (RetryAttempts + 1 + faults) \in Nat
    BY <2>1, <2>2, Product
  <2>. QED
    BY <2>1, <2>2, <2>3, <2>4 DEF SendBudget
<1>. QED
  BY <1>1, SendInvariance, Invariance, PTL

\* The SES path implements the contract: every attempt of the SDK, backoff, deadline,
\* shutdown, crash and restart is a step of DeliveryContract or changes nothing in it.
THEOREM SesImplements == Spec => ImplementsContract
<1>1. Init => Contract!Init
  <2>. SUFFICES ASSUME Init PROVE Contract!Init
    OBVIOUS
  <2>1. /\ Queued0.state = "queued" /\ Queued0.attempt = 0
        /\ Foreign0.state = "submitted" /\ Foreign0.attempt = 1 /\ Queued0 # Foreign0
    BY DEF Queued0, Foreign0, row
  <2>2. ~(copies > 0)
    BY DEF Init
  <2>3. CASE r = Queued0
    <3>1. (foreign \/ copies > 0) = FALSE
      BY <2>1, <2>2, <2>3, Zenon DEF Init
    <3>. QED
      BY <2>1, <2>3, <3>1, Zenon DEF Contract!Init
  <2>4. CASE r = Foreign0
    <3>1. (foreign \/ copies > 0) = TRUE
      BY <2>4, Zenon DEF Init
    <3>. QED
      BY <2>1, <2>4, <3>1, Zenon DEF Contract!Init
  <2>. QED
    BY <2>3, <2>4 DEF Init
<1>2. IInv /\ IInv' /\ [Next]_vars => [Contract!Next]_(Contract!vars)
  <2>. SUFFICES ASSUME IInv, IInv', [Next]_vars PROVE [Contract!Next]_(Contract!vars)
    OBVIOUS
  <2>. DEFINE accepted == foreign \/ copies > 0
  <2>0. r \in Row /\ CallInv
    BY DEF IInv
  <2>1. CASE BeginSubmit
    <3>1. r.state = "queued" /\ r'.state = "working" /\ r'.attempt = r.attempt
          /\ UNCHANGED <<foreign, copies>>
      BY <2>0, <2>1, Moves DEF BeginSubmit, ses
    <3>. QED
      BY <3>1 DEF Contract!Next, Contract!Claim
  <2>2. ASSUME NEW o \in Outcomes, SendEmail(o)  PROVE [Contract!Next]_(Contract!vars)
    <3>1. pc = "sending" /\ r' = r /\ foreign' = foreign /\ Accepts(o)
      BY <2>2 DEF SendEmail
    <3>2. r.state = "working"
      BY <2>0, <3>1 DEF CallInv
    <3>3. accepted' = accepted \/ accepted' = TRUE
      <4>1. copies' = copies \/ copies' = copies + 1
        BY <3>1, Zenon DEF Accepts
      <4>2. copies \in Nat
        BY DEF IInv
      <4>3. copies' = copies \/ copies' > 0
        BY <4>1, <4>2
      <4>. QED
        BY <3>1, <4>3, Zenon
    <3>. QED
      BY <3>1, <3>2, <3>3 DEF Contract!Next, Contract!Accept, Contract!vars
  <2>3. CASE FinalizeRecord
    <3>1. r' = upd /\ pc = "final" /\ UNCHANGED <<foreign, copies>>
      BY <2>3 DEF FinalizeRecord, ses
    <3>2. CASE r.state = "submitted" /\ upd = afterPoll(r, "succeeded")
      <4>1. r'.state = "succeeded" /\ r'.attempt = r.attempt /\ foreign
        BY <2>0, <3>1, <3>2, AfterPoll DEF CallInv
      <4>. QED
        BY <3>1, <3>2, <4>1 DEF Contract!Next, Contract!Settle
    <3>3. ASSUME r.state = "working", NEW a \in {"succeeded", "temporary", "permanent"},
                 upd = afterSubmit(r, a), a = "succeeded" => copies > 0
          PROVE  Contract!Next
      <4>1. /\ r'.attempt = r.attempt + 1
            /\ \/ r'.state = "queued" /\ r.attempt < RetryAttempts
               \/ r'.state = "succeeded" /\ copies > 0
               \/ r'.state = "dead-letter"
        BY <2>0, <3>1, <3>3, AfterSubmit
      <4>. QED
        BY <3>1, <3>3, <4>1 DEF Contract!Next, Contract!Settle, Contract!Retry
    <3>. QED
      BY <2>0, <3>1, <3>2, <3>3 DEF CallInv
  <2>4. CASE Restart
    <3>1. UNCHANGED <<foreign, copies>>
          /\ (r' = r \/ (r.state = "working" /\ r'.state = "queued" /\ r'.attempt = r.attempt))
      BY <2>0, <2>4, Moves DEF Restart, ses
    <3>. QED
      BY <3>1 DEF Contract!Next, Contract!Recover, Contract!vars
  <2>5. CASE UNCHANGED <<r, foreign, copies>>
    BY <2>5 DEF Contract!vars
  <2>. QED
    BY <2>1, <2>2, <2>3, <2>4, <2>5
    DEF Next, vars, ses, Backoff, BackoffCanceled, Poll, Idle, Shutdown, Exit, Crash
<1>. QED
  BY <1>1, <1>2, Invariance, PTL DEF Spec, ImplementsContract, Contract!Spec
-----------------------------------------------------------------------------
\* What the worker writes after a Submit: it charges the attempt, and the record is
\* submitted, queued again with a retry left, or a dead letter.
LEMMA AcsAfterSubmit ==
  ASSUME NEW x \in Acs!Row, x.state = "working", NEW a \in {"running", "temporary", "permanent"}
  PROVE  /\ Acs!afterSubmit(x, a) \in Acs!Row
         /\ Acs!afterSubmit(x, a).attempt = x.attempt + 1
         /\ \/ Acs!afterSubmit(x, a).state = "submitted" /\ a = "running"
            \/ Acs!afterSubmit(x, a).state = "queued" /\ x.attempt < RetryAttempts
            \/ Acs!afterSubmit(x, a).state = "dead-letter"
<1>0. x.attempt \in Nat
  BY DEF Acs!Row
<1>1. CASE a = "running"
  <2>1. Acs!afterSubmit(x, a) = Acs!row("submitted", x.attempt + 1, TRUE, "none")
    BY <1>1 DEF Acs!afterSubmit, Acs!markSubmitted
  <2>2. /\ Acs!afterSubmit(x, a) \in Acs!Row /\ Acs!afterSubmit(x, a).state = "submitted"
        /\ Acs!afterSubmit(x, a).attempt = x.attempt + 1
    BY <1>0, <2>1 DEF Acs!row, Acs!Row, Acs!Live, Acs!ErrKind
  <2>. QED
    BY <1>1, <2>2
<1>2. CASE a = "temporary" /\ Acs!submitRetryAllowed(x)
  <2>1. Acs!afterSubmit(x, a) = Acs!row("queued", x.attempt + 1, FALSE, "temporary")
    BY <1>2 DEF Acs!afterSubmit, Acs!markRetry
  <2>2. x.attempt < RetryAttempts
    BY <1>2 DEF Acs!submitRetryAllowed
  <2>3. /\ Acs!afterSubmit(x, a) \in Acs!Row /\ Acs!afterSubmit(x, a).state = "queued"
        /\ Acs!afterSubmit(x, a).attempt = x.attempt + 1
    BY <1>0, <2>1 DEF Acs!row, Acs!Row, Acs!Live, Acs!ErrKind
  <2>. QED
    BY <2>2, <2>3
<1>3. CASE a # "running" /\ ~(a = "temporary" /\ Acs!submitRetryAllowed(x))
  <2>1. Acs!afterSubmit(x, a) = Acs!row("dead-letter", x.attempt + 1, FALSE, a)
    BY <1>3, Zenon DEF Acs!afterSubmit, Acs!markDeadLetter
  <2>. QED
    BY <1>0, <1>3, <2>1 DEF Acs!row, Acs!Row, Acs!Terminal, Acs!ErrKind
<1>. QED
  BY <1>1, <1>2, <1>3

\* What the worker writes after a Poll, or when SubmittedTimeout has passed: the attempts
\* stay, and the record stays submitted or ends.
LEMMA AcsAfterPoll ==
  ASSUME NEW x \in Acs!Row, x.state = "submitted",
         NEW a \in {"succeeded", "running", "temporary", "permanent"}
  PROVE  /\ Acs!afterPoll(x, a) \in Acs!Row /\ Acs!afterPoll(x, a).attempt = x.attempt
         /\ Acs!afterPoll(x, a).state = IF a = "succeeded" THEN "succeeded"
                                    ELSE IF a = "permanent" THEN "dead-letter" ELSE "submitted"
<1>0. x.attempt \in Nat /\ x.op \in BOOLEAN
  BY DEF Acs!Row
<1>1. CASE a = "succeeded"
  <2>1. Acs!afterPoll(x, a) = Acs!row("succeeded", x.attempt, x.op, "none")
    BY <1>1 DEF Acs!afterPoll, Acs!markSucceeded
  <2>. QED
    BY <1>0, <1>1, <2>1 DEF Acs!row, Acs!Row, Acs!Terminal, Acs!ErrKind
<1>2. CASE a = "permanent"
  <2>1. Acs!afterPoll(x, a) = Acs!row("dead-letter", x.attempt, x.op, "permanent")
    BY <1>2 DEF Acs!afterPoll, Acs!markDeadLetter
  <2>. QED
    BY <1>0, <1>2, <2>1 DEF Acs!row, Acs!Row, Acs!Terminal, Acs!ErrKind
<1>3. CASE a \in {"running", "temporary"}
  <2>1. PICK e \in Acs!ErrKind : Acs!afterPoll(x, a) = Acs!row("submitted", x.attempt, x.op, e)
    BY <1>3 DEF Acs!afterPoll, Acs!markRetry, Acs!ErrKind
  <2>2. Acs!row("submitted", x.attempt, x.op, e) \in Acs!Row
    BY <1>0 DEF Acs!row, Acs!Row, Acs!Live
  <2>3. Acs!afterPoll(x, a).attempt = x.attempt /\ Acs!afterPoll(x, a).state = "submitted"
    BY <2>1 DEF Acs!row
  <2>. QED
    BY <1>3, <2>1, <2>2, <2>3
<1>. QED
  BY <1>1, <1>2, <1>3

\* SubmittedTimeout's dead letter.
LEMMA AcsAfterTimeout ==
  ASSUME NEW x \in Acs!Row, x.state = "submitted"
  PROVE  /\ Acs!markDeadLetter(x, "permanent") \in Acs!Row
         /\ Acs!markDeadLetter(x, "permanent").attempt = x.attempt
         /\ Acs!markDeadLetter(x, "permanent").state = "dead-letter"
<1>0. x.attempt \in Nat /\ x.op \in BOOLEAN
  BY DEF Acs!Row
<1>1. Acs!markDeadLetter(x, "permanent") = Acs!row("dead-letter", x.attempt, x.op, "permanent")
  BY DEF Acs!markDeadLetter
<1>. QED
  BY <1>0, <1>1 DEF Acs!row, Acs!Row, Acs!Terminal, Acs!ErrKind

\* A claim and a recovery change the state only.
LEMMA AcsMoves ==
  ASSUME NEW x \in Acs!Row
  PROVE  /\ Acs!claimReady(x) \in Acs!Row /\ Acs!claimReady(x).state = "working"
         /\ Acs!claimReady(x).attempt = x.attempt
         /\ Acs!recovered(x) \in Acs!Row /\ Acs!recovered(x).state = "queued"
         /\ Acs!recovered(x).attempt = x.attempt
<1>0. x.attempt \in Nat /\ x.op \in BOOLEAN /\ x.err \in Acs!ErrKind
  BY DEF Acs!Row
<1>. QED
  BY <1>0 DEF Acs!claimReady, Acs!recovered, Acs!row, Acs!Row, Acs!Live, Acs!ErrKind

\* ACS's side: only a POST starts the operation, and under one name.
LEMMA OperationStep == Acs!IInv /\ [Acs!Next]_(Acs!vars) => Acs!OperationInv'
<1>. SUFFICES ASSUME Acs!IInv, [Acs!Next]_(Acs!vars) PROVE Acs!OperationInv'
  OBVIOUS
<1>0. Acs!OperationInv
  BY DEF Acs!IInv
<1>1. CASE UNCHANGED Acs!acs
  BY <1>0, <1>1 DEF Acs!acs, Acs!OperationInv, Acs!operationID
<1>2. ASSUME NEW o \in Acs!Outcomes, Acs!Start(o)  PROVE Acs!OperationInv'
  <2>1. CASE /\ ops' = ops \cup {Acs!operationID}
             /\ opState' = IF opState = "none" THEN "running" ELSE opState
    BY <1>0, <2>1 DEF Acs!OperationInv, Acs!operationID
  <2>. QED
    BY <1>1, <1>2, <2>1 DEF Acs!Start
<1>3. CASE Acs!OperationEnds
  BY <1>0, <1>3 DEF Acs!OperationEnds, Acs!OperationInv, Acs!operationID
<1>. QED
  BY <1>1, <1>2, <1>3
  DEF Acs!Next, Acs!vars, Acs!acs, Acs!BeginSubmit, Acs!BeginPoll, Acs!SubmittedTimeout, Acs!SubmitOnce, Acs!Backoff,
      Acs!BackoffCanceled, Acs!Poll, Acs!FinalizeRecord, Acs!Idle, Acs!Shutdown, Acs!Exit, Acs!Crash, Acs!Restart

\* An operation that ACS has started, or that has ended, stays so.
LEMMA AcsKeeps ==
  ASSUME Acs!IInv, [Acs!Next]_(Acs!vars)
  PROVE  (ops # {} => ops' # {}) /\ (opState \in {"succeeded", "failed"} => opState' = opState)
<1>1. CASE UNCHANGED Acs!acs
  BY <1>1 DEF Acs!acs
<1>2. ASSUME NEW o \in Acs!Outcomes, Acs!Start(o)
      PROVE  (ops # {} => ops' # {}) /\ (opState \in {"succeeded", "failed"} => opState' = opState)
  BY <1>1, <1>2 DEF Acs!Start
<1>3. CASE Acs!OperationEnds
  BY <1>3 DEF Acs!OperationEnds
<1>. QED
  BY <1>1, <1>2, <1>3
  DEF Acs!Next, Acs!vars, Acs!acs, Acs!BeginSubmit, Acs!BeginPoll, Acs!SubmittedTimeout, Acs!SubmitOnce, Acs!Backoff,
      Acs!BackoffCanceled, Acs!Poll, Acs!FinalizeRecord, Acs!Idle, Acs!Shutdown, Acs!Exit, Acs!Crash, Acs!Restart

\* The end of a Submit call that has just returned a.
LEMMA AcsCallEnds ==
  ASSUME Acs!IInv, acsR' = acsR, acsR.state = "working", NEW a \in {"running", "temporary", "permanent"},
         Acs!SubmitReturns(a), a = "running" => ops' # {}
  PROVE  acsUpd' \in Acs!Row /\ acsPc' = "final" /\ Acs!CallInv'
<1>1. acsUpd' = Acs!afterSubmit(acsR, a) /\ acsPc' = "final"
  BY DEF Acs!SubmitReturns
<1>2. acsUpd' \in Acs!Row
  BY <1>1, AcsAfterSubmit DEF Acs!IInv, Acs!Typed
<1>. QED
  BY <1>1, <1>2 DEF Acs!CallInv

\* Every step of the worker, and of what surrounds it, keeps the types and leaves in the
\* worker's hands what CallInv says.
LEMMA AcsCallStep == Acs!IInv /\ [Acs!Next]_(Acs!vars) => Acs!Typed' /\ Acs!CallInv'
<1>. SUFFICES ASSUME Acs!IInv, [Acs!Next]_(Acs!vars) PROVE Acs!Typed' /\ Acs!CallInv'
  OBVIOUS
<1>0. Acs!Typed /\ Acs!CallInv /\ Acs!OperationInv
  BY DEF Acs!IInv
<1>a. (ops # {} => ops' # {}) /\ (opState \in {"succeeded", "failed"} => opState' = opState)
  BY AcsKeeps
<1>b. acsR \in Acs!Row /\ acsUpd \in Acs!Row /\ acsFaults \in Nat /\ posts \in Nat /\ acsN \in Nat \ {0}
  BY <1>0 DEF Acs!Typed
<1>1. CASE UNCHANGED <<acsR, acsProc, acsPc, acsN, acsUpd, posts, acsLast, acsFaults>>
  BY <1>0, <1>1, <1>a DEF Acs!Typed, Acs!CallInv
<1>2. CASE Acs!BeginSubmit
  <2>1. acsR' \in Acs!Row /\ acsR'.state = "working"
    BY <1>b, <1>2, AcsMoves DEF Acs!BeginSubmit
  <2>2. acsPc' = "posting" /\ acsN' = 1 /\ acsProc = "running" /\ UNCHANGED <<acsProc, acsUpd, posts, acsFaults>>
    BY <1>2 DEF Acs!BeginSubmit, Acs!Call
  <2>. QED
    BY <1>b, <2>1, <2>2 DEF Acs!Typed, Acs!CallInv, Acs!InCall
<1>3. CASE Acs!BeginPoll
  <2>1. acsPc' = "polling" /\ acsN' = 1 /\ acsProc = "running" /\ acsR.state = "submitted"
        /\ UNCHANGED <<acsR, acsProc, acsUpd, posts, acsFaults>>
    BY <1>3 DEF Acs!BeginPoll, Acs!Call
  <2>. QED
    BY <1>0, <1>a, <1>b, <2>1 DEF Acs!Typed, Acs!CallInv, Acs!InCall
<1>4. CASE Acs!SubmittedTimeout
  <2>1. /\ acsPc' = "final" /\ acsProc = "running" /\ acsR.state = "submitted" /\ acsLast' = "timeout"
        /\ UNCHANGED <<acsR, acsProc, acsN, posts, acsFaults>>
    BY <1>4 DEF Acs!SubmittedTimeout, Acs!call
  <2>2. /\ acsUpd' \in Acs!Row /\ acsUpd'.attempt = acsR.attempt /\ acsUpd'.state = "dead-letter"
        /\ acsLast' \in Acs!EndsPoll
    BY <1>b, <1>4, AcsAfterTimeout DEF Acs!SubmittedTimeout, Acs!EndsPoll
  <2>. QED
    BY <1>0, <1>a, <1>b, <2>1, <2>2 DEF Acs!Typed, Acs!CallInv, Acs!InCall
<1>5. ASSUME NEW o \in Acs!Outcomes, Acs!SubmitOnce(o)  PROVE Acs!Typed' /\ Acs!CallInv'
  <2>1. /\ acsPc = "posting" /\ posts' \in {posts, posts + 1} /\ Acs!Start(o)
        /\ UNCHANGED <<acsR, acsProc, acsN, acsFaults>>
    BY <1>5, Zenon DEF Acs!SubmitOnce
  <2>2. acsR.state = "working" /\ acsProc # "down"
    BY <1>0, <2>1 DEF Acs!Typed, Acs!CallInv
  <2>3. CASE acsPc' = "backoff" /\ UNCHANGED acsUpd
    BY <1>b, <2>1, <2>2, <2>3 DEF Acs!Typed, Acs!CallInv, Acs!InCall
  <2>4. ASSUME NEW a \in {"running", "temporary", "permanent"}, Acs!SubmitReturns(a),
               a = "running" => o = "answered"
        PROVE  Acs!Typed' /\ Acs!CallInv'
    <3>1. a = "running" => ops' # {}
      BY <2>1, <2>4 DEF Acs!Start
    <3>2. acsUpd' \in Acs!Row /\ acsPc' = "final" /\ Acs!CallInv'
      BY <2>1, <2>2, <2>4, <3>1, AcsCallEnds
    <3>. QED
      BY <1>b, <2>1, <2>2, <3>2 DEF Acs!Typed
  <2>5. \/ acsPc' = "backoff" /\ UNCHANGED acsUpd
        \/ Acs!SubmitReturns("running") /\ o = "answered"
        \/ Acs!SubmitReturns("temporary") \/ Acs!SubmitReturns("permanent")
    BY <1>5, Zenon DEF Acs!SubmitOnce
  <2>. QED
    BY <2>3, <2>4, <2>5
<1>6. CASE Acs!Backoff \/ Acs!BackoffCanceled
  <2>1. acsPc = "backoff" /\ UNCHANGED <<acsR, acsProc, posts, acsFaults>>
    BY <1>6 DEF Acs!Backoff, Acs!BackoffCanceled
  <2>2. acsR.state = "working" /\ acsProc # "down"
    BY <1>0, <2>1 DEF Acs!Typed, Acs!CallInv
  <2>3. CASE acsPc' = "posting" /\ acsN' = acsN + 1 /\ UNCHANGED acsUpd
    BY <1>b, <2>1, <2>2, <2>3 DEF Acs!Typed, Acs!CallInv, Acs!InCall
  <2>4. CASE Acs!SubmitReturns("permanent") /\ UNCHANGED acsN
    <3>1. acsUpd' \in Acs!Row /\ acsPc' = "final" /\ Acs!CallInv'
      BY <2>1, <2>2, <2>4, AcsCallEnds
    <3>. QED
      BY <1>b, <2>1, <2>2, <2>4, <3>1 DEF Acs!Typed
  <2>. QED
    BY <1>6, <2>3, <2>4 DEF Acs!Backoff, Acs!BackoffCanceled, Acs!call
<1>7. ASSUME NEW o \in Acs!Outcomes, Acs!Poll(o)  PROVE Acs!Typed' /\ Acs!CallInv'
  <2>1. acsPc = "polling" /\ acsPc' = "final" /\ acsLast' = o /\ UNCHANGED <<acsR, acsProc, acsN, posts, acsFaults, ops, opState>>
    BY <1>7 DEF Acs!Poll, Acs!acs
  <2>2. acsR.state = "submitted" /\ ops # {} /\ acsProc # "down"
    BY <1>0, <2>1 DEF Acs!Typed, Acs!CallInv
  <2>3. opState \in {"running", "succeeded", "failed"}
    BY <1>0, <2>2 DEF Acs!OperationInv
  <2>4. PICK a \in {"succeeded", "running", "temporary", "permanent"} :
          /\ acsUpd' = Acs!afterPoll(acsR, a)
          /\ a = "succeeded" => opState = "succeeded"
          /\ a = "permanent" => (o = "answered" /\ opState = "failed") \/ o \in Acs!EndsPoll
    <3>1. CASE Acs!Retryable(o)
      <4>1. acsUpd' = Acs!afterPoll(acsR, "temporary")
        BY <1>7, <3>1 DEF Acs!Poll, Acs!Retryable
      <4>. QED
        BY <4>1
    <3>2. CASE ~Acs!Retryable(o) /\ o = "answered" /\ opState # "failed"
      BY <1>7, <2>3, <3>2 DEF Acs!Poll
    <3>3. CASE ~Acs!Retryable(o) /\ ~(o = "answered" /\ opState # "failed")
      <4>1. acsUpd' = Acs!afterPoll(acsR, "permanent")
        BY <1>7, <3>3 DEF Acs!Poll
      <4>2. (o = "answered" /\ opState = "failed") \/ o \in Acs!EndsPoll
        BY <3>3, Zenon DEF Acs!Outcomes, Acs!Retryable, Acs!EndsPoll
      <4>. QED
        BY <4>1, <4>2
    <3>. QED
      BY <3>1, <3>2, <3>3
  <2>5. /\ acsUpd' \in Acs!Row /\ acsUpd'.attempt = acsR.attempt
        /\ acsUpd'.state = IF a = "succeeded" THEN "succeeded"
                        ELSE IF a = "permanent" THEN "dead-letter" ELSE "submitted"
    BY <1>b, <2>2, <2>4, AcsAfterPoll
  <2>6. a = "permanent" => (acsLast' = "answered" /\ opState' = "failed") \/ acsLast' \in Acs!EndsPoll
    BY <2>1, <2>4
  <2>. QED
    BY <1>b, <2>1, <2>2, <2>4, <2>5, <2>6 DEF Acs!Typed, Acs!CallInv, Acs!InCall
<1>8. CASE Acs!FinalizeRecord
  <2>1. acsR' = acsUpd /\ acsPc = "final" /\ acsPc' = "idle"
        /\ UNCHANGED <<acsProc, acsUpd, acsN, posts, acsFaults, ops>>
    BY <1>8 DEF Acs!FinalizeRecord, Acs!call, Acs!acs
  <2>2. acsUpd.state = "submitted" => ops # {}
    BY <1>0, <1>b, <2>1, AcsAfterSubmit DEF Acs!CallInv
  <2>. QED
    BY <1>b, <2>1, <2>2 DEF Acs!Typed, Acs!CallInv, Acs!InCall
<1>9. CASE Acs!Shutdown
  <2>1. UNCHANGED <<acsR, acsPc, acsN, acsUpd, posts, ops, opState, acsLast>> /\ acsFaults' = acsFaults + 1
        /\ acsProc' = "stopping" /\ acsProc = "running"
    BY <1>9 DEF Acs!Shutdown, Acs!Fault, Acs!acs
  <2>. QED
    BY <1>0, <1>b, <2>1 DEF Acs!Typed, Acs!CallInv
<1>10. CASE Acs!Exit
  <2>1. UNCHANGED <<acsR, acsPc, acsN, acsUpd, posts, ops, opState, acsLast, acsFaults>> /\ acsPc = "idle"
    BY <1>10 DEF Acs!Exit, Acs!acs, Acs!call
  <2>. QED
    BY <1>0, <1>b, <2>1 DEF Acs!Typed, Acs!CallInv
<1>11. CASE Acs!Crash
  <2>1. UNCHANGED <<acsR, acsN, acsUpd, posts, ops, opState, acsLast>> /\ acsFaults' = acsFaults + 1 /\ acsPc' = "idle"
    BY <1>11 DEF Acs!Crash, Acs!Fault, Acs!acs, Acs!call
  <2>. QED
    BY <1>0, <1>b, <2>1 DEF Acs!Typed, Acs!CallInv
<1>12. CASE Acs!Restart
  <2>1. UNCHANGED <<acsPc, acsN, acsUpd, posts, ops, opState, acsLast, acsFaults>> /\ acsPc = "idle"
        /\ acsProc' = "running"
    BY <1>0, <1>12 DEF Acs!Restart, Acs!acs, Acs!call, Acs!Typed
  <2>2. acsR' = acsR \/ (acsR' \in Acs!Row /\ acsR'.state = "queued")
    BY <1>b, <1>12, AcsMoves DEF Acs!Restart
  <2>. QED
    BY <1>0, <1>b, <2>1, <2>2 DEF Acs!Typed, Acs!CallInv
<1>. QED
  BY <1>1, <1>2, <1>3, <1>4, <1>5, <1>6, <1>7, <1>8, <1>9, <1>10, <1>11, <1>12
  DEF Acs!Next, Acs!vars, Acs!call, Acs!Idle, Acs!OperationEnds
\* Every POST is accounted for: in the call in progress, and when that ends by the attempt
\* it adds to the record, or by the fault that ended it.
LEMMA PostStep == Acs!IInv /\ [Acs!Next]_(Acs!vars) => Acs!PostInv'
<1>. SUFFICES ASSUME Acs!IInv, [Acs!Next]_(Acs!vars) PROVE Acs!PostInv'
  OBVIOUS
<1>0. Acs!Typed /\ Acs!CallInv /\ Acs!PostInv
  BY DEF Acs!IInv
<1>1. /\ RetryAttempts \in Nat \ {0} /\ acsR \in Acs!Row /\ acsR.attempt \in Nat
      /\ acsFaults \in Nat /\ posts \in Nat /\ acsN \in Nat \ {0}
      /\ acsPc \in {"posting", "backoff", "polling", "idle", "final"}
  BY <1>0, RetryAttemptsAssumption DEF Acs!Typed, Acs!Row, Acs!InCall
<1>2. Acs!Accounted \in Nat
  BY <1>1, Product DEF Acs!Accounted
<1>3. /\ acsR'.attempt = acsR.attempt /\ acsFaults' = acsFaults => Acs!Accounted' = Acs!Accounted
      /\ acsR'.attempt = acsR.attempt /\ acsFaults' = acsFaults + 1 => Acs!Accounted' = Acs!Accounted + RetryAttempts
      /\ acsR'.attempt = acsR.attempt + 1 /\ acsFaults' = acsFaults => Acs!Accounted' = Acs!Accounted + RetryAttempts
  <2>1. RetryAttempts * (acsR.attempt + acsFaults + 1) = Acs!Accounted + RetryAttempts
    BY <1>1, Product DEF Acs!Accounted
  <2>2. /\ acsR.attempt + (acsFaults + 1) = acsR.attempt + acsFaults + 1
        /\ (acsR.attempt + 1) + acsFaults = acsR.attempt + acsFaults + 1
    BY <1>1
  <2>. QED
    BY <2>1, <2>2, Zenon DEF Acs!Accounted
<1>4. CASE UNCHANGED <<acsR, acsPc, acsN, posts, acsFaults>>
  <2>1. Acs!Accounted' = Acs!Accounted
    BY <1>3, <1>4
  <2>. QED
    BY <1>0, <1>4, <2>1 DEF Acs!PostInv
<1>5. CASE Acs!BeginSubmit
  <2>1. acsR'.state = "working" /\ acsR'.attempt = acsR.attempt /\ acsR.state = "queued" /\ acsPc = "idle"
        /\ acsPc' = "posting" /\ acsN' = 1 /\ UNCHANGED <<posts, acsFaults>>
    BY <1>1, <1>5, AcsMoves DEF Acs!BeginSubmit, Acs!Call
  <2>2. Acs!Accounted' = Acs!Accounted
    BY <1>3, <2>1
  <2>. QED
    BY <1>0, <1>1, <1>2, <2>1, <2>2 DEF Acs!PostInv
<1>6. CASE Acs!BeginPoll \/ Acs!SubmittedTimeout
  <2>1. acsR.state = "submitted" /\ acsPc' \in {"polling", "final"} /\ UNCHANGED <<acsR, posts, acsFaults>>
    BY <1>6 DEF Acs!BeginPoll, Acs!SubmittedTimeout, Acs!Call
  <2>2. Acs!Accounted' = Acs!Accounted
    BY <1>3, <2>1
  <2>. QED
    BY <1>0, <1>1, <2>1, <2>2 DEF Acs!PostInv
<1>7. ASSUME NEW o \in Acs!Outcomes, Acs!SubmitOnce(o)  PROVE Acs!PostInv'
  <2>1. acsPc = "posting" /\ posts' \in {posts, posts + 1} /\ UNCHANGED <<acsR, acsN, acsFaults>>
    BY <1>7, Zenon DEF Acs!SubmitOnce
  <2>2. Acs!Accounted' = Acs!Accounted /\ acsR.state = "working"
    BY <1>0, <1>3, <2>1 DEF Acs!CallInv
  <2>3. (acsPc' = "backoff" /\ acsN < RetryAttempts) \/ acsPc' = "final"
    BY <1>7, Zenon DEF Acs!SubmitOnce, Acs!SubmitReturns
  <2>4. posts < Acs!Accounted + acsN /\ acsN <= RetryAttempts
    BY <1>0, <2>1 DEF Acs!PostInv
  <2>5. posts' <= Acs!Accounted' + acsN' /\ posts' <= Acs!Accounted' + RetryAttempts
    BY <1>1, <1>2, <2>1, <2>2, <2>4
  <2>. QED
    BY <1>0, <2>1, <2>2, <2>3, <2>4, <2>5 DEF Acs!PostInv
<1>8. CASE Acs!Backoff \/ Acs!BackoffCanceled
  <2>1. acsPc = "backoff" /\ UNCHANGED <<acsR, posts, acsFaults>>
    BY <1>8 DEF Acs!Backoff, Acs!BackoffCanceled
  <2>2. Acs!Accounted' = Acs!Accounted /\ acsR.state = "working"
    BY <1>0, <1>3, <2>1 DEF Acs!CallInv
  <2>3. acsN < RetryAttempts /\ posts <= Acs!Accounted + acsN
    BY <1>0, <2>1 DEF Acs!PostInv
  <2>4. (acsPc' = "posting" /\ acsN' = acsN + 1) \/ acsPc' = "final"
    BY <1>8, Zenon DEF Acs!Backoff, Acs!BackoffCanceled, Acs!SubmitReturns
  <2>5. /\ acsN' = acsN + 1 => acsN' <= RetryAttempts /\ posts' < Acs!Accounted' + acsN'
        /\ posts' <= Acs!Accounted' + RetryAttempts
    BY <1>1, <1>2, <2>1, <2>2, <2>3
  <2>. QED
    BY <1>0, <2>1, <2>2, <2>4, <2>5 DEF Acs!PostInv
<1>9. ASSUME NEW o \in Acs!Outcomes, Acs!Poll(o)  PROVE Acs!PostInv'
  <2>1. acsPc = "polling" /\ acsPc' = "final" /\ UNCHANGED <<acsR, posts, acsFaults>>
    BY <1>9 DEF Acs!Poll
  <2>2. Acs!Accounted' = Acs!Accounted /\ acsR.state = "submitted"
    BY <1>0, <1>3, <2>1 DEF Acs!CallInv
  <2>. QED
    BY <1>0, <2>1, <2>2 DEF Acs!PostInv
<1>10. CASE Acs!FinalizeRecord
  <2>1. acsR' = acsUpd /\ acsPc = "final" /\ acsPc' = "idle" /\ UNCHANGED <<posts, acsFaults>>
    BY <1>10 DEF Acs!FinalizeRecord
  <2>2. CASE acsR.state = "submitted"
    <3>1. acsR'.attempt = acsR.attempt /\ acsR'.state \notin {"queued", "working"}
      BY <1>0, <2>1, <2>2 DEF Acs!CallInv
    <3>2. Acs!Accounted' = Acs!Accounted
      BY <1>3, <2>1, <3>1
    <3>. QED
      BY <1>0, <2>1, <2>2, <3>1, <3>2 DEF Acs!PostInv
  <2>3. CASE acsR.state # "submitted"
    <3>1. acsR.state = "working" /\ acsR'.attempt = acsR.attempt + 1
          /\ acsR'.state # "working" /\ (acsR'.state = "queued" => acsR.attempt < RetryAttempts)
      BY <1>0, <1>1, <2>1, <2>3, AcsAfterSubmit DEF Acs!CallInv
    <3>2. Acs!Accounted' = Acs!Accounted + RetryAttempts
      BY <1>3, <2>1, <3>1
    <3>3. acsR.attempt <= RetryAttempts /\ posts <= Acs!Accounted + RetryAttempts
      BY <1>0, <2>1, <3>1 DEF Acs!PostInv
    <3>4. acsR'.attempt <= RetryAttempts + 1 /\ (acsR'.state = "queued" => acsR'.attempt <= RetryAttempts)
      BY <1>1, <3>1, <3>3
    <3>. QED
      BY <2>1, <3>1, <3>2, <3>3, <3>4 DEF Acs!PostInv
  <2>. QED
    BY <2>2, <2>3
<1>11. CASE Acs!Shutdown
  <2>1. UNCHANGED <<acsR, acsPc, acsN, posts>> /\ acsFaults' = acsFaults + 1
    BY <1>11 DEF Acs!Shutdown, Acs!Fault
  <2>2. Acs!Accounted' = Acs!Accounted + RetryAttempts
    BY <1>3, <2>1
  <2>. QED
    BY <1>0, <1>1, <1>2, <2>1, <2>2 DEF Acs!PostInv
<1>12. CASE Acs!Crash
  <2>1. UNCHANGED <<acsR, acsN, posts>> /\ acsFaults' = acsFaults + 1 /\ acsPc' = "idle"
    BY <1>12 DEF Acs!Crash, Acs!Fault, Acs!call
  <2>2. Acs!Accounted' = Acs!Accounted + RetryAttempts
    BY <1>3, <2>1
  <2>3. posts <= Acs!Accounted + RetryAttempts
    <3>1. CASE acsPc = "posting"
      BY <1>0, <1>1, <1>2, <3>1 DEF Acs!PostInv
    <3>2. CASE acsPc = "backoff"
      BY <1>0, <1>1, <1>2, <3>2 DEF Acs!PostInv
    <3>3. CASE acsPc \notin {"posting", "backoff"}
      BY <1>0, <1>1, <1>2, <3>3 DEF Acs!PostInv, Acs!CallInv
    <3>. QED
      BY <3>1, <3>2, <3>3
  <2>. QED
    BY <1>0, <1>1, <1>2, <2>1, <2>2, <2>3 DEF Acs!PostInv
<1>13. CASE Acs!Restart
  <2>1. UNCHANGED <<acsPc, acsN, posts, acsFaults>> /\ acsPc = "idle"
    BY <1>0, <1>13 DEF Acs!Restart, Acs!call, Acs!Typed
  <2>2. /\ acsR'.attempt = acsR.attempt
        /\ acsR' = acsR \/ (acsR.state = "working" /\ acsR'.state = "queued")
    BY <1>1, <1>13, AcsMoves DEF Acs!Restart
  <2>3. Acs!Accounted' = Acs!Accounted
    BY <1>3, <2>1, <2>2
  <2>. QED
    BY <1>0, <2>1, <2>2, <2>3 DEF Acs!PostInv
<1>. QED
  BY <1>4, <1>5, <1>6, <1>7, <1>8, <1>9, <1>10, <1>11, <1>12, <1>13
  DEF Acs!Next, Acs!vars, Acs!call, Acs!Idle, Acs!OperationEnds, Acs!Exit

\* A queued mail that ACS has not heard of.
LEMMA AcsInitIInv == Acs!Init => Acs!IInv
<1>. SUFFICES ASSUME Acs!Init PROVE Acs!IInv
  OBVIOUS
<1>1. acsR \in Acs!Row /\ acsUpd \in Acs!Row /\ acsR.state = "queued" /\ acsR.attempt = 0
  BY
    DEF Acs!Init, Acs!Queued0, Acs!Absent, Acs!row, Acs!Row, Acs!Live, Acs!Terminal, Acs!ErrKind
<1>2. Acs!Typed /\ Acs!OperationInv /\ Acs!CallInv
  BY <1>1 DEF Acs!Init, Acs!Typed, Acs!OperationInv, Acs!CallInv
<1>3. Acs!PostInv
  <2>1. Acs!Accounted = 0
    BY <1>1, RetryAttemptsAssumption DEF Acs!Init, Acs!Accounted
  <2>. QED
    BY <1>1, <2>1, RetryAttemptsAssumption DEF Acs!Init, Acs!PostInv
<1>. QED
  BY <1>2, <1>3 DEF Acs!IInv

\* IInv is an invariant of a delivery through ACS: Submit with its loop, Poll, shutdowns,
\* crashes and restarts.
THEOREM AcsInvariance == Acs!Spec => []Acs!IInv
<1>1. Acs!IInv /\ [Acs!Next]_(Acs!vars) => Acs!IInv'
  BY OperationStep, AcsCallStep, PostStep DEF Acs!IInv
<1>. QED
  BY <1>1, AcsInitIInv, PTL DEF Acs!Spec

\* The loop in Submit and the worker's retries multiply, and each fault costs one call:
\* the POSTs stay within this, whatever the number of retries.
THEOREM AcsPosts == Acs!Spec => []Acs!PostBudget
<1>1. Acs!IInv => Acs!PostBudget
  <2>. SUFFICES ASSUME Acs!IInv PROVE Acs!PostBudget
    OBVIOUS
  <2>0. Acs!Typed /\ Acs!CallInv /\ Acs!PostInv
    BY DEF Acs!IInv
  <2>1. /\ RetryAttempts \in Nat \ {0} /\ acsR.attempt \in Nat /\ acsFaults \in Nat
        /\ posts \in Nat /\ acsN \in Nat
        /\ acsPc \in {"posting", "backoff", "polling", "idle", "final"}
    BY <2>0, RetryAttemptsAssumption DEF Acs!Typed, Acs!Row, Acs!InCall
  <2>2. PICK k \in Nat : posts <= RetryAttempts * k /\ k <= RetryAttempts + 1 + acsFaults
    <3>1. CASE acsR.state = "working" /\ acsPc \in {"posting", "backoff", "final"}
      <4>1. posts <= Acs!Accounted + RetryAttempts /\ acsR.attempt <= RetryAttempts
        <5>1. Acs!Accounted \in Nat
          BY <2>1, Product DEF Acs!Accounted
        <5>2. acsR.attempt <= RetryAttempts
          BY <2>0, <3>1 DEF Acs!PostInv
        <5>3. CASE acsPc = "final"
          BY <2>0, <3>1, <5>2, <5>3 DEF Acs!PostInv
        <5>4. CASE acsPc \in {"posting", "backoff"}
          <6>1. acsN <= RetryAttempts /\ posts <= Acs!Accounted + acsN
            BY <2>0, <2>1, <5>1, <5>4 DEF Acs!PostInv
          <6>. QED
            BY <2>1, <5>1, <5>2, <6>1
        <5>. QED
          BY <3>1, <5>3, <5>4
      <4>2. RetryAttempts * (acsR.attempt + acsFaults + 1) = Acs!Accounted + RetryAttempts
        BY <2>1, Product DEF Acs!Accounted
      <4>3. acsR.attempt + acsFaults + 1 \in Nat /\ acsR.attempt + acsFaults + 1 <= RetryAttempts + 1 + acsFaults
        BY <2>1, <4>1
      <4>. QED
        BY <4>1, <4>2, <4>3, Zenon
    <3>2. CASE ~(acsR.state = "working" /\ acsPc \in {"posting", "backoff", "final"})
      <4>1. posts <= RetryAttempts * (acsR.attempt + acsFaults) /\ acsR.attempt <= RetryAttempts + 1
        BY <2>0, <2>1, <3>2 DEF Acs!PostInv, Acs!CallInv, Acs!Accounted
      <4>2. acsR.attempt + acsFaults \in Nat /\ acsR.attempt + acsFaults <= RetryAttempts + 1 + acsFaults
        BY <2>1, <4>1
      <4>. QED
        BY <4>1, <4>2, Zenon
    <3>. QED
      BY <3>1, <3>2
  <2>3. RetryAttempts * k <= RetryAttempts * (RetryAttempts + 1 + acsFaults)
    BY <2>1, <2>2, ProductGrows
  <2>4. RetryAttempts * k \in Nat /\ RetryAttempts * (RetryAttempts + 1 + acsFaults) \in Nat
    BY <2>1, <2>2, Product
  <2>. QED
    BY <2>1, <2>2, <2>3, <2>4 DEF Acs!PostBudget
<1>. QED
  BY <1>1, AcsInvariance, PTL

\* A submitted mail is not posted again, and ends as CallInv says of the row about to be
\* written.
THEOREM AcsSubmitted == Acs!Spec => Acs!SubmittedIsKept
<1>. DEFINE Kept == /\ posts' = posts /\ acsR'.state \in {"submitted"} \cup Acs!Terminal
                    /\ acsR'.state = "succeeded" => opState = "succeeded"
                    /\ acsR'.state = "dead-letter" =>
                         (acsLast = "answered" /\ opState = "failed") \/ acsLast \in Acs!EndsPoll
<1>1. Acs!IInv /\ [Acs!Next]_(Acs!vars) => [acsR.state = "submitted" => Kept]_(Acs!vars)
  <2>. SUFFICES ASSUME Acs!IInv, Acs!Next, acsR.state = "submitted"  PROVE Kept
    OBVIOUS
  <2>1. CASE Acs!FinalizeRecord
    <3>1. acsR' = acsUpd /\ acsPc = "final" /\ posts' = posts
      BY <2>1, Zenon DEF Acs!FinalizeRecord
    <3>2. \/ acsUpd.state = "submitted"
          \/ acsUpd.state = "succeeded" /\ opState = "succeeded"
          \/ /\ acsUpd.state = "dead-letter"
             /\ (acsLast = "answered" /\ opState = "failed") \/ acsLast \in Acs!EndsPoll
      BY <3>1, Zenon DEF Acs!IInv, Acs!CallInv
    <3>. QED
      BY <3>1, <3>2 DEF Acs!Terminal
  <2>2. CASE acsR' = acsR /\ posts' = posts
    BY <2>2
  <2>3. acsPc # "posting"
    BY DEF Acs!IInv, Acs!CallInv
  <2>4. (acsR' = acsR /\ posts' = posts) \/ Acs!FinalizeRecord
    BY <2>3
      DEF Acs!Next, Acs!vars, Acs!BeginSubmit, Acs!BeginPoll, Acs!SubmittedTimeout,
          Acs!SubmitOnce, Acs!Backoff, Acs!Idle,
           Acs!BackoffCanceled, Acs!Poll, Acs!OperationEnds, Acs!Shutdown, Acs!Exit, Acs!Crash, Acs!Restart
  <2>. QED
    BY <2>1, <2>2, <2>4
<1>. QED
  BY <1>1, AcsInvariance, PTL DEF Acs!Spec, Acs!SubmittedIsKept

\* The ACS path implements the contract: every POST, backoff, poll, shutdown, crash and
\* restart is a step of DeliveryContract or changes nothing in it.
THEOREM AcsImplements == Acs!Spec => Acs!ImplementsContract
<1>1. Acs!Init => Acs!Contract!Init
  BY DEF Acs!Init, Acs!Contract!Init, Acs!Queued0, Acs!row
<1>2. Acs!IInv /\ [Acs!Next]_(Acs!vars) => [Acs!Contract!Next]_(Acs!Contract!vars)
  <2>. SUFFICES ASSUME Acs!IInv, [Acs!Next]_(Acs!vars) PROVE [Acs!Contract!Next]_(Acs!Contract!vars)
    OBVIOUS
  <2>0. acsR \in Acs!Row /\ Acs!CallInv
    BY DEF Acs!IInv, Acs!Typed
  <2>1. CASE Acs!BeginSubmit
    <3>1. acsR.state = "queued" /\ acsR'.state = "working" /\ acsR'.attempt = acsR.attempt /\ ops' = ops
      BY <2>0, <2>1, AcsMoves DEF Acs!BeginSubmit, Acs!acs
    <3>. QED
      BY <3>1 DEF Acs!Contract!Next, Acs!Contract!Claim
  <2>2. ASSUME NEW o \in Acs!Outcomes, Acs!SubmitOnce(o)  PROVE [Acs!Contract!Next]_(Acs!Contract!vars)
    <3>1. acsPc = "posting" /\ acsR' = acsR /\ Acs!Start(o)
      BY <2>2 DEF Acs!SubmitOnce
    <3>2. acsR.state = "working"
      BY <2>0, <3>1 DEF Acs!CallInv
    <3>3. ops' = ops \/ (ops' # {}) = TRUE
      BY <3>1 DEF Acs!Start, Acs!acs
    <3>. QED
      BY <3>1, <3>2, <3>3 DEF Acs!Contract!Next, Acs!Contract!Accept, Acs!Contract!vars
  <2>3. CASE Acs!FinalizeRecord
    <3>1. acsR' = acsUpd /\ acsPc = "final" /\ ops' = ops
      BY <2>3 DEF Acs!FinalizeRecord, Acs!acs
    <3>2. CASE acsR.state = "submitted"
      <4>1. acsR'.attempt = acsR.attempt /\ acsR'.state \in {"submitted", "succeeded", "dead-letter"}
            /\ ops # {}
        BY <2>0, <3>1, <3>2 DEF Acs!CallInv
      <4>. QED
        BY <3>1, <3>2, <4>1 DEF Acs!Contract!Next, Acs!Contract!Settle, Acs!Contract!vars
    <3>3. CASE acsR.state # "submitted"
      <4>1. /\ acsR.state = "working" /\ acsR'.attempt = acsR.attempt + 1
            /\ \/ acsR'.state = "submitted" /\ ops # {}
               \/ acsR'.state = "queued" /\ acsR.attempt < RetryAttempts
               \/ acsR'.state = "dead-letter"
        BY <2>0, <3>1, <3>3, AcsAfterSubmit DEF Acs!CallInv
      <4>. QED
        BY <3>1, <4>1
        DEF Acs!Contract!Next, Acs!Contract!Settle, Acs!Contract!Retry, Acs!Contract!Submitted
    <3>. QED
      BY <3>2, <3>3
  <2>4. CASE Acs!Restart
    <3>1. ops' = ops
          /\ (acsR' = acsR \/ (acsR.state = "working" /\ acsR'.state = "queued" /\ acsR'.attempt = acsR.attempt))
      BY <2>0, <2>4, AcsMoves DEF Acs!Restart, Acs!acs
    <3>. QED
      BY <3>1 DEF Acs!Contract!Next, Acs!Contract!Recover, Acs!Contract!vars
  <2>5. CASE UNCHANGED <<acsR, ops>>
    BY <2>5 DEF Acs!Contract!vars
  <2>. QED
    BY <2>1, <2>2, <2>3, <2>4, <2>5
    DEF Acs!Next, Acs!vars, Acs!acs, Acs!BeginPoll, Acs!SubmittedTimeout, Acs!Backoff, Acs!BackoffCanceled, Acs!Poll, Acs!Idle,
        Acs!OperationEnds, Acs!Shutdown, Acs!Exit, Acs!Crash
<1>. QED
  BY <1>1, <1>2, AcsInvariance, PTL DEF Acs!Spec, Acs!ImplementsContract, Acs!Contract!Spec
-----------------------------------------------------------------------------
(* The provider that DELIVERY_MODE selects. *)

\* The provider that was built takes its steps, the other one does nothing: a behaviour
\* of the relay is one of each provider (providers.Build).
LEMMA EachProvider == MCSpec => Spec /\ Acs!Spec
<1>1. MCInit => Init /\ Acs!Init
  BY Zenon DEF MCInit
<1>2. [MCNext]_<<mode, vars, acsVars>> => [Next]_vars
  BY Zenon DEF MCNext
<1>3. [MCNext]_<<mode, vars, acsVars>> => [Acs!Next]_(Acs!vars)
  <2>1. UNCHANGED acsVars => UNCHANGED (Acs!vars)
    BY Zenon DEF acsVars, Acs!vars, Acs!call, Acs!acs
  <2>. QED
    BY <2>1, Zenon DEF MCNext
<1>. QED
  BY <1>1, <1>2, <1>3, PTL DEF MCSpec, Spec, Acs!Spec

\* Whatever provider is built, the requests for a mail stay within the product of its
\* own tries and the worker's, plus those a crash or shutdown repeats.
THEOREM RequestsBounded == MCSpec => []RequestBudget
<1>1. SendBudget /\ Acs!PostBudget => RequestBudget
  BY Zenon DEF RequestBudget
<1>. QED
  BY <1>1, EachProvider, SendsBounded, AcsPosts, PTL

\* A mail that ACS has accepted is not posted again, and ends only as ACS says, by an answer
\* to a poll that cannot be used (its body may have been cut off by a shutdown) or by
\* SubmittedTimeout: a poll without a response, a 429 or 5xx, and one that dies with the
\* process leave it submitted.
THEOREM SubmittedKept == MCSpec => SubmittedIsKept
BY EachProvider, AcsSubmitted, PTL DEF SubmittedIsKept

\* Both providers keep the contract of an email.Provider (DeliveryContract), with their
\* lost answers, retries, polls, shutdowns and crashes.
THEOREM ContractKept == MCSpec => ProvidersKeepContract
BY EachProvider, SesImplements, AcsImplements, PTL DEF ProvidersKeepContract
-----------------------------------------------------------------------------
(* The loops of retryBackoff and retryBackoffTotal, which are recursive functions: that
   they have a value at all, and which. *)

\* Where the order of the naturals is well-founded.
F == INSTANCE WellFoundedInduction

\* Every non-empty set of naturals has a least element.
LEMMA LeastNat ==
  ASSUME NEW S, S \subseteq Nat, S # {}
  PROVE  \E x \in S : \A y \in S : x <= y
<1>. DEFINE R == {ss \in Nat \X Nat : ss[1] < ss[2]}
<1>1. F!IsWellFoundedOn(R, Nat)
  BY F!NatLessThanWellFounded, Zenon DEF F!OpToRel
<1>2. PICK x \in S : \A y \in S : ~ (<<y, x>> \in R)
  <2>. HIDE DEF R
  <2>. QED
    BY <1>1, F!WFMin, Zenon
<1>3. ASSUME NEW y \in S PROVE x <= y
  <2>1. <<y, x>> \in Nat \X Nat /\ <<y, x>> \notin R
    BY <1>2, Zenon
  <2>. QED
    BY <2>1
<1>. QED
  BY <1>3, Zenon

\* Induction over the naturals, for a set.
LEMMA SetInduction ==
  ASSUME NEW S, 0 \in S, \A k \in Nat : k \in S => k + 1 \in S
  PROVE  Nat \subseteq S
<1>. SUFFICES ASSUME Nat \ S # {} PROVE FALSE
  BY Zenon
<1>1. PICK x \in Nat \ S : \A y \in Nat \ S : x <= y
  BY LeastNat, Zenon
<1>2. x - 1 \in Nat /\ x - 1 \notin Nat \ S
  BY <1>1
<1>. QED
  BY <1>1, <1>2

\* What a loop may do in its i-th step to the value so far.
Steps == [Nat -> [Nat -> Nat]]

\* f is what a loop over 1..k computes.
Loops(f, v0, step, k) == f[0] = v0 /\ \A i \in 1..k : f[i] = step[i][f[i - 1]]

\* Every loop computes something.
LEMMA Recursion ==
  ASSUME NEW v0 \in Nat, NEW step \in Steps, NEW k \in Nat
  PROVE  \E f \in [0..k -> Nat] : Loops(f, v0, step, k)
<1>. DEFINE Good(f, j) == f \in [0..j -> Nat] /\ Loops(f, v0, step, j)
            E == {j \in Nat : \E f : Good(f, j)}
<1>1. 0 \in E
  <2>1. Good([i \in 0..0 |-> v0], 0)
    BY DEF Loops
  <2>. QED
    BY <2>1, Zenon
<1>2. ASSUME NEW j \in Nat, j \in E PROVE j + 1 \in E
  <2>1. PICK f : Good(f, j)
    BY <1>2, Zenon
  <2>. DEFINE h == [i \in 0..(j + 1) |-> IF i = j + 1 THEN step[j + 1][f[j]] ELSE f[i]]
  <2>2. step[j + 1][f[j]] \in Nat
    <3>1. j \in 0..j /\ j + 1 \in Nat
      OBVIOUS
    <3>2. f[j] \in Nat
      BY <2>1, <3>1, Zenon
    <3>. QED
      BY <3>1, <3>2, Zenon DEF Steps
  <2>3. h \in [0..(j + 1) -> Nat] /\ h[0] = v0
    <3>1. \A i \in 0..(j + 1) : i # j + 1 => i \in 0..j
      OBVIOUS
    <3>2. 0 \in 0..(j + 1) /\ 0 # j + 1
      OBVIOUS
    <3>. QED
      BY <2>1, <2>2, <3>1, <3>2, Zenon DEF Loops
  <2>4. ASSUME NEW i \in 1..(j + 1) PROVE h[i] = step[i][h[i - 1]]
    <3>1. h[i - 1] = f[i - 1]
      OBVIOUS
    <3>2. CASE i = j + 1
      BY <3>1, <3>2
    <3>3. CASE i # j + 1
      <4>1. i \in 1..j /\ h[i] = f[i]
        BY <3>3
      <4>. QED
        BY <2>1, <3>1, <4>1, Zenon DEF Loops
    <3>. QED
      BY <3>2, <3>3, Zenon
  <2>5. Good(h, j + 1)
    <3>. HIDE DEF h
    <3>. QED
      BY <2>3, <2>4, Zenon DEF Loops
  <2>. QED
    BY <2>5, j + 1 \in Nat, Zenon
<1>3. Nat \subseteq E
  <2>. HIDE DEF E
  <2>. QED
    BY <1>1, <1>2, SetInduction, Zenon
<1>. QED
  BY <1>3, Zenon

\* A loop that is run up to m has been run up to m - 1.
LEMMA Shorter ==
  ASSUME NEW v0, NEW step, NEW f, NEW m \in Nat \ {0}, Loops(f, v0, step, m)
  PROVE  Loops(f, v0, step, m - 1) /\ f[m] = step[m][f[m - 1]]
<1>1. \A i \in 1..(m - 1) : i \in 1..m
  OBVIOUS
<1>2. m \in 1..m
  OBVIOUS
<1>. QED
  BY <1>1, <1>2, Zenon DEF Loops

\* Two runs of a loop agree.
LEMMA Unique ==
  ASSUME NEW v0 \in Nat, NEW step \in Steps, NEW k \in Nat,
         NEW f, NEW g, Loops(f, v0, step, k), Loops(g, v0, step, k)
  PROVE  f[k] = g[k] /\ f[k] \in Nat
<1>. DEFINE E == {i \in Nat : i <= k => f[i] = g[i] /\ f[i] \in Nat}
<1>1. 0 \in E
  BY Zenon DEF Loops
<1>2. ASSUME NEW i \in Nat, i \in E PROVE i + 1 \in E
  <2>1. CASE i + 1 <= k
    <3>1. i <= k /\ i + 1 \in 1..k /\ (i + 1) - 1 = i /\ i + 1 \in Nat
      BY <2>1
    <3>2. f[i] = g[i] /\ f[i] \in Nat
      BY <1>2, <3>1, Zenon
    <3>3. f[i + 1] = step[i + 1][f[i]] /\ g[i + 1] = step[i + 1][g[i]]
      BY <3>1, Zenon DEF Loops
    <3>4. step[i + 1][f[i]] \in Nat
      BY <3>1, <3>2, Zenon DEF Steps
    <3>. QED
      BY <3>1, <3>2, <3>3, <3>4, Zenon
  <2>2. i + 1 \in Nat
    OBVIOUS
  <2>. QED
    BY <2>1, <2>2, Zenon
<1>3. Nat \subseteq E
  <2>. HIDE DEF E
  <2>. QED
    BY <1>1, <1>2, SetInduction, Zenon
<1>4. k <= k
  OBVIOUS
<1>. QED
  BY <1>3, <1>4, Zenon

\* Saturating arithmetic stays within the naturals, and up to the largest duration.
LEMMA Saturating ==
  ASSUME NEW a \in Nat, NEW b \in Nat
  PROVE  /\ saturatingAdd(a, b) \in Nat /\ doubled(a) \in Nat
         /\ saturatingAdd(a, b) <= MaxDuration
         /\ saturatingAdd(a, b) < MaxDuration => saturatingAdd(a, b) = a + b
         /\ a <= MaxDuration => a <= saturatingAdd(a, b)
BY DurationAssumption DEF saturatingAdd, doubled

\* A loop that does not end computes something, too.
LEMMA RecursionNat ==
  ASSUME NEW v0 \in Nat, NEW step \in Steps
  PROVE  \E f \in [Nat -> Nat] : f[0] = v0 /\ \A i \in Nat \ {0} : f[i] = step[i][f[i - 1]]
<1>. DEFINE Good(g, k) == g \in [0..k -> Nat] /\ Loops(g, v0, step, k)
            G(k) == CHOOSE g : Good(g, k)
            f == [k \in Nat |-> G(k)[k]]
<1>1. ASSUME NEW k \in Nat PROVE Good(G(k), k)
  <2>1. \E g : Good(g, k)
    BY Recursion, Zenon
  <2>. HIDE DEF Good
  <2>. QED
    BY <2>1, Zenon
<1>. HIDE DEF G
<1>2. ASSUME NEW k \in Nat PROVE f[k] = G(k)[k] /\ f[k] \in Nat
  <2>1. k \in 0..k
    OBVIOUS
  <2>. QED
    BY <1>1, <2>1, Zenon
<1>3. f \in [Nat -> Nat]
  BY <1>2, Zenon
<1>4. f[0] = v0
  <2>1. 0 \in Nat
    OBVIOUS
  <2>. QED
    BY <1>1, <1>2, <2>1, Zenon DEF Loops
<1>5. ASSUME NEW i \in Nat \ {0} PROVE f[i] = step[i][f[i - 1]]
  <2>1. i - 1 \in Nat
    OBVIOUS
  <2>2. Loops(G(i - 1), v0, step, i - 1) /\ Loops(G(i), v0, step, i)
    BY <1>1, <2>1, Zenon
  <2>3. Loops(G(i), v0, step, i - 1) /\ G(i)[i] = step[i][G(i)[i - 1]]
    BY <2>2, Shorter, SMT
  <2>4. G(i - 1)[i - 1] = G(i)[i - 1]
    BY <2>1, <2>2, <2>3, Unique, SMT
  <2>. QED
    BY <1>2, <2>1, <2>3, <2>4, Zenon
<1>. QED
  BY <1>3, <1>4, <1>5, Zenon

\* PowerOfTwo doubles.
LEMMA Powers ==
  ASSUME NEW k \in Nat
  PROVE  /\ PowerOfTwo[0] = 1 /\ PowerOfTwo[k] \in Nat \ {0}
         /\ PowerOfTwo[k + 1] = 2 * PowerOfTwo[k]
<1>. DEFINE step == [i \in Nat |-> [v \in Nat |-> 2 * v]]
<1>1. step \in Steps /\ 1 \in Nat
  BY DEF Steps
<1>2. PICK f \in [Nat -> Nat] : f[0] = 1 /\ \A i \in Nat \ {0} : f[i] = step[i][f[i - 1]]
  <2>. HIDE DEF step
  <2>. QED
    BY <1>1, RecursionNat, Zenon
<1>3. ASSUME NEW i \in Nat PROVE f[i] = IF i = 0 THEN 1 ELSE 2 * f[i - 1]
  <2>1. CASE i # 0
    <3>1. i - 1 \in Nat /\ i \in Nat \ {0}
      BY <2>1
    <3>2. f[i] = step[i][f[i - 1]] /\ f[i - 1] \in Nat
      BY <1>2, <3>1, Zenon
    <3>. QED
      BY <2>1, <3>2, Zenon
  <2>. QED
    BY <1>2, <2>1, Zenon
<1>4. f = [i \in Nat |-> IF i = 0 THEN 1 ELSE 2 * f[i - 1]]
  BY <1>3, Zenon
<1>5. PowerOfTwo = [i \in Nat |-> IF i = 0 THEN 1 ELSE 2 * PowerOfTwo[i - 1]]
  BY <1>4, Zenon DEF PowerOfTwo
<1>6. PowerOfTwo[0] = 1
  BY <1>5, 0 \in Nat, Zenon
<1>7. ASSUME NEW i \in Nat PROVE PowerOfTwo[i + 1] = 2 * PowerOfTwo[i]
  <2>1. i + 1 \in Nat /\ i + 1 # 0 /\ (i + 1) - 1 = i
    OBVIOUS
  <2>. QED
    BY <1>5, <2>1, Zenon
<1>. DEFINE E == {i \in Nat : PowerOfTwo[i] \in Nat \ {0}}
<1>8. 0 \in E
  BY <1>6
<1>9. ASSUME NEW i \in Nat, i \in E PROVE i + 1 \in E
  BY <1>7, <1>9
<1>10. Nat \subseteq E
  <2>. HIDE DEF E
  <2>. QED
    BY <1>8, <1>9, SetInduction, Zenon
<1>. QED
  BY <1>6, <1>7, <1>10, Zenon

\* Capping at the largest duration early or late makes no difference.
LEMMA Capped ==
  ASSUME NEW a \in Nat
  PROVE  atMost(a) \in Nat /\ atMost(atMost(a)) = atMost(a)
BY DurationAssumption DEF atMost

\* saturatingAdd and the doubling of the loops cap the exact result.
LEMMA CappedSteps ==
  ASSUME NEW a \in Nat, NEW b \in Nat
  PROVE  saturatingAdd(a, b) = atMost(a + b) /\ doubled(a) = atMost(2 * a)
<1>1. saturatingAdd(a, b) = atMost(a + b)
  BY DurationAssumption DEF saturatingAdd, atMost
<1>2. doubled(a) = atMost(2 * a)
  BY DurationAssumption DEF doubled, atMost
<1>. QED
  BY <1>1, <1>2, Zenon

\* The delay after a POST is a number, base * 2^(m - 1) capped at the largest duration: the
\* loop of retryBackoff doubles it.
LEMMA BackoffNat ==
  ASSUME NEW base \in Nat, NEW m \in Nat \ {0}
  PROVE  /\ retryBackoff(base, m) \in Nat
         /\ atMost(retryBackoff(base, m)) = atMost(base * PowerOfTwo[m - 1])
<1>. DEFINE step == [i \in Nat |-> [v \in Nat |-> doubled(v)]]
            B == CHOOSE b : b = [i \in 1..m |-> IF i = 1 THEN base ELSE doubled(b[i - 1])]
<1>1. m - 1 \in Nat
  OBVIOUS
<1>2. step \in Steps
  BY Saturating, 0 \in Nat, Zenon DEF Steps
<1>3. PICK f \in [0..(m - 1) -> Nat] : Loops(f, base, step, m - 1)
  <2>. HIDE DEF step
  <2>. QED
    BY <1>1, <1>2, Recursion, Zenon
<1>. DEFINE g == [i \in 1..m |-> f[i - 1]]
<1>4. ASSUME NEW i \in 1..m PROVE g[i] = IF i = 1 THEN base ELSE doubled(g[i - 1])
  <2>1. CASE i = 1
    BY <1>3, <2>1, 1 - 1 = 0, Zenon DEF Loops
  <2>2. CASE i # 1
    <3>1. i - 1 \in 1..(m - 1) /\ i - 1 \in 1..m /\ i - 1 \in Nat /\ (i - 1) - 1 \in 0..(m - 1)
      BY <2>2
    <3>2. f[(i - 1) - 1] \in Nat /\ f[i - 1] = step[i - 1][f[(i - 1) - 1]]
      BY <1>3, <3>1, Zenon DEF Loops
    <3>. QED
      BY <2>2, <3>1, <3>2, Zenon
  <2>. QED
    BY <2>1, <2>2, Zenon
<1>5. g = [i \in 1..m |-> IF i = 1 THEN base ELSE doubled(g[i - 1])]
  BY <1>4, Zenon
<1>6. B = [i \in 1..m |-> IF i = 1 THEN base ELSE doubled(B[i - 1])]
  <2>. HIDE DEF g
  <2>. QED
    BY <1>5, Zenon
<1>7. retryBackoff(base, m) = B[m]
  BY Zenon DEF retryBackoff
<1>. HIDE DEF B
<1>. DEFINE E == {i \in Nat : i + 1 <= m =>
                     B[i + 1] \in Nat /\ atMost(B[i + 1]) = atMost(base * PowerOfTwo[i])}
<1>8. 0 \in E
  <2>1. 1 \in 1..m /\ 0 + 1 = 1 /\ 0 \in Nat
    OBVIOUS
  <2>2. B[1] = base
    BY <1>6, <2>1, Zenon
  <2>3. base * PowerOfTwo[0] = base
    <3>1. PowerOfTwo[0] = 1 /\ base * 1 = base
      BY <2>1, Powers
    <3>. QED
      BY <3>1, Zenon
  <2>. QED
    BY <2>1, <2>2, <2>3, Zenon
<1>9. ASSUME NEW i \in Nat, i \in E PROVE i + 1 \in E
  <2>1. CASE (i + 1) + 1 <= m
    <3>1. i + 1 <= m /\ (i + 1) + 1 \in 1..m /\ (i + 1) + 1 # 1 /\ ((i + 1) + 1) - 1 = i + 1
      BY <2>1
    <3>2. /\ B[(i + 1) + 1] = doubled(B[i + 1])
          /\ B[i + 1] \in Nat /\ atMost(B[i + 1]) = atMost(base * PowerOfTwo[i])
      BY <1>6, <1>9, <3>1, Zenon
    <3>. DEFINE x == base * PowerOfTwo[i]
    <3>3. x \in Nat /\ 2 * x = base * PowerOfTwo[i + 1]
      <4>. DEFINE p == PowerOfTwo[i]
      <4>1. p \in Nat /\ PowerOfTwo[i + 1] = 2 * p
        BY Powers, Zenon
      <4>. HIDE DEF p
      <4>2. base * p \in Nat /\ 2 * (base * p) = base * (2 * p)
        BY <4>1
      <4>. QED
        BY <4>1, <4>2, Zenon DEF p
    <3>. HIDE DEF x
    <3>. DEFINE v == B[i + 1]
    <3>4. v \in Nat /\ doubled(v) = atMost(2 * v) /\ atMost(v) = atMost(x)
      BY <3>2, CappedSteps, Zenon DEF x
    <3>. HIDE DEF v
    <3>5. atMost(2 * v) \in Nat /\ atMost(atMost(2 * v)) = atMost(2 * x)
      BY <3>3, <3>4, DurationAssumption DEF atMost
    <3>. QED
      BY <3>2, <3>3, <3>4, <3>5, i + 1 \in Nat, Zenon DEF v
  <2>. QED
    BY <2>1, i + 1 \in Nat, Zenon
<1>10. Nat \subseteq E
  <2>. HIDE DEF E
  <2>. QED
    BY <1>8, <1>9, SetInduction, Zenon
<1>11. (m - 1) + 1 = m /\ m <= m
  OBVIOUS
<1>. QED
  BY <1>1, <1>7, <1>10, <1>11, Zenon

\* The step of retryBackoffTotal's loop.
AddBackoff(base) == [i \in Nat |-> [v \in Nat |->
                 IF i = 0 THEN v ELSE saturatingAdd(v, retryBackoff(base, i))]]

\* It takes numbers to numbers.
LEMMA AddBackoffType ==
  ASSUME NEW base \in Nat
  PROVE  AddBackoff(base) \in Steps
<1>1. ASSUME NEW i \in Nat, NEW v \in Nat
      PROVE  (IF i = 0 THEN v ELSE saturatingAdd(v, retryBackoff(base, i))) \in Nat
  BY BackoffNat, Saturating, Zenon
<1>. QED
  BY <1>1, Zenon DEF AddBackoff, Steps

\* retryBackoffTotal is the end of its loop.
LEMMA TotalLoop ==
  ASSUME NEW base \in Nat, NEW m \in Nat \ {0}
  PROVE  \E t : /\ Loops(t, 0, AddBackoff(base), m - 1)
                /\ retryBackoffTotal(base, m) = t[m - 1]
<1>. DEFINE T == CHOOSE t : t = [i \in 0..(m - 1) |->
                   IF i = 0 THEN 0 ELSE saturatingAdd(t[i - 1], retryBackoff(base, i))]
<1>1. m - 1 \in Nat /\ 0 \in Nat /\ 0 \in 0..(m - 1)
  OBVIOUS
<1>2. PICK f \in [0..(m - 1) -> Nat] : Loops(f, 0, AddBackoff(base), m - 1)
  BY <1>1, AddBackoffType, Recursion, Zenon
<1>3. ASSUME NEW i \in 0..(m - 1), i # 0, NEW v \in Nat
      PROVE  AddBackoff(base)[i][v] = saturatingAdd(v, retryBackoff(base, i))
  BY <1>3, i \in Nat, Zenon DEF AddBackoff
<1>4. ASSUME NEW i \in 0..(m - 1)
      PROVE  f[i] = IF i = 0 THEN 0 ELSE saturatingAdd(f[i - 1], retryBackoff(base, i))
  <2>1. CASE i # 0
    <3>1. i \in 1..(m - 1) /\ i - 1 \in 0..(m - 1)
      BY <2>1
    <3>. QED
      BY <1>2, <1>3, <2>1, <3>1, Zenon DEF Loops
  <2>. QED
    BY <1>2, <2>1, Zenon DEF Loops
<1>5. f = [i \in 0..(m - 1) |->
             IF i = 0 THEN 0 ELSE saturatingAdd(f[i - 1], retryBackoff(base, i))]
  BY <1>4, Zenon
<1>6. T = [i \in 0..(m - 1) |->
             IF i = 0 THEN 0 ELSE saturatingAdd(T[i - 1], retryBackoff(base, i))]
  BY <1>5, Zenon
<1>7. retryBackoffTotal(base, m) = T[m - 1]
  BY Zenon DEF retryBackoffTotal
<1>. HIDE DEF T
<1>8. T[0] = 0
  BY <1>1, <1>6, Zenon
<1>. DEFINE E == {i \in Nat : i <= m - 1 => T[i] \in Nat}
<1>9. 0 \in E
  BY <1>1, <1>8, Zenon
<1>10. ASSUME NEW i \in Nat, i \in E PROVE i + 1 \in E
  <2>1. CASE i + 1 <= m - 1
    <3>1. i <= m - 1 /\ i + 1 \in 0..(m - 1) /\ i + 1 # 0 /\ (i + 1) - 1 = i /\ i + 1 \in Nat \ {0}
      BY <2>1
    <3>2. T[i + 1] = saturatingAdd(T[i], retryBackoff(base, i + 1)) /\ T[i] \in Nat
      BY <1>6, <1>10, <3>1, Zenon
    <3>3. retryBackoff(base, i + 1) \in Nat
      BY <3>1, BackoffNat, Zenon
    <3>4. saturatingAdd(T[i], retryBackoff(base, i + 1)) \in Nat
      BY <3>2, <3>3, Saturating, Zenon
    <3>. QED
      BY <3>1, <3>2, <3>4, Zenon
  <2>. QED
    BY <2>1, i + 1 \in Nat, Zenon
<1>11. Nat \subseteq E
  <2>. HIDE DEF E
  <2>. QED
    BY <1>9, <1>10, SetInduction, Zenon
<1>12. ASSUME NEW i \in 1..(m - 1) PROVE T[i] = AddBackoff(base)[i][T[i - 1]]
  <2>1. i \in 0..(m - 1) /\ i # 0 /\ i - 1 \in Nat /\ i - 1 <= m - 1
    OBVIOUS
  <2>2. T[i] = saturatingAdd(T[i - 1], retryBackoff(base, i)) /\ T[i - 1] \in Nat
    BY <1>6, <1>11, <2>1, Zenon
  <2>. QED
    BY <1>3, <2>1, <2>2, Zenon
<1>. QED
  BY <1>7, <1>8, <1>12, Zenon DEF Loops

\* One more attempt adds one more delay (retryBackoffTotal's loop, once more).
LEMMA TotalStep ==
  ASSUME NEW base \in Nat, NEW m \in Nat \ {0}
  PROVE  /\ retryBackoffTotal(base, m) \in Nat /\ retryBackoffTotal(base, 1) = 0
         /\ retryBackoffTotal(base, m + 1)
              = saturatingAdd(retryBackoffTotal(base, m), retryBackoff(base, m))
<1>1. /\ m + 1 \in Nat \ {0} /\ (m + 1) - 1 = m /\ m - 1 \in Nat /\ m - 1 <= m - 1
      /\ m - 1 <= m /\ m \in 1..m /\ 0 \in Nat /\ m \in Nat /\ m # 0
  OBVIOUS
<1>2. retryBackoffTotal(base, 1) = 0
  <2>1. 1 \in Nat \ {0} /\ 1 - 1 = 0
    OBVIOUS
  <2>2. PICK t : Loops(t, 0, AddBackoff(base), 1 - 1) /\ retryBackoffTotal(base, 1) = t[1 - 1]
    BY <2>1, TotalLoop, Zenon
  <2>. QED
    BY <2>1, <2>2, Zenon DEF Loops
<1>3. PICK f : Loops(f, 0, AddBackoff(base), m - 1) /\ retryBackoffTotal(base, m) = f[m - 1]
  BY TotalLoop, Zenon
<1>4. PICK g : Loops(g, 0, AddBackoff(base), m) /\ retryBackoffTotal(base, m + 1) = g[m]
  <2>1. \E g : /\ Loops(g, 0, AddBackoff(base), (m + 1) - 1)
              /\ retryBackoffTotal(base, m + 1) = g[(m + 1) - 1]
    BY <1>1, TotalLoop, Zenon
  <2>. QED
    BY <1>1, <2>1, Zenon
<1>5. Loops(g, 0, AddBackoff(base), m - 1) /\ g[m] = AddBackoff(base)[m][g[m - 1]]
  BY <1>4, Shorter, SMT
<1>6. f[m - 1] = g[m - 1] /\ f[m - 1] \in Nat
  BY <1>1, <1>3, <1>5, AddBackoffType, Unique, Zenon
<1>7. AddBackoff(base)[m][g[m - 1]] = saturatingAdd(g[m - 1], retryBackoff(base, m))
  BY <1>1, <1>6, Zenon DEF AddBackoff
<1>. QED
  BY <1>2, <1>3, <1>4, <1>5, <1>6, <1>7, Zenon

\* More attempts, more delay: retryBackoffTotal saturates and never wraps.
LEMMA TotalsGrow ==
  ASSUME NEW k \in Nat \ {0}, NEW m \in 1..k
  PROVE  /\ retryBackoffTotal(BaseDelay, k) <= MaxDuration
         /\ retryBackoffTotal(BaseDelay, m) <= retryBackoffTotal(BaseDelay, k)
<1>. DEFINE D(i) == retryBackoffTotal(BaseDelay, i)
            E == {j \in Nat : D(j + 1) <= MaxDuration /\ \A i \in 1..(j + 1) : D(i) <= D(j + 1)}
<1>1. ASSUME NEW i \in Nat \ {0}
      PROVE  /\ D(i) \in Nat /\ D(1) = 0 /\ D(i + 1) \in Nat /\ D(i + 1) <= MaxDuration
             /\ D(i) <= MaxDuration => D(i) <= D(i + 1)
  <2>1. D(i) \in Nat /\ D(1) = 0 /\ D(i + 1) = saturatingAdd(D(i), retryBackoff(BaseDelay, i))
    BY TotalStep, SesAssumption, Zenon
  <2>2. retryBackoff(BaseDelay, i) \in Nat
    BY BackoffNat, SesAssumption, Zenon
  <2>. HIDE DEF D
  <2>. QED
    BY <2>1, <2>2, Saturating, Zenon
<1>. HIDE DEF D
<1>2. 0 \in E
  BY <1>1, DurationAssumption
<1>3. ASSUME NEW j \in Nat, j \in E PROVE j + 1 \in E
  <2>1. D(j + 1) <= MaxDuration /\ \A i \in 1..(j + 1) : D(i) <= D(j + 1)
    BY <1>3, Zenon
  <2>2. j + 1 \in Nat \ {0}
    OBVIOUS
  <2>3. D(j + 1) \in Nat /\ D((j + 1) + 1) \in Nat /\ D((j + 1) + 1) <= MaxDuration /\ D(j + 1) <= D((j + 1) + 1)
    BY <1>1, <2>1, <2>2, Zenon
  <2>4. ASSUME NEW i \in 1..((j + 1) + 1) PROVE D(i) <= D((j + 1) + 1)
    <3>1. CASE i = (j + 1) + 1
      BY <2>3, <3>1
    <3>2. CASE i \in 1..(j + 1)
      <4>1. D(i) <= D(j + 1) /\ i \in Nat \ {0}
        BY <2>1, <3>2
      <4>2. D(i) \in Nat
        BY <1>1, <4>1, Zenon
      <4>. QED
        BY <2>3, <4>1, <4>2
    <3>. QED
      BY <3>1, <3>2
  <2>. QED
    BY <2>2, <2>3, <2>4, Zenon
<1>4. Nat \subseteq E
  <2>. HIDE DEF E
  <2>. QED
    BY <1>2, <1>3, SetInduction, Zenon
<1>5. k - 1 \in Nat /\ (k - 1) + 1 = k
  OBVIOUS
<1>6. D(k) <= MaxDuration /\ D(m) <= D(k)
  BY <1>4, <1>5, Zenon
<1>. QED
  BY <1>6, Zenon DEF D

\* The timeout of a call is a number (runtimeSendTimeout).
LEMMA DeadlineNat == Deadline \in Nat
<1>. DEFINE M == multiplyDuration(HttpTimeout, RetryAttempts)
            D == retryBackoffTotal(BaseDelay, RetryAttempts)
<1>1. RetryAttempts \in Nat \ {0} /\ HttpTimeout \in Nat /\ MaxDuration \in Nat /\ Grace \in Nat
  BY RetryAttemptsAssumption, SesAssumption, DurationAssumption
<1>2. D \in Nat
  BY <1>1, TotalStep, SesAssumption, Zenon
<1>3. M = MaxDuration \/ M = HttpTimeout * RetryAttempts
  BY <1>1, Zenon DEF multiplyDuration
<1>4. M \in Nat
  BY <1>1, <1>3, Product
<1>5. Deadline = saturatingAdd(saturatingAdd(M, D), Grace)
  BY Zenon DEF Deadline, runtimeSendTimeout
<1>. HIDE DEF M, D
<1>. QED
  BY <1>1, <1>2, <1>4, <1>5, Saturating, Zenon

\* A timeout that did not saturate has room for m tries and the delays up to the next one
\* (runtimeSendTimeout).
LEMMA Room ==
  ASSUME Deadline < MaxDuration, NEW m \in 1..RetryAttempts
  PROVE  /\ retryBackoffTotal(BaseDelay, m) \in Nat
         /\ HttpTimeout * m + retryBackoffTotal(BaseDelay, m) <= Deadline
         /\ m < RetryAttempts =>
              /\ retryBackoff(BaseDelay, m) \in Nat
              /\ retryBackoffTotal(BaseDelay, m + 1)
                   = retryBackoffTotal(BaseDelay, m) + retryBackoff(BaseDelay, m)
              /\ HttpTimeout * m + retryBackoffTotal(BaseDelay, m + 1) <= Deadline
<1>. DEFINE D(i) == retryBackoffTotal(BaseDelay, i)
            M == multiplyDuration(HttpTimeout, RetryAttempts)
            S == saturatingAdd(M, D(RetryAttempts))
<1>1. /\ RetryAttempts \in Nat \ {0} /\ HttpTimeout \in Nat /\ Grace \in Nat /\ MaxDuration \in Nat
      /\ m \in Nat \ {0} /\ m <= RetryAttempts
  BY RetryAttemptsAssumption, SesAssumption, DurationAssumption
<1>2. ASSUME NEW i \in 1..RetryAttempts
      PROVE  i \in Nat \ {0} /\ D(i) \in Nat /\ D(i) <= D(RetryAttempts)
  <2>1. i \in Nat \ {0} /\ BaseDelay \in Nat
    BY <1>1, SesAssumption
  <2>. QED
    BY <1>1, <2>1, TotalStep, TotalsGrow, Zenon
<1>3. D(RetryAttempts) \in Nat
  BY <1>1, TotalStep, SesAssumption, Zenon
<1>4. M = MaxDuration \/ M = HttpTimeout * RetryAttempts
  BY <1>1, Zenon DEF multiplyDuration
<1>5. HttpTimeout * m \in Nat /\ HttpTimeout * RetryAttempts \in Nat
      /\ HttpTimeout * m <= HttpTimeout * RetryAttempts
  BY <1>1, Product, ProductGrows
<1>6. Deadline = saturatingAdd(S, Grace)
  BY Zenon DEF Deadline, runtimeSendTimeout
<1>. HIDE DEF M, D
<1>7. M \in Nat
  BY <1>1, <1>4, <1>5, Zenon
<1>8. S \in Nat /\ S <= MaxDuration /\ (S < MaxDuration => S = M + D(RetryAttempts))
      /\ (M <= MaxDuration => M <= S)
  BY <1>3, <1>7, Saturating, Zenon
<1>. HIDE DEF S
<1>9. Deadline \in Nat /\ Deadline = S + Grace /\ S <= Deadline
  BY <1>1, <1>6, <1>8, Saturating
<1>10. S = M + D(RetryAttempts)
  BY <1>1, <1>8, <1>9
<1>11. M = HttpTimeout * RetryAttempts
  BY <1>1, <1>3, <1>4, <1>5, <1>7, <1>8, <1>9, <1>10
<1>. DEFINE w == HttpTimeout * m
            p == HttpTimeout * RetryAttempts
<1>12. w \in Nat /\ p \in Nat /\ w <= p /\ p + D(RetryAttempts) <= Deadline
  BY <1>1, <1>5, <1>9, <1>10, <1>11
<1>. HIDE DEF w, p
<1>13. D(m) \in Nat /\ w + D(m) <= Deadline
  BY <1>2, <1>3, <1>9, <1>12
<1>14. ASSUME m < RetryAttempts
       PROVE  retryBackoff(BaseDelay, m) \in Nat /\ D(m + 1) = D(m) + retryBackoff(BaseDelay, m)
              /\ w + D(m + 1) <= Deadline
  <2>1. m + 1 \in 1..RetryAttempts
    BY <1>1, <1>14
  <2>2. D(m + 1) \in Nat /\ D(m + 1) <= D(RetryAttempts)
    BY <1>2, <2>1, Zenon
  <2>3. w + D(m + 1) <= Deadline /\ D(m + 1) < MaxDuration
    BY <1>1, <1>3, <1>9, <1>12, <2>2
  <2>4. retryBackoff(BaseDelay, m) \in Nat
    BY <1>1, BackoffNat, SesAssumption, Zenon
  <2>5. D(m + 1) = saturatingAdd(D(m), retryBackoff(BaseDelay, m))
    BY <1>1, TotalStep, SesAssumption, Zenon DEF D
  <2>. QED
    BY <1>13, <2>3, <2>4, <2>5, Saturating, Zenon
<1>. QED
  BY <1>13, <1>14, Zenon DEF D, w

-----------------------------------------------------------------------------
(* The time of a call. *)

\* A call that has made its first m - 1 tries, with the delay after each, has room for the
\* next try (the context that the worker gives Submit).
LEMMA TryFits ==
  ASSUME Deadline < MaxDuration, NEW m \in 1..RetryAttempts, NEW e \in Nat,
         e <= HttpTimeout * (m - 1) + retryBackoffTotal(BaseDelay, m), NEW d \in 0..HttpTimeout
  PROVE  /\ e + d \in Nat /\ e + d <= Deadline
         /\ e + d <= HttpTimeout * m + retryBackoffTotal(BaseDelay, m)
<1>1. /\ retryBackoffTotal(BaseDelay, m) \in Nat
      /\ HttpTimeout * m + retryBackoffTotal(BaseDelay, m) <= Deadline
  BY Room, Zenon
<1>2. HttpTimeout \in Nat /\ m - 1 \in Nat /\ (m - 1) + 1 = m
  BY SesAssumption
<1>3. HttpTimeout * (m - 1) \in Nat /\ HttpTimeout * m = HttpTimeout * (m - 1) + HttpTimeout
  BY <1>2, Product
<1>4. e + d \in Nat /\ e + d <= HttpTimeout * m + retryBackoffTotal(BaseDelay, m)
  BY <1>1, <1>2, <1>3
<1>5. Deadline \in Nat
  BY DeadlineNat
<1>6. HttpTimeout * m \in Nat
  BY <1>2, <1>3
<1>. QED
  BY <1>1, <1>4, <1>5, <1>6

\* The delay after a try fits as well, and the next try begins in its time.
LEMMA DelayFits ==
  ASSUME Deadline < MaxDuration, NEW m \in Nat \ {0}, m < RetryAttempts, NEW e \in Nat,
         e <= HttpTimeout * m + retryBackoffTotal(BaseDelay, m)
  PROVE  /\ e + retryBackoff(BaseDelay, m) \in Nat /\ e + retryBackoff(BaseDelay, m) <= Deadline
         /\ e + retryBackoff(BaseDelay, m)
              <= HttpTimeout * ((m + 1) - 1) + retryBackoffTotal(BaseDelay, m + 1)
<1>1. m \in 1..RetryAttempts /\ (m + 1) - 1 = m /\ HttpTimeout \in Nat
  BY RetryAttemptsAssumption, SesAssumption
<1>2. /\ retryBackoffTotal(BaseDelay, m) \in Nat /\ retryBackoff(BaseDelay, m) \in Nat
      /\ retryBackoffTotal(BaseDelay, m + 1)
           = retryBackoffTotal(BaseDelay, m) + retryBackoff(BaseDelay, m)
      /\ HttpTimeout * m + retryBackoffTotal(BaseDelay, m + 1) <= Deadline
  BY <1>1, Room, Zenon
<1>3. HttpTimeout * m \in Nat /\ Deadline \in Nat
  BY <1>1, Product, DeadlineNat
<1>. QED
  BY <1>1, <1>2, <1>3

\* A call begins with all its time.
LEMMA BeginFits ==
  HttpTimeout * (1 - 1) \in Nat /\ retryBackoffTotal(BaseDelay, 1) \in Nat
  /\ 0 <= HttpTimeout * (1 - 1) + retryBackoffTotal(BaseDelay, 1)
<1>1. HttpTimeout * (1 - 1) \in Nat
  BY SesAssumption
<1>2. retryBackoffTotal(BaseDelay, 1) \in Nat
  BY TotalStep, SesAssumption, 1 \in Nat \ {0}, Zenon
<1>. QED
  BY <1>1, <1>2
-----------------------------------------------------------------------------
\* Each step of the SES path keeps the time of the call (ses/provider.go, Submit).
LEMMA TimeStep ==
  ASSUME Deadline < MaxDuration
  PROVE  SendInv /\ TimeInv /\ [Next]_vars => TimeInv'
<1>. SUFFICES ASSUME SendInv, TimeInv, [Next]_vars PROVE TimeInv'
  OBVIOUS
<1>1. elapsed \in Nat /\ ctx # "expired" /\ Deadline \in Nat
  BY DeadlineNat DEF TimeInv
<1>2. ASSUME NEW d \in Nat, elapsed + d <= Deadline, Wait(d)
      PROVE  elapsed' = elapsed + d /\ ctx' # "expired"
  <2>1. ~ (elapsed + d > Deadline)
    BY <1>1, <1>2
  <2>. QED
    BY <1>1, <1>2, <2>1, Zenon DEF Wait
<1>3. CASE UNCHANGED call /\ (pc' = pc \/ pc' \in {"idle", "final"})
  BY <1>3, Zenon DEF TimeInv, call
<1>4. CASE BeginSubmit
  <2>1. n' = 1 /\ ctx' = "live" /\ elapsed' = 0 /\ pc' \in {"sending", "final"}
    BY <1>4, Zenon DEF BeginSubmit
  <2>2. elapsed' \in Nat /\ ctx' # "expired" /\ pc' # "backoff"
    BY <2>1
  <2>3. elapsed' <= HttpTimeout * (n' - 1) + retryBackoffTotal(BaseDelay, n')
    BY <2>1, BeginFits, Zenon
  <2>. QED
    BY <2>2, <2>3, Zenon DEF TimeInv
<1>5. ASSUME NEW o \in Outcomes, SendEmail(o) PROVE TimeInv'
  <2>1. pc = "sending" /\ n' = n /\ pc' \in {"final", "backoff"}
    BY <1>5, Zenon DEF SendEmail, SubmitReturns
  <2>2. PICK d \in 0..HttpTimeout : Wait(d)
    BY <1>5, Zenon DEF SendEmail
  <2>3. n \in Nat \ {0} /\ n <= RetryAttempts
        /\ elapsed <= HttpTimeout * (n - 1) + retryBackoffTotal(BaseDelay, n)
    BY <2>1, Zenon DEF SendInv, TimeInv
  <2>4. n \in 1..RetryAttempts /\ d \in Nat
    BY <2>3, RetryAttemptsAssumption, SesAssumption
  <2>5. /\ elapsed + d \in Nat /\ elapsed + d <= Deadline
        /\ elapsed + d <= HttpTimeout * n + retryBackoffTotal(BaseDelay, n)
    BY <1>1, <2>3, <2>4, TryFits, Zenon
  <2>6. elapsed' = elapsed + d /\ ctx' # "expired"
    BY <1>2, <2>2, <2>4, <2>5, Zenon
  <2>7. pc' # "sending"
    BY <2>1
  <2>. QED
    BY <2>1, <2>5, <2>6, <2>7, Zenon DEF TimeInv
<1>6. CASE Backoff
  <2>1. pc = "backoff" /\ Wait(retryBackoff(BaseDelay, n))
        /\ (ctx' # "expired" => pc' = "sending" /\ n' = n + 1)
    BY <1>6, Zenon DEF Backoff, BackoffDelay
  <2>2. n \in Nat \ {0} /\ n < RetryAttempts
        /\ elapsed <= HttpTimeout * n + retryBackoffTotal(BaseDelay, n)
    BY <2>1, Zenon DEF SendInv, TimeInv
  <2>3. /\ elapsed + retryBackoff(BaseDelay, n) \in Nat
        /\ elapsed + retryBackoff(BaseDelay, n) <= Deadline
        /\ elapsed + retryBackoff(BaseDelay, n)
             <= HttpTimeout * ((n + 1) - 1) + retryBackoffTotal(BaseDelay, n + 1)
    BY <1>1, <2>2, DelayFits, Zenon
  <2>4. retryBackoff(BaseDelay, n) \in Nat
    BY <2>2, BackoffNat, SesAssumption, Zenon
  <2>5. elapsed' = elapsed + retryBackoff(BaseDelay, n) /\ ctx' # "expired"
    BY <1>2, <2>1, <2>3, <2>4, Zenon
  <2>6. pc' = "sending" /\ n' = n + 1 /\ pc' # "backoff"
    BY <2>1, <2>5
  <2>. QED
    BY <2>3, <2>5, <2>6, Zenon DEF TimeInv
<1>7. CASE Shutdown
  <2>1. ctx' # "expired"
    BY <1>1, <1>7 DEF Shutdown
  <2>. QED
    BY <1>7, <2>1, Zenon DEF Shutdown, TimeInv
<1>8. CASE \/ BackoffCanceled \/ Poll \/ FinalizeRecord \/ Idle \/ Exit \/ Crash \/ Restart
           \/ UNCHANGED vars
  <2>1. UNCHANGED call /\ (pc' = pc \/ pc' \in {"idle", "final"})
    BY <1>8, Zenon DEF BackoffCanceled, SubmitReturns, Poll, FinalizeRecord, Idle, Exit, Crash,
                       Restart, vars
  <2>. QED
    BY <1>3, <2>1, Zenon
<1>. QED
  BY <1>4, <1>5, <1>6, <1>7, <1>8, Zenon DEF Next

\* SES's calls keep within their deadline, unless that saturated.
LEMMA SesDeadline ==
  ASSUME Deadline < MaxDuration
  PROVE  Spec => []DeadlineCoversRetries
<1>1. Init => TimeInv
  BY DEF Init, TimeInv
<1>2. SendInv /\ TimeInv /\ [Next]_vars => TimeInv'
  BY TimeStep, Zenon
<1>3. TimeInv => DeadlineCoversRetries
  BY Zenon DEF TimeInv, DeadlineCoversRetries
<1>. QED
  BY <1>1, <1>2, <1>3, SendInvariance, PTL DEF Spec

\* AcsDelivery's times are the same ones: both providers get one Runtime.SendTimeout
\* (providers.Build) and the same retry settings.
LEMMA SameTimes ==
  /\ Acs!Deadline = Deadline
  /\ \A m : Acs!retryBackoff(BaseDelay, m) = retryBackoff(BaseDelay, m)
  /\ \A m : Acs!retryBackoffTotal(BaseDelay, m) = retryBackoffTotal(BaseDelay, m)
<1>1. \A m : Acs!retryBackoff(BaseDelay, m) = retryBackoff(BaseDelay, m)
  BY Zenon DEF Acs!retryBackoff, retryBackoff, Acs!doubled, doubled
<1>2. \A m : Acs!retryBackoffTotal(BaseDelay, m) = retryBackoffTotal(BaseDelay, m)
  BY Zenon DEF Acs!retryBackoffTotal, retryBackoffTotal, Acs!saturatingAdd, saturatingAdd,
               Acs!retryBackoff, retryBackoff, Acs!doubled, doubled
<1>3. \A a, b : Acs!saturatingAdd(a, b) = saturatingAdd(a, b)
  BY Zenon DEF Acs!saturatingAdd, saturatingAdd
<1>4. \A a, b : Acs!multiplyDuration(a, b) = multiplyDuration(a, b)
  BY Zenon DEF Acs!multiplyDuration, multiplyDuration
<1>5. Acs!Deadline = Deadline
  BY <1>2, <1>3, <1>4, Zenon
    DEF Acs!Deadline, Deadline, Acs!runtimeSendTimeout, runtimeSendTimeout
<1>. QED
  BY <1>1, <1>2, <1>5, Zenon

\* Each step of the ACS path keeps the time of the call (acs/provider.go, Submit and Poll).
LEMMA AcsTimeStep ==
  ASSUME Deadline < MaxDuration
  PROVE  Acs!IInv /\ Acs!TimeInv /\ [Acs!Next]_(Acs!vars) => Acs!TimeInv'
<1>. SUFFICES ASSUME Acs!IInv, Acs!TimeInv, [Acs!Next]_(Acs!vars) PROVE Acs!TimeInv'
  OBVIOUS
<1>1. acsElapsed \in Nat /\ acsCtx # "expired" /\ Deadline \in Nat /\ acsN \in Nat \ {0}
  BY DeadlineNat, Zenon DEF Acs!TimeInv, Acs!IInv, Acs!Typed
<1>2. ASSUME NEW d \in Nat, acsElapsed + d <= Deadline, Acs!Wait(d)
      PROVE  acsElapsed' = acsElapsed + d /\ acsCtx' # "expired"
  <2>1. ~ (acsElapsed + d > Deadline)
    BY <1>1, <1>2
  <2>. QED
    BY <1>1, <1>2, <2>1, SameTimes, Zenon DEF Acs!Wait
<1>3. CASE UNCHANGED Acs!call /\ (acsPc' = acsPc \/ acsPc' \in {"idle", "final"})
  BY <1>3, Zenon DEF Acs!TimeInv, Acs!call
<1>4. CASE Acs!BeginSubmit
  <2>1. acsN' = 1 /\ acsCtx' = "live" /\ acsElapsed' = 0 /\ acsPc' = "posting"
    BY <1>4, Zenon DEF Acs!BeginSubmit, Acs!Call
  <2>2. acsElapsed' \in Nat /\ acsCtx' # "expired" /\ acsPc' \notin {"backoff", "polling"}
    BY <2>1
  <2>3. acsElapsed' <= HttpTimeout * (acsN' - 1) + Acs!retryBackoffTotal(BaseDelay, acsN')
    BY <2>1, BeginFits, SameTimes, Zenon
  <2>. QED
    BY <2>2, <2>3, Zenon DEF Acs!TimeInv
<1>5. CASE Acs!BeginPoll
  <2>1. acsCtx' = "live" /\ acsElapsed' = 0 /\ acsPc' = "polling"
    BY <1>5, Zenon DEF Acs!BeginPoll, Acs!Call
  <2>2. acsElapsed' \in Nat /\ acsCtx' # "expired" /\ acsPc' \notin {"posting", "backoff"}
    BY <2>1
  <2>. QED
    BY <2>1, <2>2, Zenon DEF Acs!TimeInv
<1>6. ASSUME NEW o \in Acs!Outcomes, Acs!SubmitOnce(o) PROVE Acs!TimeInv'
  <2>1. acsPc = "posting" /\ acsN' = acsN /\ acsPc' \in {"final", "backoff"}
    BY <1>6, Zenon DEF Acs!SubmitOnce, Acs!SubmitReturns
  <2>2. PICK d \in 0..HttpTimeout : Acs!Wait(d)
    BY <1>6, Zenon DEF Acs!SubmitOnce
  <2>3. acsN <= RetryAttempts
        /\ acsElapsed <= HttpTimeout * (acsN - 1) + retryBackoffTotal(BaseDelay, acsN)
    BY <2>1, SameTimes, Zenon DEF Acs!IInv, Acs!PostInv, Acs!TimeInv
  <2>4. acsN \in 1..RetryAttempts /\ d \in Nat
    BY <1>1, <2>3, RetryAttemptsAssumption, SesAssumption
  <2>5. /\ acsElapsed + d \in Nat /\ acsElapsed + d <= Deadline
        /\ acsElapsed + d <= HttpTimeout * acsN + retryBackoffTotal(BaseDelay, acsN)
    BY <1>1, <2>3, <2>4, TryFits, Zenon
  <2>6. acsElapsed' = acsElapsed + d /\ acsCtx' # "expired"
    BY <1>2, <2>2, <2>4, <2>5, Zenon
  <2>7. acsPc' \notin {"posting", "polling"}
    BY <2>1
  <2>. QED
    BY <2>1, <2>5, <2>6, <2>7, SameTimes, Zenon DEF Acs!TimeInv
<1>7. CASE Acs!Backoff
  <2>1. acsPc = "backoff" /\ Acs!Wait(retryBackoff(BaseDelay, acsN))
        /\ (acsCtx' # "expired" => acsPc' = "posting" /\ acsN' = acsN + 1)
    BY <1>7, SameTimes, Zenon DEF Acs!Backoff
  <2>2. acsN < RetryAttempts
        /\ acsElapsed <= HttpTimeout * acsN + retryBackoffTotal(BaseDelay, acsN)
    BY <2>1, SameTimes, Zenon DEF Acs!IInv, Acs!PostInv, Acs!TimeInv
  <2>3. /\ acsElapsed + retryBackoff(BaseDelay, acsN) \in Nat
        /\ acsElapsed + retryBackoff(BaseDelay, acsN) <= Deadline
        /\ acsElapsed + retryBackoff(BaseDelay, acsN)
             <= HttpTimeout * ((acsN + 1) - 1) + retryBackoffTotal(BaseDelay, acsN + 1)
    BY <1>1, <2>2, DelayFits, Zenon
  <2>4. retryBackoff(BaseDelay, acsN) \in Nat
    BY <1>1, BackoffNat, SesAssumption, Zenon
  <2>5. acsElapsed' = acsElapsed + retryBackoff(BaseDelay, acsN) /\ acsCtx' # "expired"
    BY <1>2, <2>1, <2>3, <2>4, Zenon
  <2>6. acsPc' = "posting" /\ acsN' = acsN + 1 /\ acsPc' \notin {"backoff", "polling"}
    BY <2>1, <2>5
  <2>. QED
    BY <2>3, <2>5, <2>6, SameTimes, Zenon DEF Acs!TimeInv
<1>8. ASSUME NEW o \in Acs!Outcomes, Acs!Poll(o) PROVE Acs!TimeInv'
  <2>1. acsPc = "polling" /\ acsPc' = "final" /\ acsElapsed = 0
    BY <1>8, Zenon DEF Acs!Poll, Acs!TimeInv
  <2>2. PICK d \in 0..HttpTimeout : Acs!Wait(d)
    BY <1>8, Zenon DEF Acs!Poll
  <2>3. 1 \in 1..RetryAttempts /\ d \in Nat
    BY RetryAttemptsAssumption, SesAssumption
  <2>4. acsElapsed + d \in Nat /\ acsElapsed + d <= Deadline
    BY <1>1, <2>1, <2>3, BeginFits, TryFits, Zenon
  <2>5. acsElapsed' = acsElapsed + d /\ acsCtx' # "expired"
    BY <1>2, <2>2, <2>3, <2>4, Zenon
  <2>6. acsPc' \notin {"posting", "backoff", "polling"}
    BY <2>1
  <2>. QED
    BY <2>4, <2>5, <2>6, Zenon DEF Acs!TimeInv
<1>9. CASE Acs!Shutdown
  <2>1. acsCtx' # "expired"
    BY <1>1, <1>9 DEF Acs!Shutdown
  <2>. QED
    BY <1>9, <2>1, Zenon DEF Acs!Shutdown, Acs!TimeInv
<1>10. CASE \/ Acs!SubmittedTimeout \/ Acs!BackoffCanceled \/ Acs!FinalizeRecord \/ Acs!Idle
            \/ Acs!OperationEnds \/ Acs!Exit \/ Acs!Crash \/ Acs!Restart \/ UNCHANGED Acs!vars
  <2>1. UNCHANGED Acs!call /\ (acsPc' = acsPc \/ acsPc' \in {"idle", "final"})
    BY <1>10, Zenon
    DEF Acs!SubmittedTimeout, Acs!BackoffCanceled, Acs!SubmitReturns, Acs!FinalizeRecord,
        Acs!Idle, Acs!OperationEnds, Acs!Exit, Acs!Crash, Acs!Restart, Acs!vars
  <2>. QED
    BY <1>3, <2>1, Zenon
<1>. QED
  BY <1>4, <1>5, <1>6, <1>7, <1>8, <1>9, <1>10, Zenon DEF Acs!Next

\* ACS's calls keep within their deadline, unless that saturated.
LEMMA AcsDeadline ==
  ASSUME Deadline < MaxDuration
  PROVE  Acs!Spec => []Acs!DeadlineCoversRetries
<1>1. Acs!Init => Acs!TimeInv
  BY DEF Acs!Init, Acs!TimeInv
<1>2. Acs!IInv /\ Acs!TimeInv /\ [Acs!Next]_(Acs!vars) => Acs!TimeInv'
  BY AcsTimeStep, Zenon
<1>3. Acs!TimeInv => Acs!DeadlineCoversRetries
  BY Zenon DEF Acs!TimeInv, Acs!DeadlineCoversRetries
<1>. QED
  BY <1>1, <1>2, <1>3, AcsInvariance, PTL DEF Acs!Spec

\* Whatever provider is built, and for all retry settings whose timeout did not saturate at
\* the largest duration, runtimeSendTimeout leaves room for every request and every backoff
\* of a call: its deadline never cuts the retries short.
THEOREM DeadlinesSuffice ==
  ASSUME Deadline < MaxDuration
  PROVE  MCSpec => []DeadlinesCoverRetries
<1>1. DeadlineCoversRetries /\ Acs!DeadlineCoversRetries => DeadlinesCoverRetries
  BY Zenon DEF DeadlinesCoverRetries
<1>2. Spec => []DeadlineCoversRetries
  BY SesDeadline
<1>3. Acs!Spec => []Acs!DeadlineCoversRetries
  BY AcsDeadline
<1>. QED
  BY <1>1, <1>2, <1>3, EachProvider, PTL
-----------------------------------------------------------------------------
(* All tries are used. *)

\* SES: a temporary failure makes a dead letter only of a record without retries left.
LEMMA OutOfRetries ==
  ASSUME NEW x \in Row, x.state = "working",
         afterSubmit(x, "temporary").state = "dead-letter"
  PROVE  ~(x.attempt < RetryAttempts)
<1>1. submitRetryAllowed(x) => afterSubmit(x, "temporary") = row("queued", x.attempt + 1, FALSE, "temporary")
  BY DEF afterSubmit, markRetry
<1>2. row("queued", x.attempt + 1, FALSE, "temporary").state = "queued"
  BY DEF row
<1>. QED
  BY <1>1, <1>2 DEF submitRetryAllowed

\* The same of ACS; and only a temporary failure queues a record again.
LEMMA AcsOutOfRetries ==
  ASSUME NEW x \in Acs!Row, x.state = "working"
  PROVE  /\ Acs!afterSubmit(x, "temporary").state = "dead-letter" => ~(x.attempt < RetryAttempts)
         /\ Acs!afterSubmit(x, "running").state # "queued"
         /\ Acs!afterSubmit(x, "permanent").state # "queued"
<1>1. Acs!submitRetryAllowed(x) =>
        Acs!afterSubmit(x, "temporary") = Acs!row("queued", x.attempt + 1, FALSE, "temporary")
  BY DEF Acs!afterSubmit, Acs!markRetry
<1>2. Acs!row("queued", x.attempt + 1, FALSE, "temporary").state = "queued"
  BY DEF Acs!row
<1>3. Acs!afterSubmit(x, "running") = Acs!row("submitted", x.attempt + 1, TRUE, "none")
  BY DEF Acs!afterSubmit, Acs!markSubmitted
<1>4. Acs!afterSubmit(x, "permanent") = Acs!row("dead-letter", x.attempt + 1, FALSE, "permanent")
  BY DEF Acs!afterSubmit, Acs!markDeadLetter
<1>5. Acs!afterSubmit(x, "running").state # "queued" /\ Acs!afterSubmit(x, "permanent").state # "queued"
  BY <1>3, <1>4 DEF Acs!row
<1>. QED
  BY <1>1, <1>2, <1>5 DEF Acs!submitRetryAllowed

\* classifySendError makes a temporary error of every 429 and 5xx.
LEMMA UnavailableIsTemporary == ASSUME NEW a \in Submit("unavailable") PROVE a = "temporary"
<1>1. PICK e \in SdkErrors("unavailable") : a = classifySendError(e)
  BY Zenon DEF Submit
<1>2. e.status = {429} \/ e.status = {503}
  BY <1>1 DEF SdkErrors
<1>3. isRetryableStatus(429) /\ isRetryableStatus(503)
  BY DEF isRetryableStatus
<1>4. e.status # {} /\ \E s \in e.status : isRetryableStatus(s)
  <2>1. CASE e.status = {429}
    BY <1>3, <2>1
  <2>2. CASE e.status = {503}
    BY <1>3, <2>2
  <2>. QED
    BY <1>2, <2>1, <2>2
<1>. QED
  BY <1>1, <1>4 DEF classifySendError

\* Each step of the SES path keeps TriesInv, while no deadline comes first.
LEMMA TriesStep ==
  IInv /\ SendInv /\ DeadlineCoversRetries' /\ TriesInv /\ [Next]_vars => TriesInv'
<1>. SUFFICES ASSUME IInv, SendInv, DeadlineCoversRetries', TriesInv, [Next]_vars, faults' = 0
              PROVE  /\ proc' = "running" /\ ctx' # "canceled"
                     /\ r'.state = "submitted" => last' = "none"
                     /\ pc' \in {"sending", "backoff"} \/ last' # "none" => built'
                     /\ pc' = "final" /\ r'.state = "working" /\ last' = "unavailable" =>
                          upd' = afterSubmit(r', "temporary")
                     /\ AllTriesUsed'
  BY DEF TriesInv
<1>0. /\ CallInv /\ r \in Row /\ upd \in Row /\ r.attempt \in Nat /\ RetryAttempts \in Nat
      /\ r.attempt <= RetryAttempts + 1
      /\ r.state \in {"queued", "working"} => r.attempt <= RetryAttempts
      /\ ctx' # "expired"
  BY RetryAttemptsAssumption DEF IInv, SendInv, DeadlineCoversRetries, Row
<1>1. faults = 0
  <2>1. faults' = faults \/ faults' = faults + 1
    BY Zenon
      DEF Next, vars, BeginSubmit, SendEmail, Backoff, BackoffCanceled, Poll, FinalizeRecord, Idle,
          Shutdown, Fault, Exit, Crash, Restart
  <2>2. faults \in Nat
    BY DEF IInv
  <2>. QED
    BY <2>1, <2>2
<1>2. /\ proc = "running" /\ ctx # "canceled"
      /\ r.state = "submitted" => last = "none"
      /\ pc \in {"sending", "backoff"} \/ last # "none" => built
      /\ pc = "final" /\ r.state = "working" /\ last = "unavailable" => upd = afterSubmit(r, "temporary")
      /\ r.state = "dead-letter" /\ last = "unavailable" => r.attempt = RetryAttempts + 1
  BY <1>1 DEF TriesInv, AllTriesUsed
<1>3. faults' = faults
  BY <1>1
<1>4. CASE UNCHANGED vars
  BY <1>2, <1>4 DEF vars, call, AllTriesUsed
<1>5. CASE BeginSubmit
  <2>1. /\ r'.state = "working" /\ ctx' = "live" /\ pc' \in {"sending", "final"}
        /\ (pc' = "sending" <=> built)
        /\ UNCHANGED <<proc, built, last>>
    BY <1>0, <1>5, Moves DEF BeginSubmit
  <2>. QED
    BY <1>2, <2>1 DEF AllTriesUsed
<1>6. ASSUME NEW o \in Outcomes, SendEmail(o)
      PROVE  /\ proc' = "running" /\ ctx' # "canceled"
             /\ r'.state = "submitted" => last' = "none"
             /\ pc' \in {"sending", "backoff"} \/ last' # "none" => built'
             /\ pc' = "final" /\ r'.state = "working" /\ last' = "unavailable" =>
                  upd' = afterSubmit(r', "temporary")
             /\ AllTriesUsed'
  <2>1. pc = "sending" /\ last' = o /\ UNCHANGED <<r, proc, built>> /\ r.state = "working"
    BY <1>0, <1>6, Zenon DEF SendEmail, CallInv
  <2>2. ctx' # "canceled"
    BY <1>2, <1>6, Zenon DEF SendEmail, Wait
  <2>3. \/ pc' = "backoff"
        \/ \E a \in Submit(o) : upd' = afterSubmit(r, a)
    BY <1>6, Zenon DEF SendEmail, SubmitReturns
  <2>4. pc' = "final" /\ o = "unavailable" => upd' = afterSubmit(r, "temporary")
    BY <2>3, UnavailableIsTemporary, Zenon
  <2>. QED
    BY <1>2, <2>1, <2>2, <2>4 DEF AllTriesUsed
<1>7. CASE Backoff
  <2>1. pc = "backoff" /\ pc' = "sending" /\ UNCHANGED <<r, proc, built, last>> /\ r.state = "working"
    BY <1>0, <1>7, Zenon DEF Backoff, CallInv
  <2>2. ctx' # "canceled"
    BY <1>2, <1>7, Zenon DEF Backoff, Wait
  <2>. QED
    BY <1>2, <2>1, <2>2 DEF AllTriesUsed
<1>8. CASE Poll
  <2>1. r.state = "submitted" /\ UNCHANGED <<r, proc, ctx, built, last>> /\ pc' = "final"
    BY <1>8 DEF Poll, call
  <2>. QED
    BY <1>2, <2>1 DEF AllTriesUsed
<1>9. CASE FinalizeRecord
  <2>1. r' = upd /\ pc = "final" /\ pc' = "idle" /\ UNCHANGED <<proc, ctx, built, last>>
    BY <1>9 DEF FinalizeRecord, call
  <2>2. CASE r.state = "working"
    <3>1. PICK a \in {"succeeded", "temporary", "permanent"} : upd = afterSubmit(r, a)
      BY <1>0, <2>1, <2>2 DEF CallInv
    <3>2. upd.attempt = r.attempt + 1 /\ upd.state \in {"queued", "succeeded", "dead-letter"}
      BY <1>0, <2>2, <3>1, AfterSubmit
    <3>3. upd.state = "dead-letter" /\ last = "unavailable" => ~(r.attempt < RetryAttempts)
      BY <1>0, <1>2, <2>1, <2>2, OutOfRetries
    <3>4. upd.state = "dead-letter" /\ last = "unavailable" => upd.attempt = RetryAttempts + 1
      BY <1>0, <2>2, <3>2, <3>3
    <3>. QED
      BY <1>2, <2>1, <3>2, <3>4 DEF AllTriesUsed
  <2>3. CASE r.state # "working"
    <3>1. upd.state = "succeeded"
      BY <1>0, <2>1, <2>3, AfterPoll DEF CallInv
    <3>. QED
      BY <1>2, <2>1, <3>1 DEF AllTriesUsed
  <2>. QED
    BY <2>2, <2>3
<1>10. ~BackoffCanceled /\ ~Shutdown /\ ~Crash /\ ~Exit /\ ~Restart
  BY <1>1, <1>2 DEF BackoffCanceled, Shutdown, Crash, Exit, Restart, Fault
<1>. QED
  BY <1>4, <1>5, <1>6, <1>7, <1>8, <1>9, <1>10, Zenon DEF Next, Idle

\* Each step of the ACS path keeps the exact account, while no deadline comes first.
LEMMA AcsTriesStep ==
  Acs!IInv /\ Acs!DeadlineCoversRetries' /\ Acs!TriesInv /\ [Acs!Next]_(Acs!vars) => Acs!TriesInv'
<1>. DEFINE Charged == RetryAttempts * acsR.attempt
<1>. SUFFICES ASSUME Acs!IInv, Acs!DeadlineCoversRetries', Acs!TriesInv, [Acs!Next]_(Acs!vars),
                     acsFaults' = 0
              PROVE  /\ acsProc' = "running" /\ acsCtx' # "canceled"
                     /\ acsR'.state = "queued" => posts' = Charged'
                     /\ acsPc' = "posting" => posts' = Charged' + (acsN' - 1)
                     /\ acsPc' = "backoff" => posts' = Charged' + acsN'
                     /\ acsPc' = "final" /\ acsR'.state = "working" =>
                          \/ acsUpd' = Acs!afterSubmit(acsR', "temporary") /\ posts' = Charged' + RetryAttempts
                          \/ acsUpd'.state # "queued" /\ ~Acs!Retryable(acsLast')
                     /\ Acs!AllTriesUsed'
  BY Zenon DEF Acs!TriesInv
<1>0. /\ Acs!CallInv /\ acsR \in Acs!Row /\ acsUpd \in Acs!Row /\ acsR.attempt \in Nat
      /\ RetryAttempts \in Nat /\ acsN \in Nat /\ posts \in Nat
      /\ acsR.attempt <= RetryAttempts + 1
      /\ acsR.state \in {"queued", "working"} => acsR.attempt <= RetryAttempts
      /\ acsCtx' # "expired"
  BY RetryAttemptsAssumption
    DEF Acs!IInv, Acs!Typed, Acs!PostInv, Acs!DeadlineCoversRetries, Acs!Row
<1>c. Charged \in Nat
  BY <1>0, Product
<1>1. acsFaults = 0
  <2>1. acsFaults' = acsFaults \/ acsFaults' = acsFaults + 1
    BY Zenon
      DEF Acs!Next, Acs!vars, Acs!BeginSubmit, Acs!BeginPoll, Acs!SubmittedTimeout, Acs!SubmitOnce,
          Acs!Backoff, Acs!BackoffCanceled, Acs!Poll, Acs!FinalizeRecord, Acs!Idle,
          Acs!OperationEnds, Acs!Shutdown, Acs!Fault, Acs!Exit, Acs!Crash, Acs!Restart
  <2>2. acsFaults \in Nat
    BY DEF Acs!IInv, Acs!Typed
  <2>. QED
    BY <2>1, <2>2
<1>2. /\ acsProc = "running" /\ acsCtx # "canceled"
      /\ acsR.state = "queued" => posts = Charged
      /\ acsPc = "posting" => posts = Charged + (acsN - 1)
      /\ acsPc = "backoff" => posts = Charged + acsN
      /\ acsPc = "final" /\ acsR.state = "working" =>
           \/ acsUpd = Acs!afterSubmit(acsR, "temporary") /\ posts = Charged + RetryAttempts
           \/ acsUpd.state # "queued" /\ ~Acs!Retryable(acsLast)
      /\ acsR.state = "dead-letter" /\ Acs!Retryable(acsLast) =>
           acsR.attempt = RetryAttempts + 1 /\ posts = RetryAttempts * (RetryAttempts + 1)
  BY <1>1, Zenon DEF Acs!TriesInv, Acs!AllTriesUsed
<1>3. CASE UNCHANGED <<acsR, acsProc, acsPc, acsN, acsCtx, acsUpd, posts, acsLast>>
  BY <1>2, <1>3, Zenon DEF Acs!AllTriesUsed
<1>4. CASE Acs!BeginSubmit
  <2>1. /\ acsR'.state = "working" /\ acsR'.attempt = acsR.attempt /\ acsR.state = "queued"
        /\ acsPc' = "posting" /\ acsN' = 1 /\ acsCtx' = "live" /\ UNCHANGED <<acsProc, posts>>
    BY <1>0, <1>4, AcsMoves DEF Acs!BeginSubmit, Acs!Call
  <2>2. posts' = Charged' + (acsN' - 1)
    BY <1>2, <1>c, <2>1
  <2>. QED
    BY <1>2, <2>1, <2>2 DEF Acs!AllTriesUsed
<1>5. CASE Acs!BeginPoll \/ Acs!SubmittedTimeout \/ \E o \in Acs!Outcomes : Acs!Poll(o)
  <2>1. acsR.state = "submitted" /\ acsPc' \in {"polling", "final"} /\ UNCHANGED <<acsR, acsProc, posts>>
    BY <1>0, <1>5
      DEF Acs!BeginPoll, Acs!SubmittedTimeout, Acs!Poll, Acs!Call, Acs!CallInv
  <2>2. acsCtx' # "canceled"
    BY <1>2, <1>5, Zenon DEF Acs!BeginPoll, Acs!SubmittedTimeout, Acs!Poll, Acs!Call, Acs!call, Acs!Wait
  <2>. QED
    BY <1>2, <2>1, <2>2 DEF Acs!AllTriesUsed
<1>6. ASSUME NEW o \in Acs!Outcomes, Acs!SubmitOnce(o)
      PROVE  /\ acsProc' = "running" /\ acsCtx' # "canceled"
             /\ acsR'.state = "queued" => posts' = Charged'
             /\ acsPc' = "posting" => posts' = Charged' + (acsN' - 1)
             /\ acsPc' = "backoff" => posts' = Charged' + acsN'
             /\ acsPc' = "final" /\ acsR'.state = "working" =>
                  \/ acsUpd' = Acs!afterSubmit(acsR', "temporary") /\ posts' = Charged' + RetryAttempts
                  \/ acsUpd'.state # "queued" /\ ~Acs!Retryable(acsLast')
             /\ Acs!AllTriesUsed'
  <2>1. acsPc = "posting" /\ acsLast' = o /\ UNCHANGED <<acsR, acsProc, acsN>>
    BY <1>6, Zenon DEF Acs!SubmitOnce
  <2>2. acsR.state = "working" /\ Charged' = Charged /\ posts = Charged + (acsN - 1)
    BY <1>0, <1>2, <2>1, Zenon DEF Acs!CallInv
  <2>3. acsCtx' # "canceled"
    BY <1>2, <1>6, Zenon DEF Acs!SubmitOnce, Acs!Wait
  <2>4. CASE Acs!Retryable(o)
    <3>1. posts' = posts + 1 /\ o # "answered"
      BY <1>6, <2>4, Zenon DEF Acs!SubmitOnce, Acs!Retryable
    <3>2. posts' = Charged + acsN
      <4>. HIDE DEF Charged
      <4>. QED
        BY <1>0, <1>c, <2>2, <3>1
    <3>3. acsN <= RetryAttempts
      BY <2>1, Zenon DEF Acs!IInv, Acs!PostInv
    <3>4. CASE acsN < RetryAttempts
      <4>1. acsN # RetryAttempts
        BY <1>0, <3>4
      <4>2. acsPc' = "backoff"
        BY <1>6, <2>4, <3>1, <3>4, <4>1, Zenon DEF Acs!SubmitOnce
      <4>. QED
        BY <1>2, <2>1, <2>2, <2>3, <3>2, <4>2 DEF Acs!AllTriesUsed
    <3>5. CASE acsN = RetryAttempts
      <4>1. ~(acsN < RetryAttempts)
        BY <1>0, <3>5
      <4>2. acsPc' = "final" /\ acsUpd' = Acs!afterSubmit(acsR, "temporary")
        BY <1>6, <2>4, <3>1, <3>5, <4>1, Zenon DEF Acs!SubmitOnce, Acs!SubmitReturns
      <4>. QED
        BY <1>2, <2>1, <2>2, <2>3, <3>2, <3>5, <4>2 DEF Acs!AllTriesUsed
    <3>. QED
      BY <1>0, <3>3, <3>4, <3>5
  <2>5. CASE ~Acs!Retryable(o)
    <3>1. acsPc' = "final"
          /\ (acsUpd' = Acs!afterSubmit(acsR, "running") \/ acsUpd' = Acs!afterSubmit(acsR, "permanent"))
      BY <1>6, <2>5, Zenon DEF Acs!SubmitOnce, Acs!SubmitReturns
    <3>2. acsUpd'.state # "queued"
      BY <1>0, <2>2, <3>1, AcsOutOfRetries
    <3>. QED
      BY <1>2, <2>1, <2>2, <2>3, <2>5, <3>1, <3>2 DEF Acs!AllTriesUsed
  <2>. QED
    BY <2>4, <2>5
<1>7. CASE Acs!Backoff
  <2>1. /\ acsPc = "backoff" /\ acsPc' = "posting" /\ acsN' = acsN + 1
        /\ UNCHANGED <<acsR, acsProc, posts>>
    BY <1>0, <1>7, Zenon DEF Acs!Backoff
  <2>2. acsR.state = "working" /\ Charged' = Charged /\ posts = Charged + acsN
    BY <1>0, <1>2, <2>1, Zenon DEF Acs!CallInv
  <2>3. acsCtx' # "canceled"
    BY <1>2, <1>7, Zenon DEF Acs!Backoff, Acs!Wait
  <2>4. posts' = Charged' + (acsN' - 1)
    BY <1>0, <1>c, <2>1, <2>2
  <2>. QED
    BY <1>2, <2>1, <2>2, <2>3, <2>4 DEF Acs!AllTriesUsed
<1>8. CASE Acs!FinalizeRecord
  <2>1. acsR' = acsUpd /\ acsPc = "final" /\ acsPc' = "idle" /\ UNCHANGED <<acsProc, acsCtx, posts, acsLast>>
    BY <1>8 DEF Acs!FinalizeRecord, Acs!call
  <2>2. CASE acsR.state = "submitted"
    <3>1. /\ acsUpd.state \in {"submitted", "succeeded", "dead-letter"}
          /\ acsUpd.state = "dead-letter" => ~Acs!Retryable(acsLast)
      BY <1>0, <2>1, <2>2 DEF Acs!CallInv, Acs!EndsPoll, Acs!Retryable
    <3>. QED
      BY <1>2, <2>1, <3>1 DEF Acs!AllTriesUsed
  <2>3. CASE acsR.state # "submitted"
    <3>1. acsR.state = "working" /\ acsUpd.attempt = acsR.attempt + 1
          /\ acsUpd.state \in {"submitted", "queued", "dead-letter"}
      BY <1>0, <2>1, <2>3, AcsAfterSubmit DEF Acs!CallInv
    <3>2. Charged' = Charged + RetryAttempts
      BY <1>0, <2>1, <3>1, Product
    <3>3. CASE acsUpd.state # "queued" /\ ~Acs!Retryable(acsLast)
      BY <1>2, <2>1, <3>1, <3>3 DEF Acs!AllTriesUsed
    <3>4. CASE acsUpd = Acs!afterSubmit(acsR, "temporary") /\ posts = Charged + RetryAttempts
      <4>1. acsUpd.state = "dead-letter" => acsR.attempt = RetryAttempts
        <5>1. acsUpd.state = "dead-letter" => ~(acsR.attempt < RetryAttempts)
          BY <1>0, <3>1, <3>4, AcsOutOfRetries, Zenon
        <5>. QED
          BY <1>0, <3>1, <5>1
      <4>2. acsUpd.state = "dead-letter" =>
              acsUpd.attempt = RetryAttempts + 1 /\ posts' = RetryAttempts * (RetryAttempts + 1)
        <5>1. RetryAttempts * (RetryAttempts + 1) = RetryAttempts * RetryAttempts + RetryAttempts
          BY <1>0, Product
        <5>. QED
          BY <2>1, <3>1, <3>4, <4>1, <5>1
      <4>. QED
        BY <1>2, <2>1, <3>1, <3>2, <3>4, <4>2 DEF Acs!AllTriesUsed
    <3>. QED
      BY <1>2, <2>1, <3>1, <3>3, <3>4
  <2>. QED
    BY <2>2, <2>3
<1>9. ~Acs!BackoffCanceled /\ ~Acs!Shutdown /\ ~Acs!Crash /\ ~Acs!Exit /\ ~Acs!Restart
  BY <1>1, <1>2 DEF Acs!BackoffCanceled, Acs!Shutdown, Acs!Crash, Acs!Exit, Acs!Restart, Acs!Fault
<1>10. CASE Acs!Idle \/ Acs!OperationEnds \/ UNCHANGED Acs!vars
  BY <1>3, <1>10, Zenon DEF Acs!Idle, Acs!OperationEnds, Acs!vars, Acs!call
<1>. QED
  BY <1>4, <1>5, <1>6, <1>7, <1>8, <1>9, <1>10, Zenon DEF Acs!Next

\* Whatever provider is built, and for all retry settings whose timeout did not saturate: as
\* long as nothing is shut down or dies, no mail is given up for a temporary failure (429 and
\* 5xx, with ACS a failed exchange too) before the worker's attempts, and with ACS every try
\* of every one of them, have been made.
THEOREM TriesUsed ==
  ASSUME Deadline < MaxDuration
  PROVE  MCSpec => []AllTriesAreUsed
<1>1. Init => TriesInv
  BY DEF Init, TriesInv, AllTriesUsed, Queued0, Foreign0, row
<1>2. Acs!Init => Acs!TriesInv
  <2>. SUFFICES ASSUME Acs!Init PROVE Acs!TriesInv
    OBVIOUS
  <2>1. acsR.state = "queued" /\ acsR.attempt = 0
    BY DEF Acs!Init, Acs!Queued0, Acs!row
  <2>2. RetryAttempts * acsR.attempt = 0
    BY <2>1, RetryAttemptsAssumption
  <2>. QED
    BY <2>1, <2>2 DEF Acs!Init, Acs!TriesInv, Acs!AllTriesUsed
<1>3. TriesInv => AllTriesUsed
  BY Zenon DEF TriesInv, AllTriesUsed
<1>4. Acs!TriesInv => Acs!AllTriesUsed
  BY Zenon DEF Acs!TriesInv, Acs!AllTriesUsed
<1>5. Spec => []AllTriesUsed
  <2>1. Spec => []DeadlineCoversRetries
    BY SesDeadline
  <2>. QED
    BY <1>1, <1>3, <2>1, TriesStep, Invariance, SendInvariance, PTL DEF Spec
<1>6. Acs!Spec => []Acs!AllTriesUsed
  <2>1. Acs!Spec => []Acs!DeadlineCoversRetries
    BY AcsDeadline
  <2>. QED
    BY <1>2, <1>4, <2>1, AcsTriesStep, AcsInvariance, PTL DEF Acs!Spec
<1>7. AllTriesUsed /\ Acs!AllTriesUsed => AllTriesAreUsed
  BY Zenon DEF AllTriesAreUsed
<1>. QED
  BY <1>5, <1>6, <1>7, EachProvider, PTL
-----------------------------------------------------------------------------
(* The timeout of a call in closed form. *)

\* multiplyDuration, which divides to see whether the product fits, caps the exact product.
LEMMA CappedProduct ==
  ASSUME NEW d \in Nat, NEW k \in Nat \ {0}
  PROVE  multiplyDuration(d, k) = atMost(d * k)
<1>. DEFINE q == MaxDuration \div k
<1>1. MaxDuration \in Nat
  BY DurationAssumption
<1>2. q \in Nat /\ k * q <= MaxDuration /\ MaxDuration < k * q + k
  BY <1>1
<1>3. k * (q + 1) = k * q + k /\ k * q \in Nat /\ d * k = k * d /\ k * d \in Nat
  BY <1>2, Product
<1>. HIDE DEF q
<1>4. CASE d > q
  <2>1. k * (q + 1) <= k * d
    BY <1>2, <1>4, ProductGrows
  <2>2. ~ (k * d < MaxDuration)
    BY <1>1, <1>2, <1>3, <2>1
  <2>3. multiplyDuration(d, k) = MaxDuration
    BY <1>4, Zenon DEF multiplyDuration, q
  <2>. QED
    BY <1>3, <2>2, <2>3, Zenon DEF atMost
<1>5. CASE ~ (d > q)
  <2>1. k * d <= k * q
    BY <1>2, <1>5, ProductGrows
  <2>2. k * d <= MaxDuration
    BY <1>1, <1>2, <1>3, <2>1
  <2>3. multiplyDuration(d, k) = d * k
    BY <1>5, Zenon DEF multiplyDuration, q
  <2>. QED
    BY <1>1, <1>3, <2>2, <2>3 DEF atMost
<1>. QED
  BY <1>4, <1>5, Zenon

\* All the delays of a call in closed form: base, 2 * base, 4 * base, ... without the last.
LEMMA CappedTotal ==
  ASSUME NEW base \in Nat, NEW m \in Nat \ {0}
  PROVE  retryBackoffTotal(base, m) = atMost(base * (PowerOfTwo[m - 1] - 1))
<1>. DEFINE D(i) == retryBackoffTotal(base, i)
            P(i) == PowerOfTwo[i]
            E == {i \in Nat : D(i + 1) = atMost(base * (P(i) - 1))}
<1>1. 0 \in E
  <2>1. D(0 + 1) = 0
    BY TotalStep, 1 \in Nat \ {0}, 0 + 1 = 1, Zenon
  <2>2. P(0) = 1 /\ base * (1 - 1) = 0
    BY Powers, 0 \in Nat
  <2>3. atMost(0) = 0
    BY DurationAssumption DEF atMost
  <2>. QED
    BY <2>1, <2>2, <2>3, 0 \in Nat, Zenon
<1>2. ASSUME NEW i \in Nat, i \in E PROVE i + 1 \in E
  <2>. DEFINE b == retryBackoff(base, i + 1)
  <2>1. i + 1 \in Nat \ {0} /\ i + 1 \in Nat /\ (i + 1) - 1 = i
    OBVIOUS
  <2>2. /\ D(i + 1) \in Nat /\ D((i + 1) + 1) = saturatingAdd(D(i + 1), b)
        /\ b \in Nat /\ atMost(b) = atMost(base * P(i))
    BY <2>1, TotalStep, BackoffNat, Zenon
  <2>3. P(i) \in Nat \ {0} /\ P(i + 1) = 2 * P(i)
    BY Powers, Zenon
  <2>4. D(i + 1) = atMost(base * (P(i) - 1))
    BY <1>2, Zenon
  <2>. HIDE DEF D, P, b
  <2>. DEFINE x == base * (P(i) - 1)
              y == base * P(i)
  <2>5. x \in Nat /\ y \in Nat /\ x + y = base * (P(i + 1) - 1)
    <3>1. P(i) - 1 \in Nat /\ (P(i + 1) - 1) = (P(i) - 1) + P(i)
      BY <2>3
    <3>. QED
      BY <2>3, <3>1
  <2>. HIDE DEF x, y
  <2>6. atMost(D(i + 1)) = atMost(x)
    BY <2>4, <2>5, Capped, Zenon DEF x
  <2>7. atMost(D(i + 1) + b) = atMost(x + y)
    <3>1. atMost(b) = atMost(y) /\ b \in Nat /\ D(i + 1) \in Nat
      BY <2>2, Zenon DEF y
    <3>2. x \in Nat /\ y \in Nat
      BY <2>5, Zenon
    <3>. QED
      BY <2>6, <3>1, <3>2, DurationAssumption DEF atMost
  <2>8. D((i + 1) + 1) = atMost(base * (P(i + 1) - 1))
    BY <2>2, <2>5, <2>7, CappedSteps, Zenon
  <2>. QED
    BY <2>1, <2>8, Zenon
<1>3. Nat \subseteq E
  <2>. HIDE DEF E
  <2>. QED
    BY <1>1, <1>2, SetInduction, Zenon
<1>4. m - 1 \in Nat /\ (m - 1) + 1 = m
  OBVIOUS
<1>. QED
  BY <1>3, <1>4, Zenon

\* runtimeSendTimeout is the exact time of the requests and delays plus the grace, capped at
\* the largest duration, for all settings: capping in each step of the sum loses nothing.
THEOREM TimeoutExact == MCSpec => []SendTimeoutIsExact
<1>1. ASSUME NEW http \in Nat, NEW base \in Nat, NEW attempts \in Nat \ {0}
      PROVE  runtimeSendTimeout(http, base, attempts)
               = atMost(http * attempts + base * (PowerOfTwo[attempts - 1] - 1) + Grace)
  <2>. DEFINE M == multiplyDuration(http, attempts)
              D == retryBackoffTotal(base, attempts)
              x == http * attempts
              y == base * (PowerOfTwo[attempts - 1] - 1)
  <2>1. x \in Nat /\ y \in Nat /\ Grace \in Nat
    <3>1. PowerOfTwo[attempts - 1] \in Nat \ {0}
      BY Powers, attempts - 1 \in Nat, Zenon
    <3>. QED
      BY <3>1, DurationAssumption
  <2>2. M = atMost(x) /\ D = atMost(y)
    BY CappedProduct, CappedTotal, Zenon
  <2>3. runtimeSendTimeout(http, base, attempts) = saturatingAdd(saturatingAdd(M, D), Grace)
    BY Zenon DEF runtimeSendTimeout
  <2>. HIDE DEF M, D, x, y
  <2>4. M \in Nat /\ D \in Nat /\ atMost(M) = atMost(x) /\ atMost(D) = atMost(y)
    BY <2>1, <2>2, Capped, Zenon
  <2>5. saturatingAdd(M, D) = atMost(x + y)
    <3>1. atMost(M + D) = atMost(x + y)
      BY <2>1, <2>4, DurationAssumption DEF atMost
    <3>. QED
      BY <2>4, <3>1, CappedSteps, Zenon
  <2>6. x + y \in Nat
    BY <2>1
  <2>7. atMost(x + y) \in Nat /\ atMost(atMost(x + y)) = atMost(x + y)
    BY <2>6, Capped, Zenon
  <2>8. atMost(atMost(x + y) + Grace) = atMost((x + y) + Grace)
    BY <2>1, <2>6, DurationAssumption DEF atMost
  <2>9. saturatingAdd(atMost(x + y), Grace) = atMost(atMost(x + y) + Grace)
    BY <2>1, <2>7, CappedSteps, Zenon
  <2>. QED
    BY <2>3, <2>5, <2>8, <2>9, Zenon DEF x, y
<1>2. SendTimeoutIsExact
  <2>1. \A j : (\A k \in 1..j : k \in Nat /\ k \in Nat \ {0})
    OBVIOUS
  <2>. QED
    BY <1>1, <2>1, Zenon DEF SendTimeoutIsExact
<1>. QED
  BY <1>2, PTL
=============================================================================
