--------------------------- MODULE ScheduleProofs ---------------------------
(***************************************************************************)
(* The theorems about Schedule: how late the worker can be for a due       *)
(* record, how long a record stays submitted, how long a clock set back    *)
(* keeps the process down.                                                 *)
(*                                                                         *)
(* A record's turn is counted down: TurnInv says that the rounds still to  *)
(* come before it, at the most they can take, fit into what is left of its *)
(* bound. A round takes the first due record of each queue away from       *)
(* before it, the clock uses the bound up. The steps of the worker are in  *)
(* ScheduleSteps, those of the clock and what is used of the constants are *)
(* here.                                                                   *)
(***************************************************************************)
EXTENDS ScheduleSteps, TLAPS

-----------------------------------------------------------------------------
(* Steps that move the clock. *)

\* A row after the clock moved by d.
LEMMA MovedFacts ==
  ASSUME Measures, ScheduleTypes, NEW r \in Ids, NEW d \in Int
  PROVE  /\ Moved(r, d) \in Row /\ Moved(r, d).state = State(r)
         /\ Live(r) =>
              /\ Moved(r, d).due =
                   IF Due(r) - d >= -Overdue THEN Due(r) - d ELSE -Overdue
              /\ Moved(r, d).born =
                   IF Born(r) - d >= -MaxStepBack THEN Born(r) - d ELSE -MaxStepBack
              /\ State(r) = "submitted" => Moved(r, d).since <= Since(r) + d
<1>1. /\ rows[r] \in Row /\ Due(r) \in Int /\ Born(r) \in Int /\ Since(r) \in Int
  BY Zenon DEF ScheduleTypes, Row, Due, Born, Since
<1>2. CASE ~Live(r)
  BY <1>1, <1>2, Zenon DEF Moved, Live, State
<1>3. CASE Live(r)
  <2>. DEFINE due == Max({Due(r) - d, -Overdue})
              born == Max({Born(r) - d, -MaxStepBack})
              since == IF State(r) = "submitted" THEN Min({Since(r) + d, Aged}) ELSE 0
              r1 == [rows[r] EXCEPT !.due = due]
              r2 == [r1 EXCEPT !.born = born]
              r3 == [r2 EXCEPT !.since = since]
  <2>1. Moved(r, d) = r3
    <3>1. State(r) \notin {"none", "final"}
      BY <1>3, Zenon DEF Live
    <3>. QED
      BY <3>1, Zenon DEF Moved, State, Due, Born, Since
  <2>2. /\ due \in Int
        /\ due = IF Due(r) - d >= -Overdue THEN Due(r) - d ELSE -Overdue
    BY <1>1, MaxMin2, Due(r) - d \in Int, -Overdue \in Int, SMTT(30)
      DEF Measures, Sizes, OverdueSize
  <2>3. /\ born \in Int
        /\ born = IF Born(r) - d >= -MaxStepBack THEN Born(r) - d ELSE -MaxStepBack
    BY <1>1, MaxMin2, Born(r) - d \in Int, -MaxStepBack \in Int DEF Measures, Sizes, BackSize
  <2>4. since \in Int /\ (State(r) = "submitted" => since <= Since(r) + d)
    <3>1. Aged \in Int /\ Since(r) + d \in Int
      BY <1>1 DEF Measures, Sizes, BackSize, AfterSize, TurnSize, Aged
    <3>2. Min({Since(r) + d, Aged}) =
            IF Since(r) + d <= Aged THEN Since(r) + d ELSE Aged
      BY <3>1, MaxMin2, Zenon
    <3>. QED
      BY <3>1, <3>2
  <2>. HIDE DEF due, born, since
  <2>5. r1 \in Row /\ r1.state = State(r) /\ r1.due = due
    BY <1>1, <2>2, Zenon DEF Row, State
  <2>6. r2 \in Row /\ r2.state = State(r) /\ r2.due = due /\ r2.born = born
    <3>. HIDE DEF r1
    <3>. QED
      BY <2>3, <2>5, Zenon DEF Row
  <2>7. r3 \in Row /\ r3.state = State(r) /\ r3.due = due /\ r3.born = born /\ r3.since = since
    <3>. HIDE DEF r2
    <3>. QED
      BY <2>4, <2>6, Zenon DEF Row
  <2>. HIDE DEF r3
  <2>. QED
    BY <2>1, <2>2, <2>3, <2>4, <2>7, Zenon
<1>. QED
  BY <1>2, <1>3, Zenon

\* What a clock that moves by d does to the invariant's names: every wait grows by
\* d, the order of the queries stays, and the creations come nearer by d.
Shifted(d) ==
  /\ rows' \in [Ids -> Row]
  /\ \A r \in Ids :
       /\ State(r)' = State(r)
       /\ State(r) \in {"queued", "submitted"} =>
            Age(r)' = Age(r) + d /\ Before(r)' = Before(r) /\ Wait(r)' <= Wait(r) + d
       /\ State(r) = "submitted" =>
            Late(r)' <= Late(r) + d /\ Since(r)' <= Since(r) + d
       /\ State(r) = "working" => Age(r)' = Age(r) + d \/ Age(r)' = Overdue
       /\ Live(r) =>
            \/ Born(r)' = Born(r) - d /\ Due(r)' >= Due(r) - d
            \/ Born(r)' = -MaxStepBack
  /\ \A b \in Leads' : b \in Int /\ (b <= 0 \/ \E a \in Leads : b <= a - d)

\* Moved does this, because no date of a queued or submitted record is as far back as
\* Overdue, where counting stops.
LEMMA ClockShifts ==
  ASSUME Measures, IInv, NEW d \in Int, d <= 1, rows' = [r \in Ids |-> Moved(r, d)]
  PROVE  Shifted(d)
<1>. USE DEF IInv
<1>1. \A r \in Ids : rows'[r] = Moved(r, d)
  BY Zenon
<1>2. rows' \in [Ids -> Row]
  BY MovedFacts, Zenon
<1>3. \A r \in Ids : /\ Due(r) \in Int /\ Born(r) \in Int /\ Since(r) \in Int
                     /\ Due(r)' \in Int /\ Born(r)' \in Int /\ Since(r)' \in Int
  BY <1>2, Zenon DEF ScheduleTypes, Row, Due, Born, Since
<1>4. ASSUME NEW r \in Ids
      PROVE  /\ State(r)' = State(r)
             /\ Live(r) =>
                  /\ Due(r)' =
                       IF Due(r) - d >= -Overdue THEN Due(r) - d ELSE -Overdue
                  /\ Born(r)' =
                       IF Born(r) - d >= -MaxStepBack THEN Born(r) - d ELSE -MaxStepBack
                  /\ State(r) = "submitted" => Since(r)' <= Since(r) + d
  BY <1>1, MovedFacts, Zenon DEF State, Due, Born, Since
<1>5. ASSUME NEW r \in Ids, State(r) \in {"queued", "submitted"}
      PROVE  Due(r)' = Due(r) - d
  <2>1. /\ Wait(r) <= Turn + stepped + SubmitTimeout /\ RecordFacts(r)
        /\ stepped \in Int /\ stepped <= MaxStepBack
    BY <1>5, InTime, Facts DEF ScheduleTypes
  <2>2. Due(r) - d >= -Overdue
    BY <1>3, <2>1
      DEF Measures, Sizes, CallSize, BackSize, TurnSize, OverdueSize, RecordFacts, Typed, Ages,
          Waits
  <2>3. Live(r)
    BY <1>5, Zenon DEF Live
  <2>. QED
    BY <1>4, <2>2, <2>3, Zenon
<1>6. ASSUME NEW r \in Ids, State(r) \in {"queued", "submitted"}
      PROVE  Age(r)' = Age(r) + d /\ Before(r)' = Before(r)
  <2>1. Age(r)' = Age(r) + d
    BY <1>3, <1>5, <1>6 DEF Age
  <2>2. ASSUME NEW s \in Ids PROVE s \in Before(r)' <=> s \in Before(r)
    <3>1. CASE State(s) = State(r)
      <4>1. Due(s)' = Due(s) - d /\ Due(r)' = Due(r) - d
        BY <1>5, <1>6, <3>1, Zenon
      <4>. QED
        BY <1>3, <1>4, <3>1, <4>1 DEF Before
    <3>2. CASE State(s) # State(r)
      BY <1>4, <3>2, Zenon DEF Before
    <3>. QED
      BY <3>1, <3>2, Zenon
  <2>. QED
    BY <2>1, <2>2, Zenon DEF Before
<1>7. ASSUME NEW r \in Ids, State(r) = "submitted"
      PROVE  Late(r)' <= Late(r) + d /\ Since(r)' <= Since(r) + d
  <2>1. Since(r)' <= Since(r) + d
    BY <1>4, <1>7, Zenon DEF Live
  <2>. QED
    BY <1>3, <2>1 DEF Measures, Sizes, AfterSize, Late
<1>8. ASSUME NEW r \in Ids, State(r) \in {"queued", "submitted"} PROVE Wait(r)' <= Wait(r) + d
  <2>1. Age(r) \in Int /\ Late(r) \in Int /\ Age(r)' \in Int /\ Late(r)' \in Int
    BY <1>3 DEF Measures, Sizes, AfterSize, Age, Late
  <2>2. Age(r)' = Age(r) + d /\ (State(r) = "submitted" => Late(r)' <= Late(r) + d)
    BY <1>6, <1>7, <1>8, Zenon
  <2>3. State(r)' = State(r)
    BY <1>4, Zenon
  <2>. QED
    BY <2>1, <2>2, <2>3 DEF Wait
<1>9. ASSUME NEW r \in Ids, State(r) = "working"
      PROVE  Age(r)' = Age(r) + d \/ Age(r)' = Overdue
  <2>1. Live(r)
    BY <1>9, Zenon DEF Live
  <2>. QED
    BY <1>3, <1>4, <2>1 DEF Measures, Sizes, OverdueSize, Age
<1>10. ASSUME NEW r \in Ids, Live(r)
       PROVE  \/ Born(r)' = Born(r) - d /\ Due(r)' >= Due(r) - d
              \/ Born(r)' = -MaxStepBack
  BY <1>3, <1>4, <1>10 DEF Measures, Sizes
<1>11. ASSUME NEW b \in Leads' PROVE b \in Int /\ (b <= 0 \/ \E a \in Leads : b <= a - d)
  <2>1. CASE b = 0
    BY <2>1
  <2>2. ASSUME NEW r \in Ids, Live(r)', b = Born(r)'
        PROVE  b \in Int /\ (b <= 0 \/ \E a \in Leads : b <= a - d)
    <3>1. Live(r) /\ Born(r) \in Leads
      BY <1>4, <2>2, Zenon DEF Live, Leads
    <3>2. b = Born(r) - d \/ b = -MaxStepBack
      BY <1>10, <2>2, <3>1, Zenon
    <3>. QED
      BY <1>3, <2>2, <3>1, <3>2 DEF Measures, Sizes, BackSize
  <2>. QED
    BY <1>11, <2>1, <2>2, Zenon DEF Leads
<1>. QED
  BY <1>2, <1>4, <1>6, <1>7, <1>8, <1>9, <1>10, <1>11, Zenon DEF Shifted

\* Lateness while the clock moves: late records stay late by what they were, the
\* others are not late before they are due.
LEMMA LateShifts ==
  ASSUME Measures, IInv, NEW d \in Int, Shifted(d), ScheduleTypes',
         stepped' >= stepped /\ stepped' >= stepped - d
  PROVE  LateInv'
<1>. USE DEF IInv
<1>. SUFFICES ASSUME NEW r \in Ids, State(r)' = "submitted"
              PROVE  /\ Late(r)' - Age(r)' <= stepped'
                     /\ \A b \in Leads' : \/ Late(r)' + b <= stepped'
                                          \/ Age(r)' > 0 /\ Late(r)' - Age(r)' + b <= stepped'
  BY Zenon DEF LateInv
<1>1. /\ State(r) = "submitted" /\ Age(r)' = Age(r) + d /\ Late(r)' <= Late(r) + d
  BY Zenon DEF Shifted
<1>2. /\ Age(r) \in Int /\ Late(r) \in Int /\ Age(r)' \in Int /\ Late(r)' \in Int
      /\ stepped \in Int /\ stepped' \in Int
  BY Facts, FactsNext DEF RecordFacts, Typed, ScheduleTypes
<1>3. Late(r) - Age(r) <= stepped
  BY <1>1, Zenon DEF LateInv
<1>4. Late(r)' - Age(r)' <= Late(r) - Age(r)
  BY <1>1, <1>2
<1>5. ASSUME NEW b \in Leads'
      PROVE  Late(r)' + b <= stepped' \/ (Age(r)' > 0 /\ Late(r)' - Age(r)' + b <= stepped')
  <2>1. b \in Int /\ (b <= 0 \/ \E a \in Leads : b <= a - d)
    BY <1>5, Zenon DEF Shifted
  <2>2. CASE b <= 0
    BY <1>2, <1>3, <1>4, <2>1, <2>2
  <2>3. ASSUME NEW a \in Leads, b <= a - d
        PROVE  Late(r)' + b <= stepped' \/ (Age(r)' > 0 /\ Late(r)' - Age(r)' + b <= stepped')
    <3>1. a \in Int /\ (Late(r) + a <= stepped \/ (Age(r) > 0 /\ Late(r) - Age(r) + a <= stepped))
      BY <1>1, LeadsFacts, Zenon DEF LateInv, LeadsBounded, LeadsTyped
    <3>. QED
      BY <1>1, <1>2, <1>4, <2>1, <2>3, <3>1
  <2>. QED
    BY <2>1, <2>2, <2>3, Zenon
<1>. QED
  BY <1>2, <1>3, <1>4, <1>5

\* The creations while the clock moves.
LEMMA BirthsShift ==
  ASSUME Measures, IInv, NEW d \in Int, Shifted(d), stepped' \in Int,
         stepped' >= stepped /\ stepped' >= stepped - d
  PROVE  \A r \in Ids :
           Live(r)' => Born(r)' <= Due(r)' \/ Born(r)' <= stepped' - MaxStepBack
<1>. SUFFICES ASSUME NEW r \in Ids, Live(r)'
              PROVE  Born(r)' <= Due(r)' \/ Born(r)' <= stepped' - MaxStepBack
  BY Zenon
<1>1. /\ Due(r) \in Int /\ Born(r) \in Int /\ Due(r)' \in Int
      /\ Born(r)' \in Int /\ stepped \in Int /\ stepped >= 0
  BY DEF IInv, Shifted, ScheduleTypes, Row, Due, Born
<1>2. Live(r)
  BY Zenon DEF Shifted, Live
<1>3. Born(r) <= Due(r) \/ Born(r) <= stepped - MaxStepBack
  BY <1>2, Zenon DEF IInv, ClockInv
<1>4. \/ Born(r)' = Born(r) - d /\ Due(r)' >= Due(r) - d
      \/ Born(r)' = -MaxStepBack
  BY <1>2, Zenon DEF Shifted
<1>. QED
  BY <1>1, <1>3, <1>4 DEF Measures, Sizes, BackSize

\* Time passes during a call or the sleep.
LEMMA TickCallStep ==
  ASSUME Measures, IInv, wpc \in {"poll", "submit", "sleep"}, left > 0, left' = left - 1,
         lag' = IF wpc = "sleep" THEN lag ELSE lag + 1,
         Shifted(1), UNCHANGED <<wpc, cur, worked, stepped, downFor>>
  PROVE  IInv'
<1>. USE DEF IInv
<1>1. /\ wpc' = wpc /\ cur' = cur /\ worked' = worked /\ stepped' = stepped /\ downFor' = downFor
      /\ stepped \in Int /\ stepped >= 0 /\ lag \in Int /\ left \in Int /\ left > 0 /\ downFor = 0
  BY DEF ScheduleTypes, WorkerInv
<1>2. lag' \in Int /\ (wpc # "sleep" => lag' = lag + 1)
  BY <1>1
<1>3. ScheduleTypes'
  BY <1>1, <1>2 DEF ScheduleTypes, Shifted
<1>4. LeadsBounded /\ \A r \in Ids : RecordFacts(r) /\ RecordFacts(r)'
  BY <1>3, Facts, FactsNext, LeadsFacts, Zenon
<1>5. \A b \in Leads' : b \in Int /\ \E a \in Leads : a \in Int /\ b <= a
  <2>1. ASSUME NEW b \in Leads' PROVE b \in Int /\ \E a \in Leads : a \in Int /\ b <= a
    <3>1. b \in Int /\ (b <= 0 \/ \E a \in Leads : b <= a - 1)
      BY <2>1, Zenon DEF Shifted
    <3>. QED
      BY <1>4, <3>1 DEF LeadsBounded, LeadsTyped
  <2>. QED
    BY <2>1, Zenon
<1>6. LateInv'
  BY <1>1, <1>3, LateShifts
<1>7. ClockInv'
  <2>1. ASSUME NEW b \in Leads', b > 0 PROVE b + downFor' <= stepped'
    <3>1. PICK a \in Leads : a \in Int /\ b <= a /\ b \in Int
      BY <1>5, <2>1, Zenon
    <3>2. a + downFor <= stepped
      BY <2>1, <3>1 DEF ClockInv
    <3>. QED
      BY <1>1, <3>1, <3>2
  <2>. QED
    BY <1>1, <2>1, BirthsShift DEF ClockInv
<1>8. ASSUME NEW r \in Ids, State(r) \in {"queued", "submitted"}
      PROVE  /\ Age(r)' = Age(r) + 1 /\ Wait(r)' <= Wait(r) + 1 /\ Ahead(r)' = Ahead(r)
             /\ AheadHeld(r)' = AheadHeld(r) /\ (wpc # "sleep" => RoundAge(r)' = RoundAge(r))
             /\ Age(r) \in Int /\ Wait(r) \in Int /\ Wait(r)' \in Int
  <2>1. Age(r)' = Age(r) + 1 /\ Before(r)' = Before(r) /\ Wait(r)' <= Wait(r) + 1
    BY <1>8, Zenon DEF Shifted
  <2>2. RecordFacts(r) /\ RecordFacts(r)'
    BY <1>4, Zenon
  <2>3. wpc # "sleep" => RoundAge(r)' = RoundAge(r)
    BY <1>1, <1>2, <2>1, <2>2, SMTT(30) DEF RecordFacts, Typed, Ages
  <2>4. Ahead(r)' = Ahead(r) /\ AheadHeld(r)' = AheadHeld(r)
    BY <1>1, <2>1, Zenon DEF Ahead, AheadHeld
  <2>. QED
    BY <2>1, <2>2, <2>3, <2>4, Zenon DEF RecordFacts, Typed
<1>9. WorkerInv'
  <2>1. CASE wpc = "sleep"
    <3>1. cur' = {} /\ left' <= PollInterval
      BY <1>1, <2>1 DEF Measures, Sizes, PollSize, WorkerInv
    <3>. QED
      BY <1>1, <2>1, <3>1, Zenon DEF WorkerInv
  <2>2. CASE wpc = "poll"
    <3>1. PICK p \in Ids : /\ cur = {p} /\ RoundAge(p) >= 0 /\ left <= SubmitTimeout
                           /\ State(p) = "submitted"
                           /\ Since(p) - lag <= SubmittedTimeout
      BY <2>2, Zenon DEF WorkerInv
    <3>2. /\ cur' = {p} /\ RoundAge(p)' >= 0 /\ left' <= SubmitTimeout
          /\ State(p)' = "submitted" /\ Since(p)' - lag' <= SubmittedTimeout
      <4>1. State(p)' = "submitted" /\ Since(p)' <= Since(p) + 1
        BY <3>1, Zenon DEF Shifted
      <4>2. Since(p) \in Int /\ Since(p)' \in Int
        BY <1>3, Zenon DEF ScheduleTypes, Row, Since
      <4>. QED
        BY <1>1, <1>2, <1>8, <2>2, <3>1, <4>1, <4>2, SMTT(30)
          DEF Measures, Sizes, CallSize, AfterSize
    <3>3. lag' + left' <= SubmitTimeout /\ -lag' <= stepped'
      BY <1>1, <1>2, <2>2 DEF Measures, Sizes, WorkerInv
    <3>. QED
      BY <1>1, <2>2, <3>2, <3>3, Zenon DEF WorkerInv
  <2>3. CASE wpc = "submit"
    <3>1. PICK p \in Ids : /\ cur = {p} /\ RoundAge(p) >= 0 /\ left <= SubmitTimeout
                           /\ State(p) = "working"
      BY <2>3, Zenon DEF WorkerInv
    <3>2. lag + left <= 2 * SubmitTimeout /\ -lag <= stepped
      BY <2>3, Zenon DEF WorkerInv
    <3>3. /\ cur' = {p} /\ RoundAge(p)' >= 0 /\ left' <= SubmitTimeout /\ State(p)' = "working"
      <4>1. State(p)' = "working" /\ (Age(p)' = Age(p) + 1 \/ Age(p)' = Overdue)
        BY <3>1, Zenon DEF Shifted
      <4>2. RecordFacts(p) /\ RecordFacts(p)'
        BY <1>4, Zenon
      <4>. QED
        BY <1>1, <1>2, <2>3, <3>1, <3>2, <4>1, <4>2
          DEF Measures, Sizes, CallSize, PollSize, BackSize, TurnSize, OverdueSize, RecordFacts,
              Typed, Ages, Counted
    <3>4. lag' + left' = lag + left /\ -lag' <= stepped'
      BY <1>1, <1>2, <2>3, <3>2
    <3>5. ASSUME lag' + left' > SubmitTimeout
          PROVE  \E q \in Ids \ cur' : ~(State(q)' = "queued" /\ Age(q)' + left' > SubmitTimeout)
      <4>1. lag + left > SubmitTimeout
        BY <3>4, <3>5, Zenon
      <4>2. PICK q \in Ids \ cur : ~(State(q) = "queued" /\ Age(q) + left > SubmitTimeout)
        BY <2>3, <4>1, Zenon DEF WorkerInv
      <4>3. State(q)' = State(q)
        BY Zenon DEF Shifted
      <4>4. State(q) = "queued" => Age(q)' + left' = Age(q) + left
        BY <1>1, <1>8
      <4>. QED
        BY <1>1, <4>2, <4>3, <4>4, Zenon
    <3>6. lag' + left' <= 2 * SubmitTimeout
      BY <3>2, <3>4, Zenon
    <3>. QED
      BY <1>1, <2>3, <3>3, <3>4, <3>5, <3>6, Zenon DEF WorkerInv
  <2>. QED
    BY <2>1, <2>2, <2>3, Zenon
<1>10. ASSUME NEW r \in Ids, State(r)' = "queued" PROVE QueuedTurn(r)'
  <2>1. State(r) = "queued" /\ QueuedTurn(r)
    BY <1>10, Zenon DEF Shifted, TurnInv
  <2>2. ASSUME NEW w \in Int, NEW k, Rounds(k) \in Int, Room(w, k, Leads, stepped)
        PROVE  Room(w, k, Leads', stepped')
    BY <1>1, <1>5, <2>2 DEF Measures, Sizes, TurnSize, Room
  <2>3. RecordFacts(r)
    BY <1>4, Zenon
  <2>4. Age(r)' + left' = Age(r) + left
    BY <1>1, <1>8, <2>1
  <2>5. CASE wpc = "sleep"
    <3>1. Room(Age(r) + left + SubmitTimeout, Ahead(r), Leads', stepped')
      BY <1>1, <2>1, <2>2, <2>3, <2>5, Age(r) + left + SubmitTimeout \in Int, SMTT(30)
        DEF Measures, Sizes, CallSize, QueuedTurn, RecordFacts, Typed, Counted
    <3>. QED
      BY <1>1, <1>8, <2>1, <2>4, <2>5, <3>1, Zenon DEF QueuedTurn
  <2>6. CASE wpc \in {"poll", "submit"}
    <3>1. RoundAge(r) + SubmitTimeout \in Int
      BY <2>3 DEF Measures, Sizes, CallSize, RecordFacts, Typed
    <3>2. /\ Room(RoundAge(r) + SubmitTimeout, Ahead(r), Leads, stepped) =>
               Room(RoundAge(r) + SubmitTimeout, Ahead(r), Leads', stepped')
          /\ Room(RoundAge(r) + SubmitTimeout, AheadHeld(r), Leads, stepped) =>
               Room(RoundAge(r) + SubmitTimeout, AheadHeld(r), Leads', stepped')
      BY <2>2, <2>3, <3>1, Zenon DEF RecordFacts, Counted
    <3>. QED
      BY <1>1, <1>8, <2>1, <2>4, <2>6, <3>2, Zenon DEF QueuedTurn
  <2>. QED
    BY <2>5, <2>6, Zenon
<1>11. ASSUME NEW r \in Ids, State(r)' = "submitted" PROVE SubmittedTurn(r)'
  <2>1. State(r) = "submitted" /\ SubmittedTurn(r) /\ RecordFacts(r)
    BY <1>4, <1>11, Zenon DEF Shifted, TurnInv
  <2>2. ASSUME NEW w \in Int, NEW v \in Int, v <= w, NEW k, Rounds(k) \in Int,
               Room(w, k, Leads, stepped)
        PROVE  Room(v, k, Leads', stepped')
    BY <1>1, <1>5, <2>2 DEF Measures, Sizes, TurnSize, Room
  <2>3. ASSUME NEW w \in Int, NEW v \in Int, v <= w, NEW k \in Int, Recent(w, k, Leads, stepped)
        PROVE  Recent(v, k, Leads', stepped')
    BY <1>1, <1>5, <2>3 DEF Measures, Sizes, Recent
  <2>. DEFINE w1 == Wait(r) + left
              v1 == Wait(r)' + left'
              w2 == Wait(r) - lag
              v2 == Wait(r)' - lag'
              w3 == Wait(r) - lag + 2 * SubmitTimeout
              v3 == Wait(r)' - lag' + 2 * SubmitTimeout
  <2>4. w1 \in Int /\ v1 \in Int /\ v1 <= w1 /\ w2 \in Int /\ v2 \in Int /\ w3 \in Int /\ v3 \in Int
    BY <1>1, <1>2, <1>8, <2>1 DEF Measures, Sizes, CallSize
  <2>5. wpc # "sleep" => v2 <= w2 /\ v3 <= w3
    BY <1>1, <1>2, <1>8, <2>1 DEF Measures, Sizes, CallSize
  <2>6. /\ Rounds(Ahead(r)) \in Int /\ Rounds(AheadHeld(r)) \in Int
        /\ SubmitTimeout \in Int /\ 2 * SubmitTimeout \in Int
    BY <2>1 DEF Measures, Sizes, CallSize, RecordFacts, Counted
  <2>7. CASE wpc = "sleep"
    <3>1. Room(w1, Ahead(r), Leads, stepped)
      BY <2>1, <2>7, Zenon DEF SubmittedTurn
    <3>. HIDE DEF w1, v1
    <3>2. Room(v1, Ahead(r), Leads', stepped')
      BY <2>2, <2>4, <2>6, <3>1, Zenon
    <3>. QED
      BY <1>1, <1>8, <2>1, <2>7, <3>2, Zenon DEF SubmittedTurn, v1
  <2>8. CASE wpc = "poll"
    <3>1. \/ RoundAge(r) >= 0 /\ Room(w2, AheadHeld(r), Leads, stepped)
          \/ r \notin cur /\ Recent(w1, SubmitTimeout, Leads, stepped)
      BY <2>1, <2>8, Zenon DEF SubmittedTurn
    <3>. HIDE DEF w1, v1, w2, v2
    <3>2. \/ RoundAge(r) >= 0 /\ Room(v2, AheadHeld(r), Leads', stepped')
          \/ r \notin cur /\ Recent(v1, SubmitTimeout, Leads', stepped')
      BY <2>2, <2>3, <2>4, <2>5, <2>6, <2>8, <3>1, Zenon
    <3>. QED
      BY <1>1, <1>8, <2>1, <2>8, <3>2, Zenon DEF SubmittedTurn, v1, v2
  <2>9. CASE wpc = "submit"
    <3>1. \/ RoundAge(r) >= 0 /\ Room(w3, Ahead(r), Leads, stepped)
          \/ Recent(w1, 2 * SubmitTimeout, Leads, stepped)
      BY <2>1, <2>9, Zenon DEF SubmittedTurn
    <3>. HIDE DEF w1, v1, w3, v3
    <3>2. \/ RoundAge(r) >= 0 /\ Room(v3, Ahead(r), Leads', stepped')
          \/ Recent(v1, 2 * SubmitTimeout, Leads', stepped')
      BY <2>2, <2>3, <2>4, <2>5, <2>6, <2>9, <3>1, Zenon
    <3>. QED
      BY <1>1, <1>8, <2>1, <2>9, <3>2, Zenon DEF SubmittedTurn, v1, v3
  <2>. QED
    BY <2>7, <2>8, <2>9, Zenon
<1>. QED
  BY <1>3, <1>6, <1>7, <1>9, <1>10, <1>11, Zenon DEF TurnInv

\* Time passes while the process cannot start: what every record waits longer, the
\* clock comes nearer to the creation that keeps the process from starting.
LEMMA TickDownStep ==
  ASSUME Measures, IInv, wpc = "down", \E r \in Working : ~CheckHolds(r), downFor' = downFor + 1,
         Shifted(1), UNCHANGED <<wpc, cur, worked, stepped, left, lag>>
  PROVE  IInv'
<1>. USE DEF IInv
<1>1. /\ wpc' = "down" /\ cur' = {} /\ worked' = worked /\ stepped' = stepped /\ left' = left
      /\ lag' = lag /\ stepped \in Int /\ stepped >= 0 /\ downFor \in Nat
  BY DEF ScheduleTypes, WorkerInv
<1>2. ScheduleTypes'
  BY <1>1 DEF ScheduleTypes, Shifted
<1>3. LeadsBounded /\ \A r \in Ids : RecordFacts(r) /\ RecordFacts(r)'
  BY <1>2, Facts, FactsNext, LeadsFacts, Zenon
<1>4. PICK c \in Leads : c \in Int /\ c >= 1
  <2>1. PICK p \in Ids : State(p) = "working" /\ ~(Born(p) <= 0)
    BY Zenon DEF Working, CheckHolds, State, Born
  <2>2. Born(p) \in Int /\ Born(p) \in Leads
    BY <1>3, <2>1, Zenon DEF LeadsBounded, LeadsTyped, BirthsLead, Live
  <2>. QED
    BY <2>1, <2>2
<1>5. \A b \in Leads' : b \in Int /\ \E a \in Leads : a \in Int /\ b + 1 <= a
  <2>1. ASSUME NEW b \in Leads' PROVE b \in Int /\ \E a \in Leads : a \in Int /\ b + 1 <= a
    <3>1. b \in Int /\ (b <= 0 \/ \E a \in Leads : b <= a - 1)
      BY <2>1, Zenon DEF Shifted
    <3>2. CASE b <= 0
      <4>1. b + 1 <= c
        BY <1>4, <3>1, <3>2
      <4>. QED
        BY <1>4, <3>1, <4>1, Zenon
    <3>3. ASSUME NEW a \in Leads, b <= a - 1 PROVE b \in Int /\ \E e \in Leads : e \in Int /\ b + 1 <= e
      <4>1. a \in Int /\ b + 1 <= a
        BY <1>3, <3>1, <3>3 DEF LeadsBounded, LeadsTyped
      <4>. QED
        BY <3>1, <4>1, Zenon
    <3>. QED
      BY <3>1, <3>2, <3>3, Zenon
  <2>. QED
    BY <2>1, Zenon
<1>6. LateInv'
  BY <1>1, <1>2, LateShifts
<1>7. ClockInv'
  <2>1. ASSUME NEW b \in Leads', b > 0 PROVE b + downFor' <= stepped'
    <3>1. PICK a \in Leads : a \in Int /\ b + 1 <= a /\ b \in Int
      BY <1>5, <2>1, Zenon
    <3>2. a + downFor <= stepped
      BY <2>1, <3>1 DEF ClockInv
    <3>. QED
      BY <1>1, <3>1, <3>2
  <2>2. c + downFor <= stepped
    BY <1>4 DEF ClockInv
  <2>3. downFor' <= stepped'
    BY <1>1, <1>4, <2>2
  <2>. QED
    BY <1>1, <2>1, <2>3, BirthsShift DEF ClockInv
<1>8. WorkerInv'
  BY <1>1, Zenon DEF WorkerInv
<1>9. ASSUME NEW r \in Ids, State(r) \in {"queued", "submitted"}
      PROVE  /\ Age(r)' = Age(r) + 1 /\ Wait(r)' <= Wait(r) + 1 /\ Ahead(r)' = Ahead(r)
             /\ Age(r) \in Int /\ Wait(r) \in Int /\ Wait(r)' \in Int /\ Rounds(Ahead(r)) \in Int
  <2>1. Age(r)' = Age(r) + 1 /\ Before(r)' = Before(r) /\ Wait(r)' <= Wait(r) + 1
    BY <1>9, Zenon DEF Shifted
  <2>2. RecordFacts(r) /\ RecordFacts(r)'
    BY <1>3, Zenon
  <2>. QED
    BY <2>1, <2>2, Zenon DEF RecordFacts, Typed, Counted, Ahead
<1>10. ASSUME NEW r \in Ids, State(r)' = "queued" PROVE QueuedTurn(r)'
  <2>1. State(r) = "queued"
    BY <1>10, Zenon DEF Shifted
  <2>2. Room(Age(r) + SubmitTimeout, Ahead(r), Leads, stepped)
    BY <2>1, Zenon DEF TurnInv, QueuedTurn
  <2>3. Room(Age(r)' + SubmitTimeout, Ahead(r)', Leads', stepped')
    BY <1>1, <1>5, <1>9, <2>1, <2>2 DEF Measures, Sizes, CallSize, TurnSize, Room
  <2>. QED
    BY <1>1, <2>3, Zenon DEF QueuedTurn
<1>11. ASSUME NEW r \in Ids, State(r)' = "submitted" PROVE SubmittedTurn(r)'
  <2>1. State(r) = "submitted"
    BY <1>11, Zenon DEF Shifted
  <2>2. Room(Wait(r), Ahead(r), Leads, stepped)
    BY <2>1, Zenon DEF TurnInv, SubmittedTurn
  <2>3. Room(Wait(r)', Ahead(r)', Leads', stepped')
    BY <1>1, <1>5, <1>9, <2>1, <2>2 DEF Measures, Sizes, TurnSize, Room
  <2>. QED
    BY <1>1, <2>3, Zenon DEF SubmittedTurn
<1>. QED
  BY <1>2, <1>6, <1>7, <1>8, <1>10, <1>11, Zenon DEF TurnInv

\* Time passes.
LEMMA TickStep ==
  ASSUME Measures, IInv, Tick
  PROVE  IInv'
<1>1. rows' = [r \in Ids |-> Moved(r, 1)] /\ UNCHANGED <<wpc, cur, worked, stepped>>
  BY Zenon DEF Tick
<1>2. Shifted(1)
  BY <1>1, ClockShifts
<1>3. \/ /\ wpc \in {"poll", "submit", "sleep"} /\ left > 0
         /\ left' = left - 1 /\ lag' = IF wpc = "sleep" THEN lag ELSE lag + 1
         /\ UNCHANGED downFor
      \/ /\ wpc = "down" /\ \E r \in Working : ~CheckHolds(r)
         /\ downFor' = downFor + 1 /\ UNCHANGED <<left, lag>>
  BY Zenon DEF Tick
<1>. QED
  BY <1>1, <1>2, <1>3, TickCallStep, TickDownStep, Zenon

\* The clock is set back: what every record has waited shrinks by as much as the
\* creations move ahead.
LEMMA StepBackStep ==
  ASSUME Measures, IInv, StepBack
  PROVE  IInv'
<1>. USE DEF IInv
<1>1. PICK d \in 1..MaxStepBack :
        /\ stepped + d <= MaxStepBack /\ stepped' = stepped + d
        /\ rows' = [r \in Ids |-> Moved(r, -d)]
        /\ lag' = IF wpc \in {"poll", "claim", "submit"} THEN lag - d ELSE lag
        /\ UNCHANGED <<wpc, cur, worked, left, rest, early, downFor>>
  BY Zenon DEF StepBack
<1>2. /\ d \in Int /\ d >= 1 /\ -d \in Int /\ -d <= 1
      /\ stepped \in Int /\ stepped >= 0 /\ stepped + d <= MaxStepBack /\ stepped' = stepped + d
      /\ lag \in Int /\ left \in Int /\ downFor \in Int
      /\ wpc' = wpc /\ cur' = cur /\ worked' = worked /\ left' = left /\ downFor' = downFor
  BY <1>1 DEF Measures, Sizes, ScheduleTypes
<1>3. /\ lag' \in Int
      /\ wpc \in {"poll", "claim", "submit"} => lag' = lag - d
  BY <1>1, <1>2
<1>4. Shifted(-d)
  BY <1>1, <1>2, ClockShifts, Zenon
<1>5. ScheduleTypes'
  <2>1. stepped' \in 0..MaxStepBack /\ rows' \in [Ids -> Row]
    BY <1>2, <1>4 DEF Measures, Sizes, Shifted
  <2>. QED
    BY <1>2, <1>3, <2>1, Zenon DEF ScheduleTypes
<1>6. LeadsBounded /\ \A r \in Ids : RecordFacts(r) /\ RecordFacts(r)'
  BY <1>5, Facts, FactsNext, LeadsFacts, Zenon
<1>7. \A b \in Leads' : b \in Int /\ (b <= 0 \/ \E a \in Leads : a \in Int /\ b <= a + d)
  <2>1. ASSUME NEW b \in Leads' PROVE b \in Int /\ (b <= 0 \/ \E a \in Leads : a \in Int /\ b <= a + d)
    <3>1. b \in Int /\ (b <= 0 \/ \E a \in Leads : b <= a - (-d))
      BY <1>4, <2>1, Zenon DEF Shifted
    <3>. QED
      BY <1>2, <1>6, <3>1 DEF LeadsBounded, LeadsTyped
  <2>. QED
    BY <2>1, Zenon
<1>8. LateInv'
  <2>1. stepped' >= stepped /\ stepped' >= stepped - (-d)
    BY <1>2
  <2>. QED
    BY <1>2, <1>4, <1>5, <2>1, LateShifts, Zenon
<1>9. ClockInv'
  <2>1. ASSUME NEW b \in Leads', b > 0 PROVE b + downFor' <= stepped'
    <3>1. PICK a \in Leads : a \in Int /\ b <= a + d /\ b \in Int
      BY <1>7, <2>1
    <3>2. downFor <= stepped /\ (a > 0 => a + downFor <= stepped)
      BY Zenon DEF ClockInv
    <3>. QED
      BY <1>2, <3>1, <3>2
  <2>2. stepped' \in Int /\ stepped' >= stepped /\ stepped' >= stepped - (-d)
    BY <1>2
  <2>3. downFor' <= stepped'
    BY <1>2 DEF ClockInv
  <2>4. \A r \in Ids :
          Live(r)' => Born(r)' <= Due(r)' \/ Born(r)' <= stepped' - MaxStepBack
    BY <1>2, <1>4, <2>2, BirthsShift, Zenon
  <2>. QED
    BY <2>1, <2>3, <2>4, Zenon DEF ClockInv
<1>10. ASSUME NEW r \in Ids, State(r) \in {"queued", "submitted"}
       PROVE  /\ Age(r)' = Age(r) - d /\ Wait(r)' <= Wait(r) - d /\ Ahead(r)' = Ahead(r)
              /\ AheadHeld(r)' = AheadHeld(r)
              /\ wpc \in {"poll", "claim", "submit"} => RoundAge(r)' = RoundAge(r)
              /\ Age(r) \in Int /\ Wait(r) \in Int /\ Wait(r)' \in Int /\ RoundAge(r) \in Int
              /\ Rounds(Ahead(r)) \in Int /\ Rounds(AheadHeld(r)) \in Int
  <2>1. Age(r)' = Age(r) + (-d) /\ Before(r)' = Before(r) /\ Wait(r)' <= Wait(r) + (-d)
    BY <1>4, <1>10, Zenon DEF Shifted
  <2>2. RecordFacts(r) /\ RecordFacts(r)'
    BY <1>6, Zenon
  <2>3. Age(r)' = Age(r) - d /\ Wait(r)' <= Wait(r) - d
    BY <1>2, <2>1, <2>2, Zenon DEF RecordFacts
  <2>4. wpc \in {"poll", "claim", "submit"} => RoundAge(r)' = RoundAge(r)
    BY <1>2, <1>3, <2>2, <2>3, SMTT(30) DEF RecordFacts, Typed, Ages, Waits
  <2>5. Ahead(r)' = Ahead(r) /\ AheadHeld(r)' = AheadHeld(r)
    BY <1>2, <2>1, Zenon DEF Ahead, AheadHeld
  <2>. QED
    BY <2>2, <2>3, <2>4, <2>5, Zenon DEF RecordFacts, Typed, Counted
<1>11. WorkerInv'
  <2>1. CASE wpc \in {"round", "sleep", "down"}
    BY <1>2, <2>1, Zenon DEF WorkerInv
  <2>2. CASE wpc = "poll"
    <3>1. PICK p \in Ids : /\ cur = {p} /\ RoundAge(p) >= 0 /\ left <= SubmitTimeout
                           /\ State(p) = "submitted"
                           /\ Since(p) - lag <= SubmittedTimeout
      BY <2>2, Zenon DEF WorkerInv
    <3>2. /\ cur' = {p} /\ RoundAge(p)' >= 0 /\ left' <= SubmitTimeout
          /\ State(p)' = "submitted" /\ Since(p)' - lag' <= SubmittedTimeout
      <4>1. State(p)' = "submitted" /\ Since(p)' <= Since(p) + (-d)
        BY <1>4, <3>1, Zenon DEF Shifted
      <4>2. Since(p) \in Int /\ Since(p)' \in Int
        BY <1>5, Zenon DEF ScheduleTypes, Row, Since
      <4>. QED
        BY <1>2, <1>3, <1>10, <2>2, <3>1, <4>1, <4>2, SMTT(30) DEF Measures, Sizes, AfterSize
    <3>3. lag' + left' <= SubmitTimeout /\ -lag' <= stepped' /\ downFor' = 0
      BY <1>2, <1>3, <2>2 DEF Measures, Sizes, CallSize, WorkerInv
    <3>. QED
      BY <1>2, <2>2, <3>2, <3>3, Zenon DEF WorkerInv
  <2>3. CASE wpc = "submit"
    <3>1. PICK p \in Ids : /\ cur = {p} /\ RoundAge(p) >= 0 /\ left <= SubmitTimeout
                           /\ State(p) = "working"
      BY <2>3, Zenon DEF WorkerInv
    <3>2. lag + left <= 2 * SubmitTimeout /\ -lag <= stepped /\ downFor = 0 /\ left >= 0
      BY <2>3 DEF WorkerInv, ScheduleTypes
    <3>3. /\ cur' = {p} /\ RoundAge(p)' >= 0 /\ left' <= SubmitTimeout /\ State(p)' = "working"
      <4>1. State(p)' = "working" /\ (Age(p)' = Age(p) + (-d) \/ Age(p)' = Overdue)
        BY <1>4, <3>1, Zenon DEF Shifted
      <4>2. RecordFacts(p) /\ RecordFacts(p)'
        BY <1>6, Zenon
      <4>. QED
        BY <1>2, <1>3, <2>3, <3>1, <3>2, <4>1, <4>2, SMTT(30)
          DEF Measures, Sizes, CallSize, PollSize, BackSize, TurnSize, OverdueSize, RecordFacts,
              Typed, Ages, Counted
    <3>4. lag' + left' <= lag + left /\ -lag' <= stepped' /\ downFor' = 0
      BY <1>2, <1>3, <2>3, <3>2
    <3>5. ASSUME lag' + left' > SubmitTimeout
          PROVE  \E q \in Ids \ cur' : ~(State(q)' = "queued" /\ Age(q)' + left' > SubmitTimeout)
      <4>1. lag + left > SubmitTimeout
        BY <1>2, <1>3, <2>3, <3>5 DEF Measures, Sizes, CallSize
      <4>2. PICK q \in Ids \ cur : ~(State(q) = "queued" /\ Age(q) + left > SubmitTimeout)
        BY <2>3, <4>1, Zenon DEF WorkerInv
      <4>3. State(q)' = State(q)
        BY <1>4, Zenon DEF Shifted
      <4>4. State(q) = "queued" => (Age(q)' + left' > SubmitTimeout => Age(q) + left > SubmitTimeout)
        BY <1>2, <1>10 DEF Measures, Sizes, CallSize
      <4>. QED
        BY <1>2, <4>2, <4>3, <4>4, Zenon
    <3>6. lag' + left' <= 2 * SubmitTimeout
      BY <1>2, <1>3, <2>3, <3>2 DEF Measures, Sizes, CallSize
    <3>. QED
      BY <1>2, <2>3, <3>3, <3>4, <3>5, <3>6, Zenon DEF WorkerInv
  <2>4. CASE wpc = "claim"
    <3>1. lag' <= SubmitTimeout /\ -lag' <= stepped' /\ downFor' = 0 /\ cur' = {}
      BY <1>2, <1>3, <2>4 DEF Measures, Sizes, CallSize, WorkerInv
    <3>2. ~worked => lag' <= 0 /\ \A r \in Ids : State(r)' = "submitted" => RoundAge(r)' < 0
      <4>1. SUFFICES ASSUME ~worked
                     PROVE  lag' <= 0 /\ \A r \in Ids : State(r)' = "submitted" => RoundAge(r)' < 0
        BY Zenon
      <4>2. lag <= 0 /\ \A r \in Ids : State(r) = "submitted" => RoundAge(r) < 0
        BY <2>4, <4>1, Zenon DEF WorkerInv
      <4>3. \A r \in Ids : State(r)' = State(r)
        BY <1>4, Zenon DEF Shifted
      <4>. QED
        BY <1>2, <1>3, <1>10, <2>4, <4>2, <4>3
    <3>3. worked => \E r \in Ids : ~ (State(r)' = "queued" /\ Age(r)' >= 1)
      <4>1. SUFFICES ASSUME worked PROVE \E r \in Ids : ~ (State(r)' = "queued" /\ Age(r)' >= 1)
        BY Zenon
      <4>2. PICK r \in Ids : ~ (State(r) = "queued" /\ Age(r) >= 1)
        BY <2>4, <4>1, Zenon DEF WorkerInv
      <4>3. State(r)' = State(r)
        BY <1>4, Zenon DEF Shifted
      <4>4. State(r) = "queued" => (Age(r)' >= 1 => Age(r) >= 1)
        BY <1>2, <1>10
      <4>. QED
        BY <4>2, <4>3, <4>4, Zenon
    <3>. QED
      BY <1>2, <2>4, <3>1, <3>2, <3>3, Zenon DEF WorkerInv
  <2>. QED
    BY <2>1, <2>2, <2>3, <2>4, Zenon DEF ScheduleTypes
<1>12. ASSUME NEW w \in Int, NEW v \in Int, v <= w, NEW k, Rounds(k) \in Int,
              Room(w, k, Leads, stepped)
       PROVE  Room(v, k, Leads', stepped')
  BY <1>2, <1>6, <1>7, <1>12 DEF Measures, Sizes, TurnSize, Room, LeadsBounded, LeadsTyped
<1>13. ASSUME NEW w \in Int, NEW v \in Int, v <= w, NEW k \in Int, Recent(w, k, Leads, stepped)
       PROVE  Recent(v, k, Leads', stepped')
  BY <1>2, <1>6, <1>7, <1>13 DEF Measures, Sizes, Recent, LeadsBounded, LeadsTyped
<1>14. ASSUME NEW r \in Ids, State(r)' = "queued" PROVE QueuedTurn(r)'
  <2>1. State(r) = "queued" /\ QueuedTurn(r)
    BY <1>4, <1>14, Zenon DEF Shifted, TurnInv
  <2>. DEFINE w1 == Age(r) + SubmitTimeout
              v1 == Age(r)' + SubmitTimeout
              w2 == Age(r) + left + SubmitTimeout
              v2 == Age(r)' + left' + SubmitTimeout
              w3 == RoundAge(r) + SubmitTimeout
  <2>2. /\ w1 \in Int /\ v1 \in Int /\ v1 <= w1 /\ w2 \in Int /\ v2 \in Int /\ v2 <= w2
        /\ w3 \in Int /\ w3 <= w3 /\ Rounds(Ahead(r)) \in Int /\ Rounds(AheadHeld(r)) \in Int
    BY <1>2, <1>10, <2>1 DEF Measures, Sizes, CallSize
  <2>3. /\ Room(w1, Ahead(r), Leads, stepped) => Room(v1, Ahead(r), Leads', stepped')
        /\ Room(w2, Ahead(r), Leads, stepped) => Room(v2, Ahead(r), Leads', stepped')
        /\ Room(w3, Ahead(r), Leads, stepped) => Room(w3, Ahead(r), Leads', stepped')
        /\ Room(w3, AheadHeld(r), Leads, stepped) => Room(w3, AheadHeld(r), Leads', stepped')
    <3>. HIDE DEF w1, v1, w2, v2, w3
    <3>. QED
      BY <1>12, <2>2, Zenon
  <2>4. /\ Age(r) + left <= SubmitTimeout => Age(r)' + left' <= SubmitTimeout
        /\ Age(r) + left <= 2 * SubmitTimeout => Age(r)' + left' <= 2 * SubmitTimeout
        /\ Age(r) <= SubmitTimeout => Age(r)' <= SubmitTimeout
    BY <1>2, <1>10, <2>1 DEF Measures, Sizes, CallSize
  <2>. QED
    BY <1>2, <1>10, <2>1, <2>3, <2>4, Zenon DEF QueuedTurn
<1>15. ASSUME NEW r \in Ids, State(r)' = "submitted" PROVE SubmittedTurn(r)'
  <2>1. State(r) = "submitted" /\ SubmittedTurn(r)
    BY <1>4, <1>15, Zenon DEF Shifted, TurnInv
  <2>. DEFINE w0 == Wait(r)
              v0 == Wait(r)'
              w1 == Wait(r) + left
              v1 == Wait(r)' + left'
              w2 == Wait(r) - lag
              v2 == Wait(r)' - lag'
              w3 == Wait(r) - lag + 2 * SubmitTimeout
              v3 == Wait(r)' - lag' + 2 * SubmitTimeout
  <2>2. /\ w0 \in Int /\ v0 \in Int /\ v0 <= w0 /\ w1 \in Int /\ v1 \in Int /\ v1 <= w1
        /\ w2 \in Int /\ v2 \in Int /\ w3 \in Int /\ v3 \in Int
        /\ Rounds(Ahead(r)) \in Int /\ Rounds(AheadHeld(r)) \in Int
        /\ SubmitTimeout \in Int /\ 2 * SubmitTimeout \in Int
    BY <1>2, <1>3, <1>10, <2>1 DEF Measures, Sizes, CallSize
  <2>3. wpc \in {"poll", "claim", "submit"} => v2 <= w2 /\ v3 <= w3
    BY <1>2, <1>3, <1>10, <2>1 DEF Measures, Sizes, CallSize
  <2>4. /\ Room(w0, Ahead(r), Leads, stepped) => Room(v0, Ahead(r), Leads', stepped')
        /\ Room(w1, Ahead(r), Leads, stepped) => Room(v1, Ahead(r), Leads', stepped')
        /\ Recent(w0, SubmitTimeout, Leads, stepped) => Recent(v0, SubmitTimeout, Leads', stepped')
        /\ Recent(w1, SubmitTimeout, Leads, stepped) => Recent(v1, SubmitTimeout, Leads', stepped')
        /\ Recent(w1, 2 * SubmitTimeout, Leads, stepped) =>
             Recent(v1, 2 * SubmitTimeout, Leads', stepped')
    <3>. HIDE DEF w0, v0, w1, v1
    <3>. QED
      BY <1>12, <1>13, <2>2, Zenon
  <2>5. wpc \in {"poll", "claim", "submit"} =>
          /\ Room(w2, AheadHeld(r), Leads, stepped) => Room(v2, AheadHeld(r), Leads', stepped')
          /\ Room(w3, Ahead(r), Leads, stepped) => Room(v3, Ahead(r), Leads', stepped')
    <3>. HIDE DEF w2, v2, w3, v3
    <3>. QED
      BY <1>12, <2>2, <2>3, Zenon
  <2>. QED
    BY <1>2, <1>10, <2>1, <2>4, <2>5, Zenon DEF SubmittedTurn
<1>. QED
  BY <1>5, <1>8, <1>9, <1>11, <1>14, <1>15, Zenon DEF TurnInv

-----------------------------------------------------------------------------
(* Numbers and finite sets: what the steps use of the constants is true. *)

F == INSTANCE FiniteSetTheorems

\* The theorems are about the same finite sets and the same count.
LEMMA Finite == \A S : (F!IsFiniteSet(S) <=> IsFiniteSet(S)) /\ F!Cardinality(S) = Cardinality(S)
BY Zenon DEF IsFiniteSet, F!IsFiniteSet, Cardinality, F!Cardinality

\* Every non-empty set of naturals has a least element.
LEMMA LeastNat ==
  ASSUME NEW S, S \subseteq Nat, S # {}
  PROVE  \E x \in S : \A y \in S : x <= y
<1>. DEFINE R == {ss \in Nat \X Nat : ss[1] < ss[2]}
<1>1. F!IsWellFoundedOn(R, Nat)
  BY F!NatLessThanWellFounded, Zenon DEF F!OpToRel
<1>2. PICK x \in S : \A y \in S : ~ (<<y, x>> \in R)
  <2>. HIDE DEF R
  <2>. QED
    BY <1>1, F!WFMin, Zenon
<1>3. ASSUME NEW y \in S PROVE x <= y
  <2>1. <<y, x>> \in Nat \X Nat /\ <<y, x>> \notin R
    BY <1>2, Zenon
  <2>. QED
    BY <2>1
<1>. QED
  BY <1>3, Zenon

\* Induction over the naturals, for a set.
LEMMA SetInduction ==
  ASSUME NEW S, 0 \in S, \A n \in Nat : n \in S => n + 1 \in S
  PROVE  Nat \subseteq S
<1>. SUFFICES ASSUME Nat \ S # {} PROVE FALSE
  BY Zenon
<1>1. PICK x \in Nat \ S : \A y \in Nat \ S : x <= y
  BY LeastNat, Zenon
<1>2. x - 1 \in Nat /\ x - 1 \notin Nat \ S
  BY <1>1
<1>. QED
  BY <1>1, <1>2

\* A finite set of naturals that is not empty has a maximum, and Max is it.
LEMMA MaxOfFinite ==
  ASSUME NEW S, S \subseteq Nat, S # {}, IsFiniteSet(S)
  PROVE  Max(S) \in S /\ \A x \in S : x <= Max(S)
<1>. DEFINE B == {n \in Nat : \A f \in [1..n -> Nat] : \E m \in Nat : \A i \in 1..n : f[i] <= m}
<1>1. 0 \in B
  OBVIOUS
<1>2. ASSUME NEW n \in Nat, n \in B PROVE n + 1 \in B
  <2>1. ASSUME NEW f \in [1..(n + 1) -> Nat] PROVE \E m \in Nat : \A i \in 1..(n + 1) : f[i] <= m
    <3>1. PICK m \in Nat : \A i \in 1..n : [j \in 1..n |-> f[j]][i] <= m
      BY <1>2, [j \in 1..n |-> f[j]] \in [1..n -> Nat], Zenon
    <3>2. \A i \in 1..n : f[i] <= m
      BY <3>1, Zenon
    <3>3. f[n + 1] \in Nat
      OBVIOUS
    <3>4. m + f[n + 1] \in Nat /\ \A i \in 1..(n + 1) : f[i] <= m + f[n + 1]
      BY <3>2, <3>3
    <3>. QED
      BY <3>4, Zenon
  <2>2. n + 1 \in Nat
    OBVIOUS
  <2>. QED
    BY <2>1, <2>2, Zenon
<1>3. Nat \subseteq B
  <2>. HIDE DEF B
  <2>. QED
    BY <1>1, <1>2, SetInduction, Zenon
<1>4. PICK n \in Nat : F!ExistsSurjection(1..n, S)
  <2>1. F!IsFiniteSet(S)
    BY Finite, Zenon
  <2>. QED
    BY <2>1, F!FS_NatSurjection, Zenon
<1>41. PICK f \in [1..n -> S] : \A s \in S : \E i \in 1..n : f[i] = s
  BY <1>4, Zenon DEF F!ExistsSurjection, F!Surjection
<1>5. PICK m \in Nat : \A i \in 1..n : f[i] <= m
  BY <1>3, f \in [1..n -> Nat], Zenon
<1>. DEFINE U == {u \in Nat : \A s \in S : s <= u}
<1>6. m \in U
  BY <1>41, <1>5, Zenon
<1>7. PICK u \in U : \A v \in U : u <= v
  BY <1>6, LeastNat, Zenon
<1>8. u \in S
  <2>. SUFFICES ASSUME u \notin S PROVE FALSE
    BY Zenon
  <2>1. \A s \in S : s <= u - 1
    BY <1>7
  <2>2. PICK s \in S : s <= u - 1
    BY <2>1, Zenon
  <2>3. u - 1 \in U
    BY <1>7, <2>1, <2>2
  <2>. QED
    BY <1>7, <2>3
<1>9. \E x \in S : \A y \in S : x >= y
  BY <1>7, <1>8, Zenon
<1>. QED
  BY <1>9, Zenon DEF Max

\* f is defined by recursion over the naturals.
Solves(f, v0, step) == f[0] = v0 /\ \A n \in Nat : f[n + 1] = step[n][f[n]]

\* A recursion over the naturals has a solution.
LEMMA Recursion ==
  \A V : \A v0 \in V : \A step \in [Nat -> [V -> V]] :
    \E f \in [Nat -> V] : Solves(f, v0, step)
<1>. SUFFICES ASSUME NEW V, NEW v0 \in V, NEW step \in [Nat -> [V -> V]]
              PROVE  \E f \in [Nat -> V] : Solves(f, v0, step)
  BY Zenon
<1>. DEFINE Good(g, n) ==
       /\ g \in [0..n -> V] /\ g[0] = v0
       /\ \A i \in 0..(n - 1) : g[i + 1] = step[i][g[i]]
<1>. DEFINE E == {n \in Nat : \E g : Good(g, n)}
<1>1. 0 \in E
  <2>1. Good([i \in 0..0 |-> v0], 0)
    OBVIOUS
  <2>. QED
    BY <2>1, Zenon
<1>2. ASSUME NEW n \in Nat, n \in E PROVE n + 1 \in E
  <2>1. PICK g : Good(g, n)
    BY <1>2, Zenon
  <2>. DEFINE h == [i \in 0..(n + 1) |-> IF i = n + 1 THEN step[n][g[n]] ELSE g[i]]
  <2>2. step[n][g[n]] \in V
    BY <2>1
  <2>3. h \in [0..(n + 1) -> V] /\ h[0] = v0
    BY <2>1, <2>2
  <2>4. ASSUME NEW i \in 0..(n + 1 - 1) PROVE h[i + 1] = step[i][h[i]]
    <3>1. h[i] = g[i]
      OBVIOUS
    <3>2. CASE i = n
      BY <3>1, <3>2
    <3>3. CASE i # n
      <4>1. i \in 0..(n - 1) /\ h[i + 1] = g[i + 1]
        BY <3>3
      <4>. QED
        BY <2>1, <3>1, <4>1, Zenon
    <3>. QED
      BY <3>2, <3>3, Zenon
  <2>5. Good(h, n + 1)
    <3>. HIDE DEF h
    <3>. QED
      BY <2>3, <2>4
  <2>6. n + 1 \in Nat
    OBVIOUS
  <2>. QED
    BY <2>5, <2>6, Zenon
<1>3. ASSUME NEW n \in Nat PROVE \E g : Good(g, n)
  <2>1. n \in E
    <3>. HIDE DEF E
    <3>. QED
      BY <1>1, <1>2, SetInduction, Zenon
  <2>. QED
    BY <2>1, Zenon
<1>. DEFINE U == {n \in Nat : \A m \in Nat, k \in Nat : n <= m /\ n <= k =>
                     \A g, h : Good(g, m) /\ Good(h, k) => g[n] = h[n]}
<1>4. 0 \in U
  BY Zenon
<1>5. ASSUME NEW n \in Nat, n \in U PROVE n + 1 \in U
  <2>1. ASSUME NEW m \in Nat, NEW k \in Nat, n + 1 <= m, n + 1 <= k,
               NEW g, NEW h, Good(g, m), Good(h, k)
        PROVE  g[n + 1] = h[n + 1]
    <3>1. n \in 0..(m - 1) /\ n \in 0..(k - 1) /\ n <= m /\ n <= k
      BY <2>1
    <3>2. g[n] = h[n]
      <4>. HIDE DEF Good
      <4>. QED
        BY <1>5, <2>1, <3>1, Zenon
    <3>. QED
      BY <2>1, <3>1, <3>2, Zenon
  <2>2. n + 1 \in Nat
    OBVIOUS
  <2>. HIDE DEF Good
  <2>. QED
    BY <2>1, <2>2, Zenon
<1>6. Nat \subseteq U
  <2>. HIDE DEF U
  <2>. QED
    BY <1>4, <1>5, SetInduction, Zenon
<1>. DEFINE G(n) == CHOOSE g : Good(g, n)
<1>7. ASSUME NEW n \in Nat PROVE Good(G(n), n)
  <2>. HIDE DEF Good
  <2>. QED
    BY <1>3, Zenon
<1>. DEFINE f == [n \in Nat |-> G(n)[n]]
<1>. HIDE DEF G
<1>8. f \in [Nat -> V] /\ f[0] = v0
  BY <1>7
<1>9. ASSUME NEW n \in Nat PROVE f[n + 1] = step[n][f[n]]
  <2>1. n + 1 \in Nat /\ n \in 0..(n + 1 - 1) /\ n <= n + 1 /\ n <= n
    OBVIOUS
  <2>2. Good(G(n + 1), n + 1) /\ Good(G(n), n)
    BY <1>7, <2>1, Zenon
  <2>3. G(n + 1)[n] = G(n)[n]
    <3>. HIDE DEF Good
    <3>. QED
      BY <1>6, <2>1, <2>2
  <2>4. G(n + 1)[n + 1] = step[n][G(n + 1)[n]]
    BY <2>1, <2>2
  <2>. QED
    BY <2>1, <2>3, <2>4, Zenon
<1>. QED
  BY <1>8, <1>9, Zenon DEF Solves

\* The backoff of submitRetryDelay is positive.
LEMMA DelayPositive ==
  ASSUME NEW a \in Nat
  PROVE  submitRetryDelay(a) \in Nat /\ submitRetryDelay(a) >= 1
<1>. DEFINE step == [n \in Nat |-> [v \in Nat |-> 2 * v]]
<1>1. PICK f \in [Nat -> Nat] : Solves(f, 1, step)
  <2>1. step \in [Nat -> [Nat -> Nat]] /\ 1 \in Nat
    OBVIOUS
  <2>. HIDE DEF step
  <2>. QED
    BY <2>1, Recursion, Zenon
<1>2. ASSUME NEW n \in Nat PROVE f[n] = IF n = 0 THEN 1 ELSE 2 * f[n - 1]
  <2>1. CASE n = 0
    BY <1>1, <2>1, Zenon DEF Solves
  <2>2. CASE n # 0
    <3>1. n - 1 \in Nat /\ (n - 1) + 1 = n
      BY <2>2
    <3>2. f[(n - 1) + 1] = step[n - 1][f[n - 1]]
      BY <1>1, <3>1, Zenon DEF Solves
    <3>. QED
      BY <3>1, <3>2
  <2>. QED
    BY <2>1, <2>2, Zenon
<1>3. f = [n \in Nat |-> IF n = 0 THEN 1 ELSE 2 * f[n - 1]]
  BY <1>2, Zenon
<1>4. PowerOfTwo = [n \in Nat |-> IF n = 0 THEN 1 ELSE 2 * PowerOfTwo[n - 1]]
  BY <1>3, Zenon DEF PowerOfTwo
<1>. DEFINE P == {n \in Nat : PowerOfTwo[n] \in Nat /\ PowerOfTwo[n] >= 1}
<1>5. 0 \in P
  BY <1>4
<1>6. ASSUME NEW n \in Nat, n \in P PROVE n + 1 \in P
  <2>1. PowerOfTwo[n + 1] = 2 * PowerOfTwo[n]
    BY <1>4
  <2>. QED
    BY <1>6, <2>1
<1>7. Nat \subseteq P
  <2>. HIDE DEF P
  <2>. QED
    BY <1>5, <1>6, SetInduction, Zenon
<1>. DEFINE q == PowerOfTwo[IF a > 30 THEN 30 ELSE a]
<1>8. q \in Nat /\ q >= 1
  BY <1>7, Zenon
<1>9. RetryBaseDelay \in Nat /\ RetryBaseDelay >= 1
  BY ScheduleAssumption
<1>10. RetryBaseDelay * q \in Nat /\ RetryBaseDelay * q >= 1
  <2>. HIDE DEF q
  <2>. QED
    BY <1>8, <1>9
<1>. QED
  BY <1>10, Zenon DEF submitRetryDelay

\* The constants are numbers, and MaxAfter bounds every delay of a poll.
LEMMA Numbers ==
  /\ SubmitTimeout \in Nat /\ SubmitTimeout >= 1
  /\ PollInterval \in Nat /\ PollInterval >= 1
  /\ SubmittedTimeout \in Nat /\ SubmittedTimeout >= 1
  /\ MaxStepBack \in Nat
  /\ MaxAfter \in Nat /\ PollInterval <= MaxAfter
  /\ \A a \in RetryAfters : a \in Nat /\ a <= MaxAfter
<1>. DEFINE S == RetryAfters \cup {PollInterval}
<1>1. S \subseteq Nat /\ S # {} /\ IsFiniteSet(S)
  BY ScheduleAssumption, F!FS_AddElement, Finite, Zenon
<1>2. Max(S) \in S /\ \A x \in S : x <= Max(S)
  <2>. HIDE DEF S
  <2>. QED
    BY <1>1, MaxOfFinite, Zenon
<1>. QED
  BY <1>1, <1>2, ScheduleAssumption DEF MaxAfter

\* Rounds is linear; the turn holds a round for every record.
LEMMA RoundsFacts ==
  /\ \A k \in Int : Rounds(k) \in Int /\ Rounds(k - 1) = Rounds(k) - 2 * SubmitTimeout
  /\ \A k \in Int : Rounds(k - 2) = Rounds(k) - 4 * SubmitTimeout
  /\ \A k, m \in Int : k <= m => Rounds(k) <= Rounds(m)
  /\ Rounds(0) = 0 /\ Rounds(1) = 2 * SubmitTimeout
  /\ Cardinality(Ids) \in Nat
  /\ Turn \in Int /\ Turn = Rounds(Cardinality(Ids)) + PollInterval
  /\ Overdue \in Int /\ Overdue = Turn + SubmitTimeout + MaxStepBack + 1
<1>. DEFINE T == 2 * SubmitTimeout
<1>1. T \in Nat
  BY Numbers
<1>2. \A k \in Int : T * k \in Int /\ T * (k - 1) = T * k - T /\ T * (k - 2) = T * k - 2 * T
  <2>. HIDE DEF T
  <2>. QED
    BY <1>1
<1>3. \A k, m \in Int : k <= m => T * k <= T * m
  <2>. HIDE DEF T
  <2>1. ASSUME NEW k \in Int, NEW m \in Int, k <= m PROVE T * k <= T * m
    <3>1. T * m = T * k + T * (m - k)
      BY <1>1
    <3>2. m - k \in Nat
      BY <2>1
    <3>3. T * (m - k) >= 0
      BY <1>1, <3>2
    <3>. QED
      BY <1>1, <3>1, <3>3
  <2>. QED
    BY <2>1, Zenon
<1>4. Cardinality(Ids) \in Nat
  BY ScheduleAssumption, F!FS_CardinalityType, Finite, Zenon
<1>5. \A k : Rounds(k) = T * k
  BY Zenon DEF Rounds
<1>6. T = 2 * SubmitTimeout /\ 2 * T = 4 * SubmitTimeout /\ T * 0 = 0 /\ T * 1 = T
  BY Numbers
<1>. HIDE DEF T
<1>7. Rounds(Cardinality(Ids)) \in Int
  BY <1>2, <1>4, <1>5
<1>8. Turn \in Int /\ Turn = Rounds(Cardinality(Ids)) + PollInterval
  BY <1>7, Numbers DEF Turn
<1>9. Overdue \in Int /\ Overdue = Turn + SubmitTimeout + MaxStepBack + 1
  BY <1>8, Numbers DEF Overdue
<1>10. \A k \in Int : Rounds(k) \in Int /\ Rounds(k - 1) = Rounds(k) - 2 * SubmitTimeout
  BY <1>2, <1>5, <1>6, Zenon
<1>11. \A k \in Int : Rounds(k - 2) = Rounds(k) - 4 * SubmitTimeout
  BY <1>2, <1>5, <1>6, Zenon
<1>12. \A k, m \in Int : k <= m => Rounds(k) <= Rounds(m)
  BY <1>3, <1>5, Zenon
<1>13. Rounds(0) = 0 /\ Rounds(1) = 2 * SubmitTimeout
  BY <1>5, <1>6, Zenon
<1>. QED
  BY <1>4, <1>8, <1>9, <1>10, <1>11, <1>12, <1>13, Zenon

\* Counting records.
LEMMA Counting ==
  ASSUME NEW U, U \subseteq Ids, NEW S, S \subseteq U
  PROVE  /\ Cardinality(S) \in Nat /\ Cardinality(U) \in Nat
         /\ Cardinality(S) <= Cardinality(U)
         /\ \A p \in U \ S : Cardinality(S) <= Cardinality(U) - 1
         /\ \A p, q \in U \ S : p # q => Cardinality(S) <= Cardinality(U) - 2
<1>1. IsFiniteSet(U) /\ IsFiniteSet(S)
  BY ScheduleAssumption, F!FS_Subset, Finite, Zenon
<1>2. Cardinality(S) \in Nat /\ Cardinality(U) \in Nat
  BY <1>1, F!FS_CardinalityType, Finite, Zenon
<1>3. Cardinality(S) <= Cardinality(U)
  BY <1>1, F!FS_Subset, Finite, Zenon
<1>4. ASSUME NEW p \in U \ S PROVE Cardinality(S) <= Cardinality(U) - 1
  <2>1. IsFiniteSet(U \ {p}) /\ Cardinality(U \ {p}) = Cardinality(U) - 1
    BY <1>1, F!FS_RemoveElement, Finite, Zenon
  <2>2. S \in SUBSET (U \ {p})
    BY Zenon
  <2>. QED
    BY <2>1, <2>2, F!FS_Subset, Finite, Zenon
<1>5. ASSUME NEW p \in U \ S, NEW q \in U \ S, p # q PROVE Cardinality(S) <= Cardinality(U) - 2
  <2>1. IsFiniteSet(U \ {p}) /\ Cardinality(U \ {p}) = Cardinality(U) - 1
    BY <1>1, F!FS_RemoveElement, Finite, Zenon
  <2>2. IsFiniteSet((U \ {p}) \ {q}) /\ Cardinality((U \ {p}) \ {q}) = Cardinality(U \ {p}) - 1
    BY <1>5, <2>1, F!FS_RemoveElement, Finite, Zenon
  <2>3. S \in SUBSET ((U \ {p}) \ {q})
    BY Zenon
  <2>4. Cardinality(S) <= Cardinality((U \ {p}) \ {q})
    BY <2>2, <2>3, F!FS_Subset, Finite, Zenon
  <2>. QED
    BY <1>2, <2>1, <2>2, <2>4
<1>. QED
  BY <1>2, <1>3, <1>4, <1>5, Zenon

\* The sizes that every argument below starts from.
LEMMA SizesHold == Sizes
BY Numbers, RoundsFacts
  DEF Sizes, CallSize, PollSize, BackSize, AfterSize, TurnSize, OverdueSize

\* One record less means one round less.
LEMMA CountFacts ==
  ASSUME NEW U, U \subseteq Ids, NEW S, S \subseteq U
  PROVE  /\ Rounds(Cardinality(S)) \in Int /\ Rounds(Cardinality(U)) \in Int
         /\ 0 <= Rounds(Cardinality(S)) /\ Rounds(Cardinality(S)) <= Rounds(Cardinality(U))
         /\ \A p \in U \ S : Rounds(Cardinality(S)) <= Rounds(Cardinality(U)) - 2 * SubmitTimeout
         /\ \A p, q \in U \ S :
              p # q => Rounds(Cardinality(S)) <= Rounds(Cardinality(U)) - 4 * SubmitTimeout
<1>1. /\ Cardinality(S) \in Nat /\ Cardinality(U) \in Nat /\ Cardinality(S) <= Cardinality(U)
      /\ \A p \in U \ S : Cardinality(S) <= Cardinality(U) - 1
      /\ \A p, q \in U \ S : p # q => Cardinality(S) <= Cardinality(U) - 2
  BY Counting, Zenon
<1>. DEFINE m == Cardinality(S)
            n == Cardinality(U)
<1>2. m \in Int /\ n \in Int /\ n - 1 \in Int /\ n - 2 \in Int /\ 0 \in Int /\ 0 <= m
  BY <1>1
<1>3. /\ Rounds(m) \in Int /\ Rounds(n) \in Int /\ Rounds(0) = 0
      /\ Rounds(n - 1) = Rounds(n) - 2 * SubmitTimeout
      /\ Rounds(n - 2) = Rounds(n) - 4 * SubmitTimeout
  <2>. HIDE DEF m, n
  <2>. QED
    BY <1>2, RoundsFacts, Zenon
<1>4. /\ 0 <= m => Rounds(0) <= Rounds(m)
      /\ m <= n => Rounds(m) <= Rounds(n)
      /\ m <= n - 1 => Rounds(m) <= Rounds(n - 1)
      /\ m <= n - 2 => Rounds(m) <= Rounds(n - 2)
  <2>. HIDE DEF m, n
  <2>. QED
    BY <1>2, RoundsFacts, Zenon
<1>. QED
  BY <1>1, <1>2, <1>3, <1>4, Zenon


\* Everything the lemmas about the steps assume of the constants.
LEMMA MeasuresHold == Measures
<1>1. Durations
  BY Numbers, Zenon DEF Durations
<1>2. Delays
  BY DelayPositive, Zenon DEF Delays
<1>3. Least
  BY LeastNat, Zenon DEF Least
<1>4. Counts
  <2>1. Rounds(Cardinality({})) = 0 /\ Turn = Rounds(Cardinality(Ids)) + PollInterval
    BY F!FS_EmptySet, Finite, RoundsFacts, Zenon
  <2>2. ASSUME NEW U \in SUBSET Ids, NEW S \in SUBSET U
        PROVE  /\ Rounds(Cardinality(S)) \in Int /\ Rounds(Cardinality(U)) \in Int
               /\ 0 <= Rounds(Cardinality(S)) /\ Rounds(Cardinality(S)) <= Rounds(Cardinality(U))
               /\ \A p \in U \ S :
                    Rounds(Cardinality(S)) <= Rounds(Cardinality(U)) - 2 * SubmitTimeout
               /\ \A p, q \in U \ S :
                    p # q => Rounds(Cardinality(S)) <= Rounds(Cardinality(U)) - 4 * SubmitTimeout
    <3>1. U \subseteq Ids /\ S \subseteq U
      BY Zenon
    <3>. QED
      BY <3>1, CountFacts, Zenon
  <2>. QED
    BY <2>1, <2>2, Zenon DEF Counts
<1>. QED
  BY <1>1, <1>2, <1>3, <1>4, SizesHold, Zenon DEF Measures


-----------------------------------------------------------------------------
(* The theorems. *)

\* The initial state: an empty table and a worker at the top of its first round.
LEMMA InitInv == Measures /\ Init => IInv
<1>. SUFFICES ASSUME Measures, Init PROVE IInv
  BY Zenon
<1>1. \A r \in Ids : rows[r] = None
  BY Zenon DEF Init
<1>2. ScheduleTypes
  <2>1. rows \in [Ids -> Row]
    BY NewRows, Zenon DEF Init
  <2>2. worked \in BOOLEAN
    BY Zenon DEF Init
  <2>3. /\ wpc = "round" /\ cur = {} /\ lag \in Int /\ left \in Nat /\ downFor \in Nat
        /\ stepped \in 0..MaxStepBack
    BY DEF Measures, Durations, Init
  <2>. QED
    BY <2>1, <2>2, <2>3, Zenon DEF ScheduleTypes
<1>3. \A r \in Ids : ~Live(r) /\ State(r) = "none"
  BY <1>1, NewRows, Zenon DEF Live, State
<1>4. Leads = {0}
  BY <1>3, Zenon DEF Leads
<1>5. WorkerInv
  BY Zenon DEF Init, WorkerInv
<1>6. ClockInv
  BY <1>3, <1>4 DEF Init, ClockInv
<1>7. LateInv /\ TurnInv
  BY <1>3, Zenon DEF LateInv, TurnInv
<1>. QED
  BY <1>2, <1>5, <1>6, <1>7, Zenon DEF IInv

\* A step that changes nothing.
LEMMA StutterStep ==
  ASSUME IInv, UNCHANGED vars
  PROVE  IInv'
<1>. USE DEF IInv
<1>1. /\ rows' = rows /\ wpc' = wpc /\ lag' = lag /\ cur' = cur /\ worked' = worked /\ left' = left
      /\ stepped' = stepped /\ downFor' = downFor
  BY Zenon DEF vars
<1>2. ScheduleTypes'
  BY <1>1, Zenon DEF ScheduleTypes
<1>3. /\ Leads' = Leads
      /\ \A r \in Ids : Age(r)' = Age(r) /\ RoundAge(r)' = RoundAge(r) /\ Late(r)' = Late(r)
      /\ \A r \in Ids : Live(r)' = Live(r) /\ Wait(r)' = Wait(r)
      /\ \A r \in Ids : Ahead(r)' = Ahead(r) /\ AheadHeld(r)' = AheadHeld(r)
  BY <1>1, Zenon
    DEF Leads, Live, Age, RoundAge, Late, Wait, Before, Ahead, AheadHeld, State, Due, Born,
        Since
<1>4. WorkerInv'
  BY <1>1, <1>3, Zenon DEF WorkerInv, State, Since
<1>5. ClockInv'
  BY <1>1, <1>3, Zenon DEF ClockInv, Due, Born
<1>6. LateInv'
  BY <1>1, <1>3, Zenon DEF LateInv, State
<1>7. TurnInv'
  BY <1>1, <1>3, Zenon DEF TurnInv, QueuedTurn, SubmittedTurn, State
<1>. QED
  BY <1>2, <1>4, <1>5, <1>6, <1>7, Zenon

\* The inductive invariant of the schedule: what the worker holds, how far the
\* creations are ahead of the clock, and that every record's turn still comes in time.
THEOREM Invariance == Spec => []IInv
<1>1. IInv /\ [Next]_vars => IInv'
  <2>. SUFFICES ASSUME IInv, [Next]_vars PROVE IInv'
    BY Zenon
  <2>. QED
    BY EnqueueStep, processSubmittedStep, PollReturnsStep, processQueuedStep, SubmitReturnsStep,
        SleepEndsStep, recoverMetadataStep, TickStep, StepBackStep, StutterStep, MeasuresHold,
        Zenon
      DEF Next
<1>. QED
  BY <1>1, InitInv, MeasuresHold, PTL DEF Spec

\* Neither queue starves the other and no record is passed over for ever: a due
\* record is taken within its turn (Worker.Start's rounds and the ORDER BY of
\* NextSubmittedReady and ClaimReady).
THEOREM DueInTurn == Spec => []DueIsTaken
<1>1. IInv => DueIsTaken
  <2>. SUFFICES ASSUME IInv, NEW r \in Ids, State(r) \in {"queued", "submitted"}, r \notin cur
                PROVE  -Due(r) <= Turn + stepped
    BY Zenon DEF DueIsTaken, State, Due
  <2>1. RecordFacts(r) /\ Wait(r) <= Turn + stepped
    BY InTime, Facts, MeasuresHold, Zenon DEF IInv
  <2>. QED
    BY <2>1, MeasuresHold
      DEF Measures, Sizes, TurnSize, RecordFacts, Typed, Ages, Waits, IInv, ScheduleTypes
<1>. QED
  BY <1>1, Invariance, PTL

\* A submitted record leaves that state within SubmittedTimeout, its last delay and
\* its turn (processSubmittedOnce looks at the timeout when the record is due).
THEOREM SubmittedInTime == Spec => []SubmittedEnds
<1>1. IInv => SubmittedEnds
  <2>. SUFFICES ASSUME IInv, NEW r \in Ids, State(r) = "submitted"
                PROVE  Since(r) <= SubmittedTimeout + MaxAfter + Turn + stepped
    BY Zenon DEF SubmittedEnds, State, Since
  <2>1. RecordFacts(r) /\ stepped \in Int /\ stepped >= 0 /\ Since(r) \in Int
    BY Facts, MeasuresHold DEF IInv, ScheduleTypes, Row, Since
  <2>2. CASE r \notin cur
    <3>1. Wait(r) <= Turn + stepped
      BY <2>2, InTime, MeasuresHold, Zenon
    <3>. QED
      BY <2>1, <3>1, MeasuresHold
        DEF Measures, Sizes, AfterSize, TurnSize, RecordFacts, Typed, Delayed, Waits
  <2>3. CASE r \in cur
    <3>1. wpc = "poll" /\ Since(r) - lag <= SubmittedTimeout /\ lag + left <= SubmitTimeout
      BY <2>3, Zenon DEF IInv, WorkerInv
    <3>2. left \in Int /\ left >= 0 /\ lag \in Int
      BY DEF IInv, ScheduleTypes
    <3>3. Turn >= SubmitTimeout
      BY <2>1, MeasuresHold
        DEF Measures, Sizes, CallSize, PollSize, TurnSize, RecordFacts, Counted
    <3>. QED
      BY <2>1, <3>1, <3>2, <3>3, MeasuresHold DEF Measures, Sizes, CallSize, AfterSize, TurnSize
  <2>. QED
    BY <2>2, <2>3, Zenon
<1>. QED
  BY <1>1, Invariance, PTL

\* The process is not kept from starting longer than the clock was set back
\* (recoverMetadata's writes and the table's CHECK).
THEOREM DownInTime == Spec => []DownNoLonger
<1>1. IInv => DownNoLonger
  BY Zenon DEF IInv, ClockInv, DownNoLonger
<1>. QED
  BY <1>1, Invariance, PTL
=============================================================================
