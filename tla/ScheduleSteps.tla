--------------------------- MODULE ScheduleSteps ----------------------------
(***************************************************************************)
(* What the proofs about Schedule rest on, for any finite set of records,  *)
(* any durations, retry delays and Retry-After values, and any setting     *)
(* back of the clock: what the steps use of the constants (Measures), how  *)
(* many rounds a record still has before it, and the lemmas about the      *)
(* steps of the worker and of the sessions, one per action. They speak of  *)
(* a record through its columns (State, Due, Born, Since).                 *)
(***************************************************************************)
EXTENDS Schedule, TLAPS

-----------------------------------------------------------------------------
(* What the steps use of the constants.  The lemmas about the steps take it as a
   hypothesis, Measures, which ScheduleProofs proves (MeasuresHold). *)

\* The sizes that every argument below starts from: of a call, of the sleep, of the
\* clock's steps, of the delays between polls, and of the turn.
CallSize == SubmitTimeout \in Int /\ SubmitTimeout >= 1
PollSize == PollInterval \in Int /\ PollInterval >= 1
BackSize == MaxStepBack \in Int /\ MaxStepBack >= 0
AfterSize ==
  /\ SubmittedTimeout \in Int /\ SubmittedTimeout >= 1
  /\ MaxAfter \in Int /\ MaxAfter >= 1 /\ PollInterval <= MaxAfter
TurnSize == Turn \in Int
OverdueSize == Overdue \in Int /\ Overdue = Turn + SubmitTimeout + MaxStepBack + 1
Sizes == CallSize /\ PollSize /\ BackSize /\ AfterSize /\ TurnSize /\ OverdueSize

\* The sizes that are durations, and the bound on the delays a poll may ask for.
Durations ==
  /\ SubmitTimeout \in Nat /\ PollInterval \in Nat /\ SubmittedTimeout \in Nat
  /\ MaxStepBack \in Nat /\ MaxAfter \in Nat
  /\ \A a \in RetryAfters : a \in Nat /\ a <= MaxAfter

\* The backoff of submitRetryDelay is positive.
Delays == \A a \in Nat : submitRetryDelay(a) \in Nat /\ submitRetryDelay(a) >= 1

\* One record less means one round less, and the turn holds a round for every record.
Counts ==
  /\ Rounds(Cardinality({})) = 0
  /\ Turn = Rounds(Cardinality(Ids)) + PollInterval
  /\ \A U \in SUBSET Ids : \A S \in SUBSET U :
       /\ Rounds(Cardinality(S)) \in Int /\ Rounds(Cardinality(U)) \in Int
       /\ 0 <= Rounds(Cardinality(S)) /\ Rounds(Cardinality(S)) <= Rounds(Cardinality(U))
       /\ \A p \in U \ S : Rounds(Cardinality(S)) <= Rounds(Cardinality(U)) - 2 * SubmitTimeout
       /\ \A p, q \in U \ S :
            p # q => Rounds(Cardinality(S)) <= Rounds(Cardinality(U)) - 4 * SubmitTimeout

\* A set of numbers that is not empty and has a lower bound has a least element.
Least == \A S \in SUBSET Nat : S # {} => \E x \in S : \A y \in S : x <= y

\* All of it.
Measures == Sizes /\ Durations /\ Delays /\ Counts /\ Least

\* The two-element instances that Moved uses.
LEMMA MaxMin2 ==
  ASSUME NEW a \in Int, NEW b \in Int
  PROVE  /\ Max({a, b}) = IF a >= b THEN a ELSE b
         /\ Min({a, b}) = IF a <= b THEN a ELSE b
<1>1. \E x \in {a, b} : \A y \in {a, b} : x >= y
  OBVIOUS
<1>2. \E x \in {a, b} : \A y \in {a, b} : x <= y
  OBVIOUS
<1>3. Max({a, b}) \in {a, b} /\ \A y \in {a, b} : Max({a, b}) >= y
  BY <1>1, Zenon DEF Max
<1>4. Min({a, b}) \in {a, b} /\ \A y \in {a, b} : Min({a, b}) <= y
  BY <1>2, Zenon DEF Min
<1>. QED
  BY <1>3, <1>4

\* What the names of the invariant mean for one record. They are numbers.
Typed(r) == Age(r) \in Int /\ RoundAge(r) \in Int /\ Late(r) \in Int /\ Wait(r) \in Int

\* The age is counted from the record's due time, by the wall clock or the round's.
Ages(r) == RoundAge(r) = Age(r) - lag /\ Age(r) = -Due(r)

\* The lateness is counted from the end of the last poll before the timeout.
Delayed(r) == Late(r) = Since(r) - SubmittedTimeout - MaxAfter

\* The wait is the longer of the two.
Waits(r) ==
  /\ Age(r) <= Wait(r) /\ (Wait(r) = Age(r) \/ Wait(r) = Late(r))
  /\ State(r) = "submitted" => Late(r) <= Wait(r)
  /\ State(r) # "submitted" => Wait(r) = Age(r)

\* At most all other records are before it, and their rounds fit in the turn.
Counted(r) ==
  /\ Rounds(Ahead(r)) \in Int /\ Rounds(AheadHeld(r)) \in Int
  /\ 0 <= Rounds(Ahead(r)) /\ Rounds(Ahead(r)) <= Rounds(AheadHeld(r))
  /\ Rounds(AheadHeld(r)) <= Turn - PollInterval - 2 * SubmitTimeout

\* A record that the worker holds is before every other one.
HeldCounts(r) == \A p \in cur : p # r => 2 * SubmitTimeout <= Rounds(AheadHeld(r))

\* All of it.
RecordFacts(r) ==
  Typed(r) /\ Ages(r) /\ Delayed(r) /\ Waits(r) /\ Counted(r) /\ HeldCounts(r)

\* They are facts of every state of the right type, and of its successor.
LEMMA Facts == Measures /\ ScheduleTypes => \A r \in Ids : RecordFacts(r)
<1>. SUFFICES ASSUME Measures, ScheduleTypes, NEW r \in Ids PROVE RecordFacts(r)
  BY Zenon
<1>1. rows[r] \in Row /\ lag \in Int /\ cur \subseteq Ids
  BY Zenon DEF ScheduleTypes
<1>2. Due(r) \in Int /\ Since(r) \in Int
  BY <1>1, Zenon DEF Row, Due, Since
<1>3. /\ Age(r) \in Int /\ RoundAge(r) \in Int /\ Late(r) \in Int
      /\ RoundAge(r) = Age(r) - lag /\ Age(r) = -Due(r)
      /\ Late(r) = Since(r) - SubmittedTimeout - MaxAfter
  BY <1>1, <1>2 DEF Measures, Sizes, AfterSize, Age, RoundAge, Late
<1>4. /\ Wait(r) \in Int /\ Age(r) <= Wait(r) /\ (Wait(r) = Age(r) \/ Wait(r) = Late(r))
      /\ State(r) = "submitted" => Late(r) <= Wait(r)
      /\ State(r) # "submitted" => Wait(r) = Age(r)
  BY <1>3 DEF Wait
<1>. DEFINE U == Before(r) \cup (cur \ {r})
<1>5. Before(r) \subseteq U /\ U \subseteq Ids /\ r \in Ids \ U
  BY <1>1, Zenon DEF Before
<1>6. Ahead(r) = Cardinality(Before(r)) /\ AheadHeld(r) = Cardinality(U)
  BY Zenon DEF Ahead, AheadHeld
<1>7. \A p \in cur : p # r => p \in U
  BY Zenon
<1>. HIDE DEF U
<1>8. /\ Rounds(Cardinality(Before(r))) \in Int /\ Rounds(Cardinality(U)) \in Int
      /\ 0 <= Rounds(Cardinality(Before(r)))
      /\ Rounds(Cardinality(Before(r))) <= Rounds(Cardinality(U))
  BY <1>5, Zenon DEF Measures, Counts
<1>9. Rounds(Cardinality(U)) <= Rounds(Cardinality(Ids)) - 2 * SubmitTimeout
  BY <1>5, Zenon DEF Measures, Counts
<1>10. Rounds(Cardinality(Ids)) \in Int /\ Turn = Rounds(Cardinality(Ids)) + PollInterval
  BY Zenon DEF Measures, Counts
<1>11. Rounds(AheadHeld(r)) <= Turn - PollInterval - 2 * SubmitTimeout
  BY <1>6, <1>8, <1>9, <1>10 DEF Measures, Sizes, PollSize
<1>12. ASSUME NEW p \in cur, p # r PROVE 2 * SubmitTimeout <= Rounds(AheadHeld(r))
  <2>1. {} \subseteq U /\ p \in U \ {}
    BY <1>7, <1>12, Zenon
  <2>2. Rounds(Cardinality({})) <= Rounds(Cardinality(U)) - 2 * SubmitTimeout
    BY <1>5, <2>1, Zenon DEF Measures, Counts
  <2>3. Rounds(Cardinality({})) = 0
    BY Zenon DEF Measures, Counts
  <2>. QED
    BY <1>6, <1>8, <2>2, <2>3 DEF Measures, Sizes, CallSize
<1>. QED
  BY <1>3, <1>4, <1>6, <1>8, <1>11, <1>12, Zenon
    DEF RecordFacts, Typed, Ages, Delayed, Waits, Counted, HeldCounts

\* The same of the next state.
LEMMA FactsNext == Measures /\ ScheduleTypes' => \A r \in Ids : RecordFacts(r)'
<1>1. (Measures /\ ScheduleTypes => \A r \in Ids : RecordFacts(r))'
  BY Facts, PTL
<1>. QED
  BY <1>1, Zenon

\* The leads are numbers, and no record was created further ahead than the clock was
\* set back.
LeadsTyped == Leads \subseteq Int /\ 0 \in Leads /\ stepped \in Int
LeadsLimited == \A b \in Leads : b <= stepped
BirthsLead == \A r \in Ids : Live(r) => Born(r) \in Leads
LeadsBounded == LeadsTyped /\ LeadsLimited /\ BirthsLead

\* This follows from the invariant of the clock.
LEMMA LeadsFacts == ScheduleTypes /\ ClockInv => LeadsBounded
<1>. SUFFICES ASSUME ScheduleTypes, ClockInv PROVE LeadsBounded
  BY Zenon
<1>1. \A r \in Ids : Born(r) \in Int
  BY Zenon DEF ScheduleTypes, Row, Born
<1>2. Leads \subseteq Int /\ 0 \in Leads
  BY <1>1 DEF Leads
<1>3. \A b \in Leads : b <= stepped
  BY <1>2 DEF ClockInv, ScheduleTypes
<1>4. \A r \in Ids : Live(r) => Born(r) \in Leads
  BY Zenon DEF Leads
<1>. QED
  BY <1>2, <1>3, <1>4 DEF LeadsBounded, LeadsTyped, LeadsLimited, BirthsLead, ScheduleTypes

\* The same of the next state.
LEMMA LeadsFactsNext == ScheduleTypes' /\ ClockInv' => LeadsBounded'
<1>1. (ScheduleTypes /\ ClockInv => LeadsBounded)'
  BY LeadsFacts, PTL
<1>. QED
  BY <1>1, Zenon

-----------------------------------------------------------------------------
(* Room in the turn. *)

\* What room and recency say of the wait itself.
LEMMA RoomBound ==
  ASSUME Measures, NEW w \in Int, NEW k, Rounds(k) \in Int, NEW L, 0 \in L, NEW s \in Int,
         Room(w, k, L, s)
  PROVE  w + Rounds(k) <= Turn + s
<1>1. w + Rounds(k) + 0 <= Turn + s
  BY Zenon DEF Room
<1>. QED
  BY <1>1

\* The same of a recent wait.
LEMMA RecentBound ==
  ASSUME NEW w \in Int, NEW d \in Int, NEW L, 0 \in L, NEW s \in Int, Recent(w, d, L, s)
  PROVE  w <= d + s
<1>1. w + 0 <= d + s
  BY Zenon DEF Recent
<1>. QED
  BY <1>1

\* Room stays when what is left of the turn does not grow and no new lead appears.
LEMMA RoomKept ==
  ASSUME Measures, NEW L, L \subseteq Int, NEW M, M \subseteq L, NEW w \in Int, NEW v \in Int,
         NEW j, NEW k, Rounds(j) \in Int, Rounds(k) \in Int, NEW s \in Int, NEW t, t = s,
         Room(w, j, L, s), v + Rounds(k) <= w + Rounds(j)
  PROVE  Room(v, k, M, t)
<1>1. Turn \in Int
  BY Zenon DEF Measures, Sizes, TurnSize
<1>2. ASSUME NEW b \in M PROVE v + Rounds(k) + b <= Turn + s
  <2>1. b \in Int /\ w + Rounds(j) + b <= Turn + s
    BY Zenon DEF Room
  <2>. QED
    BY <1>1, <2>1
<1>. QED
  BY <1>2, Zenon DEF Room

\* A wait that fits in the turn has room, as no lead passes what the clock was set back.
LEMMA RoomLeft ==
  ASSUME Measures, NEW L, L \subseteq Int, NEW s \in Int, \A b \in L : b <= s,
         NEW v \in Int, NEW k, Rounds(k) \in Int, v + Rounds(k) <= Turn
  PROVE  Room(v, k, L, s)
<1>1. Turn \in Int
  BY Zenon DEF Measures, Sizes, TurnSize
<1>2. ASSUME NEW b \in L PROVE v + Rounds(k) + b <= Turn + s
  <2>1. b \in Int /\ b <= s
    OBVIOUS
  <2>. QED
    BY <1>1
<1>. QED
  BY <1>2, Zenon DEF Room

\* A recent wait has room when its bound and the rounds before it fit in the turn.
LEMMA RoomOfRecent ==
  ASSUME Measures, NEW L, L \subseteq Int, NEW M, M \subseteq L, NEW w \in Int, NEW v \in Int,
         NEW d \in Int, NEW k, Rounds(k) \in Int, NEW s \in Int, NEW t, t = s,
         Recent(w, d, L, s), v + Rounds(k) + d <= w + Turn
  PROVE  Room(v, k, M, t)
<1>1. Turn \in Int
  BY Zenon DEF Measures, Sizes, TurnSize
<1>2. ASSUME NEW b \in M PROVE v + Rounds(k) + b <= Turn + s
  <2>1. b \in Int /\ w + b <= d + s
    BY Zenon DEF Recent
  <2>. QED
    BY <1>1, <2>1
<1>. QED
  BY <1>2, Zenon DEF Room

\* What LateInv asks of a record whose lateness is not positive or within its age.
LEMMA LateWithin ==
  ASSUME NEW l \in Int, NEW a \in Int, NEW s \in Int, s >= 0, NEW L, L \subseteq Int,
         \A b \in L : b <= s, l <= a \/ (l <= 0 /\ l - a <= s)
  PROVE  l - a <= s /\ \A b \in L : l + b <= s \/ (a > 0 /\ l - a + b <= s)
<1>1. l - a <= s
  OBVIOUS
<1>2. ASSUME NEW b \in L PROVE l + b <= s \/ (a > 0 /\ l - a + b <= s)
  <2>1. b \in Int /\ b <= s
    OBVIOUS
  <2>. QED
    OBVIOUS
<1>. QED
  BY <1>1, <1>2, Zenon

\* The invariant keeps every wait within the turn; while a record is being polled
\* its wait may pass the turn by the length of the call.
LEMMA InTime ==
  ASSUME Measures, IInv, NEW r \in Ids, State(r) \in {"queued", "submitted"}
  PROVE  /\ Wait(r) <= Turn + stepped + SubmitTimeout
         /\ r \notin cur => Wait(r) <= Turn + stepped
<1>. USE DEF IInv
<1>1. /\ stepped \in Int /\ stepped >= 0 /\ left \in Int /\ left >= 0 /\ lag \in Int
  BY DEF ScheduleTypes
<1>2. RecordFacts(r)
  BY Facts, Zenon
<1>3. Leads \subseteq Int /\ 0 \in Leads
  BY LeadsFacts, Zenon DEF LeadsBounded, LeadsTyped
<1>4. CASE wpc \in {"round", "down", "sleep"}
  <2>1. CASE State(r) = "queued"
    <3>1. \/ Room(Age(r) + SubmitTimeout, Ahead(r), Leads, stepped)
          \/ Room(Age(r) + left + SubmitTimeout, Ahead(r), Leads, stepped)
      BY <1>4, <2>1, Zenon DEF TurnInv, QueuedTurn
    <3>. QED
      BY <1>1, <1>2, <1>3, <2>1, <3>1, RoomBound
        DEF Measures, Sizes, CallSize, TurnSize, RecordFacts, Typed, Waits, Counted
  <2>2. CASE State(r) = "submitted"
    <3>1. \/ Room(Wait(r), Ahead(r), Leads, stepped)
          \/ Room(Wait(r) + left, Ahead(r), Leads, stepped)
      BY <1>4, <2>2, Zenon DEF TurnInv, SubmittedTurn
    <3>. QED
      BY <1>1, <1>2, <1>3, <3>1, RoomBound
        DEF Measures, Sizes, CallSize, TurnSize, RecordFacts, Typed, Counted
  <2>. QED
    BY <2>1, <2>2, Zenon
<1>5. CASE wpc = "poll"
  <2>1. lag + left <= SubmitTimeout /\ \E p \in Ids : cur = {p} /\ State(p) = "submitted"
    BY <1>5, Zenon DEF WorkerInv
  <2>2. CASE State(r) = "queued"
    <3>1. \/ Room(RoundAge(r) + SubmitTimeout, Ahead(r), Leads, stepped)
          \/ Age(r) + left <= SubmitTimeout
      BY <1>5, <2>2, Zenon DEF TurnInv, QueuedTurn
    <3>. QED
      BY <1>1, <1>2, <1>3, <2>1, <2>2, <3>1, RoomBound
        DEF Measures, Sizes, CallSize, PollSize, TurnSize, RecordFacts, Typed, Ages, Waits,
            Counted
  <2>3. CASE State(r) = "submitted"
    <3>1. \/ Room(Wait(r) - lag, AheadHeld(r), Leads, stepped)
          \/ r \notin cur /\ Recent(Wait(r) + left, SubmitTimeout, Leads, stepped)
      BY <1>5, <2>3, Zenon DEF TurnInv, SubmittedTurn
    <3>2. r \notin cur => 2 * SubmitTimeout <= Rounds(AheadHeld(r))
      BY <1>2, <2>1, Zenon DEF RecordFacts, HeldCounts
    <3>. QED
      BY <1>1, <1>2, <1>3, <2>1, <3>1, <3>2, RoomBound, RecentBound
        DEF Measures, Sizes, CallSize, PollSize, TurnSize, RecordFacts, Typed, Counted
  <2>. QED
    BY <2>2, <2>3, Zenon
<1>6. CASE wpc = "claim"
  <2>1. lag <= SubmitTimeout
    BY <1>6, Zenon DEF WorkerInv
  <2>2. CASE State(r) = "queued"
    <3>1. \/ Room(RoundAge(r) + SubmitTimeout, Ahead(r), Leads, stepped)
          \/ Age(r) <= SubmitTimeout
      BY <1>6, <2>2, Zenon DEF TurnInv, QueuedTurn
    <3>. QED
      BY <1>1, <1>2, <1>3, <2>1, <2>2, <3>1, RoomBound
        DEF Measures, Sizes, CallSize, PollSize, TurnSize, RecordFacts, Typed, Ages, Waits,
            Counted
  <2>3. CASE State(r) = "submitted"
    <3>1. \/ Room(Wait(r) - lag + 2 * SubmitTimeout, Ahead(r), Leads, stepped)
          \/ Recent(Wait(r), SubmitTimeout, Leads, stepped)
      BY <1>6, <2>3, Zenon DEF TurnInv, SubmittedTurn
    <3>. QED
      BY <1>1, <1>2, <1>3, <2>1, <3>1, RoomBound, RecentBound
        DEF Measures, Sizes, CallSize, PollSize, TurnSize, RecordFacts, Typed, Counted
  <2>. QED
    BY <2>2, <2>3, Zenon
<1>7. CASE wpc = "submit"
  <2>1. lag + left <= 2 * SubmitTimeout /\ \E p \in Ids : cur = {p} /\ State(p) = "working"
    BY <1>7, Zenon DEF WorkerInv
  <2>2. CASE State(r) = "queued"
    <3>1. \/ Room(RoundAge(r) + SubmitTimeout, AheadHeld(r), Leads, stepped)
          \/ Age(r) + left <= 2 * SubmitTimeout
      BY <1>7, <2>2, Zenon DEF TurnInv, QueuedTurn
    <3>2. 2 * SubmitTimeout <= Rounds(AheadHeld(r))
      BY <1>2, <2>1, Zenon DEF RecordFacts, HeldCounts
    <3>. QED
      BY <1>1, <1>2, <1>3, <2>1, <2>2, <3>1, <3>2, RoomBound
        DEF Measures, Sizes, CallSize, PollSize, TurnSize, RecordFacts, Typed, Ages, Waits,
            Counted
  <2>3. CASE State(r) = "submitted"
    <3>1. \/ Room(Wait(r) - lag + 2 * SubmitTimeout, Ahead(r), Leads, stepped)
          \/ Recent(Wait(r) + left, 2 * SubmitTimeout, Leads, stepped)
      BY <1>7, <2>3, Zenon DEF TurnInv, SubmittedTurn
    <3>. QED
      BY <1>1, <1>2, <1>3, <2>1, <3>1, RoomBound, RecentBound
        DEF Measures, Sizes, CallSize, PollSize, TurnSize, RecordFacts, Typed, Counted
  <2>. QED
    BY <2>2, <2>3, Zenon
<1>. QED
  BY <1>4, <1>5, <1>6, <1>7, Zenon DEF ScheduleTypes
-----------------------------------------------------------------------------
(* Records that are not due. *)

\* A queued record that is not overdue has its turn before it, whatever the worker
\* is doing.
LEMMA QueuedFree ==
  Measures /\ ScheduleTypes /\ WorkerInv /\ ClockInv => \A r \in Ids : Age(r) <= 0 => QueuedTurn(r)
<1>. SUFFICES ASSUME Measures, ScheduleTypes, WorkerInv, ClockInv, NEW r \in Ids, Age(r) <= 0
              PROVE  QueuedTurn(r)
  BY Zenon
<1>1. RecordFacts(r) /\ LeadsBounded
  BY Facts, LeadsFacts, Zenon
<1>2. left \in Int
  BY DEF ScheduleTypes
<1>3. Room(Age(r) + SubmitTimeout, Ahead(r), Leads, stepped)
  BY <1>1
    DEF Measures, Sizes, CallSize, PollSize, TurnSize, RecordFacts, Typed, Counted, LeadsBounded,
        LeadsTyped, LeadsLimited, Room
<1>4. wpc = "sleep" => Room(Age(r) + left + SubmitTimeout, Ahead(r), Leads, stepped)
  <2>1. wpc = "sleep" => left <= PollInterval
    BY Zenon DEF WorkerInv
  <2>. QED
    BY <1>1, <1>2, <2>1
      DEF Measures, Sizes, CallSize, PollSize, TurnSize, RecordFacts, Typed, Counted,
          LeadsBounded, LeadsTyped, LeadsLimited, Room
<1>5. wpc \in {"poll", "submit"} => left <= SubmitTimeout
  BY Zenon DEF WorkerInv
<1>6. /\ wpc \in {"poll", "submit"} => Age(r) + left <= SubmitTimeout
      /\ wpc \in {"poll", "submit"} => Age(r) + left <= 2 * SubmitTimeout
      /\ Age(r) <= SubmitTimeout
  BY <1>1, <1>2, <1>5 DEF Measures, Sizes, CallSize, RecordFacts, Typed
<1>. QED
  BY <1>3, <1>4, <1>6, Zenon DEF QueuedTurn

\* The same of the next state.
LEMMA QueuedFreeNext ==
  Measures /\ ScheduleTypes' /\ WorkerInv' /\ ClockInv' =>
    \A r \in Ids : Age(r)' <= 0 => QueuedTurn(r)'
<1>1. (Measures /\ ScheduleTypes /\ WorkerInv /\ ClockInv =>
         \A r \in Ids : Age(r) <= 0 => QueuedTurn(r))'
  BY QueuedFree, PTL
<1>. QED
  BY <1>1, Zenon

\* The same for a submitted record that is not being polled.
LEMMA SubmittedFree ==
  Measures /\ ScheduleTypes /\ WorkerInv /\ ClockInv /\ LateInv =>
    \A r \in Ids : State(r) = "submitted" /\ r \notin cur /\ Age(r) <= 0 => SubmittedTurn(r)
<1>. SUFFICES ASSUME Measures, ScheduleTypes, WorkerInv, ClockInv, LateInv,
                     NEW r \in Ids, State(r) = "submitted", r \notin cur, Age(r) <= 0
              PROVE  SubmittedTurn(r)
  BY Zenon
<1>1. RecordFacts(r) /\ LeadsBounded
  BY Facts, LeadsFacts, Zenon
<1>2. left \in Int /\ left >= 0
  BY DEF ScheduleTypes
<1>3. Recent(Wait(r), 0, Leads, stepped)
  <2>1. ASSUME NEW b \in Leads PROVE Wait(r) + b <= 0 + stepped
    <3>1. b \in Int /\ b <= stepped /\ stepped \in Int
      BY <1>1, Zenon DEF LeadsBounded, LeadsTyped, LeadsLimited
    <3>2. Late(r) + b <= stepped
      BY <1>1 DEF LateInv, RecordFacts, Typed
    <3>. QED
      BY <1>1, <3>1, <3>2 DEF RecordFacts, Typed, Waits
  <2>. QED
    BY <2>1, Zenon DEF Recent
<1>4. /\ wpc \in {"poll", "submit"} => left <= SubmitTimeout
      /\ wpc = "sleep" => left <= PollInterval
  BY Zenon DEF WorkerInv
<1>5. Room(Wait(r), Ahead(r), Leads, stepped)
  BY <1>1, <1>3
    DEF Measures, Sizes, CallSize, PollSize, TurnSize, RecordFacts, Typed, Counted, LeadsBounded,
        LeadsTyped, Room, Recent
<1>6. wpc = "sleep" => Room(Wait(r) + left, Ahead(r), Leads, stepped)
  BY <1>1, <1>2, <1>3, <1>4
    DEF Measures, Sizes, CallSize, PollSize, TurnSize, RecordFacts, Typed, Counted, LeadsBounded,
        LeadsTyped, Room, Recent
<1>7. wpc = "poll" => Recent(Wait(r) + left, SubmitTimeout, Leads, stepped)
  BY <1>1, <1>2, <1>3, <1>4
    DEF Measures, Sizes, CallSize, RecordFacts, Typed, LeadsBounded, LeadsTyped, Recent
<1>8. Recent(Wait(r), SubmitTimeout, Leads, stepped)
  BY <1>1, <1>3
    DEF Measures, Sizes, CallSize, RecordFacts, Typed, LeadsBounded, LeadsTyped, Recent
<1>9. wpc = "submit" => Recent(Wait(r) + left, 2 * SubmitTimeout, Leads, stepped)
  BY <1>1, <1>2, <1>3, <1>4
    DEF Measures, Sizes, CallSize, RecordFacts, Typed, LeadsBounded, LeadsTyped, Recent
<1>. QED
  BY <1>5, <1>6, <1>7, <1>8, <1>9, Zenon DEF SubmittedTurn

\* The same of the next state.
LEMMA SubmittedFreeNext ==
  Measures /\ ScheduleTypes' /\ WorkerInv' /\ ClockInv' /\ LateInv' =>
    \A r \in Ids :
      State(r)' = "submitted" /\ r \notin cur' /\ Age(r)' <= 0 => SubmittedTurn(r)'
<1>1. (Measures /\ ScheduleTypes /\ WorkerInv /\ ClockInv /\ LateInv =>
         \A r \in Ids :
           State(r) = "submitted" /\ r \notin cur /\ Age(r) <= 0 => SubmittedTurn(r))'
  BY SubmittedFree, PTL
<1>. QED
  BY <1>1, Zenon

-----------------------------------------------------------------------------
(* Steps that take no time. *)

\* A step that changes no creation keeps the leads.
LEMMA LeadsKept ==
  ASSUME \A r \in Ids : Live(r)' => Born(r)' = 0 \/ (Live(r) /\ Born(r)' = Born(r))
  PROVE  Leads' \subseteq Leads
BY Zenon DEF Leads

\* The table after one row was written.
LEMMA WriteFacts ==
  ASSUME ScheduleTypes, NEW x \in Ids, NEW new \in Row, Write(x, new)
  PROVE  /\ rows' \in [Ids -> Row] /\ rows'[x] = new
         /\ \A r \in Ids : r # x => rows'[r] = rows[r]
BY Zenon DEF Write, ScheduleTypes

\* The rows that are written as they are.
LEMMA NewRows ==
  /\ None \in Row /\ None.state = "none" /\ None.due = 0 /\ None.born = 0 /\ None.since = 0
  /\ Final \in Row /\ Final.state = "final"
  /\ [None EXCEPT !.state = "queued"] \in Row
  /\ [None EXCEPT !.state = "queued"].state = "queued"
  /\ [None EXCEPT !.state = "queued"].due = 0
  /\ [None EXCEPT !.state = "queued"].born = 0
BY DEF None, Final, Row

\* A mail is stored: it is before no record that is overdue.
LEMMA EnqueueStep ==
  ASSUME Measures, IInv, NEW x \in Ids, Enqueue(x)
  PROVE  IInv'
<1>. USE DEF IInv
<1>1. /\ State(x) \in {"none", "final"} /\ wpc # "down"
      /\ rows' \in [Ids -> Row] /\ \A r \in Ids : r # x => rows'[r] = rows[r]
      /\ State(x)' = "queued" /\ Due(x)' = 0 /\ Born(x)' = 0
  BY NewRows, WriteFacts, Zenon DEF Enqueue, State, Due, Born
<1>2. UNCHANGED <<wpc, lag, cur, worked, left, stepped, downFor>>
  BY Zenon DEF Enqueue
<1>3. ScheduleTypes'
  BY <1>1, <1>2, Zenon DEF ScheduleTypes
<1>4. Leads' \subseteq Leads
  BY <1>1, LeadsKept, Zenon DEF Live, State, Born
<1>5. WorkerInv'
  BY <1>1, <1>2
    DEF Measures, Sizes, CallSize, WorkerInv, RoundAge, Age, ScheduleTypes, State, Due, Since
<1>6. ClockInv'
  BY <1>1, <1>2, <1>4 DEF ClockInv, Live, State, Due, Born
<1>7. LateInv'
  BY <1>1, <1>2, <1>4, Zenon DEF LateInv, Late, Age, State, Due, Since
<1>8. ASSUME NEW r \in Ids, State(r)' = "queued" PROVE QueuedTurn(r)'
  <2>1. CASE Age(r)' <= 0
    BY <1>3, <1>5, <1>6, <2>1, QueuedFreeNext, Zenon
  <2>2. CASE ~(Age(r)' <= 0)
    <3>1. r # x /\ rows'[r] = rows[r] /\ Due(r) < 0
      BY <1>1, <2>2 DEF Age, Row, Due
    <3>2. Before(r)' \subseteq Before(r)
      <4>1. x \notin Before(r)'
        BY <1>1, <3>1 DEF Before, Row, Due
      <4>. QED
        BY <1>1, <3>1, <4>1, Zenon DEF Before, State, Due
    <3>3. /\ Before(r) \cup (cur \ {r}) \subseteq Ids /\ Before(r) \subseteq Ids
          /\ (Before(r) \cup (cur \ {r}))' \subseteq Before(r) \cup (cur \ {r})
      BY <1>2, <3>2, Zenon DEF Before, ScheduleTypes
    <3>4. Rounds(Ahead(r)') <= Rounds(Ahead(r)) /\ Rounds(AheadHeld(r)') <= Rounds(AheadHeld(r))
      BY <3>2, <3>3, Zenon DEF Measures, Counts, Ahead, AheadHeld
    <3>5. RecordFacts(r) /\ RecordFacts(r)' /\ LeadsBounded
      BY <1>3, Facts, FactsNext, LeadsFacts, Zenon
    <3>6. Age(r)' = Age(r) /\ RoundAge(r)' = RoundAge(r)
      BY <1>2, <3>1, Zenon DEF Age, RoundAge, Due
    <3>7. left \in Int /\ left' = left /\ wpc' = wpc /\ stepped' = stepped
      BY <1>2 DEF ScheduleTypes
    <3>8. QueuedTurn(r)
      BY <1>8, <3>1, Zenon DEF TurnInv, State
    <3>. QED
      BY <1>4, <3>4, <3>5, <3>6, <3>7, <3>8
        DEF Measures, Sizes, CallSize, TurnSize, QueuedTurn, RecordFacts, Typed, Counted,
            LeadsBounded, LeadsTyped, Room
  <2>. QED
    BY <2>1, <2>2, Zenon
<1>9. ASSUME NEW r \in Ids, State(r)' = "submitted" PROVE SubmittedTurn(r)'
  <2>1. r # x /\ rows'[r] = rows[r]
    BY <1>1, <1>9, Zenon
  <2>2. Before(r)' = Before(r)
    BY <1>1, <1>9, Zenon DEF Before, State, Due
  <2>3. /\ Ahead(r)' = Ahead(r) /\ AheadHeld(r)' = AheadHeld(r) /\ Wait(r)' = Wait(r)
        /\ RoundAge(r)' = RoundAge(r)
    BY <1>2, <2>1, <2>2, Zenon
      DEF Ahead, AheadHeld, Wait, Late, Age, RoundAge, State, Due, Since
  <2>4. RecordFacts(r) /\ LeadsBounded /\ left \in Int /\ lag \in Int
    BY Facts, LeadsFacts DEF ScheduleTypes
  <2>5. SubmittedTurn(r)
    BY <1>9, <2>1, Zenon DEF TurnInv, State
  <2>. QED
    BY <1>2, <1>4, <2>3, <2>4, <2>5, Zenon
      DEF Measures, Sizes, SubmittedTurn, RecordFacts, Room, Recent
<1>. QED
  BY <1>3, <1>5, <1>6, <1>7, <1>8, <1>9, Zenon DEF TurnInv

\* A query returns a record when there is one: the dates are bounded below.
LEMMA FirstDueExists ==
  ASSUME Measures, IInv, NEW st \in {"queued", "submitted"}, NEW t \in Int, FirstDue(st, t) = {}
  PROVE  \A r \in Ids : State(r) = st => Due(r) > t
<1>. SUFFICES ASSUME NEW r \in Ids, State(r) = st, ~(Due(r) > t) PROVE FALSE
  BY Zenon
<1>. DEFINE B == Turn + stepped + SubmitTimeout
            D == {x \in Ids : State(x) = st /\ Due(x) <= t}
            V == {Due(x) + B : x \in D}
<1>1. B \in Int /\ \A x \in Ids : Due(x) \in Int
  BY DEF Measures, Sizes, CallSize, TurnSize, IInv, ScheduleTypes, Row, Due
<1>2. ASSUME NEW x \in D PROVE Due(x) + B \in Nat
  <2>1. Wait(x) <= B /\ RecordFacts(x)
    BY InTime, Facts, Zenon DEF IInv
  <2>. HIDE DEF B
  <2>. QED
    BY <1>1, <2>1 DEF RecordFacts, Typed, Ages, Waits
<1>3. r \in D
  BY <1>1
<1>4. V \subseteq Nat /\ V # {}
  <2>. HIDE DEF B, D
  <2>. QED
    BY <1>2, <1>3, Zenon
<1>5. PICK v \in V : \A u \in V : v <= u
  <2>. HIDE DEF V
  <2>. QED
    BY <1>4, Zenon DEF Measures, Least
<1>6. PICK y \in D : v = Due(y) + B
  BY Zenon
<1>7. ASSUME NEW x \in D PROVE Due(y) <= Due(x)
  <2>1. Due(y) + B <= Due(x) + B
    BY <1>5, <1>6, Zenon
  <2>2. x \in Ids /\ y \in Ids
    BY Zenon
  <2>. HIDE DEF B, D
  <2>. QED
    BY <1>1, <2>1, <2>2
<1>8. y \in FirstDue(st, t)
  BY <1>7, Zenon DEF FirstDue, State, Due
<1>. QED
  BY <1>8, Zenon

\* The top of the round: the first submitted record that is due is taken, or is at
\* its timeout and settled; the others have one record less before them.
LEMMA processSubmittedStep ==
  ASSUME Measures, IInv, processSubmittedOnce
  PROVE  IInv'
<1>. USE DEF IInv
<1>1. wpc = "round" /\ lag' = 0 /\ cur = {} /\ downFor = 0 /\ stepped \in Int /\ stepped >= 0
  BY DEF processSubmittedOnce, WorkerInv, ScheduleTypes
<1>2. LeadsBounded /\ \A r \in Ids : RecordFacts(r)
  BY Facts, LeadsFacts, Zenon
<1>3. \A r \in Ids : Due(r) \in Int /\ Since(r) \in Int
  BY Zenon DEF ScheduleTypes, Row, Due, Since
<1>4. CASE /\ FirstDue("submitted", 0) = {} /\ wpc' = "claim" /\ worked' = FALSE
           /\ UNCHANGED <<rows, cur, left, rest, hist>>
  <2>1. stepped' = stepped /\ downFor' = downFor
    BY <1>4, Zenon DEF hist
  <2>2. ScheduleTypes' /\ Leads' = Leads
    <3>1. Leads' = Leads
      BY <1>4, Zenon DEF Leads, Live, State, Born
    <3>2. worked' \in BOOLEAN
      BY <1>4, Zenon
    <3>3. /\ lag' \in Int /\ wpc' = "claim" /\ left' = left /\ cur' = cur /\ rows' = rows
          /\ downFor' = downFor /\ stepped' = stepped
      BY <1>1, <1>4, <2>1
    <3>4. ScheduleTypes'
      BY <3>2, <3>3, Zenon DEF ScheduleTypes
    <3>. QED
      BY <3>1, <3>4, Zenon
  <2>3. ASSUME NEW r \in Ids
        PROVE  Age(r)' = Age(r) /\ RoundAge(r)' = Age(r) /\ Ahead(r)' = Ahead(r)
    BY <1>1, <1>3, <1>4 DEF Age, RoundAge, Ahead, Before, State, Due
  <2>4. \A r \in Ids : State(r) = "submitted" => Age(r) < 0
    BY <1>3, <1>4, FirstDueExists DEF Age
  <2>5. WorkerInv'
    BY <1>1, <1>4, <2>1, <2>3, <2>4 DEF Measures, Sizes, CallSize, WorkerInv, State
  <2>6. ClockInv'
    BY <1>4, <2>1, <2>2, Zenon DEF ClockInv, Live, State, Due, Born
  <2>7. LateInv'
    BY <1>4, <2>1, <2>2, Zenon DEF LateInv, Late, Age, State, Due, Since
  <2>8. ASSUME NEW r \in Ids, State(r)' = "queued" PROVE QueuedTurn(r)'
    <3>1. CASE Age(r)' <= 0
      BY <2>2, <2>5, <2>6, <3>1, QueuedFreeNext, Zenon
    <3>2. CASE ~(Age(r)' <= 0)
      <4>1. Room(Age(r) + SubmitTimeout, Ahead(r), Leads, stepped)
        BY <1>1, <1>4, <2>8, Zenon DEF TurnInv, QueuedTurn, State
      <4>2. RoundAge(r)' >= 0
        BY <1>2, <2>3, <3>2 DEF RecordFacts, Typed
      <4>. QED
        BY <1>4, <2>1, <2>2, <2>3, <4>1, <4>2, Zenon DEF QueuedTurn
    <3>. QED
      BY <3>1, <3>2, Zenon
  <2>9. ASSUME NEW r \in Ids, State(r)' = "submitted" PROVE SubmittedTurn(r)'
    <3>1. Age(r)' <= 0 /\ r \notin cur'
      BY <1>1, <1>2, <1>4, <2>3, <2>4, <2>9 DEF RecordFacts, Typed, State
    <3>. QED
      BY <2>2, <2>5, <2>6, <2>7, <2>9, <3>1, SubmittedFreeNext, Zenon
  <2>. QED
    BY <2>2, <2>5, <2>6, <2>7, <2>8, <2>9, Zenon DEF TurnInv
<1>5. ASSUME NEW p \in FirstDue("submitted", 0), Write(p, Final), wpc' = "claim", worked' = TRUE,
             UNCHANGED <<cur, left, rest, hist>>
      PROVE  IInv'
  <2>1. stepped' = stepped /\ downFor' = downFor /\ p \in Ids /\ State(p) = "submitted"
    BY <1>5, Zenon DEF hist, FirstDue, State
  <2>2. /\ rows' \in [Ids -> Row] /\ State(p)' = "final"
        /\ \A r \in Ids : r # p => rows'[r] = rows[r]
    BY <1>5, <2>1, NewRows, WriteFacts, Zenon DEF State
  <2>3. ScheduleTypes' /\ Leads' \subseteq Leads
    BY <1>1, <1>5, <2>1, <2>2, LeadsKept DEF ScheduleTypes, Live, State, Born
  <2>4. WorkerInv'
    BY <1>1, <1>5, <2>1, <2>2 DEF Measures, Sizes, CallSize, WorkerInv
  <2>5. ClockInv'
    BY <2>1, <2>2, <2>3, Zenon DEF ClockInv, Live, State, Due, Born
  <2>6. LateInv'
    BY <2>1, <2>2, <2>3, Zenon DEF LateInv, Late, Age, State, Due, Since
  <2>7. ASSUME NEW r \in Ids, r # p
        PROVE  Age(r)' = Age(r) /\ RoundAge(r)' = Age(r) /\ Wait(r)' = Wait(r)
    BY <1>1, <1>3, <2>2, <2>7 DEF Age, RoundAge, Wait, Late, State, Due, Since
  <2>8. ASSUME NEW r \in Ids, State(r)' = "queued" PROVE QueuedTurn(r)'
    <3>1. CASE Age(r)' <= 0
      BY <2>3, <2>4, <2>5, <3>1, QueuedFreeNext, Zenon
    <3>2. CASE ~(Age(r)' <= 0)
      <4>1. r # p /\ State(r) = "queued" /\ Before(r)' = Before(r)
        BY <2>1, <2>2, <2>8, Zenon DEF Before, State, Due
      <4>2. Room(Age(r) + SubmitTimeout, Ahead(r), Leads, stepped)
        BY <1>1, <4>1, Zenon DEF TurnInv, QueuedTurn
      <4>3. RoundAge(r)' >= 0 /\ Ahead(r)' = Ahead(r)
        BY <1>2, <2>7, <3>2, <4>1 DEF RecordFacts, Typed, Ahead
      <4>. QED
        BY <1>5, <2>1, <2>3, <2>7, <4>1, <4>2, <4>3, Zenon DEF QueuedTurn, Room
    <3>. QED
      BY <3>1, <3>2, Zenon
  <2>9. ASSUME NEW r \in Ids, State(r)' = "submitted" PROVE SubmittedTurn(r)'
    <3>1. r # p /\ State(r) = "submitted" /\ r \notin cur'
      BY <1>1, <1>5, <2>2, <2>9, Zenon DEF State
    <3>2. CASE Age(r)' <= 0
      BY <2>3, <2>4, <2>5, <2>6, <2>9, <3>1, <3>2, SubmittedFreeNext, Zenon
    <3>3. CASE ~(Age(r)' <= 0)
      <4>1. Due(r) <= 0 /\ RoundAge(r)' >= 0
        BY <1>2, <1>3, <2>7, <3>1, <3>3 DEF RecordFacts, Ages
      <4>2. p \in Before(r) /\ Before(r)' \subseteq Before(r) \ {p}
        BY <2>2, <3>1, <4>1, Zenon DEF Before, FirstDue, State, Due
      <4>3. Rounds(Ahead(r)') <= Rounds(Ahead(r)) - 2 * SubmitTimeout
        BY <4>2, Zenon DEF Measures, Counts, Ahead, Before
      <4>4. Room(Wait(r), Ahead(r), Leads, stepped)
        BY <1>1, <3>1, Zenon DEF TurnInv, SubmittedTurn
      <4>5. RecordFacts(r) /\ RecordFacts(r)'
        BY <2>3, Facts, FactsNext, Zenon
      <4>6. Room(Wait(r)' - lag' + 2 * SubmitTimeout, Ahead(r)', Leads', stepped')
        <5>. DEFINE v == Wait(r)' - lag' + 2 * SubmitTimeout
        <5>1. /\ Wait(r) \in Int /\ Rounds(Ahead(r)) \in Int /\ Rounds(Ahead(r)') \in Int
              /\ v \in Int /\ v + Rounds(Ahead(r)') <= Wait(r) + Rounds(Ahead(r))
          BY <1>1, <1>2, <2>1, <2>7, <3>1, <4>3, <4>5
            DEF Measures, Sizes, CallSize, RecordFacts, Typed, Counted
        <5>2. Leads \subseteq Int /\ Leads' \subseteq Leads /\ stepped \in Int /\ stepped' = stepped
          BY <1>1, <1>2, <2>1, <2>3, Zenon DEF LeadsBounded, LeadsTyped
        <5>. HIDE DEF v
        <5>3. Room(v, Ahead(r)', Leads', stepped')
          BY <4>4, <5>1, <5>2, RoomKept, Zenon
        <5>. QED
          BY <5>3, Zenon DEF v
      <4>. QED
        BY <1>5, <4>1, <4>6, Zenon DEF SubmittedTurn
    <3>. QED
      BY <3>2, <3>3, Zenon
  <2>. QED
    BY <2>3, <2>4, <2>5, <2>6, <2>8, <2>9, Zenon DEF TurnInv
<1>6. ASSUME NEW p \in FirstDue("submitted", 0), ~(Since(p) >= SubmittedTimeout),
             wpc' = "poll", cur' = {p}, left' = SubmitTimeout,
             UNCHANGED <<rows, worked, rest, hist>>
      PROVE  IInv'
  <2>1. /\ stepped' = stepped /\ downFor' = downFor /\ p \in Ids
        /\ State(p) = "submitted" /\ Due(p) <= 0
    BY <1>6, Zenon DEF hist, FirstDue, State, Due
  <2>2. ScheduleTypes' /\ Leads' = Leads
    BY <1>1, <1>6, <2>1 DEF Measures, Durations, ScheduleTypes, Leads, Live, State, Born
  <2>3. ASSUME NEW r \in Ids
        PROVE  /\ Age(r)' = Age(r) /\ RoundAge(r)' = Age(r) /\ Wait(r)' = Wait(r)
               /\ Before(r)' = Before(r) /\ Ahead(r)' = Ahead(r)
    BY <1>1, <1>3, <1>6 DEF Age, RoundAge, Ahead, Before, Wait, Late, State, Due, Since
  <2>4. WorkerInv'
    <3>1. /\ RoundAge(p)' = -Due(p) /\ Due(p) \in Int /\ Since(p) \in Int
          /\ Since(p)' = Since(p) /\ State(p)' = State(p) /\ ~(Since(p) >= SubmittedTimeout)
      BY <1>2, <1>3, <1>6, <2>1, <2>3, Zenon DEF RecordFacts, Ages, State, Since
    <3>2. RoundAge(p)' >= 0 /\ Since(p)' - lag' <= SubmittedTimeout
      BY <1>1, <2>1, <3>1 DEF Measures, Sizes, AfterSize
    <3>3. lag' + left' <= SubmitTimeout /\ -lag' <= stepped'
      BY <1>1, <1>6, <2>1 DEF Measures, Sizes, CallSize
    <3>4. left' <= SubmitTimeout
      BY <1>6 DEF Measures, Sizes, CallSize
    <3>. QED
      BY <1>1, <1>6, <2>1, <3>1, <3>2, <3>3, <3>4, Zenon DEF WorkerInv
  <2>5. ClockInv'
    BY <1>6, <2>1, <2>2, Zenon DEF ClockInv, Live, State, Due, Born
  <2>6. LateInv'
    BY <1>6, <2>1, <2>2, Zenon DEF LateInv, Late, Age, State, Due, Since
  <2>7. ASSUME NEW r \in Ids, State(r)' = "queued" PROVE QueuedTurn(r)'
    <3>1. CASE Age(r)' <= 0
      BY <2>2, <2>4, <2>5, <3>1, QueuedFreeNext, Zenon
    <3>2. CASE ~(Age(r)' <= 0)
      <4>1. Room(Age(r) + SubmitTimeout, Ahead(r), Leads, stepped)
        BY <1>1, <1>6, <2>7, Zenon DEF TurnInv, QueuedTurn, State
      <4>2. RoundAge(r)' >= 0
        BY <1>2, <2>3, <3>2 DEF RecordFacts, Typed
      <4>. QED
        BY <1>6, <2>1, <2>2, <2>3, <4>1, <4>2, Zenon DEF QueuedTurn
    <3>. QED
      BY <3>1, <3>2, Zenon
  <2>8. ASSUME NEW r \in Ids, State(r)' = "submitted" PROVE SubmittedTurn(r)'
    <3>1. CASE Age(r)' < 0
      <4>1. r \notin cur' /\ Age(r)' <= 0
        BY <1>2, <1>3, <1>6, <2>1, <2>3, <3>1 DEF RecordFacts, Ages
      <4>. QED
        BY <2>2, <2>4, <2>5, <2>6, <2>8, <4>1, SubmittedFreeNext, Zenon
    <3>2. CASE ~(Age(r)' < 0)
      <4>1. Due(r) <= 0 /\ RoundAge(r)' >= 0 /\ State(r) = "submitted"
        BY <1>2, <1>3, <1>6, <2>3, <2>8, <3>2 DEF RecordFacts, Ages, State
      <4>2. (Before(r) \cup (cur \ {r}))' = Before(r)
        <5>1. r # p => p \in Before(r)
          BY <4>1, Zenon DEF Before, FirstDue, State, Due
        <5>. QED
          BY <1>6, <2>3, <5>1, Zenon
      <4>3. AheadHeld(r)' = Ahead(r)
        BY <4>2, Zenon DEF AheadHeld, Ahead
      <4>4. Room(Wait(r), Ahead(r), Leads, stepped)
        BY <1>1, <4>1, Zenon DEF TurnInv, SubmittedTurn
      <4>5. Wait(r)' - lag' = Wait(r)
        BY <1>1, <1>2, <2>3 DEF RecordFacts, Typed
      <4>. QED
        BY <1>6, <2>1, <2>2, <4>1, <4>3, <4>4, <4>5, Zenon DEF SubmittedTurn
    <3>. QED
      BY <3>1, <3>2, Zenon
  <2>. QED
    BY <2>2, <2>4, <2>5, <2>6, <2>7, <2>8, Zenon DEF TurnInv
<1>. QED
  BY <1>4, <1>5, <1>6, Zenon DEF processSubmittedOnce, Since

\* The record being submitted is none of those before a queued one.
LEMMA HeldFacts ==
  ASSUME Measures, IInv, wpc = "submit", NEW r \in Ids, State(r) = "queued"
  PROVE  /\ Rounds(Ahead(r)) <= Rounds(AheadHeld(r)) - 2 * SubmitTimeout
         /\ \A p \in cur : p # r /\ p \notin Before(r)
<1>1. PICK p \in Ids : cur = {p} /\ State(p) = "working"
  BY Zenon DEF IInv, WorkerInv
<1>2. p # r /\ p \notin Before(r)
  BY <1>1, Zenon DEF Before
<1>. DEFINE U == Before(r) \cup (cur \ {r})
<1>3. U \subseteq Ids /\ Before(r) \subseteq U /\ p \in U \ Before(r)
  BY <1>1, Zenon DEF Before
<1>4. Ahead(r) = Cardinality(Before(r)) /\ AheadHeld(r) = Cardinality(U)
  BY Zenon DEF Ahead, AheadHeld
<1>. HIDE DEF U
<1>5. Rounds(Cardinality(Before(r))) <= Rounds(Cardinality(U)) - 2 * SubmitTimeout
  BY <1>3, Zenon DEF Measures, Counts
<1>. QED
  BY <1>1, <1>2, <1>4, <1>5, Zenon

\* A write is refused only when the clock is behind the round's clock.
LEMMA RefusedIsBehind ==
  ASSUME Measures, IInv, NEW p \in Ids, Live(p), RoundAge(p) >= 0, ~CheckHolds(p)
  PROVE  lag < 0
<1>1. Born(p) \in Int /\ Born(p) > 0 /\ Due(p) \in Int /\ lag \in Int
  BY DEF IInv, ScheduleTypes, Row, CheckHolds, Due, Born
<1>2. Born(p) <= Due(p) \/ Born(p) <= stepped - MaxStepBack
  BY Zenon DEF IInv, ClockInv
<1>3. stepped - MaxStepBack <= 0
  BY DEF Measures, Sizes, BackSize, IInv, ScheduleTypes
<1>4. -Due(p) - lag >= 0
  BY Zenon DEF RoundAge, Age
<1>. QED
  BY <1>1, <1>2, <1>3, <1>4 DEF Measures, Sizes, BackSize, IInv, ScheduleTypes

\* A refused write ends the process: nothing is lost but the round.
LEMMA ProcessEndsStep ==
  ASSUME Measures, IInv, wpc \in {"poll", "claim", "submit"}, lag < 0, ProcessEnds
  PROVE  IInv'
<1>. USE DEF IInv
<1>1. /\ rows' = rows /\ stepped' = stepped /\ downFor' = downFor /\ wpc' = "down" /\ cur' = {}
      /\ left' = 0 /\ lag' = 0
  BY Zenon DEF ProcessEnds, hist
<1>2. ScheduleTypes'
  <2>1. worked' \in BOOLEAN
    BY Zenon DEF ProcessEnds
  <2>. QED
    BY <1>1, <2>1 DEF ScheduleTypes
<1>3. Leads' = Leads
  BY <1>1, Zenon DEF Leads, Live, State, Born
<1>4. WorkerInv' /\ ClockInv' /\ LateInv'
  <2>1. WorkerInv'
    BY <1>1, Zenon DEF WorkerInv
  <2>2. ClockInv'
    BY <1>1, <1>3, Zenon DEF ClockInv, Live, State, Due, Born
  <2>3. LateInv'
    BY <1>1, <1>3, Zenon DEF LateInv, Late, Age, State, Due, Since
  <2>. QED
    BY <2>1, <2>2, <2>3, Zenon
<1>5. ASSUME NEW r \in Ids
      PROVE  /\ Age(r)' = Age(r) /\ Wait(r)' = Wait(r) /\ Ahead(r)' = Ahead(r)
             /\ RecordFacts(r) /\ LeadsBounded
  BY <1>1, Facts, LeadsFacts, Zenon DEF Age, Wait, Late, Ahead, Before, State, Due, Since
<1>6. left \in Int /\ left >= 0 /\ lag \in Int
  BY DEF ScheduleTypes
<1>7. ASSUME NEW r \in Ids, State(r)' = "queued" PROVE QueuedTurn(r)'
  <2>1. Room(Age(r) + SubmitTimeout, Ahead(r), Leads, stepped)
    <3>1. QueuedTurn(r) /\ RecordFacts(r) /\ LeadsBounded
      BY <1>1, <1>5, <1>7, Zenon DEF TurnInv, State
    <3>2. CASE wpc \in {"poll", "claim"}
      BY <1>6, <3>1, <3>2
        DEF Measures, Sizes, CallSize, PollSize, TurnSize, QueuedTurn, RecordFacts, Typed, Ages,
            Counted, LeadsBounded, LeadsTyped, LeadsLimited, Room
    <3>3. CASE wpc = "submit"
      <4>1. Rounds(Ahead(r)) <= Rounds(AheadHeld(r)) - 2 * SubmitTimeout
        BY <1>1, <1>7, <3>3, HeldFacts, Zenon DEF State
      <4>. QED
        BY <1>6, <3>1, <3>3, <4>1
          DEF Measures, Sizes, CallSize, PollSize, TurnSize, QueuedTurn, RecordFacts, Typed,
              Ages, Counted, LeadsBounded, LeadsTyped, LeadsLimited, Room
    <3>. QED
      BY <3>2, <3>3, Zenon
  <2>. QED
    BY <1>1, <1>3, <1>5, <2>1, Zenon DEF QueuedTurn
<1>8. ASSUME NEW r \in Ids, State(r)' = "submitted" PROVE SubmittedTurn(r)'
  <2>1. Room(Wait(r), Ahead(r), Leads, stepped)
    <3>1. SubmittedTurn(r) /\ RecordFacts(r) /\ LeadsBounded
      BY <1>1, <1>5, <1>8, Zenon DEF TurnInv, State
    <3>. QED
      BY <1>6, <3>1
        DEF Measures, Sizes, CallSize, PollSize, TurnSize, SubmittedTurn, RecordFacts, Typed,
            Counted, LeadsBounded, LeadsTyped, Room, Recent
  <2>. QED
    BY <1>1, <1>3, <1>5, <2>1, Zenon DEF SubmittedTurn
<1>. QED
  BY <1>2, <1>4, <1>7, <1>8, Zenon DEF TurnInv

\* The answer of a poll: the record is settled or due again after the round's clock,
\* so it is before no record of the round.
LEMMA PollReturnsStep ==
  ASSUME Measures, IInv, PollReturns
  PROVE  IInv'
<1>. USE DEF IInv
<1>1. PICK p \in cur :
        \/ /\ CheckHolds(p)
           /\ \/ \E after \in RetryAfters : Write(p, [rows[p] EXCEPT !.due = NextPoll(after)])
              \/ Write(p, Final)
           /\ wpc' = "claim" /\ worked' = TRUE /\ cur' = {} /\ left' = 0
           /\ UNCHANGED <<lag, rest, hist>>
        \/ ~CheckHolds(p) /\ ProcessEnds
  BY Zenon DEF PollReturns
<1>2. /\ wpc = "poll" /\ p \in Ids /\ cur = {p} /\ RoundAge(p) >= 0 /\ State(p) = "submitted"
      /\ Since(p) - lag <= SubmittedTimeout
  BY Zenon DEF PollReturns, WorkerInv
<1>3. CASE ~CheckHolds(p) /\ ProcessEnds
  BY <1>2, <1>3, RefusedIsBehind, ProcessEndsStep, Zenon DEF Live
<1>4. CASE /\ CheckHolds(p)
           /\ \/ \E after \in RetryAfters : Write(p, [rows[p] EXCEPT !.due = NextPoll(after)])
              \/ Write(p, Final)
           /\ wpc' = "claim" /\ worked' = TRUE /\ cur' = {} /\ left' = 0
           /\ UNCHANGED <<lag, rest, hist>>
  <2>1. /\ wpc' = "claim" /\ cur' = {} /\ left' = 0 /\ lag' = lag
        /\ stepped' = stepped /\ downFor' = downFor
    BY <1>4, Zenon DEF hist
  <2>2. /\ lag \in Int /\ left \in Int /\ left >= 0 /\ lag + left <= SubmitTimeout
        /\ -lag <= stepped /\ stepped \in Int /\ stepped >= 0
    BY <1>2 DEF ScheduleTypes, WorkerInv
  <2>3. /\ rows[p] \in Row /\ Due(p) \in Int /\ Since(p) \in Int /\ Born(p) \in Int
        /\ Born(p) <= 0 /\ Due(p) <= -lag
    BY <1>2, <1>4 DEF ScheduleTypes, Row, CheckHolds, RoundAge, Age, Due, Born, Since
  <2>4. /\ rows' \in [Ids -> Row] /\ \A r \in Ids : r # p => rows'[r] = rows[r]
        /\ \/ State(p)' = "final"
           \/ /\ State(p)' = "submitted" /\ Due(p)' \in Int
              /\ Due(p)' >= 1 - lag /\ Due(p)' <= MaxAfter - lag
              /\ Since(p)' = Since(p) /\ Born(p)' = Born(p)
    <3>1. ASSUME NEW after \in RetryAfters, Write(p, [rows[p] EXCEPT !.due = NextPoll(after)])
          PROVE  <2>4!:
      <4>1. /\ NextPoll(after) \in Int
            /\ NextPoll(after) >= 1 - lag /\ NextPoll(after) <= MaxAfter - lag
        BY <2>2 DEF Measures, Sizes, PollSize, AfterSize, Durations, NextPoll
      <4>. DEFINE new == [rows[p] EXCEPT !.due = NextPoll(after)]
      <4>2. /\ new \in Row /\ new.state = "submitted" /\ new.due = NextPoll(after)
            /\ new.since = Since(p) /\ new.born = Born(p)
        BY <1>2, <2>3, <4>1, Zenon DEF Row, State, Born, Since
      <4>3. Write(p, new)
        BY <3>1, Zenon
      <4>. HIDE DEF new
      <4>4. /\ rows' \in [Ids -> Row] /\ rows'[p] = new
            /\ \A r \in Ids : r # p => rows'[r] = rows[r]
        BY <1>2, <4>2, <4>3, WriteFacts, Zenon
      <4>. QED
        BY <4>1, <4>2, <4>4, Zenon DEF State, Due, Born, Since
    <3>2. CASE Write(p, Final)
      BY <1>2, <3>2, NewRows, WriteFacts, Zenon DEF State
    <3>. QED
      BY <1>4, <3>1, <3>2, Zenon
  <2>5. ScheduleTypes'
    <3>1. worked' \in BOOLEAN
      BY <1>4, Zenon
    <3>. QED
      BY <2>1, <2>4, <3>1, Zenon DEF ScheduleTypes
  <2>6. Leads' \subseteq Leads
    BY <1>2, <2>4, LeadsKept, Zenon DEF Live, State, Born
  <2>7. WorkerInv'
    <3>1. State(p)' # "queued"
      BY <2>4, Zenon
    <3>2. worked'
      BY <1>4, Zenon
    <3>3. lag' <= SubmitTimeout /\ -lag' <= stepped'
      BY <2>1, <2>2 DEF Measures, Sizes, CallSize
    <3>4. \E r \in Ids : ~ (State(r)' = "queued" /\ Age(r)' >= 1)
      BY <1>2, <3>1, Zenon
    <3>5. downFor' = 0
      BY <2>1, Zenon DEF WorkerInv
    <3>. QED
      BY <2>1, <3>2, <3>3, <3>4, Zenon DEF WorkerInv
  <2>8. ClockInv'
    <3>1. ASSUME NEW r \in Ids, Live(r)'
          PROVE  Born(r)' <= Due(r)' \/ Born(r)' <= stepped' - MaxStepBack
      <4>1. CASE r = p
        <5>1. Born(p) <= Due(p) \/ Born(p) <= stepped - MaxStepBack
          BY <1>2, Zenon DEF ClockInv, Live
        <5>. QED
          BY <2>1, <2>2, <2>3, <2>4, <3>1, <4>1, <5>1 DEF Live
      <4>2. CASE r # p
        BY <2>1, <2>4, <3>1, <4>2, Zenon DEF ClockInv, Live, State, Due, Born
      <4>. QED
        BY <4>1, <4>2, Zenon
    <3>. QED
      BY <2>1, <2>6, <3>1, Zenon DEF ClockInv
  <2>9. LeadsBounded /\ LeadsBounded' /\ \A r \in Ids : RecordFacts(r) /\ RecordFacts(r)'
    BY <2>5, <2>8, Facts, FactsNext, LeadsFacts, LeadsFactsNext, Zenon
  <2>10. State(p)' = "submitted" => /\ Late(p)' <= Age(p)' /\ Age(p)' <= lag - 1
                                         /\ Late(p)' <= lag - MaxAfter
    BY <1>2, <2>2, <2>3, <2>4, <2>9 DEF Measures, Sizes, AfterSize, RecordFacts, Ages, Delayed
  <2>11. LateInv'
    <3>1. ASSUME NEW r \in Ids, State(r)' = "submitted"
          PROVE  /\ Late(r)' - Age(r)' <= stepped'
                 /\ \A b \in Leads' : \/ Late(r)' + b <= stepped'
                                      \/ Age(r)' > 0 /\ Late(r)' - Age(r)' + b <= stepped'
      <4>1. CASE r = p
        <5>1. Late(p)' \in Int /\ Age(p)' \in Int /\ LeadsBounded'
          BY <1>2, <2>9, Zenon DEF RecordFacts, Typed
        <5>. QED
          BY <2>1, <2>2, <2>10, <3>1, <4>1, <5>1, LateWithin, Zenon
            DEF LeadsBounded, LeadsTyped, LeadsLimited
      <4>2. CASE r # p
        BY <2>1, <2>4, <2>6, <3>1, <4>2, Zenon DEF LateInv, Late, Age, State, Due, Since
      <4>. QED
        BY <4>1, <4>2, Zenon
    <3>. QED
      BY <3>1, Zenon DEF LateInv
  <2>12. ASSUME NEW r \in Ids, State(r)' = "queued" PROVE QueuedTurn(r)'
    <3>1. r # p /\ rows'[r] = rows[r] /\ State(r) = "queued"
      BY <2>4, <2>12, Zenon DEF State
    <3>2. Before(r)' = Before(r)
      BY <1>2, <2>4, <3>1, Zenon DEF Before, State, Due
    <3>3. Ahead(r)' = Ahead(r) /\ Age(r)' = Age(r) /\ RoundAge(r)' = RoundAge(r)
      BY <2>1, <3>1, <3>2, Zenon DEF Ahead, Age, RoundAge, Due
    <3>4. QueuedTurn(r) /\ RecordFacts(r) /\ LeadsBounded
      BY <2>9, <3>1, Zenon DEF TurnInv
    <3>. QED
      BY <1>2, <2>1, <2>2, <2>6, <3>3, <3>4
        DEF Measures, Sizes, CallSize, QueuedTurn, Room, RecordFacts, Typed
  <2>13. ASSUME NEW r \in Ids, State(r)' = "submitted" PROVE SubmittedTurn(r)'
    <3>1. CASE r = p
      <4>1. Recent(Wait(r)', SubmitTimeout, Leads', stepped')
        BY <2>1, <2>2, <2>9, <2>10, <2>13, <3>1
          DEF Measures, Sizes, CallSize, Recent, RecordFacts, Typed, Waits, LeadsBounded,
              LeadsTyped, LeadsLimited
      <4>. QED
        BY <2>1, <4>1, Zenon DEF SubmittedTurn
    <3>2. CASE r # p
      <4>1. rows'[r] = rows[r] /\ State(r) = "submitted" /\ Due(r) \in Int
        BY <2>4, <2>13, <3>2, Zenon DEF Row, State, Due
      <4>2. RoundAge(r)' = RoundAge(r) /\ Wait(r)' = Wait(r)
        BY <2>1, <4>1, Zenon DEF RoundAge, Age, Wait, Late, State, Due, Since
      <4>3. SubmittedTurn(r) /\ RecordFacts(r) /\ LeadsBounded /\ RecordFacts(r)'
        BY <2>9, <4>1, Zenon DEF TurnInv
      <4>4. CASE RoundAge(r) >= 0 /\ Room(Wait(r) - lag, AheadHeld(r), Leads, stepped)
        <5>1. Due(r) <= -lag
          <6>1. RoundAge(r) = Age(r) - lag /\ Age(r) = -Due(r) /\ Due(r) \in Int /\ RoundAge(r) >= 0
            BY <4>1, <4>3, <4>4, Zenon DEF RecordFacts, Ages
          <6>. QED
            BY <2>2, <6>1
        <5>2. p \notin Before(r)'
          <6>1. Due(r)' = Due(r) /\ State(r)' = State(r) /\ Due(r) \in Int /\ State(r) = "submitted"
            BY <4>1, Zenon DEF State, Due
          <6>2. SUFFICES ASSUME State(p)' = State(r)', Due(p)' <= Due(r)' PROVE FALSE
            BY Zenon DEF Before
          <6>3. Due(p)' \in Int /\ Due(p)' >= 1 - lag
            BY <2>4, <6>1, <6>2
          <6>. QED
            BY <2>2, <5>1, <6>1, <6>2, <6>3
        <5>. DEFINE U == Before(r) \cup (cur \ {r})
        <5>3. U \subseteq Ids /\ Before(r)' \subseteq U /\ p \in U \ Before(r)'
          BY <1>2, <2>4, <3>2, <5>2, Zenon DEF Before, State, Due
        <5>4. Ahead(r)' = Cardinality(Before(r)') /\ AheadHeld(r) = Cardinality(U)
          BY Zenon DEF Ahead, AheadHeld
        <5>. HIDE DEF U
        <5>5. Rounds(Ahead(r)') <= Rounds(AheadHeld(r)) - 2 * SubmitTimeout
          BY <5>3, <5>4, Zenon DEF Measures, Counts
        <5>6. Room(Wait(r)' - lag' + 2 * SubmitTimeout, Ahead(r)', Leads', stepped')
          <6>. DEFINE v == Wait(r)' - lag' + 2 * SubmitTimeout
                      w == Wait(r) - lag
          <6>1. /\ w \in Int /\ v \in Int /\ Rounds(AheadHeld(r)) \in Int /\ Rounds(Ahead(r)') \in Int
                /\ v + Rounds(Ahead(r)') <= w + Rounds(AheadHeld(r))
            BY <2>1, <2>2, <4>2, <4>3, <5>5
              DEF Measures, Sizes, CallSize, RecordFacts, Typed, Counted
          <6>2. Room(w, AheadHeld(r), Leads, stepped)
            BY <4>4, Zenon
          <6>. HIDE DEF v, w
          <6>3. Room(v, Ahead(r)', Leads', stepped')
            BY <2>1, <2>2, <2>6, <4>3, <6>1, <6>2, RoomKept, Zenon DEF LeadsBounded, LeadsTyped
          <6>. QED
            BY <6>3, Zenon DEF v
        <5>. QED
          BY <2>1, <4>2, <4>4, <5>6, Zenon DEF SubmittedTurn
      <4>5. CASE Recent(Wait(r) + left, SubmitTimeout, Leads, stepped)
        <5>1. Recent(Wait(r)', SubmitTimeout, Leads', stepped')
          BY <2>1, <2>2, <2>6, <4>2, <4>3, <4>5
            DEF Measures, Sizes, CallSize, Recent, RecordFacts, Typed, LeadsBounded, LeadsTyped
        <5>. QED
          BY <2>1, <5>1, Zenon DEF SubmittedTurn
      <4>. QED
        BY <1>2, <4>3, <4>4, <4>5, Zenon DEF SubmittedTurn
    <3>. QED
      BY <3>1, <3>2, Zenon
  <2>. QED
    BY <2>5, <2>7, <2>8, <2>11, <2>12, <2>13, Zenon DEF TurnInv
<1>. QED
  BY <1>1, <1>3, <1>4, Zenon

\* No queued record is due: the round ends, at once or after the poll interval.
LEMMA NoClaimStep ==
  ASSUME Measures, IInv, wpc = "claim", FirstDue("queued", -lag) = {},
         wpc' = IF worked THEN "round" ELSE "sleep",
         left' = IF worked THEN 0 ELSE PollInterval,
         UNCHANGED <<rows, cur, lag, worked, rest, hist>>
  PROVE  IInv'
<1>. USE DEF IInv
<1>1. rows' = rows /\ cur' = cur /\ lag' = lag /\ stepped' = stepped /\ downFor' = downFor
  BY Zenon DEF hist
<1>2. /\ lag \in Int /\ cur = {} /\ stepped \in Int /\ lag <= SubmitTimeout
      /\ worked \in BOOLEAN /\ downFor = 0
  BY DEF WorkerInv, ScheduleTypes
<1>3. ScheduleTypes'
  <2>1. worked' \in BOOLEAN /\ left' \in Nat /\ wpc' \in {"round", "sleep"}
    BY <1>2, Zenon DEF Measures, Durations
  <2>. QED
    BY <1>1, <2>1, Zenon DEF ScheduleTypes
<1>4. Leads' = Leads
  BY Zenon DEF Leads, Live, State, Born
<1>5. WorkerInv'
  <2>1. wpc' \in {"round", "sleep"} /\ cur' = {} /\ (wpc' = "sleep" => left' <= PollInterval)
    BY <1>1, <1>2
  <2>. QED
    BY <1>1, <2>1, Zenon DEF WorkerInv
<1>6. ClockInv'
  BY <1>1, <1>4, Zenon DEF ClockInv, Live, State, Due, Born
<1>7. LateInv'
  BY <1>1, <1>4, Zenon DEF LateInv, Late, Age, State, Due, Since
<1>8. ASSUME NEW r \in Ids
      PROVE  Age(r)' = Age(r) /\ Wait(r)' = Wait(r) /\ Ahead(r)' = Ahead(r)
  BY Zenon DEF Age, Wait, Late, Ahead, Before, State, Due, Since
<1>9. \A r \in Ids : RecordFacts(r) /\ LeadsBounded
  BY Facts, LeadsFacts, Zenon
<1>10. ASSUME NEW r \in Ids, State(r) = "queued" PROVE RoundAge(r) < 0
  <2>1. Due(r) > -lag /\ Due(r) \in Int
    BY <1>10, FirstDueExists, -lag \in Int, Zenon DEF ScheduleTypes, Row, Due
  <2>. QED
    BY <1>2, <2>1 DEF RoundAge, Age
<1>11. CASE worked
  <2>1. wpc' = "round"
    BY <1>11, Zenon
  <2>2. ASSUME NEW r \in Ids, State(r)' = "queued" PROVE QueuedTurn(r)'
    <3>0. State(r) = "queued" /\ RoundAge(r) \in Int /\ RoundAge(r) < 0
      BY <1>1, <1>9, <1>10, <2>2, Zenon DEF RecordFacts, Typed, State
    <3>00. ~(RoundAge(r) >= 0)
      BY <3>0
    <3>1. Age(r) <= SubmitTimeout /\ RecordFacts(r)
      BY <1>1, <1>9, <3>0, <3>00, Zenon DEF TurnInv, QueuedTurn
    <3>2. Room(Age(r) + SubmitTimeout, Ahead(r), Leads, stepped)
      BY <1>9, <3>1
        DEF Measures, Sizes, CallSize, PollSize, TurnSize, Room, RecordFacts, Typed, Counted,
            LeadsBounded, LeadsTyped, LeadsLimited
    <3>. QED
      BY <1>1, <1>4, <1>8, <2>1, <3>2, Zenon DEF QueuedTurn
  <2>3. ASSUME NEW r \in Ids, State(r)' = "submitted" PROVE SubmittedTurn(r)'
    <3>1. SubmittedTurn(r) /\ RecordFacts(r) /\ LeadsBounded
      BY <1>9, <2>3, Zenon DEF TurnInv, State
    <3>2. \/ Room(Wait(r) - lag + 2 * SubmitTimeout, Ahead(r), Leads, stepped)
          \/ Recent(Wait(r), SubmitTimeout, Leads, stepped)
      BY <3>1, Zenon DEF SubmittedTurn
    <3>3. lag \in Int /\ lag <= SubmitTimeout
      BY <1>2, Zenon
    <3>4. Room(Wait(r), Ahead(r), Leads, stepped)
      BY <3>1, <3>2, <3>3
        DEF Measures, Sizes, CallSize, PollSize, TurnSize, Room, Recent, RecordFacts, Typed,
            Counted, LeadsBounded, LeadsTyped
    <3>. QED
      BY <1>1, <1>4, <1>8, <2>1, <3>4, Zenon DEF SubmittedTurn
  <2>. QED
    BY <1>3, <1>5, <1>6, <1>7, <2>2, <2>3, Zenon DEF TurnInv
<1>12. CASE ~worked
  <2>1. lag <= 0 /\ \A r \in Ids : State(r) = "submitted" => RoundAge(r) < 0
    BY <1>12, Zenon DEF WorkerInv
  <2>2. ASSUME NEW r \in Ids, State(r)' \in {"queued", "submitted"} PROVE Age(r)' <= 0
    <3>1. RoundAge(r) < 0 /\ RecordFacts(r)
      BY <1>9, <1>10, <2>1, <2>2, Zenon DEF State
    <3>. QED
      BY <1>2, <1>8, <2>1, <3>1 DEF RecordFacts, Typed, Ages
  <2>3. ASSUME NEW r \in Ids, State(r)' = "queued" PROVE QueuedTurn(r)'
    BY <1>3, <1>5, <1>6, <2>2, <2>3, QueuedFreeNext, Zenon
  <2>4. ASSUME NEW r \in Ids, State(r)' = "submitted" PROVE SubmittedTurn(r)'
    BY <1>2, <1>3, <1>5, <1>6, <1>7, <2>2, <2>4, SubmittedFreeNext, Zenon
  <2>. QED
    BY <1>3, <1>5, <1>6, <1>7, <2>3, <2>4, Zenon DEF TurnInv
<1>. QED
  BY <1>11, <1>12, Zenon

\* The first queued record that is due is claimed: it was before every other that is
\* due, and is now the one in the worker's hands.
LEMMA ClaimStep ==
  ASSUME Measures, IInv, wpc = "claim", NEW p \in FirstDue("queued", -lag), CheckHolds(p),
         Write(p, [rows[p] EXCEPT !.state = "working"]),
         wpc' = "submit", cur' = {p}, left' = SubmitTimeout,
         UNCHANGED <<lag, worked, rest, stepped, downFor>>
  PROVE  IInv'
<1>. USE DEF IInv
<1>1. lag' = lag /\ worked' = worked /\ stepped' = stepped /\ downFor' = downFor
  BY Zenon
<1>2. /\ lag \in Int /\ cur = {} /\ stepped \in Int /\ lag <= SubmitTimeout /\ -lag <= stepped
      /\ worked \in BOOLEAN /\ downFor = 0
  BY DEF WorkerInv, ScheduleTypes
<1>3. /\ p \in Ids /\ State(p) = "queued" /\ Due(p) <= -lag
      /\ \A r \in Ids : State(r) = "queued" /\ Due(r) <= -lag => Due(p) <= Due(r)
  BY Zenon DEF FirstDue, State, Due
<1>4. /\ rows' \in [Ids -> Row] /\ \A r \in Ids : r # p => rows'[r] = rows[r]
      /\ State(p)' = "working" /\ Due(p)' = Due(p)
      /\ Born(p)' = Born(p)
  <2>. DEFINE new == [rows[p] EXCEPT !.state = "working"]
  <2>1. /\ new \in Row /\ new.state = "working" /\ new.due = Due(p) /\ new.born = Born(p)
    BY <1>3, Zenon DEF ScheduleTypes, Row, Due, Born
  <2>2. Write(p, new)
    BY Zenon
  <2>. HIDE DEF new
  <2>. QED
    BY <1>3, <2>1, <2>2, WriteFacts, Zenon DEF State, Due, Born
<1>5. ScheduleTypes'
  BY <1>3, <1>4, Zenon DEF Measures, Durations, ScheduleTypes
<1>6. Leads' \subseteq Leads
  BY <1>3, <1>4, LeadsKept, Zenon DEF Live, State, Born
<1>7. \A r \in Ids : Age(r)' = Age(r) /\ RoundAge(r)' = RoundAge(r)
  BY <1>4, Zenon DEF Age, RoundAge, Due
<1>8. \A r \in Ids : RecordFacts(r) /\ RecordFacts(r)' /\ LeadsBounded
  BY <1>5, Facts, FactsNext, LeadsFacts, Zenon
<1>9. WorkerInv'
  <2>1. RoundAge(p)' >= 0 /\ left' <= SubmitTimeout /\ lag' + left' <= 2 * SubmitTimeout
    BY <1>1, <1>2, <1>3, <1>7, <1>8
      DEF Measures, Sizes, CallSize, RecordFacts, Ages, ScheduleTypes, Row, Due
  <2>2. ASSUME lag' + left' > SubmitTimeout
        PROVE  \E q \in Ids \ cur' : ~(State(q)' = "queued" /\ Age(q)' + left' > SubmitTimeout)
    <3>1. lag > 0
      BY <1>1, <1>2, <2>2 DEF Measures, Sizes, CallSize
    <3>2. worked
      BY <1>2, <3>1 DEF WorkerInv
    <3>3. PICK q \in Ids : ~(State(q) = "queued" /\ Age(q) >= 1)
      BY <3>2, Zenon DEF WorkerInv
    <3>4. Age(p) >= 1
      BY <1>2, <1>3, <1>7, <1>8, <2>1, <3>1 DEF RecordFacts, Typed, Ages
    <3>5. q # p
      BY <1>3, <3>3, <3>4, Zenon
    <3>6. ~(State(q)' = "queued" /\ Age(q)' + left' > SubmitTimeout)
      BY <1>4, <1>7, <1>8, <3>3, <3>5 DEF Measures, Sizes, CallSize, RecordFacts, Typed, State
    <3>. QED
      BY <3>5, <3>6, Zenon
  <2>3. -lag' <= stepped' /\ downFor' = 0
    BY <1>2, Zenon
  <2>. QED
    BY <1>3, <1>4, <2>1, <2>2, Zenon DEF WorkerInv
<1>10. ClockInv'
  BY <1>3, <1>4, <1>6, Zenon DEF ClockInv, Live, State, Due, Born
<1>11. LateInv'
  BY <1>4, <1>6, Zenon DEF LateInv, Late, Age, State, Due, Since
<1>12. ASSUME NEW r \in Ids, State(r)' = "queued" PROVE QueuedTurn(r)'
  <2>1. r # p /\ rows'[r] = rows[r] /\ State(r) = "queued"
    BY <1>4, <1>12, Zenon DEF State
  <2>2. QueuedTurn(r) /\ RecordFacts(r) /\ LeadsBounded
    BY <1>8, <2>1, Zenon DEF TurnInv
  <2>3. CASE RoundAge(r) >= 0 /\ Room(RoundAge(r) + SubmitTimeout, Ahead(r), Leads, stepped)
    <3>1. Due(r) <= -lag
      BY <1>2, <2>2, <2>3 DEF RecordFacts, Ages, ScheduleTypes, Row, Due
    <3>2. p \in Before(r)
      BY <1>3, <2>1, <3>1, Zenon DEF Before
    <3>3. (Before(r) \cup (cur \ {r}))' = Before(r)
      BY <1>4, <3>2, Zenon DEF Before, State, Due
    <3>4. AheadHeld(r)' = Ahead(r)
      BY <3>3, Zenon DEF AheadHeld, Ahead
    <3>. QED
      BY <1>6, <1>7, <2>3, <3>4, Zenon DEF QueuedTurn, Room
  <2>4. CASE Age(r) <= SubmitTimeout
    <3>1. Age(r)' + left' <= 2 * SubmitTimeout
      BY <1>7, <2>2, <2>4 DEF Measures, Sizes, CallSize, RecordFacts, Typed
    <3>. QED
      BY <3>1, Zenon DEF QueuedTurn
  <2>. QED
    BY <2>2, <2>3, <2>4, Zenon DEF QueuedTurn
<1>13. ASSUME NEW r \in Ids, State(r)' = "submitted" PROVE SubmittedTurn(r)'
  <2>1. r # p /\ rows'[r] = rows[r] /\ State(r) = "submitted"
    BY <1>4, <1>13, Zenon DEF State
  <2>2. Before(r)' = Before(r)
    BY <1>3, <1>4, <2>1, Zenon DEF Before, State, Due
  <2>3. Ahead(r)' = Ahead(r) /\ Wait(r)' = Wait(r)
    BY <2>1, <2>2, Zenon DEF Ahead, Wait, Late, Age, State, Due, Since
  <2>4. SubmittedTurn(r) /\ RecordFacts(r) /\ LeadsBounded
    BY <1>8, <2>1, Zenon DEF TurnInv
  <2>5. CASE /\ RoundAge(r) >= 0
             /\ Room(Wait(r) - lag + 2 * SubmitTimeout, Ahead(r), Leads, stepped)
    BY <1>6, <1>7, <2>3, <2>5, Zenon DEF SubmittedTurn, Room
  <2>6. CASE Recent(Wait(r), SubmitTimeout, Leads, stepped)
    <3>1. Recent(Wait(r)' + left', 2 * SubmitTimeout, Leads', stepped')
      BY <1>1, <1>6, <2>3, <2>4, <2>6
        DEF Measures, Sizes, CallSize, Recent, RecordFacts, Typed, LeadsBounded, LeadsTyped
    <3>. QED
      BY <3>1, Zenon DEF SubmittedTurn
  <2>. QED
    BY <2>4, <2>5, <2>6, Zenon DEF SubmittedTurn
<1>. QED
  BY <1>5, <1>9, <1>10, <1>11, <1>12, <1>13, Zenon DEF TurnInv

\* The claim of a round.
LEMMA processQueuedStep ==
  ASSUME Measures, IInv, processQueuedOnce
  PROVE  IInv'
<1>1. ASSUME NEW p \in FirstDue("queued", -lag), ~CheckHolds(p), ProcessEnds, wpc = "claim"
      PROVE  IInv'
  <2>1. p \in Ids /\ State(p) = "queued" /\ Due(p) <= -lag
    BY Zenon DEF FirstDue, State, Due
  <2>2. Live(p) /\ RoundAge(p) >= 0
    BY <2>1 DEF Live, RoundAge, Age, IInv, ScheduleTypes, Row, Due
  <2>. QED
    BY <1>1, <2>1, <2>2, RefusedIsBehind, ProcessEndsStep, Zenon
<1>. QED
  BY <1>1, ClaimStep, NoClaimStep, Zenon DEF processQueuedOnce

\* The rows the answers of Submit leave.
Running(p, after) ==
  [rows[p] EXCEPT !.state = "submitted", !.attempt = rows[p].attempt + 1,
                  !.due = NextPoll(after), !.since = 0]

Retried(p) ==
  [rows[p] EXCEPT !.state = "queued", !.attempt = rows[p].attempt + 1,
                  !.due = submitRetryDelay(rows[p].attempt) - lag]

Answered(p) ==
  \/ \E after \in RetryAfters : Write(p, Running(p, after))
  \/ Write(p, Retried(p))
  \/ Write(p, Final)

\* A record that is not settled is due after the round's clock.
AnswerRow(p, new) ==
  /\ new \in Row /\ new.state \in {"queued", "submitted"}
  /\ new.due >= 1 - lag /\ new.born = Born(p)
  /\ new.state = "submitted" => new.due <= MaxAfter - lag /\ new.since = 0

\* What an answer of Submit does to the table.
LEMMA AnswerFacts ==
  ASSUME Measures, IInv, NEW p \in Ids, Answered(p)
  PROVE  /\ rows' \in [Ids -> Row] /\ \A r \in Ids : r # p => rows'[r] = rows[r]
         /\ Due(p)' \in Int
         /\ \/ State(p)' = "final"
            \/ /\ State(p)' \in {"queued", "submitted"}
               /\ Due(p)' >= 1 - lag /\ Born(p)' = Born(p)
               /\ State(p)' = "submitted" =>
                    Due(p)' <= MaxAfter - lag /\ Since(p)' = 0
<1>. USE DEF IInv
<1>1. rows[p] \in Row /\ rows[p].attempt \in Nat /\ lag \in Int
  BY Zenon DEF ScheduleTypes, Row
<1>2. ASSUME NEW after \in RetryAfters
      PROVE  AnswerRow(p, Running(p, after))
  <2>1. /\ NextPoll(after) \in Int
        /\ NextPoll(after) >= 1 - lag /\ NextPoll(after) <= MaxAfter - lag
    BY <1>1 DEF Measures, Sizes, PollSize, AfterSize, Durations, NextPoll
  <2>. DEFINE d == NextPoll(after)
              a == rows[p].attempt + 1
              r1 == [rows[p] EXCEPT !.state = "submitted", !.attempt = a]
              r2 == [r1 EXCEPT !.due = d]
              new == [r2 EXCEPT !.since = 0]
  <2>2. Running(p, after) = new
    BY Zenon DEF Running
  <2>3. d \in Int /\ a \in Nat
    BY <1>1, <2>1
  <2>4. r1 \in Row /\ r1.state = "submitted" /\ r1.born = Born(p)
    <3>. HIDE DEF a
    <3>. QED
      BY <1>1, <2>3, Zenon DEF Row, Born
  <2>5. r2 \in Row /\ r2.state = "submitted" /\ r2.born = Born(p) /\ r2.due = d
    <3>. HIDE DEF d, r1
    <3>. QED
      BY <2>3, <2>4, Zenon DEF Row
  <2>6. /\ new \in Row /\ new.state = "submitted" /\ new.born = Born(p) /\ new.due = d
        /\ new.since = 0
    <3>. HIDE DEF d, r2
    <3>. QED
      BY <2>5 DEF Row
  <2>. HIDE DEF new
  <2>. QED
    BY <2>1, <2>2, <2>6, Zenon DEF AnswerRow
<1>3. AnswerRow(p, Retried(p))
  <2>. DEFINE due == submitRetryDelay(rows[p].attempt) - lag
  <2>1. due \in Int /\ due >= 1 - lag
    BY <1>1 DEF Measures, Delays
  <2>. DEFINE a == rows[p].attempt + 1
              r1 == [rows[p] EXCEPT !.state = "queued", !.attempt = a]
              new == [r1 EXCEPT !.due = due]
  <2>2. Retried(p) = new
    BY Zenon DEF Retried
  <2>3. r1 \in Row /\ r1.state = "queued" /\ r1.born = Born(p)
    <3>1. a \in Nat
      BY <1>1
    <3>. HIDE DEF a
    <3>. QED
      BY <1>1, <3>1, Zenon DEF Row, Born
  <2>4. new \in Row /\ new.state = "queued" /\ new.born = Born(p) /\ new.due = due
    <3>. HIDE DEF due, r1
    <3>. QED
      BY <2>1, <2>3, Zenon DEF Row
  <2>. HIDE DEF new, due
  <2>. QED
    BY <2>1, <2>2, <2>4, Zenon DEF AnswerRow
<1>4. \A new \in Row : Write(p, new) =>
        /\ rows' \in [Ids -> Row] /\ rows'[p] = new
        /\ \A r \in Ids : r # p => rows'[r] = rows[r]
  BY WriteFacts, Zenon
<1>5. \A new \in Row : new.due \in Int
  BY Zenon DEF Row
<1>6. \E new \in Row : Write(p, new) /\ (new.state = "final" \/ AnswerRow(p, new))
  <2>1. CASE Write(p, Final)
    BY <2>1, NewRows, Zenon
  <2>2. CASE Write(p, Retried(p))
    BY <1>3, <2>2, Zenon DEF AnswerRow
  <2>3. ASSUME NEW after \in RetryAfters, Write(p, Running(p, after))
        PROVE  \E new \in Row : Write(p, new) /\ (new.state = "final" \/ AnswerRow(p, new))
    BY <1>2, <2>3, Zenon DEF AnswerRow
  <2>. QED
    BY <2>1, <2>2, <2>3, Zenon DEF Answered
<1>7. PICK new \in Row : Write(p, new) /\ (new.state = "final" \/ AnswerRow(p, new))
  BY <1>6, Zenon
<1>. QED
  BY <1>4, <1>5, <1>7, Zenon DEF AnswerRow, State, Due, Born, Since

\* The answer of a submission ends the round: the record is settled or due after
\* the round's clock, and what became due in the round has waited no longer than the
\* round has lasted.
LEMMA SubmitAnswerStep ==
  ASSUME Measures, IInv, wpc = "submit", NEW p \in cur, CheckHolds(p), Answered(p),
         wpc' = "round", cur' = {}, left' = 0, UNCHANGED <<lag, worked, hist>>
  PROVE  IInv'
<1>. USE DEF IInv
<1>1. lag' = lag /\ worked' = worked /\ stepped' = stepped /\ downFor' = downFor
  BY Zenon DEF hist
<1>2. /\ p \in Ids /\ cur = {p} /\ State(p) = "working" /\ RoundAge(p) >= 0
      /\ lag + left <= 2 * SubmitTimeout /\ -lag <= stepped /\ downFor = 0
  BY Zenon DEF WorkerInv
<1>3. /\ lag \in Int /\ left \in Int /\ left >= 0 /\ stepped \in Int /\ stepped >= 0
      /\ lag <= 2 * SubmitTimeout
  BY <1>2 DEF Measures, Sizes, CallSize, ScheduleTypes
<1>4. /\ Due(p) \in Int /\ Due(p) <= -lag /\ Born(p) \in Int /\ Born(p) <= 0
  BY <1>2 DEF ScheduleTypes, Row, CheckHolds, RoundAge, Age, Due, Born
<1>5. /\ rows' \in [Ids -> Row] /\ \A r \in Ids : r # p => rows'[r] = rows[r]
      /\ Due(p)' \in Int
      /\ \/ State(p)' = "final"
         \/ /\ State(p)' \in {"queued", "submitted"}
            /\ Due(p)' >= 1 - lag /\ Born(p)' = Born(p)
            /\ State(p)' = "submitted" =>
                 Due(p)' <= MaxAfter - lag /\ Since(p)' = 0
  BY <1>2, AnswerFacts, Zenon
<1>6. ScheduleTypes'
  BY <1>1, <1>5, Zenon DEF ScheduleTypes
<1>7. Leads' \subseteq Leads
  BY <1>2, <1>5, LeadsKept, Zenon DEF Live, State, Born
<1>8. WorkerInv'
  BY <1>1, Zenon DEF WorkerInv
<1>9. ClockInv'
  <2>1. ASSUME NEW r \in Ids, Live(r)'
        PROVE  Born(r)' <= Due(r)' \/ Born(r)' <= stepped' - MaxStepBack
    <3>1. CASE r = p
      <4>1. Born(p) <= Due(p) \/ Born(p) <= stepped - MaxStepBack
        BY <1>2, Zenon DEF ClockInv, Live
      <4>. QED
        BY <1>1, <1>3, <1>4, <1>5, <2>1, <3>1, <4>1 DEF Live
    <3>2. CASE r # p
      BY <1>1, <1>5, <2>1, <3>2, Zenon DEF ClockInv, Live, State, Due, Born
    <3>. QED
      BY <3>1, <3>2, Zenon
  <2>. QED
    BY <1>1, <1>7, <2>1, Zenon DEF ClockInv
<1>10. LeadsBounded /\ LeadsBounded' /\ \A r \in Ids : RecordFacts(r) /\ RecordFacts(r)'
  BY <1>6, <1>9, Facts, FactsNext, LeadsFacts, LeadsFactsNext, Zenon
<1>11. /\ RecordFacts(p)' /\ Age(p)' \in Int /\ Late(p)' \in Int /\ Wait(p)' \in Int
       /\ State(p)' # "final" => Age(p)' <= lag - 1
       /\ State(p)' = "submitted" =>
            Late(p)' <= 0 /\ Late(p)' - Age(p)' <= stepped
  <2>1. RecordFacts(p)'
    BY <1>2, <1>10, Zenon
  <2>. QED
    BY <1>2, <1>3, <1>5, <2>1 DEF Measures, Sizes, AfterSize, RecordFacts, Typed, Ages, Delayed
<1>12. LateInv'
  <2>1. ASSUME NEW r \in Ids, State(r)' = "submitted"
        PROVE  /\ Late(r)' - Age(r)' <= stepped'
               /\ \A b \in Leads' : \/ Late(r)' + b <= stepped'
                                    \/ Age(r)' > 0 /\ Late(r)' - Age(r)' + b <= stepped'
    <3>1. CASE r = p
      BY <1>1, <1>3, <1>10, <1>11, <2>1, <3>1, LateWithin, Zenon
        DEF LeadsBounded, LeadsTyped, LeadsLimited
    <3>2. CASE r # p
      BY <1>1, <1>5, <1>7, <2>1, <3>2, Zenon DEF LateInv, Late, Age, State, Due, Since
    <3>. QED
      BY <3>1, <3>2, Zenon
  <2>. QED
    BY <2>1, Zenon DEF LateInv
<1>13. ASSUME NEW r \in Ids, State(r) \in {"queued", "submitted"}, RoundAge(r) >= 0, r # p
       PROVE  p \notin Before(r)'
  <2>1. Due(r)' = Due(r) /\ Due(r) \in Int /\ State(r)' = State(r)
    BY <1>5, <1>13, Zenon DEF Row, State, Due
  <2>2. Due(r) <= -lag
    BY <1>3, <1>10, <1>13, <2>1 DEF RecordFacts, Ages
  <2>. QED
    BY <1>3, <1>5, <1>13, <2>1, <2>2 DEF Before
<1>14. ASSUME NEW r \in Ids, State(r)' = "queued" PROVE QueuedTurn(r)'
  <2>1. RecordFacts(r)' /\ LeadsBounded' /\ LeadsBounded
    BY <1>10, Zenon
  <2>2. CASE Age(r)' <= SubmitTimeout
    <3>1. /\ Age(r)' \in Int /\ Rounds(Ahead(r)') \in Int
          /\ Rounds(Ahead(r)') <= Turn - PollInterval - 2 * SubmitTimeout
      BY <2>1, SMTT(30)
        DEF Measures, Sizes, CallSize, PollSize, TurnSize, RecordFacts, Typed, Counted
    <3>2. Room(Age(r)' + SubmitTimeout, Ahead(r)', Leads', stepped')
      <4>1. Age(r)' + SubmitTimeout \in Int /\ Age(r)' + SubmitTimeout + Rounds(Ahead(r)') <= Turn
        BY <2>2, <3>1 DEF Measures, Sizes, CallSize, PollSize, TurnSize
      <4>. QED
        BY <2>1, <3>1, <4>1, RoomLeft, Zenon DEF LeadsBounded, LeadsTyped, LeadsLimited
    <3>. QED
      BY <3>2, Zenon DEF QueuedTurn
  <2>3. ASSUME Age(r)' <= 2 * SubmitTimeout, NEW q \in Ids, q # r, q \notin Before(r)'
        PROVE  QueuedTurn(r)'
    <3>1. Before(r)' \subseteq Ids /\ r \in Ids \ Before(r)' /\ q \in Ids \ Before(r)'
      BY <2>3, Zenon DEF Before
    <3>2. Rounds(Ahead(r)') <= Rounds(Cardinality(Ids)) - 4 * SubmitTimeout
      BY <2>3, <3>1, Zenon DEF Measures, Counts, Ahead
    <3>3. Rounds(Cardinality(Ids)) \in Int /\ Turn = Rounds(Cardinality(Ids)) + PollInterval
      BY Zenon DEF Measures, Counts
    <3>4. Room(Age(r)' + SubmitTimeout, Ahead(r)', Leads', stepped')
      <4>1. Age(r)' \in Int /\ Rounds(Ahead(r)') \in Int
        BY <2>1, Zenon DEF RecordFacts, Typed, Counted
      <4>2. Age(r)' + SubmitTimeout \in Int /\ Age(r)' + SubmitTimeout + Rounds(Ahead(r)') <= Turn
        BY <2>3, <3>2, <3>3, <4>1 DEF Measures, Sizes, CallSize, PollSize
      <4>. QED
        BY <2>1, <4>1, <4>2, RoomLeft, Zenon
          DEF Measures, Sizes, LeadsBounded, LeadsTyped, LeadsLimited
    <3>. QED
      BY <3>4, Zenon DEF QueuedTurn
  <2>4. ASSUME lag > SubmitTimeout, Age(r)' > SubmitTimeout, Age(r)' <= 2 * SubmitTimeout,
               r # p => State(r) = "queued" /\ Age(r) = Age(r)'
        PROVE  QueuedTurn(r)'
    <3>1. lag + left > SubmitTimeout
      BY <1>3, <2>4 DEF Measures, Sizes, CallSize
    <3>2. PICK q \in Ids \ cur : ~(State(q) = "queued" /\ Age(q) + left > SubmitTimeout)
      BY <3>1, Zenon DEF WorkerInv
    <3>3. /\ RecordFacts(q) /\ Age(r)' \in Int /\ q # p /\ rows'[q] = rows[q] /\ Age(q)' = Age(q)
          /\ RecordFacts(q)'
      BY <1>2, <1>5, <1>10, Zenon DEF RecordFacts, Typed, Ages, Due
    <3>4. q # r
      BY <1>3, <2>4, <3>2, <3>3, SMTT(30) DEF Measures, Sizes, CallSize
    <3>5. q \notin Before(r)'
      <4>1. SUFFICES ASSUME State(q) = "queued", Due(q)' <= Due(r)' PROVE FALSE
        BY <1>14, <3>3, Zenon DEF Before, State
      <4>2. /\ ~(Age(q) + left > SubmitTimeout) /\ Age(q) \in Int /\ Age(q)' = Age(q)
            /\ Age(q)' = -Due(q)' /\ Age(r)' = -Due(r)' /\ Age(r)' > SubmitTimeout
        BY <2>1, <2>4, <3>2, <3>3, <4>1, Zenon DEF RecordFacts, Typed, Ages
      <4>3. Due(q)' \in Int /\ Due(r)' \in Int
        BY <1>5, Zenon DEF Row, Due
      <4>. QED
        BY <1>3, <4>1, <4>2, <4>3 DEF Measures, Sizes, CallSize
    <3>. QED
      BY <2>3, <2>4, <3>4, <3>5, Zenon
  <2>5. CASE r = p
    <3>1. Age(r)' <= 2 * SubmitTimeout /\ (Age(r)' > SubmitTimeout => lag > SubmitTimeout)
      BY <1>3, <1>11, <1>14, <2>5 DEF Measures, Sizes, CallSize
    <3>. QED
      BY <1>11, <2>2, <2>4, <2>5, <3>1, SMTT(30) DEF Measures, Sizes, CallSize
  <2>6. CASE r # p
    <3>1. rows'[r] = rows[r] /\ State(r) = "queued"
      BY <1>5, <1>14, <2>6, Zenon DEF State
    <3>2. Age(r)' = Age(r) /\ RoundAge(r)' = RoundAge(r)
      BY <3>1, Zenon DEF Age, RoundAge, Due
    <3>3. QueuedTurn(r) /\ RecordFacts(r)
      BY <1>10, <3>1, Zenon DEF TurnInv
    <3>4. CASE RoundAge(r) >= 0 /\ Room(RoundAge(r) + SubmitTimeout, AheadHeld(r), Leads, stepped)
      <4>. DEFINE U == Before(r) \cup (cur \ {r})
      <4>1. U \subseteq Ids /\ Before(r)' \subseteq U /\ p \in U \ Before(r)'
        BY <1>2, <1>5, <1>13, <3>1, <3>4, Zenon DEF Before, State, Due
      <4>2. Ahead(r)' = Cardinality(Before(r)') /\ AheadHeld(r) = Cardinality(U)
        BY Zenon DEF Ahead, AheadHeld
      <4>. HIDE DEF U
      <4>3. Rounds(Ahead(r)') <= Rounds(AheadHeld(r)) - 2 * SubmitTimeout
        BY <4>1, <4>2, Zenon DEF Measures, Counts
      <4>4. Room(Age(r)' + SubmitTimeout, Ahead(r)', Leads', stepped')
        <5>1. /\ RoundAge(r) + SubmitTimeout \in Int /\ Age(r)' + SubmitTimeout \in Int
              /\ Rounds(AheadHeld(r)) \in Int /\ Rounds(Ahead(r)') \in Int
              /\ Age(r)' + SubmitTimeout + Rounds(Ahead(r)')
                   <= RoundAge(r) + SubmitTimeout + Rounds(AheadHeld(r))
          BY <1>3, <2>1, <3>2, <3>3, <4>3
            DEF Measures, Sizes, CallSize, RecordFacts, Typed, Ages, Counted
        <5>. QED
          BY <1>1, <1>3, <1>7, <2>1, <3>4, <5>1, RoomKept, Zenon DEF LeadsBounded, LeadsTyped
      <4>. QED
        BY <4>4, Zenon DEF QueuedTurn
    <3>5. CASE Age(r) + left <= 2 * SubmitTimeout
      <4>1. Age(r)' <= 2 * SubmitTimeout
        BY <1>3, <3>2, <3>3, <3>5, SMTT(30) DEF Measures, Sizes, CallSize, RecordFacts, Typed
      <4>2. CASE RoundAge(r) >= 0
        BY <1>2, <1>13, <2>3, <3>1, <4>1, <4>2, Zenon
      <4>3. CASE ~(RoundAge(r) >= 0)
        <5>1. Age(r) < lag
          BY <1>3, <3>3, <4>3 DEF RecordFacts, Typed, Ages
        <5>2. Age(r)' > SubmitTimeout => lag > SubmitTimeout
          BY <1>3, <3>2, <3>3, <5>1 DEF Measures, Sizes, CallSize, RecordFacts, Typed
        <5>3. Age(r)' \in Int
          BY <2>1, Zenon DEF RecordFacts, Typed
        <5>4. Age(r)' <= SubmitTimeout \/ Age(r)' > SubmitTimeout
          BY <5>3 DEF Measures, Sizes, CallSize
        <5>. QED
          BY <2>2, <2>4, <3>1, <3>2, <4>1, <5>2, <5>4, Zenon
      <4>. QED
        BY <4>2, <4>3, Zenon
    <3>. QED
      BY <3>3, <3>4, <3>5, Zenon DEF QueuedTurn
  <2>. QED
    BY <2>5, <2>6, Zenon
<1>15. ASSUME NEW r \in Ids, State(r)' = "submitted" PROVE SubmittedTurn(r)'
  <2>1. RecordFacts(r)' /\ LeadsBounded' /\ LeadsBounded
    BY <1>10, Zenon
  <2>2. Room(Wait(r)', Ahead(r)', Leads', stepped')
    <3>1. CASE r = p
      <4>1. Wait(r)' <= 2 * SubmitTimeout
        BY <1>3, <1>11, <1>15, <2>1, <3>1, SMTT(30)
          DEF Measures, Sizes, CallSize, RecordFacts, Waits
      <4>. QED
        BY <2>1, <4>1
          DEF Measures, Sizes, CallSize, PollSize, TurnSize, Room, RecordFacts, Typed, Counted,
              LeadsBounded, LeadsTyped, LeadsLimited
    <3>2. CASE r # p
      <4>1. rows'[r] = rows[r] /\ State(r) = "submitted" /\ Wait(r)' = Wait(r)
        BY <1>5, <1>15, <3>2, Zenon DEF Wait, Late, Age, State, Due, Since
      <4>2. SubmittedTurn(r) /\ RecordFacts(r)
        BY <1>10, <4>1, Zenon DEF TurnInv
      <4>3. CASE /\ RoundAge(r) >= 0
                 /\ Room(Wait(r) - lag + 2 * SubmitTimeout, Ahead(r), Leads, stepped)
        <5>1. Before(r) \subseteq Ids /\ Before(r)' \subseteq Before(r)
          BY <1>5, <1>13, <4>1, <4>3, Zenon DEF Before, State, Due
        <5>2. Rounds(Ahead(r)') <= Rounds(Ahead(r))
          BY <5>1, Zenon DEF Measures, Counts, Ahead
        <5>3. Wait(r) \in Int /\ Rounds(Ahead(r)) \in Int /\ Rounds(Ahead(r)') \in Int
          BY <2>1, <4>2, Zenon DEF RecordFacts, Typed, Counted
        <5>4. ASSUME NEW b \in Leads'
              PROVE  Wait(r)' + Rounds(Ahead(r)') + b <= Turn + stepped'
          <6>1. b \in Int /\ Wait(r) - lag + 2 * SubmitTimeout + Rounds(Ahead(r)) + b <= Turn + stepped
            BY <1>7, <2>1, <4>3, Zenon DEF Room, LeadsBounded, LeadsTyped
          <6>2. Wait(r)' = Wait(r) /\ stepped' = stepped
            BY <1>1, <4>1, Zenon
          <6>. QED
            BY <1>3, <5>2, <5>3, <6>1, <6>2 DEF Measures, Sizes, CallSize, TurnSize
        <5>. QED
          BY <5>4, Zenon DEF Room
      <4>4. CASE Recent(Wait(r) + left, 2 * SubmitTimeout, Leads, stepped)
        <5>1. /\ Wait(r) + left \in Int /\ Wait(r)' \in Int /\ 2 * SubmitTimeout \in Int
              /\ Rounds(Ahead(r)') \in Int
              /\ Wait(r)' + Rounds(Ahead(r)') + 2 * SubmitTimeout <= Wait(r) + left + Turn
          <6>1. /\ Wait(r) \in Int /\ Wait(r)' = Wait(r) /\ Rounds(Ahead(r)') \in Int
                /\ Rounds(AheadHeld(r)') \in Int /\ Rounds(Ahead(r)') <= Rounds(AheadHeld(r)')
                /\ Rounds(AheadHeld(r)') <= Turn - PollInterval - 2 * SubmitTimeout
            BY <2>1, <4>1, <4>2, Zenon DEF RecordFacts, Typed, Counted
          <6>. QED
            BY <1>3, <6>1 DEF Measures, Sizes, CallSize, PollSize, TurnSize
        <5>. QED
          BY <1>1, <1>3, <1>7, <2>1, <4>4, <5>1, RoomOfRecent, Zenon
            DEF LeadsBounded, LeadsTyped
      <4>. QED
        BY <4>2, <4>3, <4>4, Zenon DEF SubmittedTurn
    <3>. QED
      BY <3>1, <3>2, Zenon
  <2>. QED
    BY <2>2, Zenon DEF SubmittedTurn
<1>. QED
  BY <1>6, <1>8, <1>9, <1>12, <1>14, <1>15, Zenon DEF TurnInv

\* The answer of a submission.
LEMMA SubmitReturnsStep ==
  ASSUME Measures, IInv, SubmitReturns
  PROVE  IInv'
<1>1. PICK p \in cur :
       \/ /\ CheckHolds(p)
          /\ \/ \E after \in RetryAfters :
                  /\ Write(p, [rows[p] EXCEPT !.state = "submitted", !.attempt = @ + 1,
                                              !.due = NextPoll(after), !.since = 0])
                  /\ UNCHANGED rest
             \/ /\ submitRetryAllowed(p)
                /\ Write(p, [rows[p] EXCEPT !.state = "queued", !.attempt = @ + 1,
                               !.due = submitRetryDelay(rows[p].attempt) - lag])
                /\ rest' = [rest EXCEPT ![p] = 0]
             \/ Write(p, Final) /\ UNCHANGED rest
          /\ wpc' = "round" /\ cur' = {} /\ left' = 0
          /\ UNCHANGED <<lag, worked, hist>>
       \/ ~CheckHolds(p) /\ ProcessEnds
  BY Zenon DEF SubmitReturns
<1>2. wpc = "submit" /\ p \in Ids /\ Live(p) /\ RoundAge(p) >= 0
  BY Zenon DEF SubmitReturns, IInv, WorkerInv, Live
<1>3. CASE ~CheckHolds(p) /\ ProcessEnds
  BY <1>2, <1>3, RefusedIsBehind, ProcessEndsStep, Zenon
<1>4. CASE CheckHolds(p)
  <2>1. Answered(p)
    BY <1>1, <1>4, Zenon DEF Answered, Running, Retried
  <2>2. wpc' = "round" /\ cur' = {} /\ left' = 0 /\ UNCHANGED <<lag, worked, hist>>
    BY <1>1, <1>4, Zenon
  <2>. QED
    BY <1>2, <1>4, <2>1, <2>2, SubmitAnswerStep, Zenon
<1>. QED
  BY <1>1, <1>3, <1>4, Zenon

\* The sleep is over.
LEMMA SleepEndsStep ==
  ASSUME Measures, IInv, SleepEnds
  PROVE  IInv'
<1>. USE DEF IInv
<1>1. /\ wpc = "sleep" /\ left = 0 /\ wpc' = "round" /\ rows' = rows /\ lag' = lag /\ cur' = cur
      /\ worked' = worked /\ left' = left /\ stepped' = stepped /\ downFor' = downFor
  BY Zenon DEF SleepEnds, hist
<1>2. ScheduleTypes' /\ Leads' = Leads
  BY <1>1, Zenon DEF ScheduleTypes, Leads, Live, State, Born
<1>3. WorkerInv'
  BY <1>1, Zenon DEF WorkerInv
<1>4. ClockInv'
  BY <1>1, <1>2, Zenon DEF ClockInv, Live, State, Due, Born
<1>5. LateInv'
  BY <1>1, <1>2, Zenon DEF LateInv, Late, Age, State, Due, Since
<1>6. ASSUME NEW r \in Ids
      PROVE  /\ Age(r)' = Age(r) /\ Wait(r)' = Wait(r) /\ Ahead(r)' = Ahead(r)
             /\ Age(r) \in Int /\ Wait(r) \in Int
  BY <1>1, Facts, Zenon
    DEF Age, Wait, Late, Ahead, Before, RecordFacts, Typed, State, Due, Since
<1>7. ASSUME NEW r \in Ids, State(r)' = "queued" PROVE QueuedTurn(r)'
  <2>1. Room(Age(r) + left + SubmitTimeout, Ahead(r), Leads, stepped)
    BY <1>1, <1>7, Zenon DEF TurnInv, QueuedTurn, State
  <2>2. Age(r) + left + SubmitTimeout = Age(r) + SubmitTimeout
    BY <1>1, <1>6
  <2>. QED
    BY <1>1, <1>2, <1>6, <2>1, <2>2, Zenon DEF QueuedTurn
<1>8. ASSUME NEW r \in Ids, State(r)' = "submitted" PROVE SubmittedTurn(r)'
  <2>1. Room(Wait(r) + left, Ahead(r), Leads, stepped)
    BY <1>1, <1>8, Zenon DEF TurnInv, SubmittedTurn, State
  <2>2. Wait(r) + left = Wait(r)
    BY <1>1, <1>6
  <2>. QED
    BY <1>1, <1>2, <1>6, <2>1, <2>2, Zenon DEF SubmittedTurn
<1>. QED
  BY <1>2, <1>3, <1>4, <1>5, <1>7, <1>8, Zenon DEF TurnInv

\* Recovery makes the working rows due now: they are before no record that is
\* overdue.
LEMMA recoverMetadataStep ==
  ASSUME Measures, IInv, recoverMetadata
  PROVE  IInv'
<1>. USE DEF IInv
<1>1. /\ wpc = "down" /\ wpc' = "round" /\ downFor' = 0 /\ lag' = lag /\ cur' = cur
      /\ worked' = worked /\ left' = left /\ stepped' = stepped
      /\ cur = {} /\ downFor \in Nat /\ stepped \in Int /\ stepped >= 0
  <2>1. /\ wpc = "down" /\ wpc' = "round" /\ downFor' = 0 /\ lag' = lag /\ cur' = cur
        /\ worked' = worked /\ left' = left /\ stepped' = stepped
    BY Zenon DEF recoverMetadata
  <2>. QED
    BY <2>1 DEF WorkerInv, ScheduleTypes
<1>2. /\ rows' \in [Ids -> Row]
      /\ \A r \in Ids :
           \/ /\ State(r) = "working" /\ State(r)' = "queued" /\ Due(r)' = 0
              /\ Born(r)' = Born(r) /\ Born(r) <= 0
           \/ State(r) # "working" /\ rows'[r] = rows[r]
  <2>. DEFINE New(r) == [rows[r] EXCEPT !.state = "queued", !.due = 0]
  <2>1. ASSUME NEW r \in Ids
        PROVE  /\ New(r) \in Row /\ New(r).state = "queued" /\ New(r).due = 0
               /\ New(r).born = Born(r)
    <3>. DEFINE r1 == [rows[r] EXCEPT !.state = "queued"]
    <3>1. r1 \in Row /\ r1.state = "queued" /\ r1.born = Born(r)
      BY Zenon DEF ScheduleTypes, Row, Born
    <3>2. New(r) = [r1 EXCEPT !.due = 0]
      BY Zenon
    <3>. HIDE DEF r1, New
    <3>. QED
      BY <3>1, <3>2 DEF Row
  <2>2. \A r \in Ids : State(r) = "working" => Born(r) <= 0
    BY Zenon DEF recoverMetadata, Working, CheckHolds, State, Born
  <2>3. rows' = [r \in Ids |-> IF r \in Working THEN New(r) ELSE rows[r]]
    BY Zenon DEF recoverMetadata
  <2>4. \A r \in Ids : r \in Working <=> State(r) = "working"
    BY Zenon DEF Working, State
  <2>. HIDE DEF New
  <2>. QED
    BY <2>1, <2>2, <2>3, <2>4, Zenon DEF ScheduleTypes, State, Due, Born
<1>3. ScheduleTypes'
  BY <1>1, <1>2, Zenon DEF ScheduleTypes
<1>4. Leads' \subseteq Leads
  BY <1>2, LeadsKept, Zenon DEF Live, State, Born
<1>5. WorkerInv'
  BY <1>1, Zenon DEF WorkerInv
<1>6. ClockInv'
  <2>1. ASSUME NEW b \in Leads', b > 0 PROVE b + downFor' <= stepped'
    <3>1. b \in Int /\ b + downFor <= stepped
      BY <1>4, <2>1, LeadsFacts, Zenon DEF ClockInv, LeadsBounded, LeadsTyped
    <3>. QED
      BY <1>1, <3>1
  <2>2. ASSUME NEW r \in Ids, Live(r)'
        PROVE  Born(r)' <= Due(r)' \/ Born(r)' <= stepped' - MaxStepBack
    BY <1>1, <1>2, <2>2, Zenon DEF ClockInv, Live, State, Due, Born
  <2>. QED
    BY <1>1, <2>1, <2>2, Zenon DEF ClockInv
<1>7. LateInv'
  BY <1>1, <1>2, <1>4, Zenon DEF LateInv, Late, Age, State, Due, Since
<1>8. ASSUME NEW r \in Ids, State(r)' = "queued" PROVE QueuedTurn(r)'
  <2>1. CASE Age(r)' <= 0
    BY <1>3, <1>5, <1>6, <2>1, QueuedFreeNext, Zenon
  <2>2. CASE ~(Age(r)' <= 0)
    <3>1. rows'[r] = rows[r] /\ State(r) = "queued" /\ Due(r) < 0 /\ Due(r) \in Int
      BY <1>2, <1>8, <2>2 DEF Age, Row, State, Due
    <3>2. Before(r) \subseteq Ids /\ Before(r)' \subseteq Before(r)
      BY <1>2, <3>1 DEF Before, State, Due
    <3>3. Rounds(Ahead(r)') <= Rounds(Ahead(r))
      BY <3>2, Zenon DEF Measures, Counts, Ahead
    <3>4. RecordFacts(r) /\ RecordFacts(r)' /\ LeadsBounded
      BY <1>3, Facts, FactsNext, LeadsFacts, Zenon
    <3>5. Room(Age(r) + SubmitTimeout, Ahead(r), Leads, stepped)
      BY <1>1, <3>1, Zenon DEF TurnInv, QueuedTurn
    <3>6. Age(r)' = Age(r)
      BY <3>1, Zenon DEF Age, Due
    <3>7. Room(Age(r)' + SubmitTimeout, Ahead(r)', Leads', stepped')
      <4>1. /\ Age(r) + SubmitTimeout \in Int /\ Age(r)' + SubmitTimeout \in Int
            /\ Rounds(Ahead(r)) \in Int /\ Rounds(Ahead(r)') \in Int
            /\ Age(r)' + SubmitTimeout + Rounds(Ahead(r)') <= Age(r) + SubmitTimeout + Rounds(Ahead(r))
        BY <3>3, <3>4, <3>6 DEF Measures, Sizes, CallSize, RecordFacts, Typed, Counted
      <4>. QED
        BY <1>1, <1>4, <3>4, <3>5, <4>1, RoomKept, Zenon DEF LeadsBounded, LeadsTyped
    <3>. QED
      BY <1>1, <3>7, Zenon DEF QueuedTurn
  <2>. QED
    BY <2>1, <2>2, Zenon
<1>9. ASSUME NEW r \in Ids, State(r)' = "submitted" PROVE SubmittedTurn(r)'
  <2>1. rows'[r] = rows[r] /\ Before(r)' = Before(r)
    BY <1>2, <1>9, Zenon DEF Before, State, Due
  <2>2. Ahead(r)' = Ahead(r) /\ Wait(r)' = Wait(r)
    BY <2>1, Zenon DEF Ahead, Wait, Late, Age, State, Due, Since
  <2>3. Room(Wait(r), Ahead(r), Leads, stepped)
    BY <1>1, <1>9, <2>1, Zenon DEF TurnInv, SubmittedTurn, State
  <2>. QED
    BY <1>1, <1>4, <2>2, <2>3, Zenon DEF SubmittedTurn, Room
<1>. QED
  BY <1>3, <1>5, <1>6, <1>7, <1>8, <1>9, Zenon DEF TurnInv
=============================================================================
