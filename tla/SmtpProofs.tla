----------------------------- MODULE SmtpProofs -----------------------------
(***************************************************************************)
(* The theorems about internal/smtp and the handler behind it: the         *)
(* sessions of Ingress, for any finite number of connections and any       *)
(* in-flight limit, and the life of the server, SmtpServer, for either or  *)
(* both of the listeners and any set of goroutines that call Shutdown or   *)
(* Close.                                                                  *)
(*                                                                         *)
(* IInv, of the sessions, is inductive: a step of one connection leaves    *)
(* the state of every other alone, and moves the one shared counter by     *)
(* what the set of sessions inside Enqueue grows or shrinks.               *)
(*                                                                         *)
(* ServerIInv follows the serve goroutines: all are launched before Start  *)
(* reaches its select, and each way out of the select goes through a wait  *)
(* for all of them.  Every action has a step of its own, or one with the   *)
(* actions that change the same variables.                                 *)
(***************************************************************************)
EXTENDS Ingress, SmtpServer, FiniteSetTheorems, TLAPS

---------------------------------------------------------------------------
(* The sessions.                                                           *)

\* Reset leaves no recipient of an earlier transaction.
LEMMA NothingAges == Aged({}) = {}
BY Zenon DEF Aged

\* Another MAIL makes recipients of a replaced one out of those of the last one, and of
\* none of them one of before a Reset.
LEMMA ReplacedLabels ==
  ASSUME NEW R
  PROVE  /\ R \subseteq Label => Replaced(R) \subseteq Label
         /\ R \subseteq {"new", "replaced"} => Replaced(R) \subseteq {"new", "replaced"}
BY Zenon DEF Replaced, Label

\* newEnqueueMessageHandler answers every result with one of its replies.
LEMMA RepliesKnown ==
  ASSUME NEW err  PROVE replyTo(err) \in Replies /\ "554" \in Replies
BY Zenon DEF replyTo, Replies

\* A function stays in its type when one value is replaced by another of its range.
LEMMA Updates ==
  ASSUME NEW S, NEW f \in [Conns -> S], NEW c \in Conns, NEW v \in S
  PROVE  [f EXCEPT ![c] = v] \in [Conns -> S]
BY Zenon

\* Every step keeps every variable in its type.
LEMMA TypeStep == TypeOK /\ [Next]_vars => TypeOK'
<1>. SUFFICES ASSUME TypeOK, [Next]_vars PROVE TypeOK'
  BY Zenon
<1>. DEFINE Places == {"down", "up", "session", "lost enqueue", "lost answer"} \cup Busy
            Recipients == SUBSET Label
<1>c. conn \in [Conns -> Places]
      /\ {"down", "session", "enqueue", "answer", "lost enqueue", "lost answer"} \subseteq Places
  BY Zenon DEF TypeOK, Busy
<1>r. reply \in [Conns -> Replies] /\ stored \in [Conns -> BOOLEAN]
  BY Zenon DEF TypeOK
<1>t. to \in [Conns -> Recipients] /\ {} \in Recipients
      /\ \A R \in Recipients : R \cup {"new"} \in Recipients /\ Replaced(R) \in Recipients
  BY ReplacedLabels, Zenon DEF TypeOK, Label
<1>i. inflight \in Int
  BY Zenon DEF TypeOK
<1>0. CASE UNCHANGED vars
  BY <1>0, Zenon DEF TypeOK, vars, session
<1>1. ASSUME NEW c \in Conns, Connect(c)  PROVE TypeOK'
  <2>1. PICK remote \in Remotes, secure \in BOOLEAN :
          /\ allowed' = [allowed EXCEPT ![c] = \E a \in remoteAddrIP(remote) : isAddrAllowed(a)]
          /\ tls' = [tls EXCEPT ![c] = secure]
    BY <1>1, Zenon DEF Connect
  <2>2. (\E a \in remoteAddrIP(remote) : isAddrAllowed(a)) \in BOOLEAN
    BY Zenon
  <2>3. allowed' \in [Conns -> BOOLEAN] /\ tls' \in [Conns -> BOOLEAN]
    BY <2>1, <2>2, Zenon DEF TypeOK
  <2>. QED
    BY <1>1, <2>3, Zenon DEF TypeOK, Connect, session, Busy
<1>2. ASSUME NEW c \in Conns, NewSession(c) \/ Auth(c) \/ StartTLS(c)  PROVE TypeOK'
  BY <1>2 DEF TypeOK, NewSession, Auth, StartTLS, session, Busy
<1>3. ASSUME NEW c \in Conns, Mail(c) \/ Rcpt(c) \/ Rset(c)  PROVE TypeOK'
  <2>1. from' \in [Conns -> BOOLEAN]
    BY <1>3, Zenon DEF TypeOK, Mail, Rcpt, Rset, Reset
  <2>2. to' \in [Conns -> Recipients]
    <3>1. \/ to' = [to EXCEPT ![c] = Aged({})] \/ to' = [to EXCEPT ![c] = to[c] \cup {"new"}]
          \/ to' = [to EXCEPT ![c] = Replaced(to[c])]
      BY <1>3, Zenon DEF Mail, Rcpt, Rset, Reset
    <3>2. to[c] \cup {"new"} \in Recipients /\ Replaced(to[c]) \in Recipients
      BY <1>t, Zenon
    <3>. QED
      BY <1>t, <3>1, <3>2, NothingAges, Updates, Zenon
  <2>. QED
    BY <1>3, <1>t, <2>1, <2>2, Zenon DEF TypeOK, Mail, Rcpt, Rset
<1>4. ASSUME NEW c \in Conns, NEW content \in {"invalid", "refused", "fine"}, Data(c, content)
      PROVE  TypeOK'
  <2>1. inflight' \in Int
    <3>1. inflight' = inflight \/ inflight' = inflight + 1
      BY <1>4, Zenon DEF Data, Acquire
    <3>. QED
      BY <1>i, <3>1
  <2>2. conn' \in [Conns -> Places]
    <3>1. conn' = [conn EXCEPT ![c] = "enqueue"] \/ conn' = [conn EXCEPT ![c] = "answer"]
      BY <1>4, Zenon DEF Data, Acquire, Answer
    <3>. QED
      BY <1>c, <3>1, Updates, ZenonT(60)
  <2>3. reply' \in [Conns -> Replies]
    <3>1. reply' = reply \/ \E v \in Replies : reply' = [reply EXCEPT ![c] = v]
      BY <1>4, RepliesKnown, Zenon DEF Data, Acquire, Answer
    <3>. QED
      BY <1>r, <3>1, Updates, Zenon
  <2>. QED
    BY <1>4, <2>1, <2>2, <2>3, Zenon DEF TypeOK, Data, session
<1>5. ASSUME NEW c \in Conns, EnqueueEnds(c)  PROVE TypeOK'
  <2>1. PICK err \in {"nil", "error"}, kept \in BOOLEAN : EnqueueReturns(c, err, kept)
    BY <1>5, Zenon DEF EnqueueEnds
  <2>2. conn' \in [Conns -> Places]
    BY <2>1, <1>c, Updates, Zenon DEF EnqueueReturns, AfterEnqueue
  <2>3. reply' \in [Conns -> Replies] /\ stored' \in [Conns -> BOOLEAN]
    BY <2>1, <1>r, RepliesKnown, Updates, Zenon DEF EnqueueReturns
  <2>4. inflight' \in Int
    <3>1. inflight' = inflight - 1
      BY <2>1, Zenon DEF EnqueueReturns
    <3>. QED
      BY <1>i, <3>1
  <2>. QED
    BY <2>1, <2>2, <2>3, <2>4, Zenon DEF TypeOK, EnqueueReturns, session
<1>6. ASSUME NEW c \in Conns, Reply(c) \/ Disconnect(c)  PROVE TypeOK'
  <2>1. conn' \in [Conns -> Places]
    <3>1. \E v \in {"down", "session", "lost enqueue", "lost answer"} : conn' = [conn EXCEPT ![c] = v]
      BY <1>6, Zenon DEF Reply, Disconnect
    <3>. QED
      BY <1>c, <3>1, Updates, Zenon
  <2>2. reply' \in [Conns -> Replies] /\ stored' \in [Conns -> BOOLEAN]
        /\ from' \in [Conns -> BOOLEAN]
    BY <1>6, Zenon DEF TypeOK, Reply, Disconnect, Reset, Replies, session
  <2>3. to' \in [Conns -> Recipients]
    <3>1. to' = to \/ to' = [to EXCEPT ![c] = Aged({})]
      BY <1>6, Zenon DEF Reply, Disconnect, Reset, session
    <3>. QED
      BY <1>t, <3>1, NothingAges, Updates, Zenon
  <2>. QED
    BY <1>6, <1>t, <2>1, <2>2, <2>3 DEF TypeOK, Reply, Disconnect, session
<1>. QED
  BY <1>0, <1>1, <1>2, <1>3, <1>4, <1>5, <1>6, ZenonT(30) DEF Next

\* A step of one connection touches no variable of another.
LEMMA OthersUntouched ==
  ASSUME TypeOK, NEW d \in Conns, NEW c \in Conns, c # d,
         \/ Connect(d) \/ NewSession(d) \/ Auth(d) \/ StartTLS(d) \/ Mail(d) \/ Rcpt(d) \/ Rset(d)
         \/ \E content \in {"invalid", "refused", "fine"} : Data(d, content)
         \/ EnqueueEnds(d) \/ Reply(d) \/ Disconnect(d)
  PROVE  /\ cfg' = cfg
         /\ conn'[c] = conn[c] /\ allowed'[c] = allowed[c] /\ tls'[c] = tls[c]
         /\ authed'[c] = authed[c] /\ to'[c] = to[c] /\ authTLS'[c] = authTLS[c]
         /\ reply'[c] = reply[c] /\ stored'[c] = stored[c]
<1>1. CASE Connect(d) \/ NewSession(d) \/ Auth(d) \/ StartTLS(d)
  BY <1>1, Zenon DEF TypeOK, Connect, NewSession, Auth, StartTLS, session
<1>2. CASE Mail(d) \/ Rcpt(d) \/ Rset(d)
  BY <1>2, Zenon DEF TypeOK, Mail, Rcpt, Rset, Reset
<1>3. CASE \E content \in {"invalid", "refused", "fine"} : Data(d, content)
  BY <1>3, Zenon DEF TypeOK, Data, Acquire, Answer, session
<1>4. CASE EnqueueEnds(d) \/ Reply(d) \/ Disconnect(d)
  BY <1>4, Zenon DEF TypeOK, EnqueueEnds, EnqueueReturns, Reply, Reset, Disconnect, session
<1>. QED
  BY <1>1, <1>2, <1>3, <1>4, Zenon

\* A step of a connection keeps its own ConnInv.
LEMMA OwnStep ==
  ASSUME TypeOK, NEW c \in Conns, ConnInv(c),
         \/ Connect(c) \/ NewSession(c) \/ Auth(c) \/ StartTLS(c) \/ Mail(c) \/ Rcpt(c) \/ Rset(c)
         \/ \E content \in {"invalid", "refused", "fine"} : Data(c, content)
         \/ EnqueueEnds(c) \/ Reply(c) \/ Disconnect(c)
  PROVE  ConnInv(c)'
<1>. USE NothingAges DEF ConnInv, Enqueuing, enforceSessionPolicy
<1>1. CASE Connect(c)
  BY <1>1, Zenon DEF TypeOK, Connect, session
<1>2. CASE NewSession(c)
  BY <1>2, Zenon DEF TypeOK, NewSession
<1>3. CASE Auth(c)
  BY <1>3, Zenon DEF TypeOK, Auth
<1>4. CASE StartTLS(c)
  BY <1>4, Zenon DEF TypeOK, StartTLS, session
<1>5. CASE Mail(c) \/ Rcpt(c)
  <2>1. to'[c] = Replaced(to[c]) \/ to'[c] = to[c] \cup {"new"}
    BY <1>5, Zenon DEF TypeOK, Mail, Rcpt
  <2>2. to'[c] \subseteq {"new", "replaced"}
    BY <2>1, ReplacedLabels, Zenon
  <2>. QED
    BY <1>5, <2>2, Zenon DEF Mail, Rcpt
<1>6. CASE Rset(c)
  BY <1>6, Zenon DEF TypeOK, Rset, Reset
<1>7. CASE \E content \in {"invalid", "refused", "fine"} : Data(c, content)
  BY <1>7 DEF TypeOK, Data, Acquire, Answer, replyTo, session
<1>8. CASE EnqueueEnds(c)
  <2>1. PICK err \in {"nil", "error"}, kept \in BOOLEAN : EnqueueReturns(c, err, kept)
    BY <1>8, Zenon DEF EnqueueEnds
  <2>2. conn'[c] \in {"answer", "lost answer"} /\ conn[c] \notin {"down", "up"}
    BY <2>1, Zenon DEF TypeOK, EnqueueReturns, AfterEnqueue
  <2>3. stored'[c] = kept /\ reply'[c] = replyTo(err) /\ (err = "nil" => kept)
    BY <2>1, Zenon DEF TypeOK, EnqueueReturns
  <2>4. replyTo("nil") = "250" /\ replyTo("error") = "451"
    BY Zenon DEF replyTo
  <2>5. (reply'[c] = "250" => stored'[c]) /\ (reply'[c] \in {"554", "451 busy"} => ~stored'[c])
    BY <2>3, <2>4, Zenon
  <2>. QED
    BY <2>1, <2>2, <2>5, Zenon DEF EnqueueReturns, session
<1>9. CASE Reply(c)
  BY <1>9, Zenon DEF TypeOK, Reply, Reset
<1>10. CASE Disconnect(c)
  BY <1>10, Zenon DEF TypeOK, Disconnect, session, Busy
<1>. QED
  BY <1>1, <1>2, <1>3, <1>4, <1>5, <1>6, <1>7, <1>8, <1>9, <1>10, ZenonT(60)

\* Every step keeps every connection's ConnInv.
LEMMA ConnStep ==
  ASSUME TypeOK, \A c \in Conns : ConnInv(c), [Next]_vars
  PROVE  \A c \in Conns : ConnInv(c)'
<1>1. CASE UNCHANGED vars
  BY <1>1, Zenon DEF vars, session, ConnInv, Enqueuing, enforceSessionPolicy
<1>2. ASSUME NEW d \in Conns, NEW c \in Conns,
             \/ Connect(d) \/ NewSession(d) \/ Auth(d) \/ StartTLS(d) \/ Mail(d) \/ Rcpt(d)
             \/ Rset(d) \/ \E content \in {"invalid", "refused", "fine"} : Data(d, content)
             \/ EnqueueEnds(d) \/ Reply(d) \/ Disconnect(d)
      PROVE  ConnInv(c)'
  <2>1. CASE c = d
    BY <1>2, <2>1, OwnStep, Zenon
  <2>2. CASE c # d
    <3>1. /\ cfg' = cfg
          /\ conn'[c] = conn[c] /\ allowed'[c] = allowed[c] /\ tls'[c] = tls[c]
          /\ authed'[c] = authed[c] /\ to'[c] = to[c] /\ authTLS'[c] = authTLS[c]
          /\ reply'[c] = reply[c] /\ stored'[c] = stored[c]
      BY <1>2, <2>2, OthersUntouched, Zenon
    <3>. QED
      BY <3>1, Zenon DEF ConnInv, Enqueuing, enforceSessionPolicy
  <2>. QED
    BY <2>1, <2>2, Zenon
<1>. QED
  BY <1>1, <1>2, Zenon DEF Next

\* Every step keeps the count: DATA takes a slot for one more session inside Enqueue,
\* the return of Enqueue gives back that of one, and nothing else does either.
LEMMA CountStep ==
  ASSUME TypeOK, [Next]_vars, inflight = Cardinality({c \in Conns : Enqueuing(c)}),
         inflight <= MaxInflight
  PROVE  inflight' = Cardinality({c \in Conns : Enqueuing(c)'}) /\ inflight' <= MaxInflight
<1>. DEFINE S == {c \in Conns : Enqueuing(c)}
            T == {c \in Conns : Enqueuing(c)'}
<1>0. IsFiniteSet(S) /\ inflight \in Int /\ MaxInflight \in Int
  <2>1. S \in SUBSET Conns
    BY Zenon
  <2>2. IsFiniteSet(S)
    BY <2>1, ConnsAssumption, FS_Subset, Zenon
  <2>3. inflight \in Int
    BY Zenon DEF TypeOK
  <2>4. MaxInflight \in Int
    BY InflightAssumption
  <2>. QED
    BY <2>2, <2>3, <2>4, Zenon
<1>1. ASSUME T = S, inflight' = inflight
      PROVE  inflight' = Cardinality(T) /\ inflight' <= MaxInflight
  BY <1>1, Zenon
<1>2. ASSUME NEW d \in Conns, d \notin S, T = S \cup {d}, inflight' = inflight + 1,
             inflight < MaxInflight
      PROVE  inflight' = Cardinality(T) /\ inflight' <= MaxInflight
  <2>1. Cardinality(S \cup {d}) = Cardinality(S) + 1
    BY <1>0, <1>2, FS_AddElement, Zenon
  <2>. QED
    BY <1>0, <1>2, <2>1
<1>3. ASSUME NEW d \in Conns, d \in S, T = S \ {d}, inflight' = inflight - 1
      PROVE  inflight' = Cardinality(T) /\ inflight' <= MaxInflight
  <2>1. Cardinality(S \ {d}) = Cardinality(S) - 1
    BY <1>0, <1>3, FS_RemoveElement, Zenon
  <2>. QED
    BY <1>0, <1>3, <2>1
<1>4. ASSUME NEW d \in Conns, conn' = [conn EXCEPT ![d] = conn'[d]]
      PROVE  /\ (Enqueuing(d) <=> Enqueuing(d)') => T = S
             /\ ~Enqueuing(d) /\ Enqueuing(d)' => d \notin S /\ T = S \cup {d}
             /\ Enqueuing(d) /\ ~Enqueuing(d)' => d \in S /\ T = S \ {d}
  <2>1. \A c \in Conns : c # d => conn'[c] = conn[c]
    BY <1>4, Zenon DEF TypeOK
  <2>. QED
    BY <2>1, Zenon DEF Enqueuing
<1>5. ASSUME UNCHANGED vars
      PROVE  inflight' = Cardinality(T) /\ inflight' <= MaxInflight
  <2>1. T = S /\ inflight' = inflight
    BY <1>5, Zenon DEF vars, Enqueuing
  <2>. QED
    BY <1>1, <2>1, Zenon
<1>6. ASSUME NEW d \in Conns,
             \/ Connect(d) \/ NewSession(d) \/ Auth(d) \/ StartTLS(d) \/ Mail(d) \/ Rcpt(d)
             \/ Rset(d) \/ Reply(d) \/ Disconnect(d)
      PROVE  T = S /\ inflight' = inflight
  <2>1. inflight' = inflight /\ (conn' = conn \/ \E v : conn' = [conn EXCEPT ![d] = v])
    BY <1>6, Zenon DEF Connect, NewSession, Auth, StartTLS, Mail, Rcpt, Rset, Reply, Disconnect
  <2>2. conn' = [conn EXCEPT ![d] = conn'[d]]
    BY <2>1, Zenon DEF TypeOK
  <2>3. Enqueuing(d) <=> Enqueuing(d)'
    BY <1>6, Zenon
      DEF TypeOK, Connect, NewSession, Auth, StartTLS, Mail, Rcpt, Rset, Reply, Disconnect,
                Enqueuing, Busy
  <2>. QED
    BY <1>4, <2>1, <2>2, <2>3, Zenon
<1>7. ASSUME NEW d \in Conns, NEW content \in {"invalid", "refused", "fine"}, Data(d, content)
      PROVE  inflight' = Cardinality(T) /\ inflight' <= MaxInflight
  <2>1. CASE conn' = [conn EXCEPT ![d] = "answer"] /\ inflight' = inflight
    <3>1. conn' = [conn EXCEPT ![d] = conn'[d]] /\ ~Enqueuing(d) /\ ~Enqueuing(d)'
      BY <1>7, <2>1, Zenon DEF TypeOK, Data, Enqueuing
    <3>. QED
      BY <1>1, <1>4, <2>1, <3>1, Zenon
  <2>2. CASE conn' = [conn EXCEPT ![d] = "enqueue"] /\ inflight' = inflight + 1
             /\ inflight < MaxInflight
    <3>1. conn' = [conn EXCEPT ![d] = conn'[d]] /\ ~Enqueuing(d) /\ Enqueuing(d)'
      BY <1>7, <2>2, Zenon DEF TypeOK, Data, Enqueuing
    <3>. QED
      BY <1>2, <1>4, <2>2, <3>1, Zenon
  <2>. QED
    BY <1>7, <2>1, <2>2, Zenon DEF Data, Acquire, Answer
<1>8. ASSUME NEW d \in Conns, EnqueueEnds(d)
      PROVE  inflight' = Cardinality(T) /\ inflight' <= MaxInflight
  <2>1. conn' = [conn EXCEPT ![d] = AfterEnqueue(d)] /\ inflight' = inflight - 1 /\ Enqueuing(d)
    BY <1>8, Zenon DEF EnqueueEnds, EnqueueReturns
  <2>2. conn' = [conn EXCEPT ![d] = conn'[d]] /\ ~Enqueuing(d)'
    BY <2>1, Zenon DEF TypeOK, AfterEnqueue, Enqueuing
  <2>. QED
    BY <1>3, <1>4, <2>1, <2>2, Zenon
<1>9. inflight' = Cardinality(T) /\ inflight' <= MaxInflight
  <2>. HIDE DEF S, T
  <2>. QED
    BY <1>1, <1>5, <1>6, <1>7, <1>8, ZenonT(30) DEF Next
<1>. QED
  BY <1>9, Zenon

\* A relay that has just started serves nobody.
LEMMA InitIInv == Init => IInv
<1>. SUFFICES ASSUME Init PROVE IInv
  BY Zenon
<1>1. TypeOK
  <2>1. /\ "down" \in {"down", "up", "session", "lost enqueue", "lost answer"} \cup Busy
        /\ "none" \in Replies /\ {} \in SUBSET Label /\ 0 \in Int
    BY DEF Replies
  <2>. QED
    BY <2>1, Zenon DEF Init, TypeOK
<1>2. \A c \in Conns : ConnInv(c)
  BY Zenon DEF Init, ConnInv, Enqueuing
<1>3. {c \in Conns : Enqueuing(c)} = {}
  BY Zenon DEF Init, Enqueuing
<1>4. inflight = Cardinality({c \in Conns : Enqueuing(c)}) /\ inflight <= MaxInflight
  <2>1. inflight = 0 /\ MaxInflight >= 0
    BY InflightAssumption DEF Init
  <2>. QED
    BY <1>3, <2>1, FS_EmptySet, Zenon
<1>. QED
  BY <1>1, <1>2, <1>4, Zenon DEF IInv

\* IInv is an invariant of the sessions and the handler together.
THEOREM Invariance == Spec => []IInv
<1>1. IInv /\ [Next]_vars => IInv'
  BY TypeStep, ConnStep, CountStep, Zenon DEF IInv
<1>. QED
  BY <1>1, InitIInv, PTL DEF Spec

\* Every variable keeps its type.
THEOREM TypeCorrect == Spec => []TypeOK
<1>1. IInv => TypeOK
  BY Zenon DEF IInv
<1>. QED
  BY <1>1, Invariance, PTL

\* However many connections there are and whatever the limit is, a slot of
\* h.inflight is held by exactly the sessions inside Enqueue, never more than the limit.
THEOREM SlotsExact == Spec => []InflightExact
<1>1. IInv => InflightExact
  BY Zenon DEF IInv, InflightExact
<1>. QED
  BY <1>1, Invariance, PTL

\* Nothing reaches Enqueue that enforceSessionPolicy forbids or that a session of
\* before STARTTLS vouched for.
THEOREM PolicyEnforced == Spec => []PolicyHolds
<1>1. IInv => PolicyHolds
  BY Zenon DEF IInv, PolicyHolds, ConnInv, Enqueuing, enforceSessionPolicy
<1>. QED
  BY <1>1, Invariance, PTL

\* A mail goes to recipients given since the last Reset of its session only, however many
\* connections there are: RSET, EHLO, STARTTLS and every answered DATA leave none behind.
THEOREM EnvelopesSeparate == Spec => []EnvelopeIsolated
<1>1. IInv => EnvelopeIsolated
  BY Zenon DEF IInv, EnvelopeIsolated, ConnInv
<1>. QED
  BY <1>1, Invariance, PTL

\* A 250 means that the mail is stored, a 554 or a busy 451 that it is not.
THEOREM RepliesTrue == Spec => []ReplyIsTrue
<1>1. IInv => ReplyIsTrue
  BY Zenon DEF IInv, ReplyIsTrue, ConnInv
<1>. QED
  BY <1>1, Invariance, PTL

---------------------------------------------------------------------------
(* Sets of listeners.                                                      *)

\* A set of listeners is finite.
LEMMA ListenersFinite == ASSUME NEW S, S \subseteq Configured PROVE IsFiniteSet(S)
<1>1. IsFiniteSet({"smtp"} \cup {"smtps"})
  BY FS_Singleton, FS_Union, Zenon
<1>2. S \subseteq {"smtp"} \cup {"smtps"}
  BY ConfiguredAssumption, Zenon
<1>. QED
  BY <1>1, <1>2, FS_Subset, Zenon

\* The listener that Start deals with next is one of those that are left.
LEMMA FirstIsIn == ASSUME NEW S, S \subseteq Configured, S # {} PROVE First(S) \in S
BY ConfiguredAssumption, Zenon DEF First

\* serveWG is zero: no serve goroutine is between its go statement and Done.
LEMMA NoneRunning == serveWG = 0 => \A l \in Configured : serve[l] \notin Running
<1>. DEFINE R == {l \in Configured : serve[l] \in Running}
<1>1. IsFiniteSet(R)
  BY ListenersFinite, Zenon
<1>2. Cardinality(R) = 0 => R = {}
  BY <1>1, FS_EmptySet, Zenon
<1>. QED
  BY <1>2, Zenon DEF serveWG

\* The loop of Start that launches the serve goroutines ends with the last one.
LEMMA LastLaunch ==
  ASSUME Unlaunched # {}
  PROVE  /\ First(Unlaunched) \in Unlaunched
         /\ Cardinality(Unlaunched) = 1 => Unlaunched = {First(Unlaunched)}
         /\ Cardinality(Unlaunched) # 1 => \E l \in Unlaunched : l # First(Unlaunched)
<1>1. Unlaunched \subseteq Configured
  BY Zenon DEF Unlaunched
<1>2. First(Unlaunched) \in Unlaunched
  BY <1>1, FirstIsIn, Zenon
<1>3. IsFiniteSet(Unlaunched)
  BY <1>1, ListenersFinite, Zenon
<1>4. Cardinality(Unlaunched) = 1 <=> \E x : Unlaunched = {x}
  BY <1>3, FS_Singleton, Zenon
<1>. QED
  BY <1>2, <1>4
---------------------------------------------------------------------------
(* The steps of Start.                                                     *)

\* Nothing runs before Start.
LEMMA ServerInitIInv == ServerInit => ServerIInv
<1>. SUFFICES ASSUME ServerInit PROVE ServerIInv
  BY Zenon
<1>1. Starter \in Callers /\ Stoppers \subseteq Callers
  BY Zenon DEF Callers
<1>2. ServerTypes
  BY <1>1, Zenon DEF ServerInit, ServerTypes, CallStates
<1>. QED
  BY <1>1, <1>2, Zenon DEF ServerInit, ServerIInv, LaunchInv, WaitInv, CloseInv

\* Start begins, binds its listeners and keeps them: no serve goroutine exists yet, and
\* when a bind fails the sockets are closed.
LEMMA BindSteps == ServerIInv /\ (BeginStart \/ BindListener \/ StoreManagedListeners) => ServerIInv'
<1>. SUFFICES ASSUME ServerIInv, BeginStart \/ BindListener \/ StoreManagedListeners PROVE ServerIInv'
  BY Zenon
<1>. USE DEF ServerIInv
<1>1. start \in {"idle", "bind", "store"} /\ UNCHANGED <<serve, kind, stop, waiter, early, died>>
  BY Zenon DEF BeginStart, BindListener, StoreManagedListeners, serving, stopping
<1>2. \A l \in Configured : serve[l] = "none"
  BY <1>1, Zenon DEF LaunchInv
<1>3. socket' \in [Configured -> {"none", "open", "closed"}]
      /\ (start' = "exit" => \A l \in Configured : socket'[l] # "open")
  BY Zenon DEF BeginStart, BindListener, StoreManagedListeners, serving, ServerTypes
<1>4. start' \in {"bind", "store", "launch", "exit"}
  BY Zenon DEF BeginStart, BindListener, StoreManagedListeners
<1>5. ServerTypes'
  BY <1>1, <1>3, Zenon DEF ServerTypes
<1>6. LaunchInv'
  <2>1. waiter = "none"
    BY <1>2, ConfiguredAssumption, Zenon DEF LaunchInv, Unlaunched
  <2>. QED
    BY <1>1, <1>2, <1>3, <1>4, <2>1, ConfiguredAssumption, Zenon
      DEF LaunchInv, Unlaunched, Running
<1>7. WaitInv'
  BY <1>1, <1>2, ConfiguredAssumption, Zenon DEF WaitInv
<1>8. CloseInv'
  BY <1>1, <1>4, Zenon DEF CloseInv
<1>. QED
  BY <1>5, <1>6, <1>7, <1>8, Zenon

\* The next serve goroutine is launched.
LEMMA LaunchStep == ServerIInv /\ LaunchServe => ServerIInv'
<1>. SUFFICES ASSUME ServerIInv, LaunchServe PROVE ServerIInv'
  BY Zenon
<1>. USE DEF ServerIInv
<1>1. Unlaunched # {} /\ start = "launch" /\ waiter = "none"
  BY Zenon DEF LaunchServe, LaunchInv
<1>. DEFINE f == First(Unlaunched)
<1>2. f \in Configured /\ serve[f] = "none"
  BY <1>1, LastLaunch, Zenon DEF Unlaunched
<1>3. /\ serve' = [serve EXCEPT ![f] = "launched"]
      /\ start' = IF Cardinality(Unlaunched) = 1 THEN "ready" ELSE "launch"
      /\ UNCHANGED <<socket, kind, stop, waiter, early, died>>
  BY Zenon DEF LaunchServe, stopping
<1>4. Unlaunched' = Unlaunched \ {f}
  BY <1>2, <1>3, Zenon DEF Unlaunched, ServerTypes
<1>5. start' = "ready" => Unlaunched' = {}
  BY <1>1, <1>3, <1>4, LastLaunch, Zenon
<1>6. start' = "launch" => Unlaunched' # {}
  BY <1>1, <1>3, <1>4, LastLaunch, Zenon
<1>7. start' \in {"ready", "launch"}
  BY <1>3, Zenon
<1>8. ServerTypes'
  BY <1>2, <1>3, Zenon DEF ServerTypes, Running
<1>9. LaunchInv'
  BY <1>1, <1>2, <1>3, <1>5, <1>6, <1>7, Zenon DEF LaunchInv, ServerTypes
<1>10. WaitInv'
  BY <1>1, <1>2, <1>3, <1>7, Zenon DEF WaitInv
<1>11. CloseInv'
  BY <1>1, <1>3, <1>7, Zenon DEF CloseInv
<1>. QED
  BY <1>8, <1>9, <1>10, <1>11, Zenon

\* readyCh is closed and the goroutine behind `wait` started, all listeners being served.
LEMMA ReadySteps == ServerIInv /\ (SignalReady \/ LaunchWaiter) => ServerIInv'
<1>. SUFFICES ASSUME ServerIInv, SignalReady \/ LaunchWaiter PROVE ServerIInv'
  BY Zenon
<1>. USE DEF ServerIInv
<1>1. start \in {"ready", "wait"} /\ start' \in {"wait", "select"}
      /\ waiter' \in {waiter, "waiting"}
      /\ UNCHANGED <<serve, socket, kind, stop, early, died>>
  BY Zenon DEF SignalReady, LaunchWaiter, serving, stopping
<1>2. ServerTypes'
  BY <1>1, Zenon DEF ServerTypes
<1>3. LaunchInv'
  BY <1>1, Zenon DEF LaunchInv, Unlaunched
<1>4. WaitInv'
  BY <1>1, Zenon DEF WaitInv
<1>5. CloseInv'
  BY <1>1, Zenon DEF CloseInv
<1>. QED
  BY <1>2, <1>3, <1>4, <1>5, Zenon

\* A case of the select: the invariant survives when Start leaves through `wait` only
\* after `wait` has been closed.
LEMMA CaseStep ==
  ASSUME ServerIInv, NEW c, Case(c), start \in {"select", "parked"},
         c = "wait" => \A l \in Configured : serve[l] = "done",
         UNCHANGED <<serve, socket, kind, early, died, waiter>>
  PROVE  ServerIInv'
<1>. USE DEF ServerIInv
<1>1. Starter \in Callers /\ Stoppers \subseteq Callers /\ Starter \notin Stoppers
  BY StarterAssumption, Zenon DEF Callers
<1>2. start' \in {"exit", "shutdown"} /\ (start' = "exit" => c = "wait")
  BY Zenon DEF Case
<1>3. stop' \in [Callers -> CallStates] /\ (\A k \in Stoppers : stop'[k] = stop[k])
      /\ (stop'[Starter] = IF c = "wait" THEN stop[Starter] ELSE "take")
  BY <1>1, Zenon DEF Case, ServerTypes, CallStates
<1>4. stop[Starter] = "idle"
  BY Zenon DEF WaitInv
<1>5. ServerTypes'
  BY <1>3, Zenon DEF ServerTypes
<1>6. LaunchInv'
  BY <1>2, Zenon DEF LaunchInv, Unlaunched, Running
<1>7. WaitInv'
  BY <1>2, <1>3, <1>4 DEF WaitInv, Case
<1>8. CloseInv'
  BY <1>1, <1>2, <1>3, Zenon DEF CloseInv
<1>. QED
  BY <1>5, <1>6, <1>7, <1>8, Zenon

\* A step that leaves all that ServerIInv is about alone.
LEMMA Unmoved ==
  ASSUME ServerIInv, UNCHANGED <<start, serve, socket, kind, stop, early, died, waiter>>
  PROVE  ServerIInv'
BY Zenon DEF ServerIInv, ServerTypes, LaunchInv, Unlaunched, WaitInv, CloseInv

\* The select.
LEMMA SelectStep == ServerIInv /\ Select => ServerIInv'
<1>. SUFFICES ASSUME ServerIInv, Select PROVE ServerIInv'
  BY Zenon
<1>1. start = "select" /\ UNCHANGED <<serve, socket, kind, early, died, waiter>>
  BY Zenon DEF Select, serving
<1>2. ASSUME NEW c \in SelectCases, Case(c) PROVE ServerIInv'
  <2>1. c = "wait" => waiter = "closed"
    BY Zenon DEF SelectCases
  <2>. QED
    BY <1>1, <1>2, <2>1, CaseStep, Zenon DEF ServerIInv, WaitInv
<1>3. CASE start' = "parked" /\ UNCHANGED stop
  BY <1>1, <1>3, Zenon DEF ServerIInv, ServerTypes, LaunchInv, Unlaunched, WaitInv, CloseInv
<1>. QED
  BY <1>2, <1>3, Zenon DEF Select

\* Start returns, from its exit or after its own Shutdown.
LEMMA ReturnStep == ServerIInv /\ ReturnFromStart => ServerIInv'
<1>. SUFFICES ASSUME ServerIInv, ReturnFromStart PROVE ServerIInv'
  BY Zenon
<1>. USE DEF ServerIInv
<1>1. start' = "returned" /\ UNCHANGED <<serve, socket, kind, stop, early, died, waiter>>
  BY Zenon DEF ReturnFromStart, serving, stopping
<1>2. \A l \in Configured : serve[l] \notin Running /\ (socket[l] = "open" => l \in died)
  BY Zenon DEF ReturnFromStart, LaunchInv, WaitInv, Running
<1>3. start \in {"exit", "shutdown"} /\ stop[Starter] \in {"idle", "returned"}
  BY Zenon DEF ReturnFromStart, WaitInv
<1>4. ServerTypes'
  BY <1>1, Zenon DEF ServerTypes
<1>5. LaunchInv'
  BY <1>1, <1>2, Zenon DEF LaunchInv, Unlaunched
<1>6. WaitInv' /\ CloseInv'
  BY <1>1, <1>3, Zenon DEF WaitInv, CloseInv
<1>. QED
  BY <1>4, <1>5, <1>6, Zenon
---------------------------------------------------------------------------
(* The serve goroutines.                                                   *)

\* One serve goroutine goes on from its launch; Start sees nothing of it.
LEMMA ServeMoves ==
  ASSUME ServerIInv, NEW l \in Configured, NEW s \in {"accepting", "ending", "done"},
         serve[l] \in Running, serve' = [serve EXCEPT ![l] = s],
         s \in {"ending", "done"} => socket[l] = "closed" \/ l \in died',
         died \subseteq died', stop' \in [Callers -> CallStates],
         \A c \in Callers : stop'[c] = stop[c] \/ {stop[c], stop'[c]} = {"waiting", "woken"},
         UNCHANGED <<start, socket, kind, early, waiter>>
  PROVE  ServerIInv'
<1>. USE DEF ServerIInv
<1>1. Starter \in Callers /\ Stoppers \subseteq Callers
  BY Zenon DEF Callers
<1>2. \A k \in Configured : serve'[k] = IF k = l THEN s ELSE serve[k]
  BY Zenon DEF ServerTypes
<1>3. Unlaunched' = Unlaunched /\ l \notin Unlaunched
  BY <1>2 DEF Unlaunched, Running
<1>4. start \notin {"idle", "bind", "store", "exit", "returned"}
  BY Zenon DEF LaunchInv, Running
<1>5. \A c \in Callers : /\ stop'[c] = "idle" <=> stop[c] = "idle"
                         /\ stop'[c] = "returned" <=> stop[c] = "returned"
  BY Zenon
<1>6. waiter # "closed" /\ stop[Starter] # "returned"
  BY Zenon DEF WaitInv, Running
<1>7. ServerTypes'
  BY Zenon DEF ServerTypes, Running
<1>8. LaunchInv'
  BY <1>2, <1>3, <1>4, Zenon DEF LaunchInv
<1>9. WaitInv'
  BY <1>1, <1>5, <1>6, Zenon DEF WaitInv
<1>10. CloseInv'
  BY <1>1, <1>5, Zenon DEF CloseInv
<1>. QED
  BY <1>7, <1>8, <1>9, <1>10, Zenon

\* Serve enters its accept loop, ends and calls Done.
LEMMA ServeSteps == ASSUME ServerIInv, NEW l \in Configured, ServeStep(l) PROVE ServerIInv'
<1>1. CASE EnterServe(l)
  BY <1>1, ServeMoves, Zenon
    DEF EnterServe, starting, stopping, Running, ServerIInv, ServerTypes
<1>2. CASE AcceptClosed(l)
  BY <1>2, ServeMoves, Zenon
    DEF AcceptClosed, starting, stopping, Running, ServerIInv, ServerTypes
<1>3. CASE ServeDone(l)
  <2>1. socket[l] = "closed" \/ l \in died
    BY <1>3, Zenon DEF ServeDone, ServerIInv, LaunchInv
  <2>2. stop' \in [Callers -> CallStates]
        /\ \A c \in Callers : stop'[c] = stop[c] \/ {stop[c], stop'[c]} = {"waiting", "woken"}
    BY <1>3, Zenon DEF ServeDone, ServerIInv, ServerTypes, CallStates
  <2>. QED
    BY <1>3, <2>1, <2>2, ServeMoves, Zenon DEF ServeDone, starting, Running
<1>. QED
  BY <1>1, <1>2, <1>3, Zenon DEF ServeStep

\* Accept fails for good: the error wakes Start, or waits in errCh.
LEMMA AcceptFailsStep == ASSUME ServerIInv, NEW l \in Configured, AcceptFails(l) PROVE ServerIInv'
<1>1. /\ serve[l] = "accepting" /\ serve' = [serve EXCEPT ![l] = "ending"] /\ died' = died \cup {l}
      /\ UNCHANGED <<socket, kind, early, waiter>>
  BY Zenon DEF AcceptFails
<1>2. CASE UNCHANGED <<start, stop>>
  BY <1>1, <1>2, ServeMoves, Zenon DEF Running, ServerIInv, ServerTypes
<1>3. CASE start = "parked" /\ Case("errCh")
  <2>. USE DEF ServerIInv
  <2>1. Starter \in Callers /\ Stoppers \subseteq Callers /\ Starter \notin Stoppers
    BY StarterAssumption, Zenon DEF Callers
  <2>2. start' = "shutdown" /\ stop' = [stop EXCEPT ![Starter] = "take"]
    BY <1>3, Zenon DEF Case
  <2>3. Unlaunched' = {}
    BY <1>1, <1>3, Zenon DEF LaunchInv, Unlaunched, ServerTypes
  <2>4. waiter # "closed" /\ stop[Starter] # "returned"
    BY <1>1, Zenon DEF WaitInv
  <2>5. ServerTypes'
    BY <1>1, <2>2, Zenon DEF ServerTypes, Running, CallStates
  <2>6. LaunchInv'
    BY <1>1, <2>2, <2>3, Zenon DEF LaunchInv, ServerTypes
  <2>7. WaitInv'
    BY <1>1, <2>1, <2>2, <2>4, Zenon DEF WaitInv, ServerTypes
  <2>8. CloseInv'
    BY <1>1, <1>3, <2>1, <2>2, Zenon DEF CloseInv, ServerTypes
  <2>. QED
    BY <2>5, <2>6, <2>7, <2>8, Zenon
<1>. QED
  BY <1>2, <1>3, Zenon DEF AcceptFails, Wake

\* `wait` is closed after the last Done, which may wake Start.
LEMMA CloseWaitStep == ServerIInv /\ CloseWait => ServerIInv'
<1>. SUFFICES ASSUME ServerIInv, CloseWait PROVE ServerIInv'
  BY Zenon
<1>. USE DEF ServerIInv
<1>1. waiter = "waiting" /\ waiter' = "closed" /\ UNCHANGED <<serve, socket, kind, early, died>>
  BY Zenon DEF CloseWait, serving
<1>2. \A l \in Configured : serve[l] = "done"
  <2>1. \A l \in Configured : serve[l] \notin Running
    BY NoneRunning, Zenon DEF CloseWait
  <2>. QED
    BY <1>1, <2>1, Zenon DEF LaunchInv, Unlaunched, ServerTypes
<1>3. CASE UNCHANGED <<start, stop>>
  BY <1>1, <1>2, <1>3, Zenon DEF ServerTypes, LaunchInv, Unlaunched, WaitInv, CloseInv
<1>4. CASE start = "parked" /\ Case("wait")
  <2>1. start' = "exit" /\ stop' = stop
    BY <1>4, Zenon DEF Case
  <2>. QED
    BY <1>1, <1>2, <1>4, <2>1, Zenon
      DEF ServerTypes, LaunchInv, Unlaunched, Running, WaitInv, CloseInv
<1>. QED
  BY <1>3, <1>4, Zenon DEF CloseWait, Wake

\* The context is cancelled, which may wake Start.
LEMMA CancelStep == ServerIInv /\ Cancel => ServerIInv'
<1>. SUFFICES ASSUME ServerIInv, Cancel PROVE ServerIInv'
  BY Zenon
<1>1. UNCHANGED <<serve, socket, kind, early, died, waiter>>
  BY Zenon DEF Cancel, serving
<1>2. CASE UNCHANGED <<start, stop>>
  BY <1>1, <1>2, Unmoved, Zenon
<1>3. CASE start = "parked" /\ Case("ctx")
  BY <1>1, <1>3, CaseStep, Zenon
<1>. QED
  BY <1>2, <1>3, Zenon DEF Cancel, Wake
---------------------------------------------------------------------------
(* The calls of Shutdown and Close.                                        *)

\* One call goes on, and may close sockets; Start's own call returns only when nothing
\* runs, and one of Close only when Start has returned or not begun.
LEMMA CallMoves ==
  ASSUME ServerIInv, NEW c \in Callers, NEW s \in CallStates \ {"idle"}, stop[c] # "returned",
         stop[c] # "idle" \/ (c \in Stoppers /\ (start # "idle" \/ c \in early')),
         stop' = [stop EXCEPT ![c] = s],
         s = "returned" /\ c = Starter => \A l \in Configured : serve[l] \notin Running,
         s = "returned" /\ kind[c] = "Close" => start \in {"idle", "returned"},
         \A l \in Configured : socket'[l] \in {socket[l], "closed"},
         socket' \in [Configured -> {"none", "open", "closed"}],
         early \subseteq early',
         UNCHANGED <<start, serve, kind, died, waiter>>
  PROVE  ServerIInv'
<1>. USE DEF ServerIInv
<1>1. Starter \in Callers /\ Stoppers \subseteq Callers /\ Starter \notin Stoppers
  BY StarterAssumption, Zenon DEF Callers
<1>2. \A k \in Callers : stop'[k] = IF k = c THEN s ELSE stop[k]
  BY Zenon DEF ServerTypes
<1>3. ServerTypes'
  BY Zenon DEF ServerTypes
<1>4. LaunchInv'
  BY Zenon DEF LaunchInv, Unlaunched
<1>5. WaitInv'
  <2>1. CASE c = Starter
    <3>1. start = "shutdown"
      BY <1>1, <2>1, Zenon DEF WaitInv
    <3>2. s = "returned" => \A l \in Configured : serve[l] = "done"
      BY <2>1, <3>1, Zenon DEF LaunchInv, Unlaunched, ServerTypes
    <3>. QED
      BY <1>1, <1>2, <2>1, <3>1, <3>2, Zenon DEF WaitInv
  <2>2. CASE c # Starter
    BY <1>1, <1>2, <2>2, Zenon DEF WaitInv
  <2>. QED
    BY <2>1, <2>2, Zenon
<1>6. CloseInv'
  BY <1>1, <1>2 DEF CloseInv
<1>. QED
  BY <1>3, <1>4, <1>5, <1>6, Zenon

\* Shutdown and Close close listeners and servers, wait for serveWG, and Close waits for
\* Start.
LEMMA CallSteps ==
  ASSUME ServerIInv, NEW c \in Callers, Call(c) \/ StopStep(c) \/ ContextExpires(c)
  PROVE  ServerIInv'
<1>. USE DEF At, CallStates
<1>1. socket \in [Configured -> {"none", "open", "closed"}] /\ kind[Starter] = "Shutdown"
      /\ (c \in Stoppers => c # Starter)
  BY StarterAssumption, Zenon DEF ServerIInv, ServerTypes
<1>2. CASE Call(c)
  BY <1>1, <1>2, CallMoves, Zenon DEF Call, starting, serving
<1>3. CASE TakeListeners(c)
  BY <1>1, <1>3, CallMoves, Zenon DEF TakeListeners, starting, serving
<1>4. CASE CloseListener(c)
  <2>1. /\ socket' \in [Configured -> {"none", "open", "closed"}]
        /\ \A l \in Configured : socket'[l] \in {socket[l], "closed"}
    BY <1>1, <1>4, Zenon DEF CloseListener
  <2>. QED
    BY <1>4, <2>1, CallMoves, Zenon DEF CloseListener, starting
<1>5. CASE CloseServer(c)
  <2>1. /\ socket' \in [Configured -> {"none", "open", "closed"}]
        /\ \A l \in Configured : socket'[l] \in {socket[l], "closed"}
    BY <1>1, <1>5, Zenon DEF CloseServer
  <2>. QED
    BY <1>5, <2>1, CallMoves, Zenon DEF CloseServer, starting
<1>6. CASE WaitServe(c)
  BY <1>1, <1>6, NoneRunning, CallMoves, Zenon DEF WaitServe, AfterShutdown, starting, serving
<1>7. CASE Woken(c)
  BY <1>1, <1>7, NoneRunning, CallMoves, Zenon DEF Woken, AfterShutdown, starting, serving
<1>8. CASE WaitForStartDone(c)
  <2>1. c # Starter
    BY <1>1, <1>8, Zenon DEF WaitForStartDone, ServerIInv, WaitInv
  <2>. QED
    BY <1>1, <1>8, <2>1, CallMoves, Zenon DEF WaitForStartDone, starting, serving
<1>9. CASE ContextExpires(c)
  BY <1>1, <1>9, CallMoves, Zenon DEF ContextExpires, starting, serving
<1>. QED
  BY <1>2, <1>3, <1>4, <1>5, <1>6, <1>7, <1>8, <1>9, Zenon DEF StopStep
---------------------------------------------------------------------------
(* The theorems.                                                           *)

\* Every action preserves the invariant.
LEMMA NextIInv == ServerIInv /\ [ServerNext]_serverVars => ServerIInv'
<1>. SUFFICES ASSUME ServerIInv, [ServerNext]_serverVars PROVE ServerIInv'
  BY Zenon
<1>1. CASE BeginStart \/ StartStep
  BY <1>1, BindSteps, LaunchStep, ReadySteps, SelectStep, ReturnStep, Zenon DEF StartStep
<1>2. CASE Cancel \/ CloseWait
  BY <1>2, CancelStep, CloseWaitStep, Zenon
<1>3. ASSUME NEW l \in Configured, ServeStep(l) \/ AcceptFails(l) PROVE ServerIInv'
  BY <1>3, ServeSteps, AcceptFailsStep, Zenon
<1>4. ASSUME NEW c \in Callers, Call(c) \/ StopStep(c) \/ ContextExpires(c) PROVE ServerIInv'
  BY <1>4, CallSteps, Zenon
<1>5. CASE UNCHANGED serverVars
  BY <1>5, Unmoved, Zenon DEF serverVars, starting, serving, stopping
<1>. QED
  BY <1>1, <1>2, <1>3, <1>4, <1>5, Zenon DEF ServerNext

\* The inductive invariant holds in every state of the server.
THEOREM ServerInvariance == ServerSpec => []ServerIInv
BY ServerInitIInv, NextIInv, PTL DEF ServerSpec

\* For any number of concurrent calls of Shutdown and Close: when Start has returned no
\* serve goroutine runs and no socket is left open but one whose accept loop failed, and
\* Close does not return before a Start that had begun.
THEOREM StartEndsService == ServerSpec => []NothingServedAfterStart
<1>1. ServerIInv => NothingServedAfterStart
  BY Zenon DEF ServerIInv, LaunchInv, CloseInv, NothingServedAfterStart
<1>. QED
  BY <1>1, ServerInvariance, PTL
=============================================================================
