------------------------------ MODULE Ingress ------------------------------
(***************************************************************************)
(* The SMTP path: connections with their sessions, the message handler     *)
(* with its in-flight limit, and the reply to each DATA.                   *)
(*                                                                         *)
(* go-smtp, external, decides which command reaches the session: EHLO      *)
(* makes one or resets it, STARTTLS throws it away, RCPT needs a MAIL and  *)
(* DATA a RCPT, and Reset follows every DATA.  A command that is refused   *)
(* changes nothing and is left out.  What Enqueue does is Spool's subject. *)
(***************************************************************************)
EXTENDS Integers, FiniteSets

CONSTANTS
  Conns,        \* the connections
  MaxInflight   \* SMTP_MAX_INFLIGHT_SENDS

\* NewHandler refuses a limit that is not positive.
ASSUME InflightAssumption == MaxInflight \in Nat \ {0}
ASSUME ConnsAssumption == IsFiniteSet(Conns)

VARIABLES
  cfg,        \* RequireTLS, RequireAuth, StartTLSEnabled
  conn,       \* where each connection is
  allowed,    \* its remote address is in AllowedCIDRs
  tls,        \* TLSConnectionState reports TLS
  authed,     \* session.authed
  from,       \* session.from has been set
  to,         \* session.to: whose recipients are in it (Label)
  reply,      \* the reply to DATA
  stored,     \* history: this transaction's mail is in the spool
  authTLS,    \* history: the credentials of this session came over TLS
  inflight    \* len(h.inflight)

session == <<authed, from, to, authTLS>>
vars == <<cfg, conn, allowed, tls, session, reply, stored, inflight>>

Busy == {"enqueue", "answer"}

\* A recipient was given after the last MAIL, "new", after a MAIL that another MAIL has
\* replaced since, "replaced", or before a Reset, "old".
Label == {"new", "replaced", "old"}

Replies == {"none", "250", "451 busy", "451", "554"}

TypeOK ==
  /\ cfg \in [requireTLS : BOOLEAN, requireAuth : BOOLEAN, startTLS : BOOLEAN]
  /\ conn \in [Conns -> {"down", "up", "session", "lost enqueue", "lost answer"} \cup Busy]
  /\ allowed \in [Conns -> BOOLEAN] /\ tls \in [Conns -> BOOLEAN]
  /\ authed \in [Conns -> BOOLEAN] /\ from \in [Conns -> BOOLEAN]
  /\ to \in [Conns -> SUBSET Label]
  /\ reply \in [Conns -> Replies] /\ stored \in [Conns -> BOOLEAN]
  /\ authTLS \in [Conns -> BOOLEAN]
  /\ inflight \in Int

Init ==
  /\ cfg \in [requireTLS : BOOLEAN, requireAuth : BOOLEAN, startTLS : BOOLEAN]
  /\ conn = [c \in Conns |-> "down"] /\ allowed = [c \in Conns |-> FALSE]
  /\ tls = [c \in Conns |-> FALSE] /\ authed = [c \in Conns |-> FALSE]
  /\ from = [c \in Conns |-> FALSE] /\ to = [c \in Conns |-> {}]
  /\ reply = [c \in Conns |-> "none"] /\ stored = [c \in Conns |-> FALSE]
  /\ authTLS = [c \in Conns |-> FALSE] /\ inflight = 0
----------------------------------------------------------------------------
(* The session.                                                            *)

\* The ways a client's address is reported: an IPv4 address as such or mapped into IPv6,
\* an IPv6 address, or something that is no IP address; of hosts inside and outside.
Remotes == [form : {"ipv4", "ipv4 in ipv6", "ipv6", "other"}, inside : BOOLEAN]

\* remoteAddrIP: the address, unmapped, or an error.
remoteAddrIP(remote) ==
  IF remote.form = "other" THEN {}
  ELSE {[ipv4 |-> remote.form # "ipv6", inside |-> remote.inside]}

\* Prefix.Contains, for an IPv4 prefix: never true of an IPv6 address.
isAddrAllowed(addr) == addr.ipv4 /\ addr.inside

\* Accept on the smtp or the smtps listener.
Connect(c) ==
  /\ conn[c] = "down"
  /\ \E remote \in Remotes, secure \in BOOLEAN :
       /\ allowed' = [allowed EXCEPT ![c] = \E a \in remoteAddrIP(remote) : isAddrAllowed(a)]
       /\ tls' = [tls EXCEPT ![c] = secure]
  /\ conn' = [conn EXCEPT ![c] = "up"]
  /\ UNCHANGED <<cfg, session, reply, stored, inflight>>

\* NewSession, at the first EHLO; other addresses get 554.
NewSession(c) ==
  /\ conn[c] = "up" /\ allowed[c]
  /\ conn' = [conn EXCEPT ![c] = "session"]
  /\ authed' = [authed EXCEPT ![c] = FALSE] /\ authTLS' = [authTLS EXCEPT ![c] = FALSE]
  /\ from' = [from EXCEPT ![c] = FALSE] /\ to' = [to EXCEPT ![c] = {}]
  /\ UNCHANGED <<cfg, allowed, tls, reply, stored, inflight>>

\* Auth, PLAIN, with credentials AuthPlain accepts: offered when auth is required, and in
\* the clear (AllowInsecureAuth) unless TLS is.
Auth(c) ==
  /\ conn[c] = "session" /\ cfg.requireAuth /\ ~authed[c]
  /\ tls[c] \/ ~cfg.requireTLS
  /\ authed' = [authed EXCEPT ![c] = TRUE] /\ authTLS' = [authTLS EXCEPT ![c] = tls[c]]
  /\ UNCHANGED <<cfg, conn, allowed, tls, from, to, reply, stored, inflight>>

\* STARTTLS: go-smtp logs the session out and waits for another EHLO.
StartTLS(c) ==
  /\ conn[c] = "session" /\ cfg.startTLS /\ ~tls[c]
  /\ tls' = [tls EXCEPT ![c] = TRUE]
  /\ conn' = [conn EXCEPT ![c] = "up"]
  /\ UNCHANGED <<cfg, allowed, session, reply, stored, inflight>>

\* (forgets the check of authentication)
enforceSessionPolicyTLSOnly(c) == cfg.requireTLS => tls[c]

enforceSessionPolicy(c) == (cfg.requireTLS => tls[c]) /\ (cfg.requireAuth => authed[c])

\* The recipients that are left when another MAIL comes.
Replaced(recipients) == {IF r = "new" THEN "replaced" ELSE r : r \in recipients}

\* Mail sets session.from, also when it is set already, and leaves session.to alone.
Mail(c) ==
  /\ conn[c] = "session" /\ enforceSessionPolicy(c)
  /\ from' = [from EXCEPT ![c] = TRUE] /\ to' = [to EXCEPT ![c] = Replaced(@)]
  /\ UNCHANGED <<cfg, conn, allowed, tls, authed, authTLS, reply, stored, inflight>>

Rcpt(c) ==
  /\ conn[c] = "session" /\ from[c] /\ enforceSessionPolicy(c)
  /\ to' = [to EXCEPT ![c] = @ \cup {"new"}]
  /\ UNCHANGED <<cfg, conn, allowed, tls, authed, from, authTLS, reply, stored, inflight>>

\* From now on the recipients that are left belong to an earlier transaction.
Aged(recipients) == {"old" : r \in recipients}

\* (keeps the recipients)
ResetFromOnly(c) == from' = [from EXCEPT ![c] = FALSE] /\ to' = [to EXCEPT ![c] = Aged(@)]

Reset(c) == from' = [from EXCEPT ![c] = FALSE] /\ to' = [to EXCEPT ![c] = Aged({})]

\* RSET, or another EHLO.
Rset(c) ==
  /\ conn[c] = "session" /\ Reset(c)
  /\ UNCHANGED <<cfg, conn, allowed, tls, authed, authTLS, reply, stored, inflight>>
----------------------------------------------------------------------------
(* DATA.                                                                   *)

\* (every error of HandleMessage taken for a rejection)
replyToPermanent(err) == CASE err = "nil" -> "250" [] err = "busy" -> "451 busy" [] OTHER -> "554"

\* newEnqueueMessageHandler: what each result of HandleMessage becomes.
replyTo(err) ==
  CASE err = "nil"    -> "250"
    [] err = "policy" -> "554"
    [] err = "busy"   -> "451 busy"
    [] OTHER          -> "451"

Answer(c, r) == conn' = [conn EXCEPT ![c] = "answer"] /\ reply' = [reply EXCEPT ![c] = r]

\* h.inflight <- struct{}{}, or the default case.
Acquire(c) ==
  \/ /\ inflight < MaxInflight
     /\ conn' = [conn EXCEPT ![c] = "enqueue"] /\ inflight' = inflight + 1 /\ UNCHANGED reply
  \/ /\ inflight >= MaxInflight
     /\ Answer(c, replyTo("busy")) /\ UNCHANGED inflight

\* Data and HandleMessage up to Enqueue: a content that does not parse, one that the
\* sender policy rejects, and one that is handed on.
Data(c, content) ==
  /\ conn[c] = "session" /\ from[c] /\ to[c] # {} /\ enforceSessionPolicy(c)
  /\ \/ content = "invalid" /\ Answer(c, "554") /\ UNCHANGED inflight
     \/ content = "refused" /\ Answer(c, replyTo("policy")) /\ UNCHANGED inflight
     \/ content = "fine" /\ Acquire(c)
  /\ UNCHANGED <<cfg, allowed, tls, session, stored>>

\* Where a call of Enqueue goes on; without its connection it ends all the same.
AfterEnqueue(c) == IF conn[c] = "enqueue" THEN "answer" ELSE "lost answer"

Enqueuing(c) == conn[c] \in {"enqueue", "lost enqueue"}

\* (the slot is released only on success)
EnqueueReturnsLeaking(c, err, kept) ==
  /\ Enqueuing(c) /\ (err = "nil" => kept)
  /\ stored' = [stored EXCEPT ![c] = kept]
  /\ conn' = [conn EXCEPT ![c] = AfterEnqueue(c)]
  /\ reply' = [reply EXCEPT ![c] = replyTo(err)]
  /\ inflight' = IF err = "nil" THEN inflight - 1 ELSE inflight
  /\ UNCHANGED <<cfg, allowed, tls, session>>

\* Enqueue returns nil with the mail stored, or an error, which a failed COMMIT may have
\* stored too; the deferred receive releases the slot.
EnqueueReturns(c, err, kept) ==
  /\ Enqueuing(c) /\ (err = "nil" => kept)
  /\ stored' = [stored EXCEPT ![c] = kept]
  /\ conn' = [conn EXCEPT ![c] = AfterEnqueue(c)]
  /\ reply' = [reply EXCEPT ![c] = replyTo(err)]
  /\ inflight' = inflight - 1
  /\ UNCHANGED <<cfg, allowed, tls, session>>

\* go-smtp writes the reply, if it can, and resets the session.
Reply(c) ==
  /\ conn[c] \in {"answer", "lost answer"}
  /\ conn' = [conn EXCEPT ![c] = IF @ = "answer" THEN "session" ELSE "down"]
  /\ reply' = [reply EXCEPT ![c] = "none"] /\ stored' = [stored EXCEPT ![c] = FALSE]
  /\ Reset(c)
  /\ UNCHANGED <<cfg, allowed, tls, authed, authTLS, inflight>>

\* QUIT, a lost connection, or the server's Close; a handler at work is not stopped.
Disconnect(c) ==
  /\ conn[c] \in {"up", "session"} \cup Busy
  /\ conn' = [conn EXCEPT ![c] = CASE @ = "enqueue" -> "lost enqueue"
                                   [] @ = "answer" -> "lost answer"
                                   [] OTHER -> "down"]
  /\ UNCHANGED <<cfg, allowed, tls, session, reply, stored, inflight>>

EnqueueEnds(c) == \E err \in {"nil", "error"}, kept \in BOOLEAN : EnqueueReturns(c, err, kept)

Next ==
  \E c \in Conns :
    \/ Connect(c) \/ NewSession(c) \/ Auth(c) \/ StartTLS(c) \/ Mail(c) \/ Rcpt(c) \/ Rset(c)
    \/ \E content \in {"invalid", "refused", "fine"} : Data(c, content)
    \/ EnqueueEnds(c) \/ Reply(c) \/ Disconnect(c)

\* Enqueue ends: it works on a local disk and SQLite waits at most busy_timeout for a lock.
\* A reply is written or its deadline, WriteTimeout, passes.  Clients owe nothing.
Fairness == \A c \in Conns : WF_vars(EnqueueEnds(c)) /\ WF_vars(Reply(c))

Spec == Init /\ [][Next]_vars /\ Fairness
----------------------------------------------------------------------------
\* What the next step of a connection relies on: a session past EHLO is of an allowed
\* address and has authenticated, if at all, in its present TLS state; its recipients were
\* given since the last Reset; no reply and no mail is left from an earlier one; and what
\* DATA has checked stays so while Enqueue runs.
ConnInv(c) ==
  /\ conn[c] \notin {"down", "up"} => allowed[c] /\ (authed[c] => authTLS[c] = tls[c])
  /\ to[c] \subseteq {"new", "replaced"}
  /\ conn[c] \notin {"answer", "lost answer"} => reply[c] = "none" /\ ~stored[c]
  /\ Enqueuing(c) => to[c] # {} /\ enforceSessionPolicy(c)
  /\ (reply[c] = "250" => stored[c]) /\ (reply[c] \in {"554", "451 busy"} => ~stored[c])

\* The types, every connection's ConnInv and the exact count of slots: the inductive
\* invariant of SmtpProofs.
IInv ==
  /\ TypeOK /\ \A c \in Conns : ConnInv(c)
  /\ inflight = Cardinality({c \in Conns : Enqueuing(c)}) /\ inflight <= MaxInflight

\* A slot is held by exactly the sessions that are inside Enqueue, and by no more of them
\* than the limit: lost connections, failed writes and refusals give every slot back
\* (handler.go 112-118).
InflightExact ==
  inflight = Cardinality({c \in Conns : Enqueuing(c)}) /\ inflight <= MaxInflight

\* Nothing is handed to the spool that the session policy forbids: its connection comes
\* from an allowed address, has TLS if that is required, and has authenticated, in the
\* same TLS state it now has, if that is; a session before STARTTLS vouches for nothing.
PolicyHolds ==
  \A c \in Conns : Enqueuing(c) =>
    /\ allowed[c] /\ (cfg.requireTLS => tls[c])
    /\ cfg.requireAuth => authed[c] /\ authTLS[c] = tls[c]

\* A mail goes to no recipient that was given before a Reset, or in an earlier session:
\* whatever RSET, EHLO, STARTTLS, answered or abandoned DATA came before it on the
\* connection, its recipients are those since then.  (Not those since its MAIL: see
\* RecipientsOfOneMail.)
EnvelopeIsolated ==
  \A c \in Conns : Enqueuing(c) => to[c] # {} /\ to[c] \subseteq {"new", "replaced"}

\* 250 means that the mail is in the spool ("SMTP `250` means the message was durably
\* enqueued", README.md 31), and a permanent refusal that it is not: a client that gives
\* up on 554 has not had its mail delivered.
ReplyIsTrue ==
  \A c \in Conns :
    (reply[c] = "250" => stored[c]) /\ (reply[c] \in {"554", "451 busy"} => ~stored[c])

\* Every DATA ends: its session can take another command, or its connection is closed.
\* And so a relay at its limit does not stay there: the slots come back without the
\* clients' help, also when all of them have gone.
DataEnds ==
  /\ \A c \in Conns : conn[c] \in Busy ~> conn[c] \in {"session", "down"}
  /\ inflight = MaxInflight ~> inflight < MaxInflight
----------------------------------------------------------------------------
(* A stronger isolation that the code does not give.                       *)

\* A mail goes to the recipients of its own MAIL only.  (Not so for a client that sends
\* MAIL again without RSET: Mail replaces session.from and keeps session.to.)
RecipientsOfOneMail == \A c \in Conns : Enqueuing(c) => to[c] \subseteq {"new"}
============================================================================
