----------------------------- MODULE SmtpServer -----------------------------
(***************************************************************************)
(* The life of one smtp.Server: Start with its listeners and serve         *)
(* goroutines, and the calls of Shutdown and Close that run beside it.     *)
(*                                                                         *)
(* A listener is named as in Start, "smtp" or "smtps"; the go-smtp server   *)
(* of the same name is external and modelled by what Serve and Close do    *)
(* with a listener.  Every step is what happens between two points where   *)
(* another goroutine may run.  Sessions are Ingress's subject.             *)
(***************************************************************************)
EXTENDS Naturals, FiniteSets

CONSTANTS
  Configured,   \* the listeners with an address
  Stoppers,     \* the goroutines that call Shutdown or Close
  Starter       \* the goroutine that calls Start

ASSUME ConfiguredAssumption == Configured \subseteq {"smtp", "smtps"} /\ Configured # {}
ASSUME StarterAssumption == Starter \notin Stoppers

Callers == Stoppers \cup {Starter}

VARIABLES
  ctx,        \* the context of Start
  start,      \* where Start is
  result,     \* what Start returns
  readyCh,    \* readyCh is closed
  errCh,      \* the number of errors in Start's errCh
  waiter,     \* the goroutine that closes Start's `wait`
  listeners,  \* s.listeners
  socket,     \* the listening sockets
  serve,      \* the serve goroutines
  attached,   \* the go-smtp servers that know their listener
  closed,     \* the go-smtp servers that have been closed
  kind,       \* what each stopper calls
  stop,       \* where each call of Shutdown or Close is
  taken,      \* its local `listeners`: those still to be closed
  servers,    \* the go-smtp servers it has still to close
  panicked,   \* a WaitGroup has panicked: the process is gone
  died,       \* history: the listeners whose Accept failed for good
  early       \* history: the calls made before Start had begun

starting == <<ctx, start, result, readyCh, errCh, waiter>>
serving == <<socket, serve, attached, died>>
stopping == <<kind, stop, taken, servers, early>>
serverVars == <<starting, listeners, serving, closed, stopping, panicked>>

Running == {"launched", "accepting", "ending"}

CallStates == {"idle", "take", "listeners", "servers", "wait", "waiting", "woken", "startDone", "returned"}

ServerTypeOK ==
  /\ ctx \in {"live", "canceled"}
  /\ start \in {"idle", "bind", "store", "launch", "ready", "wait", "select", "parked", "shutdown",
                "exit", "returned"}
  /\ result \in {"none", "nil", "error"}
  /\ readyCh \in BOOLEAN /\ panicked \in BOOLEAN /\ errCh \in 0..2
  /\ waiter \in {"none", "waiting", "closed"}
  /\ serve \in [Configured -> {"none", "done"} \cup Running]
  /\ socket \in [Configured -> {"none", "open", "closed"}]
  /\ {listeners, attached, closed, died} \subseteq SUBSET Configured
  /\ kind \in [Callers -> {"Shutdown", "Close"}]
  /\ stop \in [Callers -> CallStates]
  /\ {taken[c] : c \in Callers} \cup {servers[c] : c \in Callers} \subseteq SUBSET Configured
  /\ early \subseteq Stoppers

ServerInit ==
  /\ ctx = "live" /\ start = "idle" /\ result = "none" /\ readyCh = FALSE /\ errCh = 0
  /\ waiter = "none" /\ listeners = {} /\ attached = {} /\ closed = {}
  /\ socket = [l \in Configured |-> "none"] /\ serve = [l \in Configured |-> "none"]
  /\ kind \in {k \in [Callers -> {"Shutdown", "Close"}] : k[Starter] = "Shutdown"}
  /\ stop = [c \in Callers |-> "idle"]
  /\ taken = [c \in Callers |-> {}] /\ servers = [c \in Callers |-> {}]
  /\ panicked = FALSE /\ died = {} /\ early = {}
----------------------------------------------------------------------------
(* Start up to its select.                                                 *)

\* Start deals with "smtp" before "smtps".
First(S) == IF "smtp" \in S THEN "smtp" ELSE "smtps"

\* beginStart; a second Start finds `started` set and changes nothing.
BeginStart ==
  /\ ~panicked /\ start = "idle"
  /\ start' = "bind"
  /\ UNCHANGED <<ctx, result, readyCh, errCh, waiter, listeners, serving, closed, stopping, panicked>>

Unbound == {l \in Configured : socket[l] = "none"}

\* net.Listen; when it fails, what is bound already is closed.
BindListener ==
  /\ ~panicked /\ start = "bind"
  /\ \/ /\ socket' = [socket EXCEPT ![First(Unbound)] = "open"]
        /\ start' = IF Cardinality(Unbound) = 1 THEN "store" ELSE "bind"
        /\ UNCHANGED result
     \/ /\ socket' = [l \in Configured |-> IF socket[l] = "open" THEN "closed" ELSE socket[l]]
        /\ start' = "exit" /\ result' = "error"
  /\ UNCHANGED <<ctx, readyCh, errCh, waiter, listeners, serve, attached, died, closed, stopping, panicked>>

\* (the listeners are not kept: Shutdown closes what go-smtp knows of, and no more)
StoreManagedListenersSkipped ==
  /\ ~panicked /\ start = "store"
  /\ start' = "launch"
  /\ UNCHANGED <<ctx, result, readyCh, errCh, waiter, listeners, serving, closed, stopping, panicked>>

\* storeManagedListeners.
StoreManagedListeners ==
  /\ ~panicked /\ start = "store"
  /\ listeners' = Configured
  /\ start' = "launch"
  /\ UNCHANGED <<ctx, result, readyCh, errCh, waiter, serving, closed, stopping, panicked>>

Unlaunched == {l \in Configured : serve[l] = "none"}

\* serveWG.Add(1) and the go statement.
LaunchServe ==
  /\ ~panicked /\ start = "launch"
  /\ serve' = [serve EXCEPT ![First(Unlaunched)] = "launched"]
  /\ start' = IF Cardinality(Unlaunched) = 1 THEN "ready" ELSE "launch"
  /\ UNCHANGED <<ctx, result, readyCh, errCh, waiter, listeners, socket, attached, died, closed,
                 stopping, panicked>>

\* close(s.readyCh).
SignalReady ==
  /\ ~panicked /\ start = "ready"
  /\ readyCh' = TRUE
  /\ start' = "wait"
  /\ UNCHANGED <<ctx, result, errCh, waiter, listeners, serving, closed, stopping, panicked>>

\* The goroutine that waits for serveWG and closes `wait`.
LaunchWaiter ==
  /\ ~panicked /\ start = "wait"
  /\ waiter' = "waiting"
  /\ start' = "select"
  /\ UNCHANGED <<ctx, result, readyCh, errCh, listeners, serving, closed, stopping, panicked>>
----------------------------------------------------------------------------
(* The select of Start.                                                    *)

\* What Start does in each case of its select: an error and a cancelled context go
\* through Shutdown(context.Background()), the end of all serve goroutines does not.
Case(c) ==
  /\ start' = IF c = "wait" THEN "exit" ELSE "shutdown"
  /\ result' = IF c = "errCh" THEN "error" ELSE "nil"
  /\ stop' = IF c = "wait" THEN stop ELSE [stop EXCEPT ![Starter] = "take"]

\* Start, asleep in the select, is woken by the first case that becomes ready.
Wake(c) ==
  \/ start = "parked" /\ Case(c)
  \/ start # "parked" /\ UNCHANGED <<start, result, stop>>

\* The cases of the select that are ready.
SelectCases ==
  {c \in {"errCh", "wait", "ctx"} :
     CASE c = "errCh" -> errCh > 0
       [] c = "wait" -> waiter = "closed"
       [] c = "ctx" -> ctx = "canceled"}

\* A select with several ready cases takes any of them; with none, it sleeps.
Select ==
  /\ ~panicked /\ start = "select"
  /\ \/ \E c \in SelectCases : Case(c) /\ errCh' = IF c = "errCh" THEN errCh - 1 ELSE errCh
     \/ SelectCases = {} /\ start' = "parked" /\ UNCHANGED <<result, stop, errCh>>
  /\ UNCHANGED <<ctx, readyCh, waiter, listeners, serving, closed, kind, taken, servers, early, panicked>>

\* Start returns, markStartDone being deferred.
ReturnFromStart ==
  /\ ~panicked
  /\ start = "exit" \/ (start = "shutdown" /\ stop[Starter] = "returned")
  /\ start' = "returned"
  /\ UNCHANGED <<ctx, result, readyCh, errCh, waiter, listeners, serving, closed, stopping, panicked>>

\* The context of Start is cancelled.
Cancel ==
  /\ ~panicked /\ ctx = "live"
  /\ ctx' = "canceled"
  /\ Wake("ctx")
  /\ UNCHANGED <<readyCh, errCh, waiter, listeners, serving, closed, kind, taken, servers, early, panicked>>
----------------------------------------------------------------------------
(* The serve goroutines and serveWG.                                       *)

serveWG == Cardinality({l \in Configured : serve[l] \in Running})

\* go-smtp's Serve notes its listener and enters the accept loop, also when the
\* server has been closed.
EnterServe(l) ==
  /\ ~panicked /\ serve[l] = "launched"
  /\ serve' = [serve EXCEPT ![l] = "accepting"]
  /\ attached' = attached \cup {l}
  /\ UNCHANGED <<starting, listeners, socket, died, closed, stopping, panicked>>

\* Accept on a closed socket: whether Serve returns nil or a closed error, nothing is sent.
AcceptClosed(l) ==
  /\ ~panicked /\ serve[l] = "accepting" /\ socket[l] = "closed"
  /\ serve' = [serve EXCEPT ![l] = "ending"]
  /\ UNCHANGED <<starting, listeners, socket, attached, died, closed, stopping, panicked>>

\* Accept fails for good on an open socket: Serve returns nil when the server has been
\* closed, and otherwise the error, which goes to errCh or to the sleeping Start.
AcceptFails(l) ==
  /\ ~panicked /\ serve[l] = "accepting" /\ socket[l] = "open"
  /\ serve' = [serve EXCEPT ![l] = "ending"]
  /\ died' = died \cup {l}
  /\ \/ l \in closed /\ UNCHANGED <<start, result, stop, errCh>>
     \/ /\ l \notin closed
        /\ Wake("errCh")
        /\ errCh' = IF start = "parked" THEN errCh ELSE errCh + 1
  /\ UNCHANGED <<ctx, readyCh, waiter, listeners, socket, attached, closed, kind, taken, servers,
                 early, panicked>>

\* serveWG.Done(), which wakes those asleep in serveWG.Wait when it was the last.
ServeDone(l) ==
  /\ ~panicked /\ serve[l] = "ending"
  /\ serve' = [serve EXCEPT ![l] = "done"]
  /\ stop' = [c \in Callers |-> IF serveWG = 1 /\ stop[c] = "waiting" THEN "woken" ELSE stop[c]]
  /\ UNCHANGED <<starting, listeners, socket, attached, died, closed, kind, taken, servers, early, panicked>>

\* close(wait), all serve goroutines having ended.
CloseWait ==
  /\ ~panicked /\ waiter = "waiting" /\ serveWG = 0
  /\ waiter' = "closed"
  /\ Wake("wait")
  /\ UNCHANGED <<ctx, readyCh, errCh, listeners, serving, closed, kind, taken, servers, early, panicked>>
----------------------------------------------------------------------------
(* Shutdown and Close.                                                     *)

At(c, from, to) == ~panicked /\ stop[c] = from /\ stop' = [stop EXCEPT ![c] = to]

Call(c) ==
  /\ At(c, "idle", "take") /\ c \in Stoppers
  /\ early' = IF start = "idle" THEN early \cup {c} ELSE early
  /\ UNCHANGED <<starting, listeners, serving, closed, kind, taken, servers, panicked>>

\* closeManagedListeners takes the listeners under its mutex,
TakeListeners(c) ==
  /\ At(c, "take", "listeners")
  /\ taken' = [taken EXCEPT ![c] = listeners]
  /\ listeners' = {}
  /\ servers' = [servers EXCEPT ![c] = Configured]
  /\ UNCHANGED <<starting, serving, closed, kind, early, panicked>>

\* and closes them one after the other.
CloseListener(c) ==
  /\ At(c, "listeners", IF Cardinality(taken[c]) <= 1 THEN "servers" ELSE "listeners")
  /\ \/ taken[c] = {} /\ UNCHANGED <<socket, taken>>
     \/ /\ taken[c] # {}
        /\ socket' = [socket EXCEPT ![First(taken[c])] = "closed"]
        /\ taken' = [taken EXCEPT ![c] = @ \ {First(taken[c])}]
  /\ UNCHANGED <<starting, listeners, serve, attached, died, closed, kind, servers, early, panicked>>

\* closeServers: Close of a go-smtp server closes the listener it knows of.
CloseServer(c) ==
  LET l == First(servers[c]) IN
  /\ At(c, "servers", IF Cardinality(servers[c]) = 1 THEN "wait" ELSE "servers")
  /\ closed' = closed \cup {l}
  /\ socket' = IF l \in attached THEN [socket EXCEPT ![l] = "closed"] ELSE socket
  /\ servers' = [servers EXCEPT ![c] = @ \ {l}]
  /\ UNCHANGED <<starting, listeners, serve, attached, died, kind, taken, early, panicked>>

\* Where Shutdown goes when it is done: Close goes on to waitForStartDone.
AfterShutdown(c) == IF kind[c] = "Close" THEN "startDone" ELSE "returned"

\* serveWG.Wait: returns at once when the counter is zero, else sleeps,
WaitServe(c) ==
  /\ At(c, "wait", IF serveWG = 0 THEN AfterShutdown(c) ELSE "waiting")
  /\ UNCHANGED <<starting, listeners, serving, closed, kind, taken, servers, early, panicked>>

\* and when woken finds the counter at zero; a WaitGroup whose counter has been
\* raised again in the meantime panics ("reused before previous Wait has returned").
Woken(c) ==
  /\ ~panicked /\ stop[c] = "woken"
  /\ panicked' = (serveWG # 0)
  /\ stop' = [stop EXCEPT ![c] = IF serveWG # 0 THEN "woken" ELSE AfterShutdown(c)]
  /\ UNCHANGED <<starting, listeners, serving, closed, kind, taken, servers, early>>

\* The context of Shutdown expires; Close and Start pass one that never does.
ContextExpires(c) ==
  /\ kind[c] = "Shutdown" /\ c \in Stoppers /\ At(c, "waiting", "returned")
  /\ UNCHANGED <<starting, listeners, serving, closed, kind, taken, servers, early, panicked>>

\* (returns while Start is still running)
WaitForStartDoneSkipped(c) ==
  /\ At(c, "startDone", "returned")
  /\ UNCHANGED <<starting, listeners, serving, closed, kind, taken, servers, early, panicked>>

\* waitForStartDone: no wait unless Start has begun.
WaitForStartDone(c) ==
  /\ At(c, "startDone", "returned")
  /\ start \in {"idle", "returned"}
  /\ UNCHANGED <<starting, listeners, serving, closed, kind, taken, servers, early, panicked>>

StartStep ==
  \/ BindListener \/ StoreManagedListeners \/ LaunchServe \/ SignalReady
  \/ LaunchWaiter \/ Select \/ ReturnFromStart

ServeStep(l) == EnterServe(l) \/ AcceptClosed(l) \/ ServeDone(l)

StopStep(c) ==
  \/ TakeListeners(c) \/ CloseListener(c) \/ CloseServer(c) \/ WaitServe(c) \/ Woken(c)
  \/ WaitForStartDone(c)

ServerNext ==
  \/ BeginStart \/ StartStep \/ Cancel \/ CloseWait
  \/ \E l \in Configured : ServeStep(l) \/ AcceptFails(l)
  \/ \E c \in Callers : Call(c) \/ StopStep(c) \/ ContextExpires(c)

\* Every goroutine that can run does; nothing obliges anybody to call Start, Shutdown or
\* Close, to cancel the context, or an Accept to fail.
ServerFairness ==
  /\ WF_serverVars(StartStep) /\ WF_serverVars(CloseWait)
  /\ \A l \in Configured : WF_serverVars(ServeStep(l))
  /\ \A c \in Callers : WF_serverVars(StopStep(c)) /\ WF_serverVars(ContextExpires(c))

ServerSpec == ServerInit /\ [][ServerNext]_serverVars /\ ServerFairness
----------------------------------------------------------------------------
\* When Start has returned nothing serves any more, whatever mixture of failed binds,
\* cancelled contexts, failed listeners and calls of Shutdown made it return; a socket it
\* leaves open is one whose accept loop had failed (server.go 221-299).  And Close returns
\* only after a Start that had begun has returned: "Close returned before Start exited" is
\* what TestServerCloseWaitsForStartToExit rules out for one schedule.
NothingServedAfterStart ==
  /\ start = "returned" =>
       \A l \in Configured : serve[l] \notin Running /\ (socket[l] = "open" => l \in died)
  /\ \A c \in Stoppers :
       kind[c] = "Close" /\ stop[c] = "returned" /\ c \notin early => start = "returned"

\* Once the context of Start is cancelled, every call that has begun returns, Start,
\* Shutdown or Close, in whatever order they came and wherever Start was: nobody waits
\* for serve goroutines that wait for nobody, and "immediate cancel after readiness never
\* hangs" (FEATURE.md 217).
CancelEndsCalls ==
  /\ ctx = "canceled" /\ start # "idle" ~> start = "returned" \/ panicked
  /\ \A c \in Stoppers : stop[c] = "take" /\ ctx = "canceled" ~> stop[c] = "returned" \/ panicked

\* server.go 301: "Shutdown closes active listeners and waits for serve goroutines to exit
\* until ctx expires"; FEATURE.md 224: "shutdown waits on the actual serve goroutines
\* launched by `Start`".  Start had begun when a call of Shutdown was made, which has
\* returned: nothing serves.
ShutdownStopsServing ==
  (\E c \in Stoppers : stop[c] = "returned" /\ c \notin early) =>
    \A l \in Configured : serve[l] \notin {"launched", "accepting"}

\* server.go 219: "Start runs configured SMTP listeners until context cancellation or fatal
\* error": a Start that nobody asked to stop returns the error that stopped it.
FatalErrorReturned ==
  start = "returned" /\ ctx = "live" /\ (\A c \in Stoppers : stop[c] = "idle") => result = "error"

\* FEATURE.md 204: "make startup readiness and shutdown deterministic".
ShutdownNeverPanics == ~panicked
----------------------------------------------------------------------------
(* The inductive invariant behind NothingServedAfterStart.                 *)

\* The serve goroutines and the sockets; Start's own call is one of Shutdown.
ServerTypes ==
  /\ serve \in [Configured -> {"none", "done"} \cup Running]
  /\ socket \in [Configured -> {"none", "open", "closed"}]
  /\ kind \in [Callers -> {"Shutdown", "Close"}] /\ kind[Starter] = "Shutdown"
  /\ stop \in [Callers -> CallStates]

\* Start launches every listener once, between storing them and closing readyCh; it goes
\* to its exit with nothing running; and a serve goroutine ends for one of two reasons.
LaunchInv ==
  /\ start \in {"idle", "bind", "store"} => \A l \in Configured : serve[l] = "none"
  /\ start = "launch" => Unlaunched # {}
  /\ start \in {"ready", "wait", "select", "parked", "shutdown"} \/ waiter # "none" => Unlaunched = {}
  /\ start \in {"exit", "returned"} =>
       \A l \in Configured : serve[l] \notin Running /\ (socket[l] = "open" => l \in died)
  /\ \A l \in Configured : serve[l] \in {"ending", "done"} => socket[l] = "closed" \/ l \in died

\* `wait` is closed, and Start's own Shutdown returns, only after the last serve goroutine.
WaitInv ==
  /\ waiter = "closed" \/ stop[Starter] = "returned" => \A l \in Configured : serve[l] = "done"
  /\ stop[Starter] \notin {"idle", "returned"} => start = "shutdown"
  /\ stop[Starter] = "returned" => start \in {"shutdown", "returned"}

\* Only a call made before Start may find it not begun.
CloseInv ==
  \A c \in Stoppers :
    c \notin early => /\ stop[c] # "idle" => start # "idle"
                      /\ kind[c] = "Close" /\ stop[c] = "returned" => start = "returned"

ServerIInv == ServerTypes /\ LaunchInv /\ WaitInv /\ CloseInv
============================================================================
