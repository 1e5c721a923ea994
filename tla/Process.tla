------------------------------ MODULE Process ------------------------------
(***************************************************************************)
(* The life of the relay process: main, from its start-up (Startup) over   *)
(* its two selects, the three goroutines it starts (worker, SMTP server,   *)
(* observability server), the channel on which they report errors, and     *)
(* readiness, to the shutdown.  What the worker does inside its loop is     *)
(* Spool's subject, what happens inside the SMTP server SmtpServer's.       *)
(***************************************************************************)
EXTENDS Startup

VARIABLES
  main,       \* where main is, once start-up is over
  ctx,        \* the context of signal.NotifyContext
  errCh,      \* the number of errors waiting in errCh
  worker,     \* the worker's goroutine
  smtp,       \* the goroutine of smtpServer.Start
  readyCh,    \* the SMTP server's readyCh is closed
  listening,  \* the SMTP listeners are open
  obs,        \* the goroutine of obsServer.ListenAndServe
  smtpReady, recoveryReady,   \* processReadiness
  lost        \* history: Start returned nil although its listeners had failed

goroutines == <<worker, smtp, readyCh, listening, obs>>
readiness == <<smtpReady, recoveryReady>>
process == <<main, errCh, goroutines, readiness, lost>>
vars == <<setup, process, ctx>>

\* What is left of start-up once the goroutines run, the store excepted.
settings == <<env, at, cfg, runtime, tlsCfg, server, recovered, fault>>

Ready == smtpReady /\ recoveryReady

Ended == at = "failed" \/ main = "exited"

TypeOK ==
  /\ StartupTypeOK
  /\ main \in {"setup", "starting", "serving", "stop", "join", "closed", "exited"}
  /\ ctx \in {"live", "canceled"}
  /\ errCh \in Nat
  /\ worker \in {"none", "running", "failing", "done"}
  /\ smtp \in {"none", "binding", "launched", "serving", "failing", "done"}
  /\ obs \in {"none", "running", "failing", "done"}
  /\ {readyCh, listening, smtpReady, recoveryReady, lost} \subseteq BOOLEAN

Init ==
  /\ StartupInit
  /\ main = "setup" /\ ctx = "live" /\ errCh = 0
  /\ worker = "none" /\ smtp = "none" /\ obs = "none"
  /\ readyCh = FALSE /\ listening = FALSE
  /\ smtpReady = FALSE /\ recoveryReady = FALSE /\ lost = FALSE
----------------------------------------------------------------------------
(* main up to the start of the goroutines.                                 *)

SetUp == SetupStep /\ UNCHANGED <<process, ctx>>

StartGoroutines ==
  /\ main = "setup" /\ at = "running"
  /\ recoveryReady' = TRUE
  /\ worker' = "running" /\ smtp' = "binding" /\ obs' = "running"
  /\ main' = "starting"
  /\ env' = <<>> /\ cfg' = <<>>
  /\ UNCHANGED <<at, runtime, store, tlsCfg, server, recovered, fault>>
  /\ UNCHANGED <<ctx, errCh, readyCh, listening, smtpReady, lost>>
----------------------------------------------------------------------------
(* The goroutines.                                                         *)

Alive == ~Ended

errChSmall == 1

\* make(chan error, 3)
errChCapacity == 3

Quiet == UNCHANGED <<setup, main, ctx, readiness, lost>>

\* `errCh <- err`: blocks while the buffer is full.
Send == errCh < errChCapacity /\ errCh' = errCh + 1

\* worker.Start returns an error,
WorkerFails ==
  /\ Alive /\ worker = "running"
  /\ worker' = "failing"
  /\ Quiet /\ UNCHANGED <<errCh, smtp, readyCh, listening, obs>>

\* which is sent before the deferred close(workerDone),
SendWorkerError ==
  /\ Alive /\ worker = "failing" /\ Send
  /\ worker' = "done"
  /\ Quiet /\ UNCHANGED <<smtp, readyCh, listening, obs>>

\* or returns because the context is cancelled.
WorkerStops ==
  /\ Alive /\ worker = "running" /\ ctx = "canceled"
  /\ worker' = "done"
  /\ Quiet /\ UNCHANGED <<errCh, smtp, readyCh, listening, obs>>

\* Start binds the listeners, launches their goroutines and closes readyCh, or fails to bind.
SmtpBinds ==
  /\ Alive /\ smtp = "binding"
  /\ \/ smtp' = "launched" /\ listening' = TRUE /\ readyCh' = TRUE
     \/ smtp' = "failing" /\ UNCHANGED <<listening, readyCh>>
  /\ Quiet /\ UNCHANGED <<errCh, worker, obs>>

\* Start reaches its select.
SmtpSelects ==
  /\ Alive /\ smtp = "launched" /\ listening
  /\ smtp' = "serving"
  /\ Quiet /\ UNCHANGED <<errCh, worker, readyCh, listening, obs>>

\* The listeners fail before Start reaches its select, which then finds the error and the
\* end of the serve goroutines both ready and takes either (SmtpServer!FatalErrorReturned).
SmtpFailsEarly ==
  /\ Alive /\ smtp = "launched" /\ listening
  /\ listening' = FALSE
  /\ \/ smtp' = "failing" /\ UNCHANGED lost
     \/ smtp' = "done" /\ lost' = TRUE
  /\ UNCHANGED <<setup, main, ctx, readiness>>
  /\ UNCHANGED <<errCh, worker, readyCh, obs>>

\* Start reports success although a listener failed.
SmtpFailsSilently ==
  /\ Alive /\ smtp = "serving" /\ listening
  /\ smtp' = "done" /\ listening' = FALSE
  /\ Quiet /\ UNCHANGED <<errCh, worker, readyCh, obs>>

\* A serve goroutine fails: Start closes the listeners and returns the error.
SmtpFails ==
  /\ Alive /\ smtp = "serving" /\ listening
  /\ smtp' = "failing" /\ listening' = FALSE
  /\ Quiet /\ UNCHANGED <<errCh, worker, readyCh, obs>>

SendSmtpError ==
  /\ Alive /\ smtp = "failing" /\ Send
  /\ smtp' = "done"
  /\ Quiet /\ UNCHANGED <<worker, readyCh, listening, obs>>

\* Start returns nil: the context is cancelled, or main has closed its listeners.
SmtpStops ==
  /\ Alive /\ smtp \in {"launched", "serving"} /\ (ctx = "canceled" \/ ~listening)
  /\ smtp' = "done" /\ listening' = FALSE
  /\ Quiet /\ UNCHANGED <<errCh, worker, readyCh, obs>>

ObsFails ==
  /\ Alive /\ obs = "running"
  /\ obs' = "failing"
  /\ Quiet /\ UNCHANGED <<errCh, worker, smtp, readyCh, listening>>

SendObsError ==
  /\ Alive /\ obs = "failing" /\ Send
  /\ obs' = "done"
  /\ Quiet /\ UNCHANGED <<worker, smtp, readyCh, listening>>
----------------------------------------------------------------------------
(* main from its first select on.                                          *)

Kept == UNCHANGED <<settings, recoveryReady, lost>>

\* readyCh is closed once the listeners are bound and stays closed.
SmtpServerReady ==
  /\ main = "starting" /\ readyCh
  /\ smtpReady' = TRUE
  /\ main' = "serving"
  /\ Kept /\ UNCHANGED <<ctx, errCh, goroutines, store>>

\* case <-ctx.Done(), in either select.
ContextDone ==
  /\ main \in {"starting", "serving"} /\ ctx = "canceled"
  /\ main' = IF main = "starting" THEN "serving" ELSE "stop"
  /\ Kept /\ UNCHANGED <<ctx, errCh, goroutines, smtpReady, store>>

\* case err := <-errCh, in either select: stop().
ReceiveError ==
  /\ main \in {"starting", "serving"} /\ errCh > 0
  /\ errCh' = errCh - 1
  /\ ctx' = "canceled"
  /\ main' = IF main = "starting" THEN "serving" ELSE "stop"
  /\ smtpReady' = FALSE
  /\ Kept /\ UNCHANGED <<goroutines, store>>

\* Not ready any more; smtpServer.Shutdown and obsServer.Shutdown, both bounded by
\* the ten seconds of shutdownCtx.
ShutdownServers ==
  /\ main = "stop"
  /\ smtpReady' = FALSE
  /\ listening' = FALSE
  /\ obs' = IF obs = "running" THEN "done" ELSE obs
  /\ main' = "join"
  /\ Kept /\ UNCHANGED <<ctx, errCh, worker, smtp, readyCh, store>>

\* The store is closed without waiting for the worker.
CloseStoreEarly ==
  /\ main = "join"
  /\ store' = "closed"
  /\ main' = "closed"
  /\ Kept /\ UNCHANGED <<ctx, errCh, goroutines, smtpReady>>

\* <-workerDone, then backgroundStore.Close().
CloseStore ==
  /\ main = "join" /\ worker = "done"
  /\ store' = "closed"
  /\ main' = "closed"
  /\ Kept /\ UNCHANGED <<ctx, errCh, goroutines, smtpReady>>

\* main returns, and every goroutine ends with it.
Exit ==
  /\ main = "closed"
  /\ main' = "exited"
  /\ Kept /\ UNCHANGED <<ctx, errCh, goroutines, smtpReady, store>>

\* SIGINT or SIGTERM, from signal.NotifyContext on.
Signal ==
  /\ Alive /\ at # "load" /\ ctx = "live"
  /\ ctx' = "canceled"
  /\ UNCHANGED <<setup, process>>

Next ==
  \/ SetUp \/ StartGoroutines
  \/ WorkerFails \/ SendWorkerError \/ WorkerStops
  \/ SmtpBinds \/ SmtpSelects \/ SmtpFailsEarly \/ SmtpFails \/ SendSmtpError \/ SmtpStops \/ ObsFails \/ SendObsError
  \/ SmtpServerReady \/ ContextDone \/ ReceiveError \/ ShutdownServers \/ CloseStore \/ Exit
  \/ Signal

\* main runs on; a goroutine that has an error sends it as soon as the channel takes it;
\* worker.Start returns once the context is cancelled, because each of its calls is
\* bounded by SubmitTimeout or FinalizeTimeout and its sleep ends with the context.
\* Nothing obliges a server or the worker to fail, a listener to bind or a signal to come.
Fairness ==
  /\ WF_vars(SetUp) /\ WF_vars(StartGoroutines)
  /\ WF_vars(SmtpServerReady \/ ContextDone \/ ReceiveError)
  /\ WF_vars(ShutdownServers) /\ WF_vars(CloseStore) /\ WF_vars(Exit)
  /\ WF_vars(SendWorkerError) /\ WF_vars(SendSmtpError) /\ WF_vars(SendObsError)
  /\ WF_vars(WorkerStops)

Spec == Init /\ [][Next]_vars /\ Fairness
----------------------------------------------------------------------------
\* The store outlives its use: while the worker runs or a listener is open, Recover has
\* returned and the store is open, so no mail is enqueued into a spool that recovery is
\* still scanning and no outcome is written to a closed one. One case is left: Start may
\* bind its listeners after Shutdown has found none to close, and main waits for the
\* worker only, so between backgroundStore.Close and the end of the process a listener
\* can be open beside a closed store, of a relay that has been asked to stop. Wherever
\* the process ends, in one of the six exits after buildBackgroundDelivery, in
\* buildBackgroundDelivery itself or after `<-workerDone`, the store is not left open
\* (main.go 65-188).
StoreOutlivesUse ==
  /\ Alive /\ worker \in {"running", "failing"} => recovered /\ store = "open"
  /\ Alive /\ listening => recovered /\ (store = "open" \/ (main = "closed" /\ ctx = "canceled"))
  /\ Ended => store # "open" /\ worker \notin {"running", "failing"}

\* A failure ends the process, so that a restart can recover the spool: an error of the
\* worker, and a listener that is gone from a relay that reports ready, whatever else
\* fails or is signalled meanwhile, unless Start dropped the error.
FailureEndsProcess == worker = "failing" \/ (Ready /\ ~listening /\ ~lost) ~> Ended

\* A cancelled context ends the process: no goroutine blocks on errCh while main waits
\* for it, whatever subset of them fails before, during or after the shutdown.
StopsWhenAsked == ctx = "canceled" ~> Ended

\* README.md 15 and 169-172: a relay in any of its delivery modes, noop included, starts
\* unless its environment fails.
StartsInEveryMode == at = "failed" /\ env \in Working => fault
----------------------------------------------------------------------------
\* The goroutines exist only after start-up, and main holds the store open from its
\* start-up on until the worker has returned.
MainInv ==
  /\ main = "setup" => worker = "none" /\ smtp = "none" /\ ~listening /\ (at = "running" => store = "open")
  /\ main # "setup" => at = "running"
  /\ main \in {"starting", "serving", "stop", "join"} => store = "open"
  /\ main \in {"closed", "exited"} => store = "closed" /\ worker = "done"
  /\ main \in {"stop", "join", "closed"} => ctx = "canceled"

\* The inductive invariant.
IInv == StartupInv /\ MainInv /\ main \in {"setup", "starting", "serving", "stop", "join", "closed", "exited"}
============================================================================
