--------------------------- MODULE ProcessProofs ---------------------------
(***************************************************************************)
(* The theorems about Startup and Process, for any environments the relay  *)
(* may be started in: whatever texts stand in its variables and files.     *)
(*                                                                         *)
(* StartupInv says at each step of main what the steps before have found   *)
(* out about the configuration; MainInv ties the store to main and to the  *)
(* worker.  Each start-up step has a lemma of its own; the actions of      *)
(* Process leave the start-up's results alone.                             *)
(***************************************************************************)
EXTENDS Process, TLAPS

\* The numbers of strconv.Atoi.
LEMMA AtoiType == \A s \in DOMAIN Atoi : Atoi[s] \in Int
BY DEF Atoi

\* A product that wraps is an integer still.
LEMMA DurationType ==
  ASSUME NEW c, NEW k, c[k] \in DOMAIN Atoi
  PROVE  Duration(c, k) \in Int
<1>1. \A i \in Int : InMilliseconds(i) \in Int
  BY DEF InMilliseconds, Millisecond, DurationNumbers
<1>. QED
  BY <1>1, AtoiType DEF Duration

\* The settings the constructors read as numbers are numbers for Load as well.
LEMMA NumbersKnown ==
  /\ HttpSettings \subseteq Ints /\ Durations \subseteq Ints
  /\ HttpSettings \cap Durations \subseteq Durations \ {"SPOOL_POLL_INTERVAL_MS"}
  /\ Durations \subseteq HttpSettings \cup {"DELIVERY_RETRY_BASE_DELAY_MS", "SPOOL_POLL_INTERVAL_MS"}
  /\ {"DELIVERY_RETRY_BASE_DELAY_MS", "SPOOL_POLL_INTERVAL_MS"} \subseteq Durations
  /\ {"SMTP_MAX_INFLIGHT_SENDS", "DELIVERY_RETRY_ATTEMPTS", "DELIVERY_RETRY_BASE_DELAY_MS",
      "SPOOL_POLL_INTERVAL_MS"} \subseteq Ints
  /\ Ints \subseteq Fields
  /\ \A k \in Ints : k \notin Booleans /\ k \notin Lists /\ k \notin DOMAIN Alias
BY DEF HttpSettings, Durations, Ints, Fields, Booleans, Lists, Alias

\* envOrFileInt returns a number or fails.
LEMMA IntField ==
  ASSUME NEW k \in Ints, Field(k) # Error
  PROVE  Field(k) \in DOMAIN Atoi
<1>1. Field(k) = envOrFileInt(k)
  BY NumbersKnown, Zenon DEF Field
<1>2. Default[k] = "1"
  BY NumbersKnown DEF Default, Ints, HttpSettings
<1>. QED
  BY <1>1, <1>2 DEF envOrFileInt, Atoi, Error

\* The address of the SMTP listener has a default, so that it is never empty.
LEMMA ListenAddrField == Field("SMTP_LISTEN_ADDR") # ""
<1>1. "SMTP_LISTEN_ADDR" \in Fields /\ Default["SMTP_LISTEN_ADDR"] = "set"
  BY DEF Default, Fields, Texts, Ints, HttpSettings
<1>2. "SMTP_LISTEN_ADDR" \notin Booleans \cup Ints \cup Lists \cup DOMAIN Alias
  BY DEF Booleans, Ints, HttpSettings, Lists, Alias
<1>. QED
  BY <1>1, <1>2 DEF Field

\* Load establishes what the constructors rely on, or refuses.
LEMMA LoadStep == StartupInv /\ Load => StartupInv'
<1>. SUFFICES ASSUME StartupInv, Load PROVE StartupInv'
  OBVIOUS
<1>. DEFINE c == [k \in Fields |-> Field(k)]
<1>1. CASE (\A k \in Fields : c[k] # Error) /\ Validate(c)
  <2>1. cfg' = c /\ at' = "build"
        /\ UNCHANGED <<env, runtime, store, tlsCfg, server, recovered, fault>>
    BY <1>1 DEF Load
  <2>2. \A k \in Ints : c[k] \in DOMAIN Atoi
    BY <1>1, IntField, NumbersKnown
  <2>3. c["SMTP_LISTEN_ADDR"] # ""
    BY ListenAddrField DEF Fields, Texts
  <2>4. c # <<>>
    <3>1. DOMAIN c # {}
      BY DEF Fields, Booleans
    <3>. QED
      BY <3>1
  <2>. HIDE DEF c
  <2>5. Loaded' /\ LoadedInv'
    BY <1>1, <2>1, <2>2, <2>3, <2>4 DEF LoadedInv, Loaded
  <2>. QED
    BY <2>1, <2>5 DEF StartupInv, ProviderInv, WorkerInv, ListenerInv, StageInv, ConstructorsAgree,
       RunningIsGuarded, Load
<1>2. CASE ~((\A k \in Fields : c[k] # Error) /\ Validate(c))
  <2>1. Refuse /\ at = "load"
    BY <1>2 DEF Load
  <2>. QED
    BY <2>1 DEF Refuse, Fail, StartupInv, LoadedInv, Loaded, ProviderInv, WorkerInv, ListenerInv, StageInv,
       ConstructorsAgree, RunningIsGuarded
<1>. QED
  BY <1>1, <1>2

\* A step that fails keeps the invariant when it may blame a fault or a text that Load
\* leaves to the constructors, before recovery or after.
LEMMA FailStep ==
  ASSUME StartupInv, Fail,
         fault' = TRUE \/ (Loaded => IF recovered THEN LeftToListeners(cfg) ELSE LeftToDelivery(cfg))
  PROVE  StartupInv'
BY DEF Fail, StartupInv, LoadedInv, Loaded, ProviderInv, WorkerInv, ListenerInv, StageInv,
   ConstructorsAgree, RunningIsGuarded

\* What the constructors check again and Validate has checked before, when the
\* milliseconds are positive durations.
LEMMA NumbersAccepted ==
  ASSUME LoadedInv, Loaded
  PROVE  /\ \A k \in HttpSettings \ Durations : Atoi[cfg[k]] > 0
         /\ WithRetry(cfg) <=> Duration(cfg, "DELIVERY_RETRY_BASE_DELAY_MS") > 0
         /\ NewWorker <=> runtime /\ \A k \in {"DELIVERY_RETRY_BASE_DELAY_MS", "SPOOL_POLL_INTERVAL_MS"} :
                                       Duration(cfg, k) > 0
         /\ NewHandler(cfg)
         /\ \A k \in Durations : Duration(cfg, k) > 0 <=> ~(Duration(cfg, k) <= 0)
<1>1. \A k \in Ints : Atoi[cfg[k]] \in Int /\ Atoi[cfg[k]] >= 1
  BY AtoiType DEF LoadedInv, Validate, ValidateLimits
<1>2. Atoi[cfg["DELIVERY_RETRY_ATTEMPTS"]] <= 10
  BY DEF LoadedInv, Validate, ValidateLimits, maxDeliveryRetryAttempts
<1>3. \A k \in Durations : Duration(cfg, k) \in Int
  BY DurationType, NumbersKnown DEF LoadedInv
<1>. QED
  BY <1>1, <1>2, <1>3, NumbersKnown DEF WithRetry, maxRetryAttempts, NewWorker, NewHandler

\* providers.Build accepts, except for a text that Load leaves to it.
LEMMA BuildStep == StartupInv /\ Build => StartupInv'
<1>. SUFFICES ASSUME StartupInv, Build PROVE StartupInv'
  OBVIOUS
<1>. DEFINE accepted ==
       \/ cfg["DELIVERY_MODE"] = "noop"
       \/ cfg["DELIVERY_MODE"] = "acs" /\ BuildHttpClient(cfg) /\ NewAcsProvider(cfg)
       \/ cfg["DELIVERY_MODE"] = "ses" /\ BuildHttpClient(cfg) /\ NewSesProvider(cfg)
<1>1. Loaded /\ LoadedInv /\ store # "open" /\ at = "build" /\ ~recovered
  BY DEF Build, StartupInv, StageInv, WorkerInv
<1>2. accepted \/ LeftToDelivery(cfg)
  <2>. SUFFICES ASSUME ~LeftToDelivery(cfg) PROVE accepted
    OBVIOUS
  <2>1. \A k \in Durations : Duration(cfg, k) > 0
    BY <1>1, NumbersAccepted DEF LeftToDelivery
  <2>2. BuildHttpClient(cfg) /\ WithRetry(cfg)
    BY <1>1, <2>1, NumbersAccepted, NumbersKnown DEF BuildHttpClient, LeftToDelivery
  <2>. QED
    BY <1>1, <2>2 DEF LoadedInv, Validate, ValidateMode, KeysPaired, NewAcsProvider, NewSesProvider,
       WithStaticCredentials, LeftToDelivery
<1>3. CASE accepted /\ runtime' = (cfg["DELIVERY_MODE"] # "noop") /\ at' = "background"
           /\ UNCHANGED <<env, cfg, store, tlsCfg, server, recovered, fault>>
  <2>1. cfg["DELIVERY_MODE"] # "noop" => \A k \in Durations \ {"SPOOL_POLL_INTERVAL_MS"} : Duration(cfg, k) > 0
    BY <1>1, <1>3, NumbersKnown, NumbersAccepted DEF BuildHttpClient, NewAcsProvider, NewSesProvider
  <2>2. ProviderInv'
    BY <1>3, <2>1 DEF ProviderInv, BuildHttpClient, NewAcsProvider, NewSesProvider, Duration
  <2>. QED
    BY <1>1, <1>3, <2>2 DEF StartupInv, LoadedInv, Loaded, WorkerInv, ListenerInv, StageInv,
       ConstructorsAgree, RunningIsGuarded
<1>4. CASE ~accepted /\ Refuse
  BY <1>1, <1>2, <1>4, FailStep DEF Refuse
<1>5. CASE Break
  BY <1>5, FailStep DEF Break
<1>. QED
  BY <1>3, <1>4, <1>5 DEF Build

\* NewWorker refuses noop's runtime and a poll interval that wraps.
LEMMA BackgroundStep == StartupInv /\ buildBackgroundDelivery => StartupInv'
<1>. SUFFICES ASSUME StartupInv, buildBackgroundDelivery PROVE StartupInv'
  OBVIOUS
<1>1. Loaded /\ LoadedInv /\ at = "background" /\ ~recovered
  BY DEF buildBackgroundDelivery, StartupInv, StageInv, WorkerInv
<1>2. /\ runtime = (cfg["DELIVERY_MODE"] # "noop")
      /\ runtime => ~LeftToDelivery(cfg) \/ Duration(cfg, "SPOOL_POLL_INTERVAL_MS") <= 0
  BY <1>1, NumbersAccepted DEF StartupInv, ProviderInv, LeftToDelivery, LoadedInv, Validate, ValidateMode
<1>3. CASE Break
  BY <1>3, FailStep DEF Break
<1>4. CASE NewWorker /\ store' = "open" /\ at' = "recover"
           /\ UNCHANGED <<env, cfg, runtime, tlsCfg, server, recovered, fault>>
  <2>1. WorkerInv'
    BY <1>1, <1>4, NumbersAccepted DEF WorkerInv, Duration
  <2>2. ProviderInv'
    BY <1>1, <1>4 DEF StartupInv, ProviderInv, Loaded
  <2>. QED
    BY <1>1, <1>4, <2>1, <2>2 DEF StartupInv, LoadedInv, Loaded, ProviderInv, WorkerInv, ListenerInv, StageInv,
     ConstructorsAgree, RunningIsGuarded, NewWorker
<1>5. CASE ~NewWorker /\ store' = "closed" /\ at' = "failed"
           /\ UNCHANGED <<env, cfg, runtime, tlsCfg, server, recovered, fault>>
  <2>1. LeftToDelivery(cfg)
    BY <1>1, <1>2, <1>5, NumbersAccepted, NumbersKnown DEF LeftToDelivery
  <2>. QED
    BY <2>1, <1>1, <1>5 DEF StartupInv, LoadedInv, Loaded, ProviderInv, WorkerInv, ListenerInv, StageInv,
       ConstructorsAgree, RunningIsGuarded
<1>. QED
  BY <1>3, <1>4, <1>5 DEF buildBackgroundDelivery

\* After recovery NewWorker accepts what it has accepted before.
LEMMA RecoveryStep == StartupInv /\ runStartupRecovery => StartupInv'
<1>. SUFFICES ASSUME StartupInv, runStartupRecovery PROVE StartupInv'
  OBVIOUS
<1>1. Loaded /\ LoadedInv /\ at = "recover" /\ runtime
  BY DEF runStartupRecovery, StartupInv, StageInv
<1>2. NewWorker /\ ~LeftToDelivery(cfg)
  <2>1. \A k \in Durations : Duration(cfg, k) > 0
    BY <1>1 DEF StartupInv, ProviderInv, WorkerInv
  <2>2. ~\E k \in Durations : Duration(cfg, k) <= 0
    BY <1>1, <2>1, NumbersAccepted
  <2>3. ~LeftToDelivery(cfg)
    BY <1>1, <2>2 DEF StartupInv, ProviderInv, LeftToDelivery
  <2>. QED
    BY <1>1, <2>1, <2>3, NumbersAccepted, NumbersKnown
<1>3. CASE Break
  BY <1>3, FailStep DEF Break
<1>4. CASE at' = "listen" /\ recovered' = TRUE
           /\ UNCHANGED <<env, cfg, runtime, store, tlsCfg, server, fault>>
  BY <1>1, <1>2, <1>4 DEF StartupInv, LoadedInv, Loaded, ProviderInv, WorkerInv, ListenerInv, StageInv,
     ConstructorsAgree, RunningIsGuarded
<1>. QED
  BY <1>2, <1>3, <1>4 DEF runStartupRecovery

\* The allowlist was parsed before; the key pair is read here for the first time.
LEMMA ListenersStep == StartupInv /\ PrepareListeners => StartupInv'
<1>. SUFFICES ASSUME StartupInv, PrepareListeners PROVE StartupInv'
  OBVIOUS
<1>1. Loaded /\ LoadedInv /\ at = "listen" /\ recovered
  BY DEF PrepareListeners, StartupInv, StageInv
<1>2. ParseCIDRs(cfg["SMTP_ALLOWED_CIDRS"])
  BY <1>1 DEF LoadedInv, Validate, ValidateAccess
<1>3. CASE TLSRequested(cfg) => KeyPairLoads(cfg)
  <2>1. tlsCfg' = TLSRequested(cfg) /\ at' = "handler"
        /\ UNCHANGED <<env, cfg, runtime, store, server, recovered, fault>>
    BY <1>2, <1>3 DEF PrepareListeners
  <2>. QED
    BY <1>1, <1>3, <2>1 DEF StartupInv, LoadedInv, Loaded, ProviderInv, WorkerInv, ListenerInv, StageInv,
       ConstructorsAgree, RunningIsGuarded
<1>4. CASE ~(TLSRequested(cfg) => KeyPairLoads(cfg))
  BY <1>1, <1>4, FailStep DEF PrepareListeners, Refuse, LeftToListeners
<1>. QED
  BY <1>3, <1>4

\* NewSenderPolicy reads the domains for the first time.
LEMMA HandlerStep == StartupInv /\ buildMessageHandler => StartupInv'
<1>. SUFFICES ASSUME StartupInv, buildMessageHandler PROVE StartupInv'
  OBVIOUS
<1>1. Loaded /\ LoadedInv /\ at = "handler" /\ recovered
  BY DEF buildMessageHandler, StartupInv, StageInv
<1>2. NewHandler(cfg) /\ cfg["SENDER_POLICY_MODE"] \in {"rewrite", "strict"}
  BY <1>1, NumbersAccepted DEF LoadedInv, Validate, ValidateLimits
<1>3. CASE cfg["SENDER_ALLOWED_DOMAINS"] \in {"", "valid"}
  <2>1. at' = "server" /\ UNCHANGED <<env, cfg, runtime, store, tlsCfg, server, recovered, fault>>
    BY <1>2, <1>3 DEF buildMessageHandler, NewSenderPolicy
  <2>. QED
    BY <1>1, <1>3, <2>1 DEF StartupInv, LoadedInv, Loaded, ProviderInv, WorkerInv, ListenerInv, StageInv,
       ConstructorsAgree, RunningIsGuarded
<1>4. CASE cfg["SENDER_ALLOWED_DOMAINS"] \notin {"", "valid"}
  BY <1>1, <1>4, FailStep DEF buildMessageHandler, NewSenderPolicy, Refuse, LeftToListeners
<1>. QED
  BY <1>3, <1>4

\* NewServer refuses nothing: the TLS configuration is there when it is requested, and
\* there is a listener. The server it returns is guarded.
LEMMA ServerStep == StartupInv /\ NewServer => StartupInv' /\ (at' = "running" /\ store' = "open")
<1>. SUFFICES ASSUME StartupInv, NewServer PROVE StartupInv' /\ at' = "running" /\ store' = "open"
  OBVIOUS
<1>1. Loaded /\ LoadedInv /\ at = "server" /\ runtime /\ recovered /\ store = "open"
  BY DEF NewServer, StartupInv, StageInv
<1>2. tlsCfg = TLSRequested(cfg) /\ (TLSRequested(cfg) => KeyPairLoads(cfg))
      /\ cfg["SENDER_ALLOWED_DOMAINS"] \in {"", "valid"}
  BY <1>1 DEF StartupInv, ListenerInv
<1>3. cfg["SMTP_ALLOWED_CIDRS"] # "" /\ ParseCIDRs(cfg["SMTP_ALLOWED_CIDRS"])
      /\ cfg["SMTP_REQUIRE_AUTH"] = "true" /\ cfg["SMTP_AUTH_PASSWORD"] # ""
      /\ cfg["SMTP_LISTEN_ADDR"] # ""
      /\ (cfg["SMTP_REQUIRE_TLS"] = "true" => TLSRequested(cfg))
  BY <1>1 DEF LoadedInv, Validate, ValidateAccess, ValidateTLS
<1>4. [secure |-> tlsCfg /\ cfg["SMTP_STARTTLS_ENABLED"] = "true"] \in Listeners(cfg, tlsCfg)
  BY <1>3 DEF Listeners
<1>5. cfg["SMTPS_LISTEN_ADDR"] # "" => [secure |-> tlsCfg] \in Listeners(cfg, tlsCfg)
  BY DEF Listeners
<1>6. TLSRequested(cfg) => \E l \in Listeners(cfg, tlsCfg) : l.secure
  BY <1>2, <1>4, <1>5 DEF TLSRequested
<1>7. /\ server' = {[requireAuth |-> cfg["SMTP_REQUIRE_AUTH"] = "true",
                     requireTLS |-> cfg["SMTP_REQUIRE_TLS"] = "true",
                     password |-> cfg["SMTP_AUTH_PASSWORD"],
                     allowedCIDRs |-> cfg["SMTP_ALLOWED_CIDRS"],
                     listeners |-> Listeners(cfg, tlsCfg)]}
      /\ at' = "running"
      /\ UNCHANGED <<env, cfg, runtime, store, tlsCfg, recovered, fault>>
  BY <1>2, <1>3, <1>4 DEF NewServer
<1>8. RunningIsGuarded'
  <2>. SUFFICES ASSUME NEW s \in server'
                PROVE  /\ s.requireAuth /\ s.password # "" /\ ParseCIDRs(s.allowedCIDRs)
                       /\ s.requireTLS => \E l \in s.listeners : l.secure
    BY Zenon DEF RunningIsGuarded, ParseCIDRs
  <2>1. /\ s.requireAuth = (cfg["SMTP_REQUIRE_AUTH"] = "true")
        /\ s.requireTLS = (cfg["SMTP_REQUIRE_TLS"] = "true")
        /\ s.password = cfg["SMTP_AUTH_PASSWORD"] /\ s.allowedCIDRs = cfg["SMTP_ALLOWED_CIDRS"]
        /\ s.listeners = Listeners(cfg, tlsCfg)
    <3>. DEFINE policy == [requireAuth |-> cfg["SMTP_REQUIRE_AUTH"] = "true",
                           requireTLS |-> cfg["SMTP_REQUIRE_TLS"] = "true",
                           password |-> cfg["SMTP_AUTH_PASSWORD"],
                           allowedCIDRs |-> cfg["SMTP_ALLOWED_CIDRS"],
                           listeners |-> Listeners(cfg, tlsCfg)]
    <3>1. s = policy
      BY <1>7
    <3>2. /\ policy.requireAuth = (cfg["SMTP_REQUIRE_AUTH"] = "true")
          /\ policy.requireTLS = (cfg["SMTP_REQUIRE_TLS"] = "true")
      BY Zenon
    <3>3. /\ policy.password = cfg["SMTP_AUTH_PASSWORD"] /\ policy.allowedCIDRs = cfg["SMTP_ALLOWED_CIDRS"]
          /\ policy.listeners = Listeners(cfg, tlsCfg)
      OBVIOUS
    <3>. QED
      BY <3>1, <3>2, <3>3, Zenon
  <2>. QED
    BY <1>3, <1>6, <2>1, Zenon
<1>9. ~LeftToDelivery(cfg) /\ ~LeftToListeners(cfg)
  BY <1>1, <1>2 DEF LeftToListeners, StartupInv, WorkerInv
<1>. QED
  BY <1>1, <1>2, <1>7, <1>8, <1>9 DEF StartupInv, LoadedInv, Loaded, ProviderInv, WorkerInv, ListenerInv, StageInv,
     ConstructorsAgree

\* No step of start-up but NewServer's reaches "running".
LEMMA SetupPreserves ==
  ASSUME StartupInv, SetupStep
  PROVE  StartupInv' /\ at # "running" /\ (at' = "running" => store' = "open")
<1>1. CASE NewServer
  BY <1>1, ServerStep DEF NewServer
<1>2. CASE Load
  BY <1>2, LoadStep DEF Load, Refuse, Fail
<1>3. CASE Build
  BY <1>3, BuildStep DEF Build, Refuse, Break, Fail
<1>4. CASE buildBackgroundDelivery
  BY <1>4, BackgroundStep DEF buildBackgroundDelivery, Break, Fail
<1>5. CASE runStartupRecovery
  BY <1>5, RecoveryStep DEF runStartupRecovery, Refuse, Break, Fail
<1>6. CASE PrepareListeners
  BY <1>6, ListenersStep DEF PrepareListeners, Refuse, Fail
<1>7. CASE buildMessageHandler
  BY <1>7, HandlerStep DEF buildMessageHandler, Refuse, Fail
<1>. QED
  BY <1>1, <1>2, <1>3, <1>4, <1>5, <1>6, <1>7 DEF SetupStep

\* A step that changes nothing of start-up but the store of a running relay keeps
\* StartupInv.
LEMMA SettingsKept ==
  ASSUME StartupInv, UNCHANGED settings, store' = store \/ at = "running"
  PROVE  StartupInv'
BY DEF settings, StartupInv, LoadedInv, Loaded, ProviderInv, WorkerInv, ListenerInv, StageInv,
   ConstructorsAgree, RunningIsGuarded

\* StartGoroutines forgets the configuration.
LEMMA StartStep == IInv /\ StartGoroutines => IInv'
<1>. SUFFICES ASSUME IInv, StartGoroutines PROVE IInv'
  OBVIOUS
<1>1. ~Loaded'
  BY DEF StartGoroutines, Loaded
<1>2. LoadedInv' /\ ProviderInv' /\ ListenerInv' /\ ConstructorsAgree'
  BY <1>1, Zenon DEF LoadedInv, ProviderInv, ListenerInv, ConstructorsAgree
<1>3. StageInv' /\ WorkerInv' /\ RunningIsGuarded'
  BY <1>1, Zenon DEF StartGoroutines, IInv, StartupInv, StageInv, WorkerInv, RunningIsGuarded
<1>. QED
  BY <1>2, <1>3 DEF IInv, MainInv, StartupInv, StartGoroutines

\* A process that starts satisfies the invariant.
LEMMA InitIInv == Init => IInv
BY DEF Init, StartupInit, IInv, MainInv, StartupInv, LoadedInv, Loaded, ProviderInv, WorkerInv, ListenerInv, StageInv,
   ConstructorsAgree, RunningIsGuarded

\* The goroutines and main's selects leave the start-up's results alone; the store is
\* closed by CloseStore only, which waits for the worker.
LEMMA NextIInv == IInv /\ [Next]_vars => IInv'
<1>. SUFFICES ASSUME IInv, [Next]_vars PROVE IInv'
  OBVIOUS
<1>1. CASE SetUp
  <2>1. StartupInv' /\ at # "running" /\ (at' = "running" => store' = "open")
    BY <1>1, SetupPreserves DEF SetUp, IInv
  <2>. QED
    BY <1>1, <2>1 DEF SetUp, IInv, MainInv, process, goroutines
<1>2. CASE StartGoroutines
  BY <1>2, StartStep
<1>3. CASE \/ WorkerFails \/ SendWorkerError \/ WorkerStops \/ SmtpBinds \/ SmtpSelects \/ SmtpFailsEarly
           \/ SmtpFails \/ SendSmtpError \/ SmtpStops \/ ObsFails \/ SendObsError \/ Signal
  <2>1. UNCHANGED settings /\ store' = store /\ main' = main /\ Alive
    BY <1>3 DEF WorkerFails, SendWorkerError, WorkerStops, SmtpBinds, SmtpSelects, SmtpFailsEarly,
       SmtpFails, SendSmtpError, SmtpStops, ObsFails, SendObsError, Signal, Quiet, setup, settings, process
  <2>2. StartupInv'
    BY <2>1, SettingsKept DEF IInv
  <2>3. main = "setup" => UNCHANGED <<worker, smtp, listening>>
    BY <1>3 DEF WorkerFails, SendWorkerError, WorkerStops, SmtpBinds, SmtpSelects, SmtpFailsEarly,
       SmtpFails, SendSmtpError, SmtpStops, ObsFails, SendObsError, Signal, process, goroutines, IInv, MainInv
  <2>4. (ctx = "canceled" => ctx' = "canceled") /\ (worker = "done" => worker' = "done")
    BY <1>3 DEF WorkerFails, SendWorkerError, WorkerStops, SmtpBinds, SmtpSelects, SmtpFailsEarly,
       SmtpFails, SendSmtpError, SmtpStops, ObsFails, SendObsError, Signal, Quiet, process, goroutines
  <2>. QED
    BY <2>1, <2>2, <2>3, <2>4 DEF IInv, MainInv, settings, Alive, Ended
<1>4. CASE SmtpServerReady \/ ContextDone \/ ReceiveError \/ ShutdownServers
  <2>1. UNCHANGED settings /\ store' = store /\ worker' = worker
        /\ main \in {"starting", "serving", "stop"} /\ main' \in {"serving", "stop", "join"}
    BY <1>4 DEF SmtpServerReady, ContextDone, ReceiveError, ShutdownServers, Kept, goroutines
  <2>2. StartupInv'
    BY <2>1, SettingsKept DEF IInv
  <2>3. main' \in {"stop", "join"} => ctx' = "canceled"
    BY <1>4 DEF SmtpServerReady, ContextDone, ReceiveError, ShutdownServers, IInv, MainInv
  <2>. QED
    BY <2>1, <2>2, <2>3 DEF IInv, MainInv, settings
<1>5. CASE CloseStore \/ Exit
  <2>1. StartupInv'
    BY <1>5, SettingsKept DEF CloseStore, Exit, Kept, IInv, MainInv
  <2>. QED
    BY <1>5, <2>1 DEF CloseStore, Exit, Kept, IInv, MainInv, settings, goroutines
<1>6. CASE UNCHANGED vars
  <2>1. StartupInv'
    BY <1>6, SettingsKept DEF vars, setup, settings, IInv
  <2>. QED
    BY <1>6, <2>1 DEF vars, setup, process, goroutines, IInv, MainInv
<1>. QED
  BY <1>1, <1>2, <1>3, <1>4, <1>5, <1>6 DEF Next

\* The inductive invariant holds in every state of the process.
THEOREM Invariance == Spec => []IInv
BY InitIInv, NextIInv, PTL DEF Spec

\* In any environment: a configuration that Load has accepted is refused before recovery
\* exactly for what LeftToDelivery names, milliseconds that wrap among it, and after
\* recovery exactly for the key pair or the sender domains.
THEOREM ConfigurationAgreement == Spec => []ConstructorsAgree
<1>1. IInv => ConstructorsAgree
  BY DEF IInv, StartupInv
<1>. QED
  BY <1>1, Invariance, PTL

\* In any environment: a relay that runs demands a password and an allowed address, and
\* has a listener with TLS when it demands TLS.
THEOREM GuardedWhenRunning == Spec => []RunningIsGuarded
<1>1. IInv => RunningIsGuarded
  BY DEF IInv, StartupInv
<1>. QED
  BY <1>1, Invariance, PTL

\* The store is open, and recovered, as long as the worker may use it, and as long as a
\* listener may until main, asked to stop, has closed it; and it is not open wherever the
\* process ends.
THEOREM StoreLifetime == Spec => []StoreOutlivesUse
<1>1. IInv => StoreOutlivesUse
  BY DEF IInv, StartupInv, StageInv, MainInv, StoreOutlivesUse, Alive, Ended
<1>. QED
  BY <1>1, Invariance, PTL
============================================================================
