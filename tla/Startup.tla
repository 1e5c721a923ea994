------------------------------ MODULE Startup ------------------------------
(***************************************************************************)
(* How main gets from the environment of the process to a running relay:   *)
(* config.Load with its _FILE variants, aliases, defaults and Validate,     *)
(* and then the constructors in the order main calls them, each of which    *)
(* checks its own arguments again and may refuse them.                      *)
(*                                                                         *)
(* A setting is the text of one environment variable, abstracted to the     *)
(* classes the code tells apart: "" is a text of blanks, "-" a list of      *)
(* separators only, "word" a text that is no number and no Boolean, and     *)
(* "bad" one that the parser of that setting refuses.                       *)
(***************************************************************************)
EXTENDS Integers, FiniteSets

CONSTANTS
  Working,   \* environments to start in,
  Sources    \* and the ways in which a key may be given there instead

VARIABLES
  env,      \* for every key, the variable itself and the content of its _FILE
  at,       \* the step of main that comes next
  cfg,      \* config.Config, by key; empty until Load has returned
  runtime,  \* providers.Runtime: whether SendTimeout is positive
  store,    \* the spool store
  tlsCfg,   \* main's tlsCfg is not nil
  server,   \* the SMTP server's policy and listeners, {} until NewServer has returned
  recovered,  \* history: Recover has returned without an error
  fault     \* history: the disk or the AWS configuration failed, or a signal stopped Recover

setup == <<env, at, cfg, runtime, store, tlsCfg, server, recovered, fault>>
----------------------------------------------------------------------------
(* The settings.                                                           *)

Booleans == {"SMTP_REQUIRE_AUTH", "SMTP_STARTTLS_ENABLED", "SMTP_REQUIRE_TLS"}

HttpSettings == {"DELIVERY_HTTP_TIMEOUT_MS", "DELIVERY_HTTP_MAX_IDLE_CONNS",
                 "DELIVERY_HTTP_MAX_IDLE_CONNS_PER_HOST", "DELIVERY_HTTP_IDLE_CONN_TIMEOUT_MS"}

Ints == HttpSettings \cup
  {"SMTP_MAX_INFLIGHT_SENDS", "DELIVERY_RETRY_ATTEMPTS", "DELIVERY_RETRY_BASE_DELAY_MS", "SPOOL_POLL_INTERVAL_MS"}

\* The numbers that become a time.Duration.
Durations == {"DELIVERY_RETRY_BASE_DELAY_MS", "DELIVERY_HTTP_TIMEOUT_MS", "DELIVERY_HTTP_IDLE_CONN_TIMEOUT_MS",
              "SPOOL_POLL_INTERVAL_MS"}

Lists == {"SMTP_ALLOWED_CIDRS", "SENDER_ALLOWED_DOMAINS"}

\* Config's other fields, and the alias of each one that has an alias.
Alias == [OUTBOUND_TLS_CA_FILE |-> "ACS_TLS_CA_FILE", OUTBOUND_TLS_CA_PEM |-> "ACS_TLS_CA_PEM"]

Texts == DOMAIN Alias \cup
  {"SMTP_LISTEN_ADDR", "HTTP_LISTEN_ADDR", "DELIVERY_MODE", "SMTP_AUTH_PROVIDER", "SMTP_AUTH_USERNAME", "SMTP_AUTH_PASSWORD",
   "SMTPS_LISTEN_ADDR", "SMTP_TLS_CERT_FILE", "SMTP_TLS_KEY_FILE", "SENDER_POLICY_MODE", "SPOOL_DIR",
   "ACS_ENDPOINT", "ACS_CONNECTION_STRING", "ACS_SENDER", "SES_REGION", "SES_SENDER", "SES_ENDPOINT",
   "SES_CONFIGURATION_SET", "SES_ACCESS_KEY_ID", "SES_SECRET_ACCESS_KEY", "SES_SESSION_TOKEN"}

Fields == Booleans \cup Ints \cup Lists \cup Texts
Keys == Fields \cup {Alias[k] : k \in DOMAIN Alias}

Error == "error"

\* strconv.Atoi on the numbers that occur.
Atoi == [s \in {"0", "1", "10", "11", "33", "66"} |->
           CASE s = "0" -> 0 [] s = "1" -> 1 [] s = "10" -> 10 [] s = "11" -> 11 [] s = "33" -> 33 [] OTHER -> 66]

\* time.Millisecond and the numbers of a time.Duration, 10^6 and 2^64, scaled down: 33 and
\* 66 stand for the first numbers of milliseconds, 9223372036855 and 18446744073710, whose
\* product with time.Millisecond wraps to a negative and to a small positive duration.
Millisecond == 1000
DurationNumbers == 65536

\* time.Duration(ms) * time.Millisecond
InMilliseconds(ms) ==
  LET product == (ms * Millisecond) % DurationNumbers IN
  IF product >= DurationNumbers \div 2 THEN product - DurationNumbers ELSE product

Duration(c, k) == InMilliseconds(Atoi[c[k]])

Default == [k \in Fields |->
  CASE k = "SMTP_REQUIRE_AUTH" -> "true"
    [] k = "SMTP_STARTTLS_ENABLED" -> "true"
    [] k = "SMTP_REQUIRE_TLS" -> "false"
    [] k \in Ints -> "1"
    [] k = "DELIVERY_MODE" -> "acs"
    [] k = "SMTP_AUTH_PROVIDER" -> "static"
    [] k = "SENDER_POLICY_MODE" -> "rewrite"
    [] k \in {"SMTP_LISTEN_ADDR", "HTTP_LISTEN_ADDR", "SPOOL_DIR"} -> "set"
    [] OTHER -> ""]
----------------------------------------------------------------------------
(* config.Load.                                                            *)

\* A variable that is set but blank counts as unset, and the file is read only then.
envOrFile(key) ==
  LET s == env[key] IN
  IF s.env \notin {"unset", ""} THEN s.env
  ELSE IF s.file = "unset" THEN ""
  ELSE IF s.file = "unreadable" THEN Error
  ELSE s.file

envOrFileCompat(key) ==
  LET v == envOrFile(key) IN
  IF v = "" THEN envOrFile(Alias[key]) ELSE v

\* A list that holds separators only is an empty list.
envOrFileList(key) ==
  LET v == envOrFile(key) IN
  IF v = "-" THEN "" ELSE v

envOrFileInt(key) ==
  LET v == envOrFile(key) IN
  CASE v = "" -> Default[key]
    [] v \in DOMAIN Atoi -> IF Atoi[v] < 1 THEN Error ELSE v
    [] OTHER -> Error

envOrFileBool(key) ==
  LET v == envOrFile(key) IN
  CASE v = "" -> Default[key]
    [] v \in {"true", "false"} -> v
    [] OTHER -> Error

Field(k) ==
  CASE k \in Booleans -> envOrFileBool(k)
    [] k \in Ints -> envOrFileInt(k)
    [] k \in Lists -> envOrFileList(k)
    [] k \in DOMAIN Alias -> envOrFileCompat(k)
    [] OTHER -> LET v == envOrFile(k) IN IF v = "" THEN Default[k] ELSE v

\* An invalid entry is refused, and so is a list without entries.
ParseCIDRs(list) == list = "valid"

TLSRequested(c) == c["SMTP_STARTTLS_ENABLED"] = "true" \/ c["SMTPS_LISTEN_ADDR"] # ""

\* The two key settings of SES are given together, and the token only with them.
KeysPaired(c) ==
  /\ (c["SES_ACCESS_KEY_ID"] # "") <=> (c["SES_SECRET_ACCESS_KEY"] # "")
  /\ c["SES_SESSION_TOKEN"] # "" => c["SES_ACCESS_KEY_ID"] # ""

maxDeliveryRetryAttempts == 10

ValidateMode(c) ==
  \/ c["DELIVERY_MODE"] = "noop"
  \/ c["DELIVERY_MODE"] = "acs" /\ c["ACS_CONNECTION_STRING"] # "" /\ c["ACS_SENDER"] # ""
  \/ c["DELIVERY_MODE"] = "ses" /\ c["SES_REGION"] # "" /\ c["SES_SENDER"] # "" /\ KeysPaired(c)

ValidateAccess(c) ==
  /\ c["SMTP_ALLOWED_CIDRS"] # "" /\ ParseCIDRs(c["SMTP_ALLOWED_CIDRS"])
  /\ c["SMTP_REQUIRE_AUTH"] = "true"
  /\ c["SMTP_AUTH_PROVIDER"] = "static"
  /\ c["SMTP_AUTH_USERNAME"] # "" /\ c["SMTP_AUTH_PASSWORD"] # ""

\* Mandatory TLS accepted without a way to get it.
ValidateTLSFilesOnly(c) ==
  TLSRequested(c) => c["SMTP_TLS_CERT_FILE"] # "" /\ c["SMTP_TLS_KEY_FILE"] # ""

ValidateTLS(c) ==
  /\ TLSRequested(c) => c["SMTP_TLS_CERT_FILE"] # "" /\ c["SMTP_TLS_KEY_FILE"] # ""
  /\ c["SMTP_REQUIRE_TLS"] = "true" => TLSRequested(c)

\* The limits without the upper one on the attempts.
ValidateLimitsFromBelow(c) ==
  /\ \A k \in Ints : Atoi[c[k]] >= 1
  /\ c["SENDER_POLICY_MODE"] \in {"rewrite", "strict"}
  /\ c["SPOOL_DIR"] # ""

ValidateLimits(c) ==
  /\ \A k \in Ints : Atoi[c[k]] >= 1
  /\ Atoi[c["DELIVERY_RETRY_ATTEMPTS"]] <= maxDeliveryRetryAttempts
  /\ c["SENDER_POLICY_MODE"] \in {"rewrite", "strict"}
  /\ c["SPOOL_DIR"] # ""

Validate(c) == ValidateMode(c) /\ ValidateAccess(c) /\ ValidateTLS(c) /\ ValidateLimits(c)
----------------------------------------------------------------------------
(* The provider.                                                           *)

\* A CA bundle is optional; a file that cannot be read or holds no certificate is refused.
collectExtraPEMs(c) == c["OUTBOUND_TLS_CA_FILE"] \in {"", "valid"} /\ c["OUTBOUND_TLS_CA_PEM"] \in {"", "valid"}

BuildHttpClient(c) ==
  /\ \A k \in HttpSettings \cap Durations : Duration(c, k) > 0
  /\ \A k \in HttpSettings \ Durations : Atoi[c[k]] > 0
  /\ collectExtraPEMs(c)

maxRetryAttempts == 10

WithRetry(c) ==
  /\ Atoi[c["DELIVERY_RETRY_ATTEMPTS"]] \in 1 .. maxRetryAttempts
  /\ Duration(c, "DELIVERY_RETRY_BASE_DELAY_MS") > 0

\* The connection string is the set of its usable parts, or "bad"; ACS_ENDPOINT
\* goes before the endpoint it names.
parseConnection(c) ==
  /\ c["ACS_CONNECTION_STRING"] \in {"key", "endpoint;key"}
  /\ \/ c["ACS_ENDPOINT"] = "https"
     \/ c["ACS_ENDPOINT"] = "" /\ c["ACS_CONNECTION_STRING"] = "endpoint;key"

NewAcsProvider(c) == parseConnection(c) /\ c["ACS_SENDER"] # "" /\ WithRetry(c)

validateEndpoint(c) == c["SES_ENDPOINT"] \in {"", "https"}

\* Applied when an access key is given.
WithStaticCredentials(c) == c["SES_ACCESS_KEY_ID"] # "" => KeysPaired(c)

NewSesProvider(c) ==
  /\ c["SES_REGION"] # "" /\ c["SES_SENDER"] # ""
  /\ validateEndpoint(c) /\ WithRetry(c) /\ WithStaticCredentials(c)
----------------------------------------------------------------------------
(* main.                                                                   *)

StartupInit ==
  /\ \E w \in Working, i, j \in Keys :
       \E a \in Sources[i], b \in Sources[j] : env = [w EXCEPT ![i] = a, ![j] = b]
  /\ at = "load" /\ cfg = <<>> /\ runtime = FALSE /\ store = "none"
  /\ tlsCfg = FALSE /\ server = {} /\ recovered = FALSE /\ fault = FALSE

\* os.Exit(1); the store, when it is open, is closed first.
Fail ==
  /\ at' = "failed"
  /\ store' = IF store = "open" THEN "closed" ELSE store
  /\ UNCHANGED <<env, cfg, runtime, tlsCfg, server, recovered>>

Refuse == Fail /\ UNCHANGED fault
Break == Fail /\ fault' = TRUE

Load ==
  /\ at = "load"
  /\ LET c == [k \in Fields |-> Field(k)] IN
     IF (\A k \in Fields : c[k] # Error) /\ Validate(c)
     THEN /\ cfg' = c /\ at' = "build"
          /\ UNCHANGED <<env, runtime, store, tlsCfg, server, recovered, fault>>
     ELSE Refuse

\* providers.Build: noop has no SendTimeout.
Build ==
  /\ at = "build"
  /\ LET accepted ==
           \/ cfg["DELIVERY_MODE"] = "noop"
           \/ cfg["DELIVERY_MODE"] = "acs" /\ BuildHttpClient(cfg) /\ NewAcsProvider(cfg)
           \/ cfg["DELIVERY_MODE"] = "ses" /\ BuildHttpClient(cfg) /\ NewSesProvider(cfg)
     IN \/ /\ accepted
           /\ runtime' = (cfg["DELIVERY_MODE"] # "noop")
           /\ at' = "background"
           /\ UNCHANGED <<env, cfg, store, tlsCfg, server, recovered, fault>>
        \/ ~accepted /\ Refuse
        \/ accepted /\ cfg["DELIVERY_MODE"] = "ses" /\ Break

NewWorker ==
  /\ runtime
  /\ Duration(cfg, "SPOOL_POLL_INTERVAL_MS") > 0
  /\ Atoi[cfg["DELIVERY_RETRY_ATTEMPTS"]] >= 1
  /\ Duration(cfg, "DELIVERY_RETRY_BASE_DELAY_MS") > 0

\* The store is opened before the worker is built on it.
buildBackgroundDelivery ==
  /\ at = "background"
  /\ \/ Break
     \/ /\ NewWorker
        /\ store' = "open" /\ at' = "recover"
        /\ UNCHANGED <<env, cfg, runtime, tlsCfg, server, recovered, fault>>
     \/ /\ ~NewWorker
        /\ store' = "closed" /\ at' = "failed"
        /\ UNCHANGED <<env, cfg, runtime, tlsCfg, server, recovered, fault>>

\* Recovery, and the worker built again with the metrics.
runStartupRecovery ==
  /\ at = "recover"
  /\ \/ Break
     \/ /\ recovered' = TRUE
        /\ IF NewWorker THEN at' = "listen" /\ UNCHANGED store ELSE at' = "failed" /\ store' = "closed"
        /\ UNCHANGED <<env, cfg, runtime, tlsCfg, server, fault>>

KeyPairLoads(c) == c["SMTP_TLS_CERT_FILE"] = "valid" /\ c["SMTP_TLS_KEY_FILE"] = "valid"

\* The allowlist and the key pair.
PrepareListeners ==
  /\ at = "listen"
  /\ IF ParseCIDRs(cfg["SMTP_ALLOWED_CIDRS"]) /\ (TLSRequested(cfg) => KeyPairLoads(cfg))
     THEN /\ tlsCfg' = TLSRequested(cfg) /\ at' = "handler"
          /\ UNCHANGED <<env, cfg, runtime, store, server, recovered, fault>>
     ELSE Refuse

NewSenderPolicy(c) ==
  c["SENDER_POLICY_MODE"] \in {"rewrite", "strict"} /\ c["SENDER_ALLOWED_DOMAINS"] \in {"", "valid"}

NewHandler(c) == Atoi[c["SMTP_MAX_INFLIGHT_SENDS"]] >= 1

buildMessageHandler ==
  /\ at = "handler"
  /\ IF NewSenderPolicy(cfg) /\ NewHandler(cfg)
     THEN at' = "server" /\ UNCHANGED <<env, cfg, runtime, store, tlsCfg, server, recovered, fault>>
     ELSE Refuse

\* What the sessions enforce, and for each listener whether a client can get TLS on it.
Listeners(c, tls) ==
  {[secure |-> tls /\ c["SMTP_STARTTLS_ENABLED"] = "true"] : x \in {c["SMTP_LISTEN_ADDR"]} \ {""}}
  \cup {[secure |-> tls] : x \in {c["SMTPS_LISTEN_ADDR"]} \ {""}}

NewServer ==
  /\ at = "server"
  /\ IF /\ cfg["SMTP_ALLOWED_CIDRS"] # ""
        /\ Listeners(cfg, tlsCfg) # {}
        /\ TLSRequested(cfg) => tlsCfg
     THEN /\ server' = {[requireAuth |-> cfg["SMTP_REQUIRE_AUTH"] = "true",
                         requireTLS |-> cfg["SMTP_REQUIRE_TLS"] = "true",
                         password |-> cfg["SMTP_AUTH_PASSWORD"],
                         allowedCIDRs |-> cfg["SMTP_ALLOWED_CIDRS"],
                         listeners |-> Listeners(cfg, tlsCfg)]}
          /\ at' = "running"
          /\ UNCHANGED <<env, cfg, runtime, store, tlsCfg, recovered, fault>>
     ELSE Refuse

SetupStep ==
  \/ Load
  \/ Build
  \/ buildBackgroundDelivery
  \/ runStartupRecovery
  \/ PrepareListeners
  \/ buildMessageHandler
  \/ NewServer
----------------------------------------------------------------------------
\* Once the relay runs nothing reads its environment and its configuration again, and
\* they are forgotten (Process!StartGoroutines).
StartupTypeOK ==
  /\ DOMAIN env = Keys \/ at = "running"
  /\ at \in {"load", "build", "background", "recover", "listen", "handler", "server", "running", "failed"}
  /\ at \notin {"load", "running", "failed"} =>
       /\ DOMAIN cfg = Fields
       /\ \A k \in Booleans : cfg[k] \in {"true", "false"}
       /\ \A k \in Ints : cfg[k] \in DOMAIN Atoi
  /\ {runtime, tlsCfg, recovered, fault} \subseteq BOOLEAN
  /\ store \in {"none", "open", "closed"}
  /\ Cardinality(server) <= 1

\* Load has accepted the configuration.
Loaded == cfg # <<>>

\* What Load leaves to the provider and the worker: texts it only looks at for being
\* there, the content of files, noop's missing SendTimeout, and numbers of milliseconds
\* that are at least 1 and no positive time.Duration.
LeftToDelivery(c) ==
  \/ c["DELIVERY_MODE"] = "noop"
  \/ c["DELIVERY_MODE"] = "acs" /\ ~parseConnection(c)
  \/ c["DELIVERY_MODE"] = "ses" /\ ~validateEndpoint(c)
  \/ ~collectExtraPEMs(c)
  \/ \E k \in Durations : Duration(c, k) <= 0

\* What it leaves to main and the sender policy, which run after the recovery.
LeftToListeners(c) ==
  \/ TLSRequested(c) /\ ~KeyPairLoads(c)
  \/ c["SENDER_ALLOWED_DOMAINS"] \notin {"", "valid"}

\* Validate and the constructors agree but for a list that can be written down: without a
\* fault of the environment, a configuration that Load has accepted is refused before
\* recovery touches the spool exactly when something LeftToDelivery names is wrong with
\* it, and after that exactly when the key pair or the sender domains are. No other
\* number, pair of keys or TLS switch passes Validate (config.go 276-377) and is refused
\* by httpclient.Build, WithRetry, NewWorker, NewHandler or NewServer. The disagreement on
\* durations is real: Validate compares the milliseconds with 1 and the constructors the
\* product with time.Millisecond, which wraps (factory.go 37-38, 45; main.go 52, 54).
ConstructorsAgree ==
  at \in {"running", "failed"} /\ Loaded /\ ~fault =>
    /\ recovered <=> ~LeftToDelivery(cfg)
    /\ at = "running" <=> recovered /\ ~LeftToListeners(cfg)

\* A relay that runs is no open relay, whatever was set in variables and files:
\* its sessions need an allowed address and a password that is not empty, and
\* when they need TLS there is a listener on which a client can get it.
RunningIsGuarded ==
  \A s \in server :
    /\ s.requireAuth /\ s.password # "" /\ ParseCIDRs(s.allowedCIDRs)
    /\ s.requireTLS => \E l \in s.listeners : l.secure
----------------------------------------------------------------------------
(* What is known at each step of main: the inductive invariant of the      *)
(* start-up.                                                               *)

\* What the constructors may rely on in a configuration that Load has returned.
LoadedInv ==
  Loaded => /\ \A k \in Ints : cfg[k] \in DOMAIN Atoi
            /\ cfg["SMTP_LISTEN_ADDR"] # ""
            /\ Validate(cfg)

\* What providers.Build has found out about it.
ProviderInv ==
  at \in {"background", "recover", "listen", "handler", "server", "running"} /\ Loaded =>
    /\ runtime = (cfg["DELIVERY_MODE"] # "noop")
    /\ runtime => /\ collectExtraPEMs(cfg)
                  /\ \A k \in Durations \ {"SPOOL_POLL_INTERVAL_MS"} : Duration(cfg, k) > 0
                  /\ cfg["DELIVERY_MODE"] = "acs" => parseConnection(cfg)
                  /\ cfg["DELIVERY_MODE"] = "ses" => validateEndpoint(cfg)

\* What NewWorker has, before recovery and after.
WorkerInv ==
  /\ at \in {"recover", "listen", "handler", "server", "running"} /\ Loaded =>
       Duration(cfg, "SPOOL_POLL_INTERVAL_MS") > 0
  /\ at \in {"load", "build", "background", "recover"} => ~recovered
  /\ recovered /\ Loaded => ~LeftToDelivery(cfg)

\* What PrepareListeners and buildMessageHandler have.
ListenerInv ==
  Loaded => /\ at \in {"handler", "server", "running"} =>
                  tlsCfg = TLSRequested(cfg) /\ (TLSRequested(cfg) => KeyPairLoads(cfg))
            /\ at \in {"server", "running"} => cfg["SENDER_ALLOWED_DOMAINS"] \in {"", "valid"}

\* The store is open between buildBackgroundDelivery and the server's start.
StageInv ==
  /\ at = "load" => cfg = <<>>
  /\ at \in {"build", "background", "recover", "listen", "handler", "server"} => Loaded
  /\ at \in {"recover", "listen", "handler", "server", "running"} => runtime
  /\ at \in {"listen", "handler", "server", "running"} => recovered
  /\ at \in {"recover", "listen", "handler", "server"} => store = "open"
  /\ at \in {"load", "build", "background", "failed"} => store # "open"

StartupInv == LoadedInv /\ ProviderInv /\ WorkerInv /\ ListenerInv /\ StageInv /\ ConstructorsAgree /\ RunningIsGuarded
=============================================================================
