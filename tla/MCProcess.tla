----------------------------- MODULE MCProcess -----------------------------
(* Environments to start in: for each delivery mode one that works, with up  *)
(* to two of its settings given in another way.                             *)
EXTENDS Process

\* The texts tried for a key.
TextsOf(k) ==
  CASE k = "DELIVERY_MODE" -> {"acs", "ses", "noop", "word"}
    [] k \in Booleans -> {"true", "false", "word"}
    [] k = "DELIVERY_RETRY_ATTEMPTS" -> {"0", "10", "11", "word"}
    [] k \in Durations -> {"0", "33", "66", "word"}
    [] k \in Ints \ (Durations \cup {"DELIVERY_RETRY_ATTEMPTS"}) -> {"0", "11", "word"}
    [] k \in Lists -> {"valid", "bad", "-"}
    [] k = "SENDER_POLICY_MODE" -> {"strict", "word"}
    [] k = "SMTP_AUTH_PROVIDER" -> {"static", "word"}
    [] k \in {"ACS_ENDPOINT", "SES_ENDPOINT"} -> {"https", "bad"}
    [] k = "ACS_CONNECTION_STRING" -> {"endpoint;key", "key", "endpoint", "bad"}
    [] k \in {"SMTP_TLS_CERT_FILE", "SMTP_TLS_KEY_FILE", "ACS_TLS_CA_FILE", "ACS_TLS_CA_PEM"} \cup DOMAIN Alias
         -> {"valid", "bad"}
    [] OTHER -> {"set"}

\* The ways of giving a text: in the variable, or in a file beside a blank
\* variable; or no text, or a file that cannot be read.
MCSources == [k \in Keys |->
  {[env |-> t, file |-> "unset"] : t \in TextsOf(k) \cup {"unset"}}
  \cup {[env |-> "", file |-> t] : t \in TextsOf(k) \cup {"unreadable"}}]

\* A working environment.
WorkingIn(mode) == [k \in Keys |->
  [env |-> CASE k = "DELIVERY_MODE" -> mode
             [] k \in {"SMTP_ALLOWED_CIDRS", "SMTP_TLS_CERT_FILE", "SMTP_TLS_KEY_FILE"} -> "valid"
             [] k = "ACS_CONNECTION_STRING" -> "endpoint;key"
             [] k \in {"SMTP_AUTH_USERNAME", "SMTP_AUTH_PASSWORD", "ACS_SENDER", "SES_REGION", "SES_SENDER"} -> "set"
             [] OTHER -> "unset",
   file |-> "unset"]]

MCWorking == {WorkingIn(mode) : mode \in {"acs", "ses", "noop"}}
=============================================================================
