----------------------------- MODULE MCDelivery -----------------------------
(***************************************************************************)
(* The delivery of one mail by the provider that DELIVERY_MODE selects      *)
(* (providers.Build): a behaviour is one of SesDelivery or one of           *)
(* AcsDelivery, and the provider that was not built does nothing.  The two  *)
(* share their constants and the arithmetic of Timing, which is compared    *)
(* with closed forms here.                                                  *)
(***************************************************************************)
EXTENDS SesDelivery

CONSTANTS
  MaxInput, MaxAttempts   \* the configurations tried on Timing's operators

VARIABLES
  mode,                                                    \* cfg.DeliveryMode
  acsR, acsProc, acsPc, acsN, acsCtx, acsElapsed, acsUpd,  \* AcsDelivery's variables
  ops, opState, posts, acsLast, acsFaults

acsVars == <<acsR, acsProc, acsPc, acsN, acsCtx, acsElapsed, acsUpd,
             ops, opState, posts, acsLast, acsFaults>>

Acs == INSTANCE AcsDelivery
         WITH r <- acsR, proc <- acsProc, pc <- acsPc, n <- acsN, ctx <- acsCtx,
              elapsed <- acsElapsed, upd <- acsUpd, last <- acsLast, faults <- acsFaults

MCInit ==
  /\ mode \in {"acs", "ses"} /\ Init /\ Acs!Init
  /\ mode = "acs" => r = Queued0 /\ built

MCNext ==
  \/ mode = "acs" /\ Acs!Next /\ UNCHANGED <<mode, vars>>
  \/ mode = "ses" /\ Next /\ UNCHANGED <<mode, acsVars>>

MCSpec == MCInit /\ [][MCNext]_<<mode, vars, acsVars>>
-----------------------------------------------------------------------------
(* What AcsDelivery says of itself. *)

\* A submitted mail is not posted again; it ends as ACS says, by an answer to a poll that
\* cannot be used, or by SubmittedTimeout: a poll that fails or is cancelled before there
\* is a response, and a 429 or 5xx, do not end it.
SubmittedIsKept == Acs!SubmittedIsKept
-----------------------------------------------------------------------------
(* What both providers say of themselves. *)

\* The retry loop of Submit, or of the SDK, and the worker's attempts multiply, and
\* nothing but a crash or shutdown adds to the requests a provider sees.
RequestBudget == SendBudget /\ Acs!PostBudget

\* A temporary failure (429 and 5xx; with ACS also a failed exchange) ends a mail only when
\* the worker has made all its attempts, and with ACS the loop of Submit all its tries in
\* each of them, unless a shutdown or a crash came in between.
AllTriesAreUsed == AllTriesUsed /\ Acs!AllTriesUsed

\* runtimeSendTimeout covers every request and every backoff of a Submit call: its
\* deadline never cuts the retries of a provider short.
DeadlinesCoverRetries == DeadlineCoversRetries /\ Acs!DeadlineCoversRetries

\* A delivery through either provider, with its retries, lost answers, polls and crashes,
\* keeps the contract of an email.Provider.
ProvidersKeepContract == ImplementsContract /\ Acs!ImplementsContract
-----------------------------------------------------------------------------
(* Timing's operators, over every configuration that config.Validate passes, up to
   MaxInput and MaxAttempts.  None of them depends on the state; they are evaluated
   where the mail has not been touched yet. *)

Fresh == Init /\ Acs!Init

atMost(d) == IF d < MaxDuration THEN d ELSE MaxDuration

\* The delay doubles between two retries: 1 + 2 + ... + 2^(k-1) = PowerOfTwo[k] - 1.
PowerOfTwo[k \in Nat] == IF k = 0 THEN 1 ELSE 2 * PowerOfTwo[k - 1]

\* The timeout that main gives a provider call is exactly the time its requests and the
\* delays between them can take, plus the grace, or the largest duration where that does
\* not fit: saturating step by step in runtimeSendTimeout loses nothing.
SendTimeoutIsExact ==
  Fresh => \A http, base \in 1..MaxInput, attempts \in 1..MaxAttempts :
    runtimeSendTimeout(http, base, attempts)
      = atMost(http * attempts + base * (PowerOfTwo[attempts - 1] - 1) + Grace)

-----------------------------------------------------------------------------
\* FEATURE.md:1627: "A provider temporary failure is retried with backoff", where
\* FEATURE.md:279-283 lists what is temporary: transport errors, 429 and 5xx of ACS,
\* transport and throttling failures of SES.  A mail whose last exchange ended in one of
\* them is given up only when its retries are used.
TemporaryFailureIsRetried ==
  /\ Acs!TemporaryFailureIsRetried /\ Acs!TransportErrorIsTemporary
  /\ TimeoutIsTemporary /\ ThrottlingIsTemporary
=============================================================================
