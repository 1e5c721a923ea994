-------------------------- MODULE DeliveryContract --------------------------
(***************************************************************************)
(* What the worker relies on when it hands one mail to an email.Provider    *)
(* (internal/email/provider.go), whichever provider it is and however its   *)
(* HTTP exchanges, retries, deadlines, shutdowns and crashes go: a mail is  *)
(* submitted or succeeded only if the provider has accepted it, the worker  *)
(* tries it again only so often, and its end is final.  AcsDelivery and     *)
(* SesDelivery implement it.                                                *)
(***************************************************************************)
EXTENDS Naturals

CONSTANT RetryAttempts

VARIABLES state,      \* the record's state
          attempt,    \* the Submit calls it was charged for
          accepted    \* the provider has accepted the mail

vars == <<state, attempt, accepted>>

\* A queued mail, or one that an earlier process has submitted.
Init ==
  \/ state = "queued" /\ attempt = 0 /\ accepted = FALSE
  \/ state = "submitted" /\ attempt = 1 /\ accepted = TRUE

Claim  == state = "queued" /\ state' = "working" /\ UNCHANGED <<attempt, accepted>>

\* The provider takes the mail during a Submit call, and keeps it.
Accept == state = "working" /\ accepted' = TRUE /\ UNCHANGED <<state, attempt>>

\* A temporary failure with retries left.
Retry ==
  /\ state = "working" /\ attempt < RetryAttempts
  /\ state' = "queued" /\ attempt' = attempt + 1 /\ UNCHANGED accepted

\* A call that a crash cut short is not charged.
Recover == state = "working" /\ state' = "queued" /\ UNCHANGED <<attempt, accepted>>

Submitted ==
  /\ state = "working" /\ accepted
  /\ state' = "submitted" /\ attempt' = attempt + 1 /\ UNCHANGED accepted

Settle ==
  /\ state \in {"working", "submitted"}
  /\ state' \in {"succeeded", "dead-letter"}
  /\ state' = "succeeded" => accepted
  /\ attempt' = IF state = "working" THEN attempt + 1 ELSE attempt
  /\ UNCHANGED accepted

Next == Claim \/ Accept \/ Retry \/ Recover \/ Submitted \/ Settle

Spec == Init /\ [][Next]_vars
=============================================================================
