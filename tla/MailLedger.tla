---------------------------- MODULE MailLedger ----------------------------
(***************************************************************************)
(* What the relay promises for each mail, without files, workers or        *)
(* crashes: a mail is taken on at most once, the client is told so only    *)
(* after that, and a mail once owed stays owed until it is settled, for    *)
(* good, as delivered or as a dead letter.                                 *)
(***************************************************************************)
CONSTANT Ids

VARIABLES status,   \* "none", "owed", "succeeded" or "dead-letter"
          told      \* mails whose client has the reply 250

vars == <<status, told>>

Init == status = [i \in Ids |-> "none"] /\ told = {}

TakeOn(i) ==
  /\ status[i] = "none"
  /\ status' = [status EXCEPT ![i] = "owed"]
  /\ UNCHANGED told

Acknowledge(i) ==
  /\ status[i] # "none"
  /\ told' = told \cup {i}
  /\ UNCHANGED status

Settle(i) ==
  /\ status[i] = "owed"
  /\ status' \in {[status EXCEPT ![i] = s] : s \in {"succeeded", "dead-letter"}}
  /\ UNCHANGED told

Next == \E i \in Ids : TakeOn(i) \/ Acknowledge(i) \/ Settle(i)

Spec == Init /\ [][Next]_vars
============================================================================
