---------------------------- MODULE SenderPolicy ----------------------------
(***************************************************************************)
(* What the relay makes of the original sender of a mail: the address      *)
(* headers as ParseMessage reads them, and ApplySenderPolicy.  All of it   *)
(* is pure.                                                                *)
(*                                                                         *)
(* A domain is its sequence of labels.  An address is a domain and the     *)
(* form of its local part, as net/mail tells them apart: "plain" (a        *)
(* dot-atom), "quoted" (a quoted string that needs its quotes), "bare"     *)
(* (such a string without them) and "malformed" (no address at all).       *)
(***************************************************************************)
EXTENDS Sequences, Naturals

\* The letters in upper case that occur, and strings.ToLower on a label and a domain.
UpperCase == [A |-> "a", B |-> "b"]
lowerLabel(label) == IF label \in DOMAIN UpperCase THEN UpperCase[label] ELSE label
ToLower(domain) == [i \in DOMAIN domain |-> lowerLabel(domain[i])]

\* An absent header, and the empty string.
None == [local |-> "none", domain |-> <<>>]

\* mail.ParseAddress: the address it returns, without quotes, or nothing.
ParseAddress(text) ==
  CASE text.local = "plain"  -> {text}
    [] text.local = "quoted" -> {[text EXCEPT !.local = "bare"]}
    [] OTHER                 -> {}

parseHeaderAddress(value) ==
  IF ParseAddress(value) = {} THEN None ELSE CHOOSE a \in ParseAddress(value) : TRUE

\* mail.ParseAddressList fails as a whole if one of its addresses does.
parseHeaderAddressList(values) ==
  IF \E i \in DOMAIN values : ParseAddress(values[i]) = {}
  THEN <<>>
  ELSE [i \in DOMAIN values |-> parseHeaderAddress(values[i])]

\* The fields of email.Message that the policy looks at.
ParsedHeaders(from, replyTo) ==
  [HeaderFrom |-> parseHeaderAddress(from), ReplyTo |-> parseHeaderAddressList(replyTo)]
----------------------------------------------------------------------------
(* NewSenderPolicy.  A pattern has a form and, for "exact" and "glob", its *)
(* labels; a regular expression is the set of lower-case domains it        *)
(* matches as a whole, or does not compile.                                *)

validLabels == {"a", "b", "A", "B"}

normalizeExactDomain(labels) ==
  IF Len(labels) >= 2 /\ \A i \in DOMAIN labels : labels[i] \in validLabels
  THEN {ToLower(labels)} ELSE {}

compileSingleLabelGlob(labels) ==
  IF Len(labels) >= 2 /\ labels[1] = "*" THEN normalizeExactDomain(Tail(labels)) ELSE {}

Matcher(form, compiled) == {[form |-> form, of |-> c] : c \in compiled}

\* The matcher, or nothing when the pattern is malformed.
compileSenderDomainMatcher(pattern) ==
  CASE pattern.form = "re"    -> Matcher("re", IF pattern.compiles THEN {pattern.language} ELSE {})
    [] pattern.form = "glob"  -> Matcher("glob", compileSingleLabelGlob(pattern.labels))
    [] pattern.form = "exact" -> Matcher("exact", normalizeExactDomain(pattern.labels))

Blank == [form |-> "blank"]

\* The policy, or nothing when startup is refused.
NewSenderPolicy(mode, patterns) ==
  LET given == {patterns[i] : i \in DOMAIN patterns} \ {Blank}
  IN IF mode \in {"rewrite", "strict"} /\ \A p \in given : compileSenderDomainMatcher(p) # {}
     THEN {[mode |-> mode, matchers |-> UNION {compileSenderDomainMatcher(p) : p \in given}]}
     ELSE {}
----------------------------------------------------------------------------
(* ApplySenderPolicy.                                                      *)

\* A glob that takes any number of labels in place of its star.
MatchDeep(m, domain) ==
  CASE m.form = "exact" -> domain = m.of
    [] m.form = "re"    -> domain \in m.of
    [] m.form = "glob"  ->
         Len(domain) > Len(m.of) /\ SubSeq(domain, Len(domain) - Len(m.of) + 1, Len(domain)) = m.of

\* Match of the three matchers, on a domain in lower case.
Match(m, domain) ==
  CASE m.form = "exact" -> domain = m.of
    [] m.form = "re"    -> domain \in m.of
    [] m.form = "glob"  -> Len(domain) = Len(m.of) + 1 /\ Tail(domain) = m.of

allowedDomain(policy, domain) ==
  policy.matchers = {} \/ \E m \in policy.matchers : Match(m, domain)

selectOriginalSender(msg) == IF msg.ReplyTo # <<>> THEN msg.ReplyTo[1] ELSE msg.HeaderFrom

senderDomain(address) == {ToLower(a.domain) : a \in ParseAddress(address)}

applyPolicyDecision(msg, mode, reason) ==
  [message |-> [msg EXCEPT !.ReplyTo = <<>>], reason |-> reason, rejected |-> mode = "strict"]

ApplySenderPolicy(msg, policy) ==
  LET candidate == selectOriginalSender(msg)
      reject(reason) == applyPolicyDecision(msg, policy.mode, reason)
  IN CASE candidate = None -> reject("no_original_sender")
       [] candidate # None /\ senderDomain(candidate) = {} -> reject("invalid_original_sender")
       [] \E d \in senderDomain(candidate) : ~allowedDomain(policy, d) ->
            reject("disallowed_sender_domain")
       [] OTHER -> [message |-> [msg EXCEPT !.ReplyTo = <<candidate>>], reason |-> "",
                    rejected |-> FALSE]
============================================================================
