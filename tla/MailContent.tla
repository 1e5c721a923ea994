---------------------------- MODULE MailContent ----------------------------
(***************************************************************************)
(* What becomes of the content of one mail: ParseMessage, the sender       *)
(* policy, the payload on disk and its damage, and what the provider is    *)
(* told.                                                                   *)
(*                                                                         *)
(* A text or the bytes of a file are a sequence of tokens; "" is <<>>.     *)
(* "8bit" is a word that is not UTF-8.  A MIME entity is a multipart,      *)
(* whose boundary is "given", "missing" or never closed ("open"), or a     *)
(* leaf.  A leaf's data is what its bytes stand for; armoured says that    *)
(* they are base64, and encoding what its header claims.                   *)
(***************************************************************************)
EXTENDS SenderPolicy, SequencesExt

CONSTANTS
  Inputs,     \* what clients send, [envelope, from, replyTo, content], and to which relay:
              \* [mail, patterns], patterns being its SENDER_ALLOWED_DOMAINS
  MaxDamage   \* how often the disk is damaged

Providers == {"acs", "ses"}
Sender == "relay"

VARIABLES
  mail,                   \* the input
  mode, patterns,         \* the configuration: SENDER_POLICY_MODE, SENDER_ALLOWED_DOMAINS,
  provider,               \* DELIVERY_MODE
  stage,                  \* how far the mail has come
  msg,                    \* {} or {the email.Message in memory}
  accepted,               \* history: the message the client was told is accepted
  payload,                \* {} or {payloads/<id>/ on disk}
  damage,                 \* how often it was damaged
  request                 \* {} or {what the provider is asked to send}

input == <<mail, mode, patterns, provider>>
vars == <<input, stage, msg, accepted, payload, damage, request>>

Init ==
  /\ \E i \in Inputs : mail = i.mail /\ patterns = i.patterns
  /\ mode \in {"rewrite", "strict"}
  /\ NewSenderPolicy(mode, patterns) # {}
  /\ provider \in Providers
  /\ stage = "data" /\ msg = {} /\ accepted = {} /\ payload = {} /\ damage = 0 /\ request = {}
----------------------------------------------------------------------------
(* ParseMessage.                                                           *)

\* The bytes, or nothing when they are not what the header claims.  base64 stands for
\* quoted-printable too; an encoding the code does not know is left as it is.
decodeTransferEncoding(leaf) ==
  CASE leaf.encoding = "base64" -> IF leaf.armoured THEN {leaf.data} ELSE {}
    [] OTHER                    -> IF leaf.armoured THEN {<<"armour">>} ELSE {leaf.data}

Leaf(type, disposition, filename, data) ==
  [form |-> "leaf", type |-> type, disposition |-> disposition, filename |-> filename,
   encoding |-> "8bit", armoured |-> FALSE, data |-> data]

Multipart(boundary, parts) == [form |-> "multipart", boundary |-> boundary, parts |-> parts]

isAttachment(leaf) == leaf.disposition = "attachment" \/ leaf.filename # ""

\* (Wrong) The last part of a type replaces the earlier ones.
appendBodyLast(body, decoded) == decoded

appendBody(body, decoded) == IF body = <<>> THEN decoded ELSE body \o <<"\n">> \o decoded

\* One leaf of a multipart: a part that is neither an attachment nor text is dropped.
addPart(leaf, decoded, out) ==
  CASE isAttachment(leaf) ->
         [out EXCEPT !.Attachments =
            Append(@, [Filename |-> leaf.filename,
                       ContentType |-> IF leaf.type = "unparsable" THEN "octet-stream" ELSE leaf.type,
                       Data |-> decoded])]
    [] ~isAttachment(leaf) /\ leaf.type = "plain" -> [out EXCEPT !.TextBody = appendBody(@, decoded)]
    [] ~isAttachment(leaf) /\ leaf.type = "html" -> [out EXCEPT !.HTMLBody = appendBody(@, decoded)]
    [] OTHER -> out

RECURSIVE parseMultipart(_, _)
parseMultipart(entity, out) ==
  LET parsePart(acc, part) ==
        CASE part.form = "leaf" ->
               {addPart(part, d, o) : d \in decodeTransferEncoding(part), o \in acc}
          [] part.form = "multipart" /\ part.boundary = "missing" -> acc
          [] OTHER -> UNION {parseMultipart(part, o) : o \in acc}
      parsed == FoldLeft(parsePart, {out}, entity.parts)
  IN  IF entity.boundary = "open" THEN {} ELSE parsed

\* The bodies and attachments of a mail, or nothing when it is malformed.
parseBody(content, out) ==
  CASE content.form = "multipart" ->
         IF content.boundary = "missing" THEN {} ELSE parseMultipart(content, out)
    [] content.form = "leaf" /\ content.type = "html" ->
         {[out EXCEPT !.HTMLBody = d] : d \in decodeTransferEncoding(content)}
    [] OTHER -> {[out EXCEPT !.TextBody = d] : d \in decodeTransferEncoding(content)}

NoContent(envelope, headers) ==
  [EnvelopeFrom |-> envelope, HeaderFrom |-> headers.HeaderFrom, ReplyTo |-> headers.ReplyTo,
   TextBody |-> <<>>, HTMLBody |-> <<>>, Attachments |-> <<>>]

\* A malformed mail is refused with 554.
ParseMessage ==
  LET parsed == parseBody(mail.content,
                          NoContent(mail.envelope, ParsedHeaders(mail.from, mail.replyTo)))
  IN  /\ stage = "data"
      /\ msg' = parsed
      /\ stage' = IF parsed = {} THEN "refused" ELSE "parsed"
      /\ UNCHANGED <<input, accepted, payload, damage, request>>

Policy == CHOOSE p \in NewSenderPolicy(mode, patterns) : TRUE

Result(m) == ApplySenderPolicy(m, Policy)

HandleMessage ==
  \E m \in msg :
    /\ stage = "parsed"
    /\ msg' = {Result(m).message}
    /\ stage' = IF Result(m).rejected THEN "refused" ELSE "allowed"
    /\ UNCHANGED <<input, accepted, payload, damage, request>>
----------------------------------------------------------------------------
(* The payload store.  A file's SHA-256 is taken to be its content.        *)

\* json.Marshal writes U+FFFD for what is not UTF-8.
Marshal(text) == [i \in DOMAIN text |-> IF text[i] = "8bit" THEN "U+FFFD" ELSE text[i]]

Manifest(m) ==
  [EnvelopeFrom |-> m.EnvelopeFrom, HeaderFrom |-> m.HeaderFrom, ReplyTo |-> m.ReplyTo,
   TextBody |-> Marshal(m.TextBody), HTMLBody |-> Marshal(m.HTMLBody),
   Attachments |-> [i \in DOMAIN m.Attachments |->
     [Filename |-> m.Attachments[i].Filename, ContentType |-> m.Attachments[i].ContentType,
      Path |-> i, SizeBytes |-> Len(m.Attachments[i].Data), SHA256 |-> m.Attachments[i].Data]]]

Save ==
  \E m \in msg :
    /\ stage = "allowed"
    /\ payload' = {[manifest |-> {Manifest(m)},
                    files |-> [i \in DOMAIN m.Attachments |-> {m.Attachments[i].Data}]]}
    /\ accepted' = {m}
    /\ msg' = {}
    /\ stage' = "stored"
    /\ UNCHANGED <<input, damage, request>>

\* The disk loses or alters a file, exchanges two, or breaks the manifest.
Damage ==
  /\ stage = "stored" /\ damage < MaxDamage
  /\ damage' = damage + 1
  /\ \E p \in payload :
       \/ payload' = {}
       \/ payload' = {[p EXCEPT !.manifest = {}]}
       \/ \E i \in DOMAIN p.files :
            payload' \in {{[p EXCEPT !.files[i] = f]} : f \in
                            {{}} \cup {{Append(d, "x")} : d \in p.files[i]}
                                 \cup {{[j \in DOMAIN d |-> "x"]} : d \in p.files[i]}}
       \/ \E i, j \in DOMAIN p.files :
            i < j /\ payload' = {[p EXCEPT !.files[i] = p.files[j], !.files[j] = p.files[i]]}
       \/ \E m \in p.manifest : \E i, j \in DOMAIN m.Attachments :
            /\ i < j
            /\ payload' = {[p EXCEPT !.manifest =
                 {[m EXCEPT !.Attachments[i] = m.Attachments[j], !.Attachments[j] = m.Attachments[i]]}]}
  /\ UNCHANGED <<input, stage, msg, accepted, request>>

\* (Wrong) Only the size of an attachment is compared.
attachmentLoadsBySize(ref, i, data) == Len(data) = ref.SizeBytes

\* validateAttachmentRef, the size and the checksum.
attachmentLoads(ref, i, data) == ref.Path = i /\ Len(data) = ref.SizeBytes /\ data = ref.SHA256

\* The message, or nothing: the PayloadCorruptionError.
LoadPayload(p) ==
  {[m EXCEPT !.Attachments = [i \in DOMAIN @ |->
      [Filename |-> @[i].Filename, ContentType |-> @[i].ContentType,
       Data |-> CHOOSE d \in p.files[i] : TRUE]]] :
    m \in {n \in p.manifest : \A i \in DOMAIN n.Attachments :
             \E d \in p.files[i] : attachmentLoads(n.Attachments[i], i, d)}}

Load ==
  LET loaded == UNION {LoadPayload(p) : p \in payload}
  IN  /\ stage = "stored"
      /\ msg' = loaded
      /\ stage' = IF loaded = {} THEN "dead_letter" ELSE "loaded"
      /\ UNCHANGED <<input, accepted, payload, damage, request>>
----------------------------------------------------------------------------
(* What the providers are told.                                            *)

Blanks == {" ", "\n", "\r\n"}

\* Whether strings.TrimSpace leaves nothing.
IsBlank(text) == \A i \in DOMAIN text : text[i] \in Blanks

normalizeReplyTo(values) == SelectSeq(values, LAMBDA a : a # None /\ ParseAddress(a) # {})

SenderTraceHeaders(m) ==
  SelectSeq(<<[name |-> "Envelope-From", value |-> m.EnvelopeFrom],
              [name |-> "Header-From", value |-> m.HeaderFrom]>>, LAMBDA h : h.value # None)

attachmentName(attachments, i) ==
  IF attachments[i].Filename = "" THEN "attachment-" \o ToString(i) ELSE attachments[i].Filename

buildSendRequest(m) ==
  [From |-> Sender, ReplyTo |-> normalizeReplyTo(m.ReplyTo), Headers |-> SenderTraceHeaders(m),
   PlainText |-> IF m.TextBody = <<>> /\ m.HTMLBody = <<>> THEN <<"(empty message)">> ELSE m.TextBody,
   HTML |-> m.HTMLBody,
   Attachments |-> [i \in DOMAIN m.Attachments |->
     [m.Attachments[i] EXCEPT !.Filename = attachmentName(m.Attachments, i)]]]

normalizeLineEndings(text) == [i \in DOMAIN text |-> IF text[i] = "\n" THEN "\r\n" ELSE text[i]]

buildAlternativeBody(plain, html) ==
  Multipart("given", <<Leaf("plain", "", "", plain), Leaf("html", "", "", html)>>)

buildAttachment(attachments, i) ==
  [Leaf(attachments[i].ContentType, "attachment", attachmentName(attachments, i), attachments[i].Data)
     EXCEPT !.armoured = TRUE, !.encoding = "base64"]

buildMixedBody(plain, html, attachments) ==
  Multipart("given",
    <<CASE plain # <<>> /\ html # <<>> -> buildAlternativeBody(plain, html)
        [] plain = <<>> /\ html # <<>> -> Leaf("html", "", "", html)
        [] OTHER                       -> Leaf("plain", "", "", plain)>>
    \o [i \in DOMAIN attachments |-> buildAttachment(attachments, i)])

buildMIMEBody(plain, html, attachments) ==
  CASE attachments # <<>> -> buildMixedBody(plain, html, attachments)
    [] attachments = <<>> /\ plain # <<>> /\ html # <<>> -> buildAlternativeBody(plain, html)
    [] attachments = <<>> /\ plain = <<>> /\ html # <<>> -> Leaf("html", "", "", html)
    [] OTHER -> Leaf("plain", "", "", plain)

buildRawMessage(m) ==
  [From |-> Sender, ReplyTo |-> normalizeReplyTo(m.ReplyTo), Headers |-> SenderTraceHeaders(m),
   Body |-> buildMIMEBody(
     normalizeLineEndings(IF IsBlank(m.TextBody) /\ IsBlank(m.HTMLBody)
                          THEN <<"(empty message)">> ELSE m.TextBody),
     normalizeLineEndings(m.HTMLBody), m.Attachments)]

Submit ==
  \E m \in msg :
    /\ stage = "loaded"
    /\ request' = {IF provider = "acs" THEN buildSendRequest(m) ELSE buildRawMessage(m)}
    /\ stage' = "sent"
    /\ UNCHANGED <<input, msg, accepted, payload, damage>>

Next == ParseMessage \/ HandleMessage \/ Save \/ Damage \/ Load \/ Submit

Spec == Init /\ [][Next]_vars
----------------------------------------------------------------------------
\* The words of a text: what is left when the layout is not looked at.
Words(text) == SelectSeq(text, LAMBDA t : t \notin Blanks)

\* A text after the words that are not UTF-8 have been replaced.
Legible(text) == [i \in DOMAIN text |-> IF text[i] = "8bit" THEN "U+FFFD" ELSE text[i]]

\* What a reader of the request sees of it; a raw message is read as MIME.
Seen(r) ==
  IF provider = "acs"
  THEN {[TextBody |-> r.PlainText, HTMLBody |-> r.HTML, Attachments |-> r.Attachments]}
  ELSE parseBody(r.Body, [TextBody |-> <<>>, HTMLBody |-> <<>>, Attachments |-> <<>>])

\* The leaves of an entity, in the order they are written.
RECURSIVE Leaves(_)
Leaves(entity) ==
  CASE entity.form = "leaf" -> <<entity>>
    [] entity.form = "multipart" /\ entity.boundary = "missing" -> <<>>
    [] OTHER -> FlattenSeq([i \in DOMAIN entity.parts |-> Leaves(entity.parts[i])])

\* The words of the text parts of a type, and the attachments, as the client wrote them.
Written(type) ==
  LET text == SelectSeq(Leaves(mail.content), LAMBDA l : ~isAttachment(l) /\ l.type = type)
  IN  Words(FlattenSeq([i \in DOMAIN text |-> text[i].data]))

Attached == SelectSeq(Leaves(mail.content), isAttachment)

\* A mail that is nothing but a file: one leaf, without a multipart around it, that is an
\* attachment or no text.
LoneFile ==
  /\ mail.content.form = "leaf"
  /\ isAttachment(mail.content) \/ mail.content.type \notin {"plain", "html"}

\* Every word of a text part and every attachment of the mail that was accepted is in the
\* request, of either provider, in the order of the mail, decoded, under its name and with
\* nothing added, except that an empty mail may say so and that a word of a text that is
\* not UTF-8 is replaced; no request is without a body; and although the sender is the
\* relay's own, the trace headers name the original envelope sender and author
\* (ParseMessage, PayloadStore.Load, buildSendRequest, buildRawMessage, SenderTraceHeaders).
\* A mail that is nothing but a file is the exception: ParseMessage looks at the
\* disposition of the parts of a multipart only (parser.go 50-63), so that the file arrives
\* as the text of the mail, without its name and with its bytes replaced where they are
\* not UTF-8 (LoneFileIsAttached below).
ContentArrives ==
  \A r \in request :
    /\ r.From = Sender
    /\ \A a \in {mail.envelope, ParsedHeaders(mail.from, mail.replyTo).HeaderFrom} \ {None} :
         \E h \in Range(r.Headers) : h.value = a
    /\ \E s \in Seen(r) :
         /\ s.TextBody # <<>> \/ s.HTMLBody # <<>>
         /\ LoneFile =>
              /\ s.Attachments = <<>>
              /\ \/ Words(s.TextBody \o s.HTMLBody) = Legible(Words(mail.content.data))
                 \/ s.TextBody = <<"(empty message)">> /\ Words(mail.content.data) = <<>>
         /\ ~LoneFile =>
              /\ Words(s.HTMLBody) = Legible(Written("html"))
              /\ \/ Words(s.TextBody) = Legible(Written("plain"))
                 \/ /\ s.TextBody = <<"(empty message)">>
                    /\ Written("plain") = <<>> /\ Written("html") = <<>>
              /\ Len(s.Attachments) = Len(Attached)
              /\ \A i \in DOMAIN Attached :
                   /\ s.Attachments[i].Data = Attached[i].data
                   /\ s.Attachments[i].Filename # ""
                   /\ Attached[i].filename # "" => s.Attachments[i].Filename = Attached[i].filename

\* A payload of which the disk damaged an attachment, exchanged two, or broke the manifest
\* is a PayloadCorruptionError or still the message that was accepted, up to words that are
\* not UTF-8: another mail is never sent in its place (Load).  Damage leaves out what Load
\* cannot notice: the manifest has no checksum, so that another body, address or name in a
\* manifest that is still valid JSON is loaded as it stands (payload_store.go 288-301).
DamageNoticed ==
  stage \in {"loaded", "sent"} =>
    msg = {[m EXCEPT !.TextBody = Legible(@), !.HTMLBody = Legible(@)] : m \in accepted}

----------------------------------------------------------------------------
(* The sender policy against what README.md 71-88 and FEATURE.md 374-416   *)
(* say of it.                                                              *)

Same(label, other) == lowerLabel(label) = lowerLabel(other)

\* What one entry of SENDER_ALLOWED_DOMAINS stands for, label by label.
Covers(p, domain) ==
  CASE p.form = "blank" -> FALSE
    [] p.form = "re" -> ToLower(domain) \in p.language
    [] p.form = "exact" -> /\ Len(domain) = Len(p.labels)
                           /\ \A i \in DOMAIN domain : Same(domain[i], p.labels[i])
    [] p.form = "glob" -> /\ Len(domain) = Len(p.labels)
                          /\ \A i \in 2..Len(domain) : Same(domain[i], p.labels[i])

Allowed(domain) ==
  \/ \A i \in DOMAIN patterns : patterns[i] = Blank
  \/ \E i \in DOMAIN patterns : Covers(patterns[i], domain)

\* The header addresses net/mail can read, whether it reads all of Reply-To, and the
\* original sender the client names: the first Reply-To, and From without one.
Readable(text) == text.local \in {"plain", "quoted"}
ListReadable == \A i \in DOMAIN mail.replyTo : Readable(mail.replyTo[i])
Named == IF mail.replyTo # <<>> THEN mail.replyTo[1] ELSE mail.from

\* What a provider is given as the address to reply to is decided by the list alone, in
\* either mode: at most one address, one of those the client gave, of a domain that an
\* entry covers.  Of a Reply-To that can be read it is the first address or none, never
\* another one or From; and the original sender is given, however its letters are written
\* and wherever its entry stands, whenever it is covered and of the usual form, in which
\* case the mail is refused only for its content (ApplySenderPolicy, Save and Load,
\* normalizeReplyTo).  A Reply-To in which one address cannot be read counts as absent
\* (parser.go 197-200), and one that begins with an address that needs quotes gives none
\* (sender_policy.go 124): FirstValidReplyTo below.
ReplyToFollowsList ==
  /\ \A r \in request : r.ReplyTo # <<>> =>
       /\ Len(r.ReplyTo) = 1 /\ r.ReplyTo[1] \in Range(mail.replyTo) \cup {mail.from}
       /\ Readable(r.ReplyTo[1]) /\ Allowed(r.ReplyTo[1].domain)
       /\ ListReadable => r.ReplyTo[1] = Named
  /\ ListReadable /\ Named.local = "plain" /\ Allowed(Named.domain) =>
       /\ \A r \in request : r.ReplyTo = <<Named>>
       /\ stage = "refused" => msg = {}
----------------------------------------------------------------------------
(* Four statements that the code does not satisfy.                         *)

\* A mail whose only content is an attachment arrives with it.  (It arrives as text.)
LoneFileIsAttached ==
  LoneFile /\ isAttachment(mail.content) =>
    \A r \in request : \A s \in Seen(r) : Len(s.Attachments) = 1

\* FEATURE.md 383-385: "Policy selection should use this deterministic order: first valid
\* address from `ReplyTo`, if present".  (One unreadable address discards the whole list,
\* and a first one that needs its quotes is chosen and then found invalid.)
FirstValidReplyTo ==
  LET valid == SelectSeq(mail.replyTo, LAMBDA a : a.local = "plain") IN
  \A r \in request :
    valid # <<>> /\ Allowed(valid[1].domain) => r.ReplyTo = <<valid[1]>>

\* "Load reconstructs a normalized message payload for id from disk" (payload_store.go:255):
\* an undamaged payload loads as the message that was saved.  (A text that is not UTF-8
\* does not survive json.Marshal.)
LoadReconstructs == stage = "loaded" /\ damage = 0 => msg = accepted

\* FEATURE.md 382: "If `SENDER_ALLOWED_DOMAINS` is empty, treat it as "allow any
\* syntactically valid domain"."  (An address that needs quotes loses them before it is
\* parsed again.)
EmptyListAllowsValid ==
  patterns = <<>> /\ ListReadable /\ Readable(Named) => (stage = "refused" => msg = {})
=============================================================================
