--------------------------- MODULE MCMailContent ---------------------------
(***************************************************************************)
(* Mails of up to two parts, each a leaf or a multipart of up to two       *)
(* leaves, sent to a relay with an empty list of domains; and mails with   *)
(* every small set of headers, sent to relays with every small list.       *)
(***************************************************************************)
EXTENDS MailContent

Lists(S, n) == UNION {[1..k -> S] : k \in 0..n}

PlainLeaf(words) == Leaf("plain", "", "", words)

LeafParts ==
  {PlainLeaf(<<"t">>), PlainLeaf(<<" ">>), PlainLeaf(<<>>), Leaf("html", "", "", <<"h", "8bit", "\n">>),
   Leaf("image", "attachment", "", <<"b", "8bit">>), Leaf("plain", "inline", "f", <<"d", "e">>),
   Leaf("unparsable", "attachment", "", <<>>), Leaf("image", "inline", "", <<"b">>),
   [PlainLeaf(<<"u", "\n">>) EXCEPT !.encoding = "base64", !.armoured = TRUE],
   [PlainLeaf(<<"t">>) EXCEPT !.encoding = "base64"]}

Nested == {Multipart(b, p) : b \in {"given", "missing", "open"}, p \in Lists(LeafParts, 1)}
            \cup {Multipart("given", p) : p \in [1..2 -> LeafParts]}

Contents == LeafParts \cup Nested
              \cup {Multipart("given", p) : p \in [1..2 -> LeafParts \cup Nested]}

Address(local, domain) == [local |-> local, domain |-> domain]

Domains == {<<"a", "b">>, <<"b", "A", "b">>, <<"b", "b", "a", "b">>, <<"b", "b">>}

Texts == {Address("plain", d) : d \in Domains}
           \cup {Address("quoted", <<"a", "b">>), Address("malformed", <<>>)}

Patterns ==
  {[form |-> "exact", labels |-> <<"A", "b">>], [form |-> "exact", labels |-> <<"b", "a", "b">>],
   [form |-> "glob", labels |-> <<"*", "a", "B">>], [form |-> "glob", labels |-> <<"*", "b">>],
   [form |-> "re", compiles |-> TRUE, language |-> {<<"a", "b">>, <<"b", "b", "a", "b">>}],
   [form |-> "re", compiles |-> FALSE, language |-> {}], [form |-> "exact", labels |-> <<"a", "-">>],
   Blank}

ByContent ==
  {[envelope |-> None, from |-> Address("plain", <<"a", "b">>), replyTo |-> <<>>, content |-> c] :
     c \in Contents}

ByHeaders ==
  {[envelope |-> e, from |-> f, replyTo |-> r, content |-> PlainLeaf(<<"t">>)] :
     e \in {Address("plain", <<"a", "b">>)}, f \in Texts \cup {None}, r \in Lists(Texts, 2)}

MCInputs == [mail : ByContent, patterns : {<<>>}] \cup [mail : ByHeaders, patterns : Lists(Patterns, 2)]
=============================================================================
