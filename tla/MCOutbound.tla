----------------------------- MODULE MCOutbound ----------------------------
(***************************************************************************)
(* The instances of Outbound for TLC: messages over three digits with      *)
(* rules that overlap, nest and begin together, cut into three parts; odd  *)
(* parts; numbers in several spellings; objects of two members; bodies     *)
(* that are not one value; and allowlists with two providers, of which one *)
(* translates the body.                                                    *)
(***************************************************************************)
EXTENDS Outbound

MCRules ==
  << [word |-> <<"1", "2">>, replacement |-> <<"A", "A", "A">>, enabled |-> TRUE],
     [word |-> <<"2", "0", "1">>, replacement |-> <<"B">>, enabled |-> TRUE],
     [word |-> <<"0", "0">>, replacement |-> <<"D">>, enabled |-> FALSE],
     [word |-> <<"1", "2", "0", "1">>, replacement |-> <<"C">>, enabled |-> TRUE] >>

String(t) == [kind |-> "string", text |-> t]
Key(t) == [kind |-> "key", text |-> t]
Number(neg, int, frac, exp) ==
  [kind |-> "number", number |-> [neg |-> neg, int |-> int, frac |-> frac, exp |-> exp]]
Literal == [kind |-> "literal"]
Invalid == [kind |-> "invalid"]
Parts(parts) == [kind |-> "parts", parts |-> parts]
Member(name, value) == [name |-> name, value |-> value]
TextPart(t) == <<Member(TypeKey, String(TextKey)), Member(TextKey, String(t))>>
OtherPart(t) == <<Member(TypeKey, String(<<"image">>)), Member(TextKey, String(t))>>

Object(tokens) == <<Opening("object")>> \o tokens \o <<Opening("close")>>
MessageOf(tokens) ==
  Object(<<Key(<<"messages">>), Opening("array")>>
           \o Object(<<Key(<<"content">>)>> \o tokens) \o <<Opening("close")>>)

Deep(n) == [i \in 1 .. n |-> Opening("array")] \o [i \in 1 .. n |-> Opening("close")]

(* Every text of up to four digits, and longer ones in which matches       *)
(* overlap in a chain, in every cut into three parts of which the middle   *)
(* one is text or not.                                                     *)
Texts ==
  UNION {[1 .. n -> {"0", "1", "2"}] : n \in 0 .. 4}
    \cup {<<"1", "2", "0", "1", "2">>, <<"0", "1", "2", "0", "1">>, <<"2", "0", "1", "2", "0">>,
          <<"1", "2", "1", "2", "0">>, <<"2", "0", "1", "2", "0", "1">>,
          <<"1", "2", "0", "1", "0", "1", "2">>}
Middle(t, text) == IF text THEN TextPart(t) ELSE OtherPart(t)
Cut(t, i, j, text) ==
  Parts(<<TextPart(SubSeq(t, 1, i)), Middle(SubSeq(t, i + 1, j), text),
          TextPart(SubSeq(t, j + 1, Len(t)))>>)
Messages ==
  UNION {UNION {{MessageOf(<<Cut(t, i, j, text)>>) : i \in 0 .. j, text \in BOOLEAN} :
                  j \in 0 .. Len(t)} : t \in Texts}

Numbers ==
  {<<Number(neg, int, frac, exp)>> :
     neg \in BOOLEAN,
     int \in {<<"0">>, <<"1">>, <<"2">>, <<"1", "0">>, <<"1", "2">>, <<"2", "0">>},
     frac \in {<<>>, <<"0">>, <<"2">>, <<"0", "1">>, <<"2", "0">>},
     exp \in -2 .. 3 \cup {9}}

(* Parts that are odd: text before its type, members twice, in the case of *)
(* another, of another type, with something in a key, or not to be read.   *)
OddParts ==
  {<<Member(TextKey, String(<<"1">>)), Member(TypeKey, String(TextKey))>>,
   <<Member(TypeKey, String(TextKey)), Member(TypeKey, Literal)>>,
   <<Member(<<"Text">>, String(<<"1">>)), Member(TypeKey, String(TextKey))>>,
   <<Member(TypeKey, Literal), Member(TextKey, String(<<"1", "2">>))>>,
   <<Member(TypeKey, String(TextKey)), Member(TextKey, Number(FALSE, <<"1", "2">>, <<>>, 0))>>,
   <<Member(<<"1", "2">>, Literal)>>, <<Member(<<"0">>, Literal), Member(<<"0">>, Literal)>>,
   <<Member(<<"0">>, Invalid)>>, <<Member(<<"0">>, String([i \in 1 .. 9 |-> "0"]))>>}
OddMessages == {MessageOf(<<Parts(<<part, TextPart(<<"2">>)>>)>>) : part \in OddParts}

Pool ==
  {<<String(<<"1", "2", "0">>)>>, <<String([i \in 1 .. 9 |-> "0"])>>, <<Literal>>, <<Invalid>>,
   <<String(<<"1", "2", "0", "1", "2", "0", "1">>)>>, <<String(<<"1", "2", "1", "2", "1", "2">>)>>,
   <<Number(FALSE, <<"1">>, <<"2">>, 1)>>, <<Number(FALSE, <<"0">>, <<>>, 0)>>,
   <<Parts(<<TextPart(<<"1">>), TextPart(<<"2">>)>>)>>, Deep(5),
   MessageOf(<<Parts([i \in 1 .. 4 |-> <<>>])>>)}
Keys == {<<"0">>, <<"1", "2">>, <<"Model">>, <<"messages">>}
Pairs == {Object(<<Key(<<"0">>)>> \o v \o <<Key(k)>> \o w) : k \in Keys, v, w \in Pool}
Odd == {v \o w : v, w \in Pool} \cup {<<>>, <<Opening("object")>>}
----------------------------------------------------------------------------

Name(labels, dot) == [literal |-> FALSE, name |-> labels, dot |-> dot]
IP(ip, zone) == [literal |-> TRUE, ip |-> ip, zone |-> zone, dot |-> FALSE]
URLOf(host, port) ==
  [scheme |-> "https", host |-> host, port |-> port, userinfo |-> FALSE, fragment |-> FALSE]
EntryOf(host, port) == [wild |-> FALSE, host |-> host, port |-> port]
Wild(host, port) == [wild |-> TRUE, host |-> host, port |-> port]

Entries ==
  {EntryOf(Name(<<"api", "org">>, FALSE), 0), EntryOf(Name(<<"org">>, TRUE), 0),
   EntryOf(Name(<<"api", "org">>, TRUE), 8443), Wild(Name(<<"org">>, FALSE), 0),
   Wild(Name(<<"org">>, FALSE), 8443), EntryOf(IP("public", FALSE), 443),
   EntryOf(IP("public", FALSE), 0), EntryOf(IP("local", FALSE), 0),
   EntryOf(IP("local", FALSE), 8443), EntryOf(IP("local", TRUE), 443),
   EntryOf(Name(<<"api", "-">>, FALSE), 0)}

MCURLs ==
  {URLOf(Name(<<"api", "org">>, FALSE), 0), URLOf(Name(<<"api", "org">>, TRUE), 443),
   URLOf(Name(<<"org">>, FALSE), 0), URLOf(Name(<<"api", "org">>, FALSE), 8443),
   URLOf(IP("public", FALSE), 0), URLOf(IP("local", FALSE), 8443),
   URLOf(IP("local", FALSE), 70000),
   [URLOf(Name(<<"api", "org">>, FALSE), 0) EXCEPT !.scheme = "http"]}

MCAnswers == {[ip |-> "public", zone |-> FALSE], [ip |-> "other", zone |-> FALSE],
              [ip |-> "local", zone |-> FALSE]}

Plain == [entries |-> {EntryOf(Name(<<"org">>, FALSE), 0)},
          urls |-> [p \in Providers |-> URLOf(Name(<<"org">>, FALSE), 0)]]

RequestOf(d, mode, entries, urls) ==
  [doc |-> d, mode |-> mode, entries |-> entries, urls |-> urls]

MCRequests ==
  {RequestOf(d, "redact", Plain.entries, Plain.urls) : d \in Messages}
    \cup {RequestOf(d, mode, Plain.entries, Plain.urls) :
            d \in Pairs \cup Numbers \cup OddMessages \cup Odd, mode \in {"redact", "detect", "block"}}
    \cup {RequestOf(<<String(<<"1", "2">>)>>, "redact", entries, urls) :
            entries \in {{e, f} : e, f \in Entries}, urls \in [Providers -> MCURLs]}
=============================================================================
