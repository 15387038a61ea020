------------------------------ MODULE Outbound -----------------------------
(***************************************************************************)
(* A request body on its way out: the redaction, the attempts of the       *)
(* router with the key and the adapter of each provider, and the           *)
(* connection the body is sent on (internal/middleware, internal/proxy).   *)
(*                                                                         *)
(* The body lives in buffers that are replaced and zeroed on the way.      *)
(* bufs holds every buffer made for the request, in the order they were    *)
(* made; a buffer holds the client's text, the redacted one or zeros, in   *)
(* the form of the public API or of a provider.  The goroutine of          *)
(* net/http's transport that sends a body reads the buffer at its own pace *)
(* and may go on after the attempt has ended.                              *)
(***************************************************************************)
EXTENDS Redaction, Egress

CONSTANTS
  Providers,      \* the enabled providers
  Passthrough,    \* those whose adapter returns the body it is given
  Answers,        \* the addresses a resolver may answer with
  Requests        \* the requests with the configurations they meet

Modes == {"detect", "redact", "block"}

ASSUME OutboundAssumption ==
  \A r \in Requests :
    /\ r.mode \in Modes
    /\ \A e \in r.entries : ~e.host.literal => e.host.name \in Seq(STRING)
    /\ \A p \in Providers :
         ~r.urls[p].host.literal => r.urls[p].host.name \in Seq(STRING)

VARIABLES
  request,        \* the request: its mode, allowlist and providers' URLs
  pc,             \* the middleware that runs
  doc,            \* what is left of the body to redact
  done,           \* the values that have been processed, with their outputs
  tally,          \* values counted, bytes written, PII found, what is open
  bufs,           \* the buffers
  body,           \* ctx.RequestBody, 0 for none
  canonical,      \* the router's copy, 0 for none
  tried,          \* the providers that were tried
  attempt,        \* the provider of the attempt and whether another may follow
  key,            \* the provider whose key ctx.ProviderAPIKey holds
  flights,        \* the bodies the transport is sending
  received        \* what providers have received

redactVars == <<doc, done, tally>>
bodyVars == <<bufs, body, canonical>>
vars == <<request, pc, redactVars, bodyVars, tried, attempt, key, flights, received>>

NoProvider == "none"
Pcs == {"redact", "route", "attempts", "kms", "adapter", "dispatch", "dial", "sending",
        "blocked", "ended"}
Content == [text : {"raw", "redacted", "zero"}, form : {"openai"} \cup Providers]

(* The buffers, keys and connections have their types. *)
TypeOK ==
  /\ pc \in Pcs
  /\ tally.values \in 0 .. MaxValues /\ tally.size \in 0 .. MaxOutput
  /\ \A i \in 1 .. Len(bufs) : bufs[i] \in Content
  /\ body \in 0 .. Len(bufs) /\ canonical \in 0 .. Len(bufs)
  /\ tried \subseteq Providers
  /\ key \in Providers \cup {NoProvider}
  /\ \A f \in flights : f.body \in 1 .. Len(bufs) /\ f.provider \in tried

URLs(r) == {r.urls[p] : p \in Providers}
Allowed(r) == BindLegacyLoopbackAllowlistPorts(r.entries, URLs(r))

(* A request reaches a server that has started. *)
Init ==
  /\ \E r \in Requests :
       /\ ProvidersAllowed(Allowed(r), URLs(r))
       /\ request = [mode |-> r.mode, entries |-> r.entries, urls |-> r.urls]
       /\ doc = r.doc
  /\ pc = "redact"
  /\ done = <<>>
  /\ tally = [values |-> 0, size |-> 0, found |-> FALSE, stack |-> <<>>]
  /\ bufs = <<[text |-> "raw", form |-> "openai"]>>
  /\ body = 1
  /\ canonical = 0
  /\ tried = {}
  /\ attempt = [provider |-> NoProvider, fallback |-> FALSE]
  /\ key = NoProvider
  /\ flights = {}
  /\ received = {}
----------------------------------------------------------------------------
(* Buffers.                                                                *)

Zeroed(b, ids) == [i \in 1 .. Len(b) |-> IF i \in ids THEN [b[i] EXCEPT !.text = "zero"] ELSE b[i]]

ReplaceRequestBody_KeepsOld(c) ==
  /\ bufs' = Append(bufs, c)
  /\ body' = Len(bufs) + 1

(* replaceRequestBody with another buffer. *)
ReplaceRequestBody(c) ==
  /\ bufs' = Append(Zeroed(bufs, {body}), c)
  /\ body' = Len(bufs) + 1

(* The handlers return, or a panic unwinds them: the router's copy, the    *)
(* body and the key are zeroed.                                            *)
End ==
  /\ pc' = "ended"
  /\ bufs' = Zeroed(bufs, {body, canonical})
  /\ body' = 0
  /\ canonical' = 0
  /\ key' = NoProvider
----------------------------------------------------------------------------
(* PIIRedaction.                                                           *)

(* The next token of the body is processed.  Nothing may follow the value  *)
(* that is the body.                                                       *)
RedactValue ==
  /\ pc = "redact" /\ doc # <<>>
  /\ \E v \in {Head(doc)} : \E r \in {ProcessValue(request.mode, tally.stack, v)} :
     LET values == tally.values + Values(tally.stack, v)
         size == tally.size +
                   IF request.mode = "redact" /\ r.err = "none" THEN Size(tally.stack, v, r.out) ELSE 0
         trailing == tally.values > 0 /\ tally.stack = <<>>
     IN IF ~trailing /\ values <= MaxValues /\ r.err = "none" /\ size <= MaxOutput
        THEN /\ doc' = r.back \o Tail(doc)
             /\ done' = Append(done, [value |-> v, out |-> r.out])
             /\ tally' = [values |-> values, size |-> size, found |-> tally.found \/ r.found,
                          stack |-> r.stack]
             /\ UNCHANGED <<pc, bodyVars, key>>
        ELSE End /\ UNCHANGED redactVars
  /\ UNCHANGED <<request, tried, attempt, flights, received>>

Unfinished == tally.stack # <<>> \/ tally.values = 0

(* The body has ended, perhaps too early. *)
FinishRedaction ==
  /\ pc = "redact" /\ doc = <<>>
  /\ CASE Unfinished -> End
       [] ~Unfinished /\ request.mode = "detect" ->
            pc' = "route" /\ UNCHANGED <<bodyVars, key>>
       [] ~Unfinished /\ request.mode = "block" ->
            IF tally.found THEN End ELSE pc' = "route" /\ UNCHANGED <<bodyVars, key>>
       [] ~Unfinished /\ request.mode = "redact" ->
            /\ ReplaceRequestBody([text |-> "redacted", form |-> "openai"])
            /\ pc' = "route"
            /\ UNCHANGED <<canonical, key>>
  /\ UNCHANGED <<request, redactVars, tried, attempt, flights, received>>
----------------------------------------------------------------------------
(* The router, the key and the adapter.                                    *)

(* The router has found the model and its permission; it keeps a copy of   *)
(* the body.  What the redaction did is not looked at again.               *)
TakeCanonical ==
  /\ pc = "route"
  /\ pc' = "attempts"
  /\ bufs' = Append(bufs, bufs[body])
  /\ canonical' = Len(bufs) + 1
  /\ done' = <<>> /\ tally' = [tally EXCEPT !.values = 0, !.size = 0]
  /\ UNCHANGED <<request, doc, body, tried, attempt, key, flights, received>>

(* The body is not a request for a model the key may use. *)
RefuseModel ==
  /\ pc = "route" /\ End
  /\ UNCHANGED <<request, redactVars, tried, attempt, flights, received>>

StartAttempt_Aliased(p) ==
  /\ pc = "attempts" /\ p \notin tried
  /\ tried' = tried \cup {p}
  /\ bufs' = Zeroed(bufs, {body} \ {canonical})
  /\ body' = canonical
  /\ \E fallback \in BOOLEAN :
       /\ fallback => tried' # Providers
       /\ attempt' = [provider |-> p, fallback |-> fallback]
  /\ key' = NoProvider
  /\ pc' = "kms"
  /\ UNCHANGED <<request, redactVars, canonical, flights, received>>

(* Route picks a provider that was not tried; the attempt starts from a    *)
(* copy of the copy, and without what the last one left in the context.    *)
StartAttempt(p) ==
  /\ pc = "attempts" /\ p \notin tried
  /\ tried' = tried \cup {p}
  /\ ReplaceRequestBody(bufs[canonical])
  /\ \E fallback \in BOOLEAN :
       /\ fallback => tried' # Providers
       /\ attempt' = [provider |-> p, fallback |-> fallback]
  /\ key' = NoProvider
  /\ pc' = "kms"
  /\ UNCHANGED <<request, redactVars, canonical, flights, received>>

(* No provider is left, or their breakers are open. *)
NoChannel ==
  /\ pc = "attempts" /\ End
  /\ UNCHANGED <<request, redactVars, tried, attempt, flights, received>>

(* KMSInjector: the key of the attempt's provider. *)
InjectKey_First ==
  /\ pc = "kms"
  /\ \/ End
     \/ key' = (CHOOSE p \in tried : TRUE) /\ pc' = "adapter" /\ UNCHANGED bodyVars
  /\ UNCHANGED <<request, redactVars, tried, attempt, flights, received>>

InjectKey ==
  /\ pc = "kms"
  /\ \/ End
     \/ key' = attempt.provider /\ pc' = "adapter" /\ UNCHANGED bodyVars
  /\ UNCHANGED <<request, redactVars, tried, attempt, flights, received>>

Adapt_Untranslated ==
  /\ pc = "adapter"
  /\ pc' = "dispatch"
  /\ UNCHANGED <<bodyVars, key>>
  /\ UNCHANGED <<request, redactVars, tried, attempt, flights, received>>

(* Adapter: the body in the form of the provider.  Zeros are not JSON, and *)
(* a translation may refuse other bodies too.                              *)
Adapt ==
  /\ pc = "adapter"
  /\ \/ /\ attempt.provider \in Passthrough
        /\ pc' = "dispatch"
        /\ UNCHANGED <<bodyVars, key>>
     \/ /\ attempt.provider \notin Passthrough
        /\ bufs[body].text # "zero"
        /\ ReplaceRequestBody([bufs[body] EXCEPT !.form = attempt.provider])
        /\ pc' = "dispatch"
        /\ UNCHANGED <<canonical, key>>
     \/ attempt.provider \notin Passthrough /\ End
  /\ UNCHANGED <<request, redactVars, tried, attempt, flights, received>>
----------------------------------------------------------------------------
(* Proxy and Engine.Dispatch.                                              *)

URL == request.urls[attempt.provider]
AllowedRules == ParseAllowlist(Allowed(request))

(* An error of the transport leads to the next provider if there may be    *)
(* one; the key injector has closed the key.                               *)
AttemptFails ==
  \/ End
  \/ attempt.fallback /\ pc' = "attempts" /\ key' = NoProvider /\ UNCHANGED bodyVars

(* Dispatch looks at the credential, the URL and the allowlist. *)
Dispatch ==
  /\ pc = "dispatch"
  /\ IF \E p \in ParseHTTPSURL(URL) : EndpointAllowed(p, AllowedRules)
     THEN (pc' = "dial" /\ UNCHANGED <<bodyVars, key>>) \/ End
     ELSE pc' = "blocked" /\ UNCHANGED <<bodyVars, key>>
  /\ UNCHANGED <<request, redactVars, tried, attempt, flights, received>>

(* The addresses dialContext may connect to: the literal itself, or what   *)
(* the resolver answers if every address of the answer is public.          *)
Dialable(p, answer) ==
  CASE p.literal -> {p.host}
    [] ~p.literal /\ (\A a \in answer : PublicDNSAddress(a)) -> {a.ip : a \in answer}
    [] OTHER -> {}

(* The transport dials with the authority of the URL.  On a connection it  *)
(* starts to send the body; the key is in a header, and is closed.         *)
DialContext ==
  /\ pc = "dial"
  /\ LET authority == Authority(URL)
         endpoints == {p \in ParseAuthority(authority.host, authority.port) :
                         EndpointAllowed(p, AllowedRules)}
     IN IF endpoints = {}
        THEN pc' = "blocked" /\ UNCHANGED <<bodyVars, key, flights>>
        ELSE \/ AttemptFails /\ UNCHANGED flights
             \/ \E p \in endpoints, answer \in SUBSET Answers : \E ip \in Dialable(p, answer) :
                  /\ flights' = flights \cup
                       {[body |-> body, provider |-> attempt.provider, key |-> key,
                         ip |-> ip, port |-> p.port]}
                  /\ pc' = "sending"
                  /\ key' = NoProvider
                  /\ UNCHANGED bodyVars
  /\ UNCHANGED <<request, redactVars, tried, attempt, received>>

(* The transport reads a part of the buffer and sends it. *)
Send(f) ==
  /\ f \in flights
  /\ received' = received \cup {[flight |-> f, content |-> bufs[f.body]]}
  /\ UNCHANGED <<request, pc, redactVars, bodyVars, tried, attempt, key, flights>>

(* The body has been sent, or the connection is closed. *)
SendEnds(f) ==
  /\ f \in flights
  /\ flights' = flights \ {f}
  /\ UNCHANGED <<request, pc, redactVars, bodyVars, tried, attempt, key, received>>

(* The attempt has an answer, has failed or has timed out. *)
AttemptEnds ==
  /\ pc = "sending" /\ AttemptFails
  /\ UNCHANGED <<request, redactVars, tried, attempt, flights, received>>

(* A panic below the router. *)
Panic ==
  /\ pc \in {"kms", "adapter", "dispatch", "dial", "sending"} /\ End
  /\ UNCHANGED <<request, redactVars, tried, attempt, flights, received>>

Exited == pc = "ended" /\ flights = {} /\ UNCHANGED vars

Forward ==
  \/ FinishRedaction \/ TakeCanonical \/ RefuseModel
  \/ (\E p \in Providers : StartAttempt(p)) \/ NoChannel
  \/ InjectKey \/ Adapt \/ Dispatch \/ DialContext \/ AttemptEnds

Next ==
  \/ RedactValue \/ Forward \/ Panic
  \/ \E f \in flights : Send(f) \/ SendEnds(f)
  \/ Exited

Spec == Init /\ [][Next]_vars
----------------------------------------------------------------------------

Redacted == request.mode = "redact" /\ pc = "route"

(* The positions of a text that some rule matches. *)
Covered(text) ==
  {i \in 1 .. Len(text) :
     \E k \in Enabled : \E m \in FindAllStringIndex(Rules[k].word, text) :
       m.start < i /\ i <= m.end}

Marks == UNION {{Rules[k].replacement[i] : i \in 1 .. Len(Rules[k].replacement)} : k \in Enabled}
Unmarked(text) == SelectSeq(text, LAMBDA c : c \notin Marks)

(* The characters of a text, of which it is the part after offset, that no *)
(* rule covers.                                                            *)
Uncovered(text, offset, covered) ==
  FlattenSeq([i \in 1 .. Len(text) |-> IF offset + i \in covered THEN <<>> ELSE <<text[i]>>])

(* "the merged interval removes the full union, so rule ordering cannot    *)
(* cause partial disclosure" (redaction.go:859): redaction removes exactly *)
(* the characters that some rule matches in a string, or, for the text     *)
(* parts of a message, in the text they join to, and leaves no part it     *)
(* touches empty.                                                          *)
RedactionExact ==
  Redacted => \A i \in 1 .. Len(done) :
    LET v == done[i].value out == done[i].out IN
      /\ v.kind = "string" => Unmarked(out) = Uncovered(v.text, 0, Covered(v.text))
      /\ (v.kind = "parts" /\ out # <<>>) =>
           \A k \in 1 .. Len(v.parts) : \A m \in 1 .. Len(v.parts[k]) :
             LET part == v.parts[k]
                 inText == IsText(part) /\ part[m].name = TextKey
                 text == part[m].value.text
             IN part[m].value.kind = "string" =>
                  /\ Unmarked(out[k][m]) =
                       IF inText
                       THEN Uncovered(text, Offset(v.parts, k), Covered(JoinedText(v.parts)))
                       ELSE Uncovered(text, 0, Covered(text))
                  /\ text # <<>> => out[k][m] # <<>>

Value(digits) ==
  LET value[i \in 0 .. Len(digits)] ==
        IF i = 0 THEN 0
        ELSE 10 * value[i - 1] + (CHOOSE d \in 0 .. 9 : DigitChars[d + 1] = digits[i])
  IN value[Len(digits)]

(* The value of a number as a quotient. *)
Numerator(n) == Value(n.int \o n.frac) * 10 ^ Max({0, n.exp})
Denominator(n) == 10 ^ (Len(n.frac) + Max({0, -n.exp}))

(* "scientific/fractional spelling cannot hide phone or card digits"       *)
(* (redaction.go:377): in a body that goes out no rule matches a number's  *)
(* spelling, nor the decimal digits of an integer it is equal to.          *)
NumbersClean ==
  pc = "route" /\ request.mode # "detect" =>
    \A i \in 1 .. Len(done) : done[i].value.kind = "number" =>
      LET n == done[i].value.number IN
        /\ ~RulesMatchString(Spelling(n))
        /\ \A k \in Enabled : \A d \in 1 .. MaxDigits :
             LET q == Numerator(n) \div Denominator(n)
                 digits == [j \in 1 .. d |-> DigitChars[((q \div 10 ^ (d - j)) % 10) + 1]]
             IN (Numerator(n) % Denominator(n) = 0 /\ q < 10 ^ d /\ q >= 10 ^ (d - 1))
                  => ~\E j \in 0 .. d : Occurs(Rules[k].word, digits, j)

(* Nothing but the redacted text reaches a provider in any attempt, or     *)
(* zeros where a buffer was wiped while it was being sent, and in the form *)
(* of that provider; what is blocked on PII does not go out at all.        *)
OnlyRedactedLeaves ==
  \A r \in received :
    /\ request.mode = "redact" => r.content.text # "raw"
    /\ request.mode = "block" => ~tally.found
    /\ r.content.form =
         IF r.flight.provider \in Passthrough THEN "openai" ELSE r.flight.provider

(* Every attempt starts with the body the redaction left, whatever the     *)
(* adapter of an earlier attempt made of it and zeroed.                    *)
AttemptsStartAlike ==
  pc \in {"kms", "adapter"} =>
    bufs[body] = [text |-> IF request.mode = "redact" THEN "redacted" ELSE "raw",
                  form |-> "openai"]

(* A provider's key goes to that provider only. *)
KeyGoesToItsProvider == \A f \in flights : f.key = f.provider

(* An entry of the allowlist names what a flight is connected to: a        *)
(* literal with its port, or the URL's name or one above it.               *)
Within(r, f) ==
  \E e \in Allowed(r) :
    LET u == r.urls[f.provider] IN
      /\ f.port = IF e.port = 0 THEN 443 ELSE e.port
      /\ IF u.host.literal
         THEN e.host.literal /\ f.ip = e.host.ip /\ f.ip = u.host.ip
         ELSE /\ ~e.host.literal /\ f.ip \in Public
              /\ IF e.wild
                 THEN \E n \in 1 .. Len(u.host.name) - 1 :
                        e.host.name = SubSeq(u.host.name, n + 1, Len(u.host.name))
                 ELSE e.host.name = u.host.name

(* A connection is made only to what the allowlist names: a literal with   *)
(* its port, or a public address for a name it has or is above.            *)
ConnectsWithinAllowlist == \A f \in flights : Within(request, f)

(* A server that has started never refuses its own providers: the URL that *)
(* providerRuntime accepted passes Dispatch, and the authority the         *)
(* transport makes of it passes dialContext.                               *)
NeverBlocked == pc # "blocked"

(* "This struct is zeroed after the request completes" (pipeline.go:28):   *)
(* at the end of a request, however it ends, no buffer made for it has     *)
(* text left, and no key is open.                                          *)
WipedAtEnd ==
  pc = "ended" => key = NoProvider /\ \A i \in 1 .. Len(bufs) : bufs[i].text = "zero"
=============================================================================
