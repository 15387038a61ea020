--------------------------- MODULE OutboundProofs ---------------------------
(***************************************************************************)
(* For any providers, requests, allowlists and resolvers: what is left of  *)
(* a request's buffers and keys, what reaches a provider, and where the    *)
(* gateway connects to.                                                    *)
(*                                                                         *)
(* What carries the first two is BufferInv: every buffer but the body and  *)
(* the router's copy is zero, and from the redaction on those two hold the *)
(* text that may leave, in the form the step they are at asks for.  The    *)
(* last rests on Egress: the authority that the transport makes of a URL   *)
(* names the endpoint that the start of the server has checked.            *)
(***************************************************************************)
EXTENDS Outbound, TLAPS

(* The body that the redaction leaves. *)
Text == IF request.mode = "redact" THEN "redacted" ELSE "raw"
Sent == [text |-> Text, form |-> "openai"]

(* The form in which a provider gets the body. *)
FormOf(p) == IF p \in Passthrough THEN "openai" ELSE p

Attempting == {"kms", "adapter", "dispatch", "dial", "sending"}

BufferInv ==
  /\ bufs \in Seq(Content)
  /\ body \in 0 .. Len(bufs) /\ canonical \in 0 .. Len(bufs)
  /\ \A i \in 1 .. Len(bufs) : i \in {body, canonical} \/ bufs[i].text = "zero"
  /\ pc = "redact" => body # 0 /\ bufs[body] = [text |-> "raw", form |-> "openai"]
  /\ pc \in {"redact", "route"} => canonical = 0
  /\ pc = "route" => body # 0 /\ bufs[body] = Sent
  /\ pc \in {"attempts"} \cup Attempting =>
       canonical # 0 /\ bufs[canonical] = Sent /\ body \notin {0, canonical}
  /\ pc \in {"kms", "adapter"} => bufs[body] = Sent
  /\ pc \in {"dispatch", "dial"} =>
       bufs[body] = [text |-> Text, form |-> FormOf(attempt.provider)]
  /\ pc = "ended" => body = 0 /\ canonical = 0

(* What may be read from a buffer that is being sent. *)
Clean(c, p) == c.text \in {Text, "zero"} /\ c.form = FormOf(p)

FlightInv ==
  /\ pc \in {"redact", "route"} => flights = {} /\ received = {}
  /\ \A f \in flights :
       /\ f.body \in 1 .. Len(bufs) /\ f.body # canonical
       /\ f.provider \in Providers /\ f.key = f.provider
       /\ Clean(bufs[f.body], f.provider)
  /\ \A r \in received : Clean(r.content, r.flight.provider)

ControlInv ==
  /\ pc \in Pcs
  /\ tried \subseteq Providers
  /\ pc \in Attempting => attempt.provider \in tried
  /\ pc \in {"adapter", "dispatch", "dial"} => key = attempt.provider
  /\ pc = "ended" => key = NoProvider
  /\ tally \in [values : {tally.values}, size : {tally.size}, found : {tally.found},
                stack : {tally.stack}]
  /\ pc \notin {"redact", "ended"} \/ received # {} \/ flights # {} =>
       (request.mode = "block" => ~tally.found)

(* The request came to a server whose providers passed providerRuntime. *)
RequestInv ==
  \E r \in Requests :
    /\ request = [mode |-> r.mode, entries |-> r.entries, urls |-> r.urls]
    /\ ProvidersAllowed(Allowed(r), URLs(r))

(* The inductive invariant. *)
IInv ==
  BufferInv /\ FlightInv /\ ControlInv /\ RequestInv /\ ConnectsWithinAllowlist /\ NeverBlocked
----------------------------------------------------------------------------

(* Zeroing keeps the buffers, their forms and the text of all but ids. *)
LEMMA ZeroedBufs ==
  ASSUME NEW b \in Seq(Content), NEW ids
  PROVE  /\ Zeroed(b, ids) \in Seq(Content) /\ Len(Zeroed(b, ids)) = Len(b)
         /\ \A i \in 1 .. Len(b) :
              /\ Zeroed(b, ids)[i].form = b[i].form
              /\ i \in ids => Zeroed(b, ids)[i].text = "zero"
              /\ i \notin ids => Zeroed(b, ids)[i] = b[i]
<1>1. Len(b) \in Nat
  OBVIOUS
<1>2. ASSUME NEW i \in 1 .. Len(b)
      PROVE  /\ [b[i] EXCEPT !.text = "zero"] \in Content
             /\ [b[i] EXCEPT !.text = "zero"].text = "zero"
             /\ [b[i] EXCEPT !.text = "zero"].form = b[i].form
  <2>1. b[i] \in Content
    OBVIOUS
  <2> DEFINE c == b[i]
  <2> HIDE DEF c
  <2>2. c \in Content
    BY <2>1 DEF c
  <2>3. [c EXCEPT !.text = "zero"] \in Content
    BY <2>2, ZenonT(60) DEF Content
  <2>4. [c EXCEPT !.text = "zero"].text = "zero" /\ [c EXCEPT !.text = "zero"].form = c.form
    BY <2>2 DEF Content
  <2> QED
    BY <2>3, <2>4, Zenon DEF c
<1> DEFINE z == [i \in 1 .. Len(b) |-> IF i \in ids THEN [b[i] EXCEPT !.text = "zero"] ELSE b[i]]
<1>3. \A i \in 1 .. Len(b) : z[i] = IF i \in ids THEN [b[i] EXCEPT !.text = "zero"] ELSE b[i]
  OBVIOUS
<1>4. z \in [1 .. Len(b) -> Content]
  <2>1. \A i \in 1 .. Len(b) : b[i] \in Content
    OBVIOUS
  <2> QED
    BY <1>2, <2>1, Zenon
<1>5. z = Zeroed(b, ids)
  BY DEF Zeroed
<1> HIDE DEF z
<1>6. z \in Seq(Content) /\ Len(z) = Len(b)
  BY <1>1, <1>4, SMTT(60)
<1>7. ASSUME NEW i \in 1 .. Len(b)
      PROVE  /\ z[i].form = b[i].form
             /\ i \in ids => z[i].text = "zero"
             /\ i \notin ids => z[i] = b[i]
  <2>1. CASE i \in ids
    <3>1. z[i] = [b[i] EXCEPT !.text = "zero"]
      BY <1>3, <2>1, Zenon
    <3>2. z[i].text = "zero" /\ z[i].form = b[i].form
      BY <1>2, <3>1, Zenon
    <3> QED
      BY <2>1, <3>2, SMTT(60)
  <2>2. CASE i \notin ids
    <3>1. z[i] = b[i]
      BY <1>3, <2>2, Zenon
    <3> QED
      BY <2>2, <3>1, SMTT(60)
  <2> QED
    BY <2>1, <2>2
<1> QED
  BY <1>5, <1>6, <1>7, SMTT(60)

(* replaceRequestBody: the old body is zero, and the new one is c. *)
LEMMA ReplacedBufs ==
  ASSUME BufferInv, NEW c \in Content, body # 0, ReplaceRequestBody(c)
  PROVE  /\ bufs' \in Seq(Content) /\ Len(bufs') = Len(bufs) + 1
         /\ body' = Len(bufs) + 1 /\ body' \in 1 .. Len(bufs') /\ bufs'[body'] = c
         /\ \A i \in 1 .. Len(bufs) :
              /\ bufs'[i].form = bufs[i].form
              /\ i = body => bufs'[i].text = "zero"
              /\ i # body => bufs'[i] = bufs[i]
<1> DEFINE z == Zeroed(bufs, {body})
<1>1. /\ z \in Seq(Content) /\ Len(z) = Len(bufs)
      /\ \A i \in 1 .. Len(bufs) :
           /\ z[i].form = bufs[i].form
           /\ i \in {body} => z[i].text = "zero"
           /\ i \notin {body} => z[i] = bufs[i]
  BY ZeroedBufs DEF BufferInv
<1>2. bufs' = Append(z, c) /\ body' = Len(bufs) + 1
  BY DEF ReplaceRequestBody
<1> HIDE DEF z
<1>3. bufs' \in Seq(Content) /\ Len(bufs') = Len(bufs) + 1 /\ bufs'[body'] = c
        /\ \A i \in 1 .. Len(bufs) : bufs'[i] = z[i]
  BY <1>1, <1>2, SMTT(60)
<1>4. Len(bufs) \in Nat
  BY DEF BufferInv
<1> QED
  BY <1>1, <1>2, <1>3, <1>4, SMTT(60)

(* At the end every buffer is zero. *)
LEMMA EndedBufs ==
  ASSUME BufferInv, End
  PROVE  /\ bufs' \in Seq(Content) /\ Len(bufs') = Len(bufs) /\ body' = 0 /\ canonical' = 0
         /\ \A i \in 1 .. Len(bufs) :
              bufs'[i].form = bufs[i].form /\ bufs'[i].text = "zero"
<1>1. /\ bufs' = Zeroed(bufs, {body, canonical}) /\ body' = 0 /\ canonical' = 0
      /\ bufs \in Seq(Content)
  BY DEF End, BufferInv
<1>2. /\ bufs' \in Seq(Content) /\ Len(bufs') = Len(bufs)
      /\ \A i \in 1 .. Len(bufs) :
           /\ bufs'[i].form = bufs[i].form
           /\ i \in {body, canonical} => bufs'[i].text = "zero"
           /\ i \notin {body, canonical} => bufs'[i] = bufs[i]
  BY <1>1, ZeroedBufs
<1> QED
  BY <1>1, <1>2, ZenonT(60) DEF BufferInv

(* The flights go on reading what they may while buffers are zeroed and    *)
(* added.                                                                  *)
LEMMA FlightsKept ==
  ASSUME IInv, request' = request, flights' \subseteq flights, received' = received,
         Len(bufs') \in Nat, Len(bufs') >= Len(bufs),
         \A i \in 1 .. Len(bufs) :
           bufs'[i].form = bufs[i].form /\ bufs'[i].text \in {bufs[i].text, "zero"},
         canonical' \in {canonical, 0, Len(bufs) + 1},
         pc' \in {"redact", "route"} => pc \in {"redact", "route"}
  PROVE  FlightInv' /\ ConnectsWithinAllowlist' /\ RequestInv'
<1>1. Len(bufs) \in Nat /\ Text' = Text
  BY DEF IInv, BufferInv, Text
<1>2. ASSUME NEW f \in flights'
      PROVE  (/\ f.body \in 1 .. Len(bufs) /\ f.body # canonical
              /\ f.provider \in Providers /\ f.key = f.provider
              /\ Clean(bufs[f.body], f.provider))'
  <2>1. /\ f.body \in 1 .. Len(bufs) /\ f.body # canonical
        /\ f.provider \in Providers /\ f.key = f.provider
        /\ bufs[f.body].text \in {Text, "zero"} /\ bufs[f.body].form = FormOf(f.provider)
    BY <1>2 DEF IInv, FlightInv, Clean
  <2>2. f.body \in 1 .. Len(bufs') /\ f.body # canonical'
    BY <1>1, <2>1
  <2>3. bufs'[f.body].text \in {Text, "zero"} /\ bufs'[f.body].form = FormOf(f.provider)
    BY <2>1
  <2> QED
    BY <1>1, <2>1, <2>2, <2>3 DEF Clean
<1>3. FlightInv'
  <2>1. \A r \in received' : Clean(r.content, r.flight.provider)'
    BY <1>1 DEF IInv, FlightInv, Clean
  <2>2. pc' \in {"redact", "route"} => flights' = {} /\ received' = {}
    BY DEF IInv, FlightInv
  <2> QED
    BY <1>2, <2>1, <2>2, SMTT(60) DEF FlightInv
<1>4. ConnectsWithinAllowlist'
  BY DEF IInv, ConnectsWithinAllowlist
<1>5. RequestInv'
  BY DEF IInv, RequestInv
<1> QED
  BY <1>3, <1>4, <1>5

(* The request ends: the body and the copy of the router are zeroed and    *)
(* the key is closed.                                                      *)
LEMMA EndStep ==
  ASSUME IInv, End, UNCHANGED <<request, tally, tried, attempt, flights, received>>
  PROVE  IInv'
<1>1. BufferInv /\ ControlInv
  BY DEF IInv
<1>2. /\ bufs' \in Seq(Content) /\ Len(bufs') = Len(bufs) /\ body' = 0 /\ canonical' = 0
      /\ \A i \in 1 .. Len(bufs) :
           bufs'[i].form = bufs[i].form /\ bufs'[i].text = "zero"
  BY <1>1, EndedBufs, SMTT(60)
<1>3. pc' = "ended" /\ key' = NoProvider /\ Len(bufs) \in Nat
  BY <1>1 DEF End, BufferInv
<1>4. BufferInv'
  BY <1>2, <1>3 DEF BufferInv, Attempting
<1>5. FlightInv' /\ ConnectsWithinAllowlist' /\ RequestInv'
  BY <1>2, <1>3, FlightsKept, SMTT(60)
<1>6. ControlInv'
  BY <1>1, <1>3 DEF ControlInv, Pcs, Attempting
<1> QED
  BY <1>3, <1>4, <1>5, <1>6, SMTT(60) DEF IInv, NeverBlocked

(* A step of the handlers that leaves the buffers and the flights alone. *)
LEMMA SameBuffers ==
  ASSUME IInv, UNCHANGED <<request, bodyVars, received>>, flights' \subseteq flights,
         pc' \in {"redact", "route"} => pc \in {"redact", "route"}
  PROVE  FlightInv' /\ ConnectsWithinAllowlist' /\ RequestInv'
<1>1. Len(bufs') \in Nat /\ Len(bufs') = Len(bufs) /\ bufs' = bufs /\ canonical' = canonical
        /\ request' = request /\ received' = received
  BY DEF IInv, BufferInv, bodyVars
<1> QED
  BY <1>1, FlightsKept

(* The redaction reads one value of the body. *)
LEMMA RedactValueStep ==
  ASSUME IInv, RedactValue
  PROVE  IInv'
<1>1. pc = "redact" /\ UNCHANGED <<request, tried, attempt, flights, received>>
  BY DEF RedactValue
<1>2. CASE End /\ UNCHANGED redactVars
  BY <1>1, <1>2, EndStep, SMTT(60) DEF redactVars
<1>3. CASE /\ UNCHANGED <<pc, bodyVars, key>>
           /\ \E values, size, found, stack :
                tally' = [values |-> values, size |-> size, found |-> found, stack |-> stack]
  <2>1. FlightInv' /\ ConnectsWithinAllowlist' /\ RequestInv'
    BY <1>1, <1>3, SameBuffers, SMTT(60)
  <2>2. BufferInv'
    BY <1>1, <1>3 DEF IInv, BufferInv, bodyVars, Attempting
  <2>3. flights' = {} /\ received' = {}
    BY <1>1 DEF IInv, FlightInv
  <2>4. tally' \in [values : {tally'.values}, size : {tally'.size}, found : {tally'.found},
                    stack : {tally'.stack}]
    BY <1>3
  <2>5. ControlInv'
    BY <1>1, <1>3, <2>3, <2>4, SMTT(60) DEF IInv, ControlInv, Attempting
  <2> QED
    BY <1>1, <1>3, <2>1, <2>2, <2>5, SMTT(60) DEF IInv, NeverBlocked
<1> QED
  BY <1>2, <1>3, Zenon DEF RedactValue

(* The redaction ends: the body is replaced, kept, or blocked. *)
LEMMA FinishRedactionStep ==
  ASSUME IInv, FinishRedaction
  PROVE  IInv'
<1>1. pc = "redact" /\ UNCHANGED <<request, redactVars, tried, attempt, flights, received>>
  BY DEF FinishRedaction
<1>2. CASE End
  BY <1>1, <1>2, EndStep DEF redactVars
<1>a. /\ flights = {} /\ received = {} /\ BufferInv /\ ControlInv
      /\ body # 0 /\ bufs[body] = [text |-> "raw", form |-> "openai"] /\ canonical = 0
      /\ body \in 1 .. Len(bufs) /\ Len(bufs) \in Nat
  BY <1>1 DEF IInv, FlightInv, BufferInv
<1>3. CASE /\ request.mode # "redact" /\ (request.mode = "block" => ~tally.found)
           /\ pc' = "route" /\ UNCHANGED <<bodyVars, key>>
  <2>1. FlightInv' /\ ConnectsWithinAllowlist' /\ RequestInv'
    BY <1>1, <1>3, SameBuffers, SMTT(60)
  <2>2. BufferInv'
    BY <1>1, <1>3, <1>a DEF BufferInv, bodyVars, Attempting, Sent, Text
  <2>3. ControlInv'
    BY <1>1, <1>3, <1>a DEF ControlInv, Attempting, Pcs, redactVars
  <2> QED
    BY <1>3, <2>1, <2>2, <2>3, SMTT(60) DEF IInv, NeverBlocked
<1>4. CASE /\ request.mode = "redact" /\ ReplaceRequestBody([text |-> "redacted", form |-> "openai"])
           /\ pc' = "route" /\ UNCHANGED <<canonical, key>>
  <2>1. [text |-> "redacted", form |-> "openai"] \in Content
    BY DEF Content
  <2>2. /\ bufs' \in Seq(Content) /\ Len(bufs') = Len(bufs) + 1
        /\ body' = Len(bufs) + 1 /\ body' \in 1 .. Len(bufs')
        /\ bufs'[body'] = [text |-> "redacted", form |-> "openai"]
        /\ \A i \in 1 .. Len(bufs) :
             /\ bufs'[i].form = bufs[i].form
             /\ i = body => bufs'[i].text = "zero"
             /\ i # body => bufs'[i] = bufs[i]
    BY <1>4, <1>a, <2>1, ReplacedBufs, SMTT(60)
  <2>3. Len(bufs') \in Nat
    BY <1>a, <2>2, SMTT(60)
  <2>4. FlightInv' /\ ConnectsWithinAllowlist' /\ RequestInv'
    BY <1>1, <1>4, <1>a, <2>2, <2>3, FlightsKept, SMTT(60)
  <2>5. \A i \in 1 .. Len(bufs') : i \in {body', canonical'} \/ bufs'[i].text = "zero"
    BY <1>4, <1>a, <2>2, SMTT(60) DEF BufferInv
  <2>6. BufferInv'
    BY <1>1, <1>4, <1>a, <2>2, <2>3, <2>5, SMTT(60) DEF BufferInv, Attempting, Sent, Text
  <2>7. ControlInv'
    BY <1>1, <1>4, <1>a, SMTT(60) DEF ControlInv, Attempting, Pcs, redactVars
  <2> QED
    BY <1>4, <2>4, <2>6, <2>7, SMTT(60) DEF IInv, NeverBlocked
<1>5. request.mode \in Modes
  BY OutboundAssumption DEF IInv, RequestInv
<1> QED
  BY <1>2, <1>3, <1>4, <1>5, ZenonT(60) DEF FinishRedaction, Modes

(* The router takes its copy of the body. *)
LEMMA TakeCanonicalStep ==
  ASSUME IInv, TakeCanonical
  PROVE  IInv'
<1>1. /\ pc = "route" /\ pc' = "attempts" /\ bufs' = Append(bufs, bufs[body])
      /\ canonical' = Len(bufs) + 1 /\ body' = body
      /\ tally' = [tally EXCEPT !.values = 0, !.size = 0]
      /\ UNCHANGED <<request, tried, attempt, key, flights, received>>
  BY DEF TakeCanonical
<1>2. /\ BufferInv /\ ControlInv /\ bufs \in Seq(Content) /\ Len(bufs) \in Nat
      /\ body \in 1 .. Len(bufs) /\ bufs[body] = Sent /\ canonical = 0
      /\ \A i \in 1 .. Len(bufs) : i = body \/ bufs[i].text = "zero"
      /\ flights = {} /\ received = {}
  BY <1>1 DEF IInv, BufferInv, FlightInv
<1>3. bufs[body] \in Content
  BY <1>2
<1>4. /\ bufs' \in Seq(Content) /\ Len(bufs') = Len(bufs) + 1 /\ bufs'[Len(bufs) + 1] = bufs[body]
      /\ \A i \in 1 .. Len(bufs) : bufs'[i] = bufs[i]
  BY <1>1, <1>2, <1>3, SMTT(60)
<1>5. FlightInv' /\ ConnectsWithinAllowlist' /\ RequestInv'
  <2>1. Len(bufs') \in Nat /\ Len(bufs') >= Len(bufs)
    BY <1>2, <1>4
  <2> QED
    BY <1>1, <1>4, <2>1, FlightsKept, SMTT(60)
<1>6. Sent' = Sent
  BY <1>1 DEF Sent, Text
<1>7. \A i \in 1 .. Len(bufs') : i \in {body', canonical'} \/ bufs'[i].text = "zero"
  BY <1>1, <1>2, <1>4, SMTT(60)
<1>8. body' \in 1 .. Len(bufs') /\ canonical' \in 1 .. Len(bufs') /\ body' # canonical'
        /\ bufs'[canonical'] = Sent
  BY <1>1, <1>2, <1>4, SMTT(60)
<1>9. BufferInv'
  BY <1>1, <1>4, <1>6, <1>7, <1>8, SMTT(60) DEF BufferInv, Attempting
<1>10. /\ tally' \in [values : {tally'.values}, size : {tally'.size}, found : {tally'.found},
                      stack : {tally'.stack}]
       /\ tally'.found = tally.found
  <2>1. tally \in [values : {tally.values}, size : {tally.size}, found : {tally.found},
                   stack : {tally.stack}]
    BY <1>2 DEF ControlInv
  <2> QED
    BY <1>1, <2>1, ZenonT(60)
<1>11. ControlInv'
  BY <1>1, <1>2, <1>10 DEF ControlInv, Attempting, Pcs
<1> QED
  BY <1>1, <1>5, <1>9, <1>11, SMTT(60) DEF IInv, NeverBlocked

(* resetAttempt: the body of an attempt is made from the copy. *)
LEMMA StartAttemptStep ==
  ASSUME IInv, NEW p \in Providers, StartAttempt(p)
  PROVE  IInv'
<1>1. /\ pc = "attempts" /\ pc' = "kms" /\ tried' = tried \cup {p}
      /\ ReplaceRequestBody(bufs[canonical]) /\ key' = NoProvider
      /\ attempt'.provider = p
      /\ UNCHANGED <<request, redactVars, canonical, flights, received>>
  <2>1. PICK fallback \in BOOLEAN : attempt' = [provider |-> p, fallback |-> fallback]
    BY DEF StartAttempt
  <2>2. attempt'.provider = p
    BY <2>1, SMTT(60)
  <2> QED
    BY <2>2 DEF StartAttempt
<1>2. /\ BufferInv /\ ControlInv /\ bufs \in Seq(Content) /\ Len(bufs) \in Nat
      /\ body \in 1 .. Len(bufs) /\ canonical \in 1 .. Len(bufs) /\ body # 0 /\ body # canonical
      /\ bufs[canonical] = Sent
      /\ \A i \in 1 .. Len(bufs) : i \in {body, canonical} \/ bufs[i].text = "zero"
  BY <1>1 DEF IInv, BufferInv, FlightInv
<1>3. bufs[canonical] \in Content
  BY <1>2
<1>4. /\ bufs' \in Seq(Content) /\ Len(bufs') = Len(bufs) + 1
      /\ body' = Len(bufs) + 1 /\ body' \in 1 .. Len(bufs')
      /\ bufs'[body'] = Sent
      /\ \A i \in 1 .. Len(bufs) :
           /\ bufs'[i].form = bufs[i].form
           /\ i = body => bufs'[i].text = "zero"
           /\ i # body => bufs'[i] = bufs[i]
  BY <1>1, <1>2, <1>3, ReplacedBufs, SMTT(60)
<1>5. FlightInv' /\ ConnectsWithinAllowlist' /\ RequestInv'
  <2>1. Len(bufs') \in Nat /\ Len(bufs') >= Len(bufs)
    BY <1>2, <1>4
  <2> QED
    BY <1>1, <1>4, <2>1, FlightsKept, SMTT(60)
<1>6. Sent' = Sent
  BY <1>1 DEF Sent, Text
<1>7. \A i \in 1 .. Len(bufs') : i \in {body', canonical'} \/ bufs'[i].text = "zero"
  BY <1>1, <1>2, <1>4
<1>8. canonical' \in 1 .. Len(bufs') /\ body' # canonical' /\ bufs'[canonical'] = Sent
  BY <1>1, <1>2, <1>4, SMTT(60)
<1>9. BufferInv'
  BY <1>1, <1>4, <1>6, <1>7, <1>8, SMTT(60) DEF BufferInv, Attempting
<1>10. ControlInv'
  BY <1>1, <1>2 DEF ControlInv, Attempting, Pcs, redactVars
<1> QED
  BY <1>1, <1>5, <1>9, <1>10, SMTT(60) DEF IInv, NeverBlocked

(* KMSInjector puts the key of the provider into the context, or fails. *)
LEMMA InjectKeyStep ==
  ASSUME IInv, InjectKey
  PROVE  IInv'
<1>1. pc = "kms" /\ UNCHANGED <<request, redactVars, tried, attempt, flights, received>>
  BY DEF InjectKey
<1>2. CASE End
  BY <1>1, <1>2, EndStep DEF redactVars
<1>3. CASE key' = attempt.provider /\ pc' = "adapter" /\ UNCHANGED bodyVars
  <2>1. FlightInv' /\ ConnectsWithinAllowlist' /\ RequestInv'
    BY <1>1, <1>3, SameBuffers, SMTT(60)
  <2>2. BufferInv'
    BY <1>1, <1>3, SMTT(60) DEF IInv, BufferInv, bodyVars, Attempting, Sent, Text
  <2>3. ControlInv'
    BY <1>1, <1>3 DEF IInv, ControlInv, Attempting, Pcs, redactVars
  <2> QED
    BY <1>3, <2>1, <2>2, <2>3, SMTT(60) DEF IInv, NeverBlocked
<1> QED
  BY <1>2, <1>3 DEF InjectKey

(* The adapter writes the body in the form of the provider. *)
LEMMA AdaptStep ==
  ASSUME IInv, Adapt
  PROVE  IInv'
<1> DEFINE p == attempt.provider
           c == [bufs[body] EXCEPT !.form = p]
<1>1. pc = "adapter" /\ UNCHANGED <<request, redactVars, tried, attempt, flights, received>>
  BY DEF Adapt
<1>2. CASE End
  BY <1>1, <1>2, EndStep, SMTT(60) DEF redactVars
<1>a. /\ BufferInv /\ ControlInv /\ bufs \in Seq(Content) /\ Len(bufs) \in Nat
      /\ body \in 1 .. Len(bufs) /\ canonical \in 1 .. Len(bufs) /\ body # 0 /\ body # canonical
      /\ bufs[canonical] = Sent /\ bufs[body] = Sent /\ p \in Providers
      /\ \A i \in 1 .. Len(bufs) : i \in {body, canonical} \/ bufs[i].text = "zero"
  BY <1>1 DEF IInv, BufferInv, ControlInv, Attempting
<1>b. Sent' = Sent /\ Text' = Text
  BY <1>1 DEF Sent, Text
<1>3. CASE p \in Passthrough /\ pc' = "dispatch" /\ UNCHANGED <<bodyVars, key>>
  <2>1. FlightInv' /\ ConnectsWithinAllowlist' /\ RequestInv'
    BY <1>1, <1>3, SameBuffers, SMTT(60)
  <2>2. Sent = [text |-> Text, form |-> FormOf(p)]
    BY <1>3 DEF Sent, FormOf
  <2>3. BufferInv'
    BY <1>1, <1>3, <1>a, <1>b, <2>2, SMTT(60) DEF BufferInv, bodyVars, Attempting
  <2>4. ControlInv'
    BY <1>1, <1>3, <1>a, SMTT(60) DEF ControlInv, Attempting, Pcs, redactVars
  <2> QED
    BY <1>3, <2>1, <2>3, <2>4, SMTT(60) DEF IInv, NeverBlocked
<1>4. CASE /\ p \notin Passthrough /\ ReplaceRequestBody(c)
           /\ pc' = "dispatch" /\ UNCHANGED <<canonical, key>>
  <2>1. c = [text |-> Text, form |-> FormOf(p)]
    <3>1. bufs[body] = [text |-> Text, form |-> "openai"] /\ FormOf(p) = p
      BY <1>4, <1>a DEF Sent, FormOf
    <3> QED
      BY <3>1
  <2>2. c \in Content
    BY <1>4, <1>a, <2>1, SMTT(60) DEF Content, Text, FormOf
  <2> HIDE DEF c
  <2>3. /\ bufs' \in Seq(Content) /\ Len(bufs') = Len(bufs) + 1
        /\ body' = Len(bufs) + 1 /\ body' \in 1 .. Len(bufs')
        /\ bufs'[body'] = c
        /\ \A i \in 1 .. Len(bufs) :
             /\ bufs'[i].form = bufs[i].form
             /\ i = body => bufs'[i].text = "zero"
             /\ i # body => bufs'[i] = bufs[i]
    BY <1>4, <1>a, <2>2, ReplacedBufs, SMTT(60)
  <2>4. Len(bufs') \in Nat
    BY <1>a, <2>3, SMTT(60)
  <2>5. FlightInv' /\ ConnectsWithinAllowlist' /\ RequestInv'
    BY <1>1, <1>4, <1>a, <2>3, <2>4, FlightsKept, SMTT(60)
  <2>6. \A i \in 1 .. Len(bufs') : i \in {body', canonical'} \/ bufs'[i].text = "zero"
    BY <1>4, <1>a, <2>3, SMTT(60)
  <2>7. canonical' \in 1 .. Len(bufs') /\ body' # canonical' /\ bufs'[canonical'] = Sent
    BY <1>4, <1>a, <2>3, SMTT(60)
  <2>8. BufferInv'
    BY <1>1, <1>4, <1>b, <2>1, <2>3, <2>6, <2>7, SMTT(60) DEF BufferInv, Attempting
  <2>9. ControlInv'
    BY <1>1, <1>4, <1>a, SMTT(60) DEF ControlInv, Attempting, Pcs, redactVars
  <2> QED
    BY <1>4, <2>5, <2>8, <2>9, SMTT(60) DEF IInv, NeverBlocked
<1> QED
  BY <1>2, <1>3, <1>4, SMTT(60) DEF Adapt
----------------------------------------------------------------------------

(* The endpoint of a host and a port. *)
EndpointOf(h, port, q) ==
  /\ q.port = IF port = 0 THEN 443 ELSE port
  /\ h.literal => q.literal = TRUE /\ q.host = h.ip
  /\ ~h.literal => q.literal = FALSE /\ q.host = h.name /\ ValidateDNSName(h.name)

(* parseRuleAuthority returns the endpoint of its host and port. *)
LEMMA Endpoints ==
  ASSUME NEW h, NEW port, NEW q \in ParseRuleAuthority(h, port)
  PROVE  EndpointOf(h, port, q)
<1>1. PICK n : q \in EndpointForHost(h, n) /\ n = IF port = 0 THEN 443 ELSE port
  BY DEF ParseRuleAuthority, NormalizePort, DefaultPort
<1> QED
  BY <1>1 DEF EndpointForHost, EndpointOf

(* The authority that net/http makes of a URL parses to the endpoint that  *)
(* the URL does, the default port filled in.                               *)
LEMMA SameEndpoint ==
  ASSUME NEW u, ParseHTTPSURL(u) # {}
  PROVE  ParseAuthority(Authority(u).host, Authority(u).port) = ParseHTTPSURL(u)
<1>1. ParseHTTPSURL(u) = ParseRuleAuthority(u.host, u.port)
  BY DEF ParseHTTPSURL
<1>2. Authority(u).host = u.host /\ Authority(u).port = IF u.port = 0 THEN 443 ELSE u.port
  BY DEF Authority, DefaultPort
<1>3. CASE u.port = 0
  <2>1. NormalizePort(443) = {443}
    BY DEF NormalizePort, MaxPort
  <2>2. ParseRuleAuthority(u.host, 443) = EndpointForHost(u.host, 443)
    BY <2>1 DEF ParseRuleAuthority
  <2>3. ParseRuleAuthority(u.host, 0) = EndpointForHost(u.host, 443)
    BY DEF ParseRuleAuthority, DefaultPort
  <2> QED
    BY <1>1, <1>2, <1>3, <2>2, <2>3, SMTT(60) DEF ParseAuthority
<1>4. CASE u.port # 0
  BY <1>1, <1>2, <1>4, SMTT(60) DEF ParseAuthority
<1> QED
  BY <1>3, <1>4, SMTT(60)

(* bindLegacyLoopbackAllowlistPorts adds literals only. *)
LEMMA BoundEntries ==
  ASSUME NEW r, NEW e \in Allowed(r), ~e.host.literal
  PROVE  e \in r.entries
BY DEF Allowed, BindLegacyLoopbackAllowlistPorts

(* A flight to an endpoint of the URL that the rules allow is within the   *)
(* allowlist.                                                              *)
LEMMA DialsWithin ==
  ASSUME NEW r \in Requests, NEW p \in Providers,
         NEW q \in ParseHTTPSURL(r.urls[p]),
         EndpointAllowed(q, ParseAllowlist(Allowed(r))),
         NEW answer \in SUBSET Answers, NEW ip \in Dialable(q, answer),
         NEW f, f.provider = p, f.ip = ip, f.port = q.port
  PROVE  Within(r, f)
<1> DEFINE u == r.urls[p]
<1>1. q \in ParseRuleAuthority(u.host, u.port)
  BY DEF ParseHTTPSURL
<1>2. PICK t \in ParseAllowlist(Allowed(r)) :
        /\ q.port = t.port /\ q.literal = t.literal
        /\ IF t.wild THEN Subdomain(q.host, t.host) ELSE q.host = t.host
  BY DEF EndpointAllowed
<1>3. PICK e \in Allowed(r) : t \in ParseRule(e)
  BY ZenonT(60) DEF ParseAllowlist
<1>4. PICK s \in ParseRuleAuthority(e.host, e.port) :
        /\ t = [literal |-> s.literal, host |-> s.host, port |-> s.port, wild |-> e.wild]
        /\ e.wild => e.port = 0 /\ ~s.literal
  BY <1>3, SMTT(60) DEF ParseRule
<1> HIDE DEF u
<1>5. /\ u.host.literal => q.literal = TRUE /\ q.host = u.host.ip
      /\ ~u.host.literal => q.literal = FALSE /\ q.host = u.host.name
  <2>1. EndpointOf(u.host, u.port, q)
    BY <1>1, Endpoints, ZenonT(60)
  <2> QED
    BY <2>1, ZenonT(60) DEF EndpointOf
<1>6. /\ s.port = IF e.port = 0 THEN 443 ELSE e.port
      /\ e.host.literal => s.literal = TRUE /\ s.host = e.host.ip
      /\ ~e.host.literal => s.literal = FALSE /\ s.host = e.host.name /\ ValidateDNSName(e.host.name)
  <2>1. EndpointOf(e.host, e.port, s)
    BY <1>4, Endpoints, ZenonT(60)
  <2> QED
    BY <2>1, SMTT(60) DEF EndpointOf
<1>7. /\ t.port = s.port /\ t.literal = s.literal /\ t.host = s.host /\ t.wild = e.wild
  BY <1>4, ZenonT(60)
<1>8. CASE u.host.literal
  <2>1. e.host.literal /\ ~e.wild /\ f.ip = q.host
    BY <1>2, <1>4, <1>5, <1>6, <1>7, <1>8, ZenonT(60) DEF Dialable
  <2> QED
    BY <1>2, <1>3, <1>5, <1>6, <1>7, <1>8, <2>1, SMTT(60) DEF Within, u
<1>9. CASE ~u.host.literal
  <2>1. ~e.host.literal /\ s.host = e.host.name /\ q.host = u.host.name
    BY <1>2, <1>5, <1>6, <1>7, <1>9, SMTT(60)
  <2>2. f.ip \in Public
    BY <1>5, <1>9 DEF Dialable, PublicDNSAddress
  <2>3. CASE e.wild
    <3>1. Subdomain(u.host.name, e.host.name)
      BY <1>2, <1>7, <2>1, <2>3, ZenonT(60)
    <3>2. e.host.name \in Seq(STRING) /\ u.host.name \in Seq(STRING)
      BY <1>3, <1>9, <2>1, BoundEntries, OutboundAssumption, ZenonT(60) DEF u
    <3>3. Len(e.host.name) > 0
      BY <1>6, <2>1, SMTT(60) DEF ValidateDNSName
    <3> DEFINE a == Len(u.host.name)
               b == Len(e.host.name)
               n == a - b
    <3>4. n \in 1 .. a - 1
      <4>1. a > b
        BY <3>1, SMTT(60) DEF Subdomain
      <4>2. a \in Nat /\ b \in Nat
        BY <3>2
      <4>3. b > 0
        BY <3>3, SMTT(60)
      <4> HIDE DEF a, b
      <4> QED
        BY <4>1, <4>2, <4>3, SMTT(60)
    <3>5. e.host.name = SubSeq(u.host.name, n + 1, Len(u.host.name))
      BY <3>1, ZenonT(60) DEF Subdomain
    <3> HIDE DEF n
    <3>6. \E m \in 1 .. Len(u.host.name) - 1 :
            e.host.name = SubSeq(u.host.name, m + 1, Len(u.host.name))
      BY <3>4, <3>5, Zenon
    <3>7. f.port = IF e.port = 0 THEN 443 ELSE e.port
      BY <1>2, <1>6, <1>7, SMTT(60)
    <3> QED
      BY <1>3, <1>9, <2>1, <2>2, <2>3, <3>6, <3>7, Zenon DEF Within, u
  <2>4. CASE ~e.wild
    <3>1. e.host.name = u.host.name
      BY <1>2, <1>7, <2>1, <2>4, ZenonT(60)
    <3>2. f.port = IF e.port = 0 THEN 443 ELSE e.port
      BY <1>2, <1>6, <1>7, ZenonT(60)
    <3> QED
      BY <1>3, <1>9, <2>1, <2>2, <2>4, <3>1, <3>2, ZenonT(60) DEF Within, u
  <2> QED
    BY <2>3, <2>4, ZenonT(60)
<1> QED
  BY <1>8, <1>9, SMTT(60)

(* The provider of an attempt has an endpoint, and the rules allow it:     *)
(* providerRuntime has looked at the same URL and the same allowlist.      *)
LEMMA ProviderAllowed ==
  ASSUME RequestInv, attempt.provider \in Providers
  PROVE  \E r \in Requests :
           /\ request = [mode |-> r.mode, entries |-> r.entries, urls |-> r.urls]
           /\ URL = r.urls[attempt.provider]
           /\ AllowedRules = ParseAllowlist(Allowed(r))
           /\ \A f : Within(r, f) => Within(request, f)
           /\ \E q \in ParseHTTPSURL(URL) : EndpointAllowed(q, AllowedRules)
<1>1. PICK r \in Requests :
        /\ request = [mode |-> r.mode, entries |-> r.entries, urls |-> r.urls]
        /\ ProvidersAllowed(Allowed(r), URLs(r))
  BY DEF RequestInv
<1>2. request.entries = r.entries /\ request.urls = r.urls
  BY <1>1
<1>3. Allowed(request) = Allowed(r)
  BY <1>2 DEF Allowed, URLs
<1>4. URL = r.urls[attempt.provider] /\ AllowedRules = ParseAllowlist(Allowed(r))
  BY <1>2, <1>3 DEF URL, AllowedRules
<1>5. URL \in URLs(r)
  BY <1>4 DEF URLs
<1>6. \E q \in ParseHTTPSURL(URL) : EndpointAllowed(q, AllowedRules)
  BY <1>1, <1>4, <1>5 DEF ProvidersAllowed
<1>7. \A f : Within(r, f) => Within(request, f)
  <2> SUFFICES ASSUME NEW f, Within(r, f) PROVE Within(request, f)
    OBVIOUS
  <2> DEFINE u == r.urls[f.provider]
             Names(e) == IF e.wild
                         THEN \E n \in 1 .. Len(u.host.name) - 1 :
                                e.host.name = SubSeq(u.host.name, n + 1, Len(u.host.name))
                         ELSE e.host.name = u.host.name
  <2>1. PICK e \in Allowed(r) :
          /\ f.port = IF e.port = 0 THEN 443 ELSE e.port
          /\ IF u.host.literal
             THEN e.host.literal /\ f.ip = e.host.ip /\ f.ip = u.host.ip
             ELSE ~e.host.literal /\ f.ip \in Public /\ Names(e)
    BY Zenon DEF Within
  <2>2. u = request.urls[f.provider] /\ e \in Allowed(request)
    BY <1>2, <1>3
  <2> HIDE DEF u
  <2> QED
    BY <2>1, <2>2, Zenon DEF Within
<1> QED
  BY <1>1, <1>4, <1>6, <1>7, SMTT(60)

(* Dispatch checks the URL against the allowlist. *)
LEMMA DispatchStep ==
  ASSUME IInv, Dispatch
  PROVE  IInv'
<1>1. pc = "dispatch" /\ UNCHANGED <<request, redactVars, tried, attempt, flights, received>>
  BY DEF Dispatch
<1>2. \E q \in ParseHTTPSURL(URL) : EndpointAllowed(q, AllowedRules)
  <2>1. RequestInv /\ attempt.provider \in Providers
    BY <1>1 DEF IInv, ControlInv, Attempting
  <2> QED
    BY <2>1, ProviderAllowed, SMTT(60)
<1>3. CASE End
  BY <1>1, <1>3, EndStep, SMTT(60) DEF redactVars
<1>4. CASE pc' = "dial" /\ UNCHANGED <<bodyVars, key>>
  <2>1. FlightInv' /\ ConnectsWithinAllowlist' /\ RequestInv'
    BY <1>1, <1>4, SameBuffers, SMTT(60)
  <2>2. BufferInv'
    BY <1>1, <1>4, SMTT(60) DEF IInv, BufferInv, bodyVars, Attempting, Sent, Text
  <2>3. ControlInv'
    BY <1>1, <1>4 DEF IInv, ControlInv, Attempting, Pcs, redactVars
  <2> QED
    BY <1>4, <2>1, <2>2, <2>3, SMTT(60) DEF IInv, NeverBlocked
<1> QED
  BY <1>2, <1>3, <1>4, SMTT(60) DEF Dispatch

(* The step of an attempt that fails. *)
LEMMA AttemptFailsStep ==
  ASSUME IInv, pc \in Attempting, AttemptFails,
         UNCHANGED <<request, redactVars, tried, attempt, flights, received>>
  PROVE  IInv'
<1>1. CASE End
  BY <1>1, EndStep, SMTT(60) DEF redactVars
<1>2. CASE pc' = "attempts" /\ key' = NoProvider /\ UNCHANGED bodyVars
  <2>1. FlightInv' /\ ConnectsWithinAllowlist' /\ RequestInv'
    BY <1>2, SameBuffers, SMTT(60)
  <2>2. BufferInv'
    BY <1>2, SMTT(60) DEF IInv, BufferInv, bodyVars, Attempting, Sent, Text
  <2>3. ControlInv'
    BY <1>2, SMTT(60) DEF IInv, ControlInv, Attempting, Pcs, redactVars
  <2> QED
    BY <1>2, <2>1, <2>2, <2>3, SMTT(60) DEF IInv, NeverBlocked
<1> QED
  BY <1>1, <1>2, SMTT(60) DEF AttemptFails

(* dialContext resolves, checks and connects; a flight begins to read the  *)
(* body.                                                                   *)
LEMMA DialContextStep ==
  ASSUME IInv, DialContext
  PROVE  IInv'
<1> DEFINE host == Authority(URL).host
           port == Authority(URL).port
           endpoints == {q \in ParseAuthority(host, port) : EndpointAllowed(q, AllowedRules)}
<1>1. pc = "dial" /\ UNCHANGED <<request, redactVars, tried, attempt, received>>
  BY DEF DialContext
<1>2. RequestInv /\ attempt.provider \in Providers /\ key = attempt.provider /\ BufferInv
        /\ ControlInv /\ FlightInv
  BY <1>1, SMTT(60) DEF IInv, ControlInv, Attempting
<1>3. PICK r \in Requests :
        /\ request = [mode |-> r.mode, entries |-> r.entries, urls |-> r.urls]
        /\ URL = r.urls[attempt.provider]
        /\ AllowedRules = ParseAllowlist(Allowed(r))
        /\ \A f : Within(r, f) => Within(request, f)
        /\ \E q \in ParseHTTPSURL(URL) : EndpointAllowed(q, AllowedRules)
  BY <1>2, ProviderAllowed, ZenonT(60)
<1>4. ParseAuthority(host, port) = ParseHTTPSURL(URL)
  BY <1>3, SameEndpoint, ZenonT(60)
<1>5. endpoints # {}
  BY <1>3, <1>4, SMTT(60)
<1>6. CASE AttemptFails /\ UNCHANGED flights
  BY <1>1, <1>6, AttemptFailsStep, SMTT(60) DEF Attempting
<1>7. ASSUME NEW q \in endpoints, NEW answer \in SUBSET Answers, NEW ip \in Dialable(q, answer),
             flights' = flights \cup {[body |-> body, provider |-> attempt.provider, key |-> key,
                                       ip |-> ip, port |-> q.port]},
             pc' = "sending", key' = NoProvider, UNCHANGED bodyVars
      PROVE  IInv'
  <2> DEFINE f == [body |-> body, provider |-> attempt.provider, key |-> key,
                   ip |-> ip, port |-> q.port]
  <2>1. /\ f.body = body /\ f.provider = attempt.provider /\ f.key = key /\ f.ip = ip
        /\ f.port = q.port
    OBVIOUS
  <2>2. flights' = flights \cup {f}
    BY <1>7, ZenonT(60)
  <2> HIDE DEF f
  <2>3. q \in ParseHTTPSURL(r.urls[attempt.provider]) /\ EndpointAllowed(q, ParseAllowlist(Allowed(r)))
    BY <1>3, <1>4, ZenonT(60)
  <2>4. Within(request, f)
    BY <1>2, <1>3, <2>1, <2>3, DialsWithin, SMTT(60)
  <2>5. ConnectsWithinAllowlist'
    BY <1>1, <2>2, <2>4, SMTT(60) DEF ConnectsWithinAllowlist, IInv
  <2>6. RequestInv'
    BY <1>1, <1>2, SMTT(60) DEF RequestInv
  <2>7. BufferInv'
    BY <1>1, <1>2, <1>7, ZenonT(60) DEF BufferInv, bodyVars, Attempting, Sent, Text
  <2>8. body \in 1 .. Len(bufs) /\ body # canonical /\ Clean(bufs[body], attempt.provider)
    <3>1. bufs[body] = [text |-> Text, form |-> FormOf(attempt.provider)]
      BY <1>1, <1>2, SMTT(60) DEF BufferInv
    <3> QED
      BY <1>1, <1>2, <3>1, SMTT(60) DEF BufferInv, Clean, Attempting
  <2>9. FlightInv'
    <3>1. bufs' = bufs /\ canonical' = canonical /\ Text' = Text
      BY <1>1, <1>7, ZenonT(60) DEF bodyVars, Text
    <3>2. ASSUME NEW g \in flights'
          PROVE  (/\ g.body \in 1 .. Len(bufs) /\ g.body # canonical
                  /\ g.provider \in Providers /\ g.key = g.provider
                  /\ Clean(bufs[g.body], g.provider))'
      <4>1. /\ g.body \in 1 .. Len(bufs) /\ g.body # canonical
            /\ g.provider \in Providers /\ g.key = g.provider
            /\ Clean(bufs[g.body], g.provider)
        BY <1>2, <2>1, <2>2, <2>8, <3>2, ZenonT(60) DEF FlightInv
      <4> QED
        BY <3>1, <4>1, ZenonT(60) DEF Clean
    <3>3. \A m \in received' : Clean(m.content, m.flight.provider)'
      BY <1>1, <1>2, <3>1, SMTT(60) DEF FlightInv, Clean
    <3> QED
      BY <1>7, <3>2, <3>3, ZenonT(60) DEF FlightInv
  <2>10. ControlInv'
    BY <1>1, <1>2, <1>7, SMTT(60) DEF ControlInv, Attempting, Pcs, redactVars
  <2> QED
    BY <1>7, <2>5, <2>6, <2>7, <2>9, <2>10, SMTT(60) DEF IInv, NeverBlocked
<1>8. \/ AttemptFails /\ UNCHANGED flights
      \/ \E q \in endpoints, answer \in SUBSET Answers : \E ip \in Dialable(q, answer) :
           /\ flights' = flights \cup {[body |-> body, provider |-> attempt.provider, key |-> key,
                                        ip |-> ip, port |-> q.port]}
           /\ pc' = "sending" /\ key' = NoProvider /\ UNCHANGED bodyVars
  BY <1>5, Zenon DEF DialContext
<1> QED
  BY <1>6, <1>7, <1>8, SMTT(60)

(* The transport sends what the buffer holds at this moment. *)
LEMMA SendStep ==
  ASSUME IInv, NEW f \in flights, Send(f)
  PROVE  IInv'
<1>1. /\ received' = received \cup {[flight |-> f, content |-> bufs[f.body]]}
      /\ UNCHANGED <<request, pc, redactVars, bodyVars, tried, attempt, key, flights>>
  BY SMTT(60) DEF Send
<1>2. BufferInv' /\ RequestInv' /\ ConnectsWithinAllowlist' /\ NeverBlocked'
  BY <1>1, ZenonT(60) DEF IInv, BufferInv, RequestInv, ConnectsWithinAllowlist, NeverBlocked, bodyVars,
     Sent, Text
<1>3. ControlInv'
  BY <1>1, SMTT(60) DEF IInv, ControlInv, redactVars
<1>4. FlightInv'
  <2>1. FlightInv
    BY DEF IInv
  <2>2. bufs' = bufs /\ canonical' = canonical /\ Text' = Text /\ pc' = pc /\ flights' = flights
    BY <1>1, SMTT(60) DEF bodyVars, Text
  <2>3. ASSUME NEW m \in received' PROVE Clean(m.content, m.flight.provider)'
    <3>1. CASE m \in received
      BY <2>1, <2>2, <3>1, SMTT(60) DEF FlightInv, Clean
    <3>2. CASE m = [flight |-> f, content |-> bufs[f.body]]
      <4>1. m.flight = f /\ m.content = bufs[f.body]
        BY <3>2, SMTT(60)
      <4>2. Clean(bufs[f.body], f.provider)
        BY <2>1, SMTT(60) DEF FlightInv
      <4> QED
        BY <2>2, <4>1, <4>2, SMTT(60) DEF Clean
    <3> QED
      BY <1>1, <2>3, <3>1, <3>2, SMTT(60)
  <2>4. ASSUME NEW g \in flights'
        PROVE  (/\ g.body \in 1 .. Len(bufs) /\ g.body # canonical
                /\ g.provider \in Providers /\ g.key = g.provider
                /\ Clean(bufs[g.body], g.provider))'
    BY <2>1, <2>2, <2>4, SMTT(60) DEF FlightInv, Clean
  <2>5. pc' \notin {"redact", "route"}
    BY <2>1, <2>2, SMTT(60) DEF FlightInv
  <2> QED
    BY <2>3, <2>4, <2>5, SMTT(60) DEF FlightInv
<1> QED
  BY <1>2, <1>3, <1>4, ZenonT(60) DEF IInv

(* The transport is done with a buffer. *)
LEMMA SendEndsStep ==
  ASSUME IInv, NEW f \in flights, SendEnds(f)
  PROVE  IInv'
<1>1. /\ flights' = flights \ {f}
      /\ UNCHANGED <<request, pc, redactVars, bodyVars, tried, attempt, key, received>>
  BY DEF SendEnds
<1>2. FlightInv' /\ RequestInv' /\ ConnectsWithinAllowlist'
  BY <1>1, SameBuffers, ZenonT(60)
<1>3. BufferInv' /\ NeverBlocked'
  BY <1>1, SMTT(60) DEF IInv, BufferInv, NeverBlocked, bodyVars, Sent, Text
<1>4. ControlInv'
  BY <1>1 DEF IInv, ControlInv, redactVars
<1> QED
  BY <1>2, <1>3, <1>4, SMTT(60) DEF IInv

(* A request that has arrived satisfies the invariant. *)
LEMMA Initially == Init => IInv
<1> SUFFICES ASSUME Init PROVE IInv
  BY SMTT(60)
<1>1. RequestInv
  BY SMTT(60) DEF Init, RequestInv
<1>2. /\ pc = "redact" /\ bufs = <<[text |-> "raw", form |-> "openai"]>> /\ body = 1 /\ canonical = 0
      /\ tried = {} /\ key = NoProvider /\ flights = {} /\ received = {}
      /\ tally = [values |-> 0, size |-> 0, found |-> FALSE, stack |-> <<>>]
  BY DEF Init
<1>3. [text |-> "raw", form |-> "openai"] \in Content
  BY DEF Content
<1>4. bufs \in Seq(Content) /\ Len(bufs) = 1 /\ bufs[1] = [text |-> "raw", form |-> "openai"]
  BY <1>2, <1>3, SMTT(60)
<1>5. BufferInv
  BY <1>2, <1>4, SMTT(60) DEF BufferInv, Attempting
<1>6. FlightInv /\ ConnectsWithinAllowlist /\ NeverBlocked
  BY <1>2, SMTT(60) DEF FlightInv, ConnectsWithinAllowlist, NeverBlocked
<1>7. ControlInv
  BY <1>2 DEF ControlInv, Attempting, Pcs
<1> QED
  BY <1>1, <1>5, <1>6, <1>7, SMTT(60) DEF IInv

(* Every step of the handlers and of the transport keeps the invariant. *)
LEMMA Inductive == IInv /\ [Next]_vars => IInv'
<1> SUFFICES ASSUME IInv, [Next]_vars PROVE IInv'
  OBVIOUS
<1>1. ASSUME RefuseModel \/ NoChannel \/ Panic PROVE IInv'
  BY <1>1, EndStep, SMTT(60) DEF RefuseModel, NoChannel, Panic, redactVars
<1>2. ASSUME AttemptEnds PROVE IInv'
  BY <1>2, AttemptFailsStep, SMTT(60) DEF AttemptEnds, Attempting
<1>3. ASSUME UNCHANGED vars PROVE IInv'
  <2>1. UNCHANGED <<request, bodyVars, received>> /\ flights' = flights /\ pc' = pc
    BY <1>3 DEF vars
  <2>2. FlightInv' /\ RequestInv' /\ ConnectsWithinAllowlist'
    BY <2>1, SameBuffers, ZenonT(60)
  <2>3. BufferInv' /\ NeverBlocked'
    BY <1>3, SMTT(60) DEF vars, IInv, BufferInv, NeverBlocked, bodyVars, Sent, Text
  <2>4. ControlInv'
    BY <1>3 DEF vars, IInv, ControlInv, redactVars
  <2> QED
    BY <2>2, <2>3, <2>4, SMTT(60) DEF IInv
<1>4. ASSUME Forward PROVE IInv'
  BY <1>1, <1>2, <1>4, FinishRedactionStep, TakeCanonicalStep, StartAttemptStep, InjectKeyStep,
     AdaptStep, DispatchStep, DialContextStep, SMTT(60) DEF Forward
<1>5. ASSUME NEW f \in flights, Send(f) \/ SendEnds(f) PROVE IInv'
  BY <1>5, SendStep, SendEndsStep, SMTT(60)
<1>6. ASSUME Exited PROVE IInv'
  BY <1>3, <1>6, SMTT(60) DEF Exited
<1> QED
  BY <1>1, <1>3, <1>4, <1>5, <1>6, RedactValueStep, SMTT(60) DEF Next

(* The invariant holds of the requests of a server that has started. *)
THEOREM Invariant == Spec => []IInv
BY Initially, Inductive, PTL DEF Spec

(* Whatever the transport is still reading when an attempt ends, a         *)
(* provider gets the redacted text or zeros, in its own form, and nothing  *)
(* of a body that is blocked (redaction.go, router.go, adapter.go).        *)
THEOREM OnlyRedactedTextLeaves == Spec => []OnlyRedactedLeaves
<1>1. IInv => OnlyRedactedLeaves
  <2> SUFFICES ASSUME IInv, NEW r \in received
               PROVE  /\ request.mode = "redact" => r.content.text # "raw"
                      /\ request.mode = "block" => ~tally.found
                      /\ r.content.form = IF r.flight.provider \in Passthrough
                                          THEN "openai" ELSE r.flight.provider
    BY DEF OnlyRedactedLeaves
  <2>1. Clean(r.content, r.flight.provider)
    BY DEF IInv, FlightInv
  <2>2. request.mode = "block" => ~tally.found
    BY ZenonT(60) DEF IInv, ControlInv
  <2> QED
    BY <2>1, <2>2, SMTT(60) DEF Clean, Text, FormOf
<1> QED
  BY <1>1, Invariant, PTL

(* Every attempt of the router starts from the body that the redaction     *)
(* left (resetAttempt in router.go).                                       *)
THEOREM AttemptsAlwaysStartAlike == Spec => []AttemptsStartAlike
<1>1. IInv => AttemptsStartAlike
  BY SMTT(60) DEF IInv, BufferInv, AttemptsStartAlike, Sent, Text
<1> QED
  BY <1>1, Invariant, PTL

(* The key that KMSInjector put into the context goes to its provider. *)
THEOREM KeysGoToTheirProviders == Spec => []KeyGoesToItsProvider
<1>1. IInv => KeyGoesToItsProvider
  BY DEF IInv, FlightInv, KeyGoesToItsProvider
<1> QED
  BY <1>1, Invariant, PTL

(* dialContext connects only to what an entry of the allowlist names. *)
THEOREM AlwaysWithinAllowlist == Spec => []ConnectsWithinAllowlist
BY Invariant, PTL DEF IInv

(* The URL that providerRuntime accepted at the start passes Dispatch, and *)
(* the authority that net/http makes of it passes dialContext.             *)
THEOREM ProvidersNeverBlocked == Spec => []NeverBlocked
BY Invariant, PTL DEF IInv

(* However a request ends, its buffers are zero and its key is closed      *)
(* (pipeline.go, router.go).                                               *)
THEOREM AlwaysWipedAtEnd == Spec => []WipedAtEnd
<1>1. IInv => WipedAtEnd
  BY DEF IInv, BufferInv, ControlInv, WipedAtEnd
<1> QED
  BY <1>1, Invariant, PTL
=============================================================================
