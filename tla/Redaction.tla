----------------------------- MODULE Redaction -----------------------------
(***************************************************************************)
(* What the redaction of a request body computes                           *)
(* (internal/middleware/redaction.go): the spans the rules match in a      *)
(* text, the parts of a message without them, and the integer a JSON       *)
(* number stands for.                                                      *)
(*                                                                         *)
(* A text is a sequence of characters and a rule's pattern is a word, so   *)
(* that the matches of several rules overlap, nest and cross the parts of  *)
(* a message as those of the regular expressions do.  An anchor of a       *)
(* pattern is left out.  A result has an error, "none" if there is none.   *)
(***************************************************************************)
EXTENDS Integers, Sequences, FiniteSetsExt

CONSTANTS
  Rules,          \* the rules in their order: a word and its replacement
  MaxMatches,     \* maxSemanticRedactionMatches
  MaxText,        \* maxSemanticJSONStringBytes and maxSemanticJoinedTextBytes
  MaxDigits,      \* maxSemanticNumericPIIDigits
  MaxValues,      \* maxSemanticJSONValues
  MaxParts,       \* maxSemanticContentParts
  MaxMembers,     \* maxSemanticJSONObjectMembers
  MaxDepth,       \* maxSemanticJSONDepth
  MaxOutput       \* the limit of the body

ASSUME RedactionAssumption ==
  /\ {MaxMatches, MaxText, MaxDigits, MaxValues, MaxParts, MaxMembers, MaxDepth, MaxOutput}
       \subseteq Nat
  /\ \A k \in 1 .. Len(Rules) : Rules[k].enabled \in BOOLEAN /\ Rules[k].word # <<>>
----------------------------------------------------------------------------
(* The end of a sequence, what is before it, and sequences in one.         *)

Last(s) == s[Len(s)]
Front(s) == SubSeq(s, 1, Len(s) - 1)

FlattenSeq(ss) ==
  LET joined[k \in 0 .. Len(ss)] == IF k = 0 THEN <<>> ELSE joined[k - 1] \o ss[k]
  IN joined[Len(ss)]
----------------------------------------------------------------------------
(* The matches of the rules.                                               *)

Occurs(word, text, i) ==
  i + Len(word) <= Len(text) /\ SubSeq(text, i + 1, i + Len(word)) = word

(* regexp's FindAllStringIndex: the leftmost matches that do not overlap. *)
FindAllStringIndex(word, text) ==
  LET found[i \in 0 .. Len(text)] ==
        IF i = Len(text) THEN {}
        ELSE IF Occurs(word, text, i)
             THEN {[start |-> i, end |-> i + Len(word)]} \cup found[i + Len(word)]
             ELSE found[i + 1]
  IN found[0]

Enabled == {k \in 1 .. Len(Rules) : Rules[k].enabled}

RulesMatchString(text) ==
  \E k \in Enabled, i \in 0 .. Len(text) : Occurs(Rules[k].word, text, i)

(* A span and the rule that gives its placeholder. *)
Candidates(text) ==
  UNION {{[start |-> m.start, end |-> m.end, width |-> m.end - m.start, rule |-> k] :
            m \in FindAllStringIndex(Rules[k].word, text)} : k \in Enabled}

(* The stable sort: by start, the longer first, then in the rules' order. *)
Precedes(a, b) ==
  \/ a.start < b.start
  \/ a.start = b.start /\ a.end > b.end
  \/ a.start = b.start /\ a.end = b.end /\ a.rule < b.rule

(* An overlapping match that is dropped instead of merged. *)
Merged_Dropped(a, b) == a

Merged(a, b) ==
  [start |-> a.start, end |-> Max({a.end, b.end}),
   width |-> Max({a.width, b.width}), rule |-> IF b.width > a.width THEN b.rule ELSE a.rule]

Sorted(S) ==
  [k \in 1 .. Cardinality(S) |->
     CHOOSE c \in S : Cardinality({d \in S : Precedes(d, c)}) = k - 1]

(* The spans: a candidate that overlaps the last span is merged into it. *)
Spans(candidates) ==
  LET spans[k \in 0 .. Len(candidates)] ==
        IF k = 0 THEN <<>>
        ELSE LET before == spans[k - 1]
                 c == candidates[k]
             IN IF before = <<>> \/ c.start >= Last(before).end
                THEN Append(before, c)
                ELSE Append(Front(before), Merged(Last(before), c))
  IN spans[Len(candidates)]

(* A rule whose replacement is too long fails every text. *)
Oversized == \E k \in Enabled : Len(Rules[k].replacement) > MaxText

AggregateRedactionSpans(text) ==
  IF Oversized \/ Cardinality(Candidates(text)) > MaxMatches
  THEN [err |-> "limit", spans |-> <<>>]
  ELSE [err |-> "none", spans |-> Spans(Sorted(Candidates(text)))]

(* The part of a joined text that begins at offset, without the spans: its *)
(* length is checked before anything is written.                           *)
RedactTextPart(text, offset, spans) ==
  LET from(s) == Max({offset, s.start})
      to(s) == Min({offset + Len(text), s.end})
      touching == SelectSeq(spans, LAMBDA s : from(s) < to(s))
      mark(s) == Rules[s.rule].replacement
      written[n \in 0 .. Len(touching)] ==
        IF n = 0 THEN [cursor |-> offset, out |-> <<>>, len |-> Len(text)]
        ELSE LET acc == written[n - 1]
                 s == touching[n]
             IN [cursor |-> to(s),
                 out |-> acc.out \o SubSeq(text, acc.cursor - offset + 1, from(s) - offset)
                           \o mark(s),
                 len |-> acc.len + Len(mark(s)) - (to(s) - from(s))]
      all == written[Len(touching)]
  IN IF \E n \in 1 .. Len(touching) : written[n].len > MaxText
     THEN [err |-> "limit", text |-> <<>>]
     ELSE [err |-> "none", text |-> all.out \o SubSeq(text, all.cursor - offset + 1, Len(text))]
----------------------------------------------------------------------------
(* The number a JSON number stands for.                                    *)

Zeros(n) == [i \in 1 .. n |-> "0"]
AllZero(digits) == \A i \in 1 .. Len(digits) : digits[i] = "0"

TrimLeft(digits) ==
  LET first == CHOOSE i \in 1 .. Len(digits) + 1 :
                 /\ i <= Len(digits) => digits[i] # "0"
                 /\ AllZero(SubSeq(digits, 1, i - 1))
  IN SubSeq(digits, first, Len(digits))

NoCandidate == [err |-> "none", found |-> FALSE, digits |-> <<>>]
Candidate(digits) == [err |-> "none", found |-> TRUE, digits |-> digits]

(* The fraction is cut off without a look at its digits. *)
CanonicalNumericPIICandidate_NoFraction(n) ==
  LET digits == n.int
      position == Len(n.int) + n.exp
      trimmed == TrimLeft(SubSeq(digits, 1, Min({position, Len(digits)})))
      zeros == Max({0, position - Len(digits)})
  IN IF n.exp > MaxText \/ n.exp < -MaxText THEN [NoCandidate EXCEPT !.err = "limit"]
     ELSE IF position <= 0 THEN NoCandidate
     ELSE IF trimmed = <<>> THEN Candidate(<<"0">>)
     ELSE IF Len(trimmed) + zeros > MaxDigits THEN NoCandidate
     ELSE Candidate(trimmed \o Zeros(zeros))

(* The decimal rendering of a number that is a short exact integer. *)
CanonicalNumericPIICandidate(n) ==
  LET digits == n.int \o n.frac
      position == Len(n.int) + n.exp
      trimmed == TrimLeft(SubSeq(digits, 1, Min({position, Len(digits)})))
      zeros == Max({0, position - Len(digits)})
  IN IF n.exp > MaxText \/ n.exp < -MaxText THEN [NoCandidate EXCEPT !.err = "limit"]
     ELSE IF position <= 0 THEN IF AllZero(digits) THEN Candidate(<<"0">>) ELSE NoCandidate
     ELSE IF ~AllZero(SubSeq(digits, position + 1, Len(digits))) THEN NoCandidate
     ELSE IF trimmed = <<>> THEN Candidate(<<"0">>)
     ELSE IF Len(trimmed) + zeros > MaxDigits THEN NoCandidate
     ELSE Candidate((IF n.neg THEN <<"-">> ELSE <<>>) \o trimmed \o Zeros(zeros))

DigitChars == <<"0", "1", "2", "3", "4", "5", "6", "7", "8", "9">>

(* The spelling of a number in the body; its exponent has one digit. *)
Spelling(n) ==
  (IF n.neg THEN <<"-">> ELSE <<>>) \o n.int
    \o (IF n.frac = <<>> THEN <<>> ELSE <<".">> \o n.frac)
    \o (CASE n.exp = 0 -> <<>>
          [] n.exp > 0 -> <<"e", DigitChars[n.exp + 1]>>
          [] n.exp < 0 -> <<"e", "-", DigitChars[1 - n.exp]>>)
----------------------------------------------------------------------------
(* The scalars of a body.                                                  *)

Refused(err) == [err |-> err, found |-> FALSE, out |-> <<>>]
Written(found, out) == [err |-> "none", found |-> found, out |-> out]
Blocked == [err |-> "blocked", found |-> TRUE, out |-> <<>>]

ProcessNumber(mode, n) ==
  LET candidate == CanonicalNumericPIICandidate(n)
      raw == RulesMatchString(Spelling(n))
      matched == raw \/ (candidate.found /\ RulesMatchString(candidate.digits))
  IN CASE Len(Spelling(n)) > MaxText -> Refused("limit")
       [] ~raw /\ candidate.err # "none" -> Refused(candidate.err)
       [] matched /\ mode # "detect" -> Blocked
       [] OTHER -> Written(matched, Spelling(n))

ProcessStringValue(mode, text) ==
  LET agg == AggregateRedactionSpans(text)
      matched == agg.spans # <<>>
      part == RedactTextPart(text, 0, agg.spans)
  IN IF agg.err # "none" THEN Refused(agg.err)
     ELSE IF matched /\ mode = "block" THEN Blocked
     ELSE IF mode # "redact" THEN Written(matched, text)
     ELSE IF part.err # "none" THEN [Refused(part.err) EXCEPT !.found = matched]
     ELSE Written(matched, part.text)

(* processValue on a value that is not an object or an array. *)
ProcessScalar(mode, v) ==
  CASE v.kind = "string" -> IF Len(v.text) > MaxText THEN Refused("limit")
                                                    ELSE ProcessStringValue(mode, v.text)
    [] v.kind = "number" -> ProcessNumber(mode, v.number)
    [] v.kind = "literal" -> Written(FALSE, <<v.kind>>)
    [] v.kind = "invalid" -> Refused("invalid")

(* A key cannot be redacted.  seen are the other keys of the object.       *)
ProcessKey(mode, key, seen, aliases) ==
  LET matched == RulesMatchString(key)
  IN CASE Len(key) > MaxText -> Refused("limit")
       [] key \in seen \cup aliases -> Refused("invalid")
       [] matched /\ mode # "detect" -> Blocked
       [] OTHER -> Written(matched, key)
----------------------------------------------------------------------------
(* The content array of a message.  A part is an object, the sequence of   *)
(* its members; the value of a member is a scalar.  A key is a text, of    *)
(* one character if it is a word of the schema.                            *)

TypeKey == <<"type">>
TextKey == <<"text">>
IsContentPartFieldAlias == {<<"Type">>, <<"Text">>}

FirstError(results) ==
  LET bad == {i \in 1 .. Len(results) : results[i].err # "none"}
  IN IF bad = {} THEN 0 ELSE Min(bad)

(* The results of processing one thing after another until one fails. *)
InOrder(results) ==
  LET n == FirstError(results)
      found == \E i \in 1 .. IF n = 0 THEN Len(results) ELSE n : results[i].found
  IN IF n = 0 THEN Written(found, [i \in 1 .. Len(results) |-> results[i].out])
              ELSE [results[n] EXCEPT !.found = found]

(* inspectSemanticTextContentPart looks at a part before any is processed. *)
InspectBoundedSemanticValue(v) ==
  CASE v.kind = "string" /\ Len(v.text) > MaxText -> Refused("limit")
    [] v.kind = "number" /\ Len(Spelling(v.number)) > MaxText -> Refused("limit")
    [] v.kind = "invalid" -> Refused("invalid")
    [] OTHER -> Written(FALSE, <<>>)

InspectSemanticTextContentPart(part) ==
  InOrder([i \in 1 .. Len(part) |->
    CASE Len(part[i].name) > MaxText -> Refused("limit")
      [] part[i].name \in IsContentPartFieldAlias -> Refused("invalid")
      [] /\ part[i].name \in {TypeKey, TextKey}
         /\ \E j \in 1 .. i - 1 : part[j].name = part[i].name -> Refused("invalid")
      [] OTHER -> InspectBoundedSemanticValue(part[i].value)])

IsText(part) ==
  /\ \E i \in 1 .. Len(part) :
       part[i].name = TypeKey /\ part[i].value = [kind |-> "string", text |-> TextKey]
  /\ \E i \in 1 .. Len(part) : part[i].name = TextKey /\ part[i].value.kind = "string"

TextOf(part) ==
  IF IsText(part)
  THEN part[CHOOSE i \in 1 .. Len(part) : part[i].name = TextKey].value.text
  ELSE <<>>

(* The text parts of a message are scanned as the one text they join to.   *)
JoinedText(parts) == FlattenSeq([k \in 1 .. Len(parts) |-> TextOf(parts[k])])
Offset(parts, k) == Len(JoinedText(SubSeq(parts, 1, k - 1)))

(* Its result has the override of each part. *)
ProcessSemanticMessageText(mode, parts) ==
  LET joined == JoinedText(parts)
      agg == AggregateRedactionSpans(joined)
      matched == agg.spans # <<>>
      texts == [k \in 1 .. Len(parts) |->
                  IF mode = "detect" THEN [err |-> "none", text |-> TextOf(parts[k])]
                  ELSE RedactTextPart(TextOf(parts[k]), Offset(parts, k), agg.spans)]
      overrides == [k \in 1 .. Len(parts) |-> texts[k].text]
  IN IF joined = <<>> THEN Written(FALSE, [k \in 1 .. Len(parts) |-> <<>>])
     ELSE IF Len(joined) > MaxText THEN Refused("limit")
     ELSE IF agg.err # "none" THEN Refused(agg.err)
     ELSE IF matched /\ mode = "block" THEN Blocked
     ELSE IF FirstError(texts) # 0 \/ Len(FlattenSeq(overrides)) > MaxText
          THEN [Refused("limit") EXCEPT !.found = matched]
     ELSE Written(matched, overrides)

(* processContentPartRaw: the object that is the part, with its text       *)
(* replaced by the override if it is a text part.                          *)
ProcessContentPartRaw(mode, part, override) ==
  InOrder([i \in 1 .. Len(part) |->
    LET name == part[i].name
        k == ProcessKey(mode, name, {part[j].name : j \in 1 .. i - 1}, IsContentPartFieldAlias)
        v == IF IsText(part) /\ name = TextKey
             THEN IF Len(override) > MaxText THEN Refused("limit") ELSE Written(FALSE, override)
             ELSE ProcessScalar(mode, part[i].value)
    IN IF k.err # "none" THEN k ELSE [v EXCEPT !.found = @ \/ k.found]])

ProcessContentPartsArray(mode, parts) ==
  LET inspected == InOrder([k \in 1 .. Len(parts) |-> InspectSemanticTextContentPart(parts[k])])
      message == ProcessSemanticMessageText(mode, parts)
      own == InOrder([k \in 1 .. Len(parts) |->
                        ProcessContentPartRaw(mode, parts[k], message.out[k])])
  IN IF Len(parts) > MaxParts THEN Refused("limit")
     ELSE IF inspected.err # "none" THEN inspected
     ELSE IF message.err # "none" THEN message
     ELSE [own EXCEPT !.found = @ \/ message.found]
----------------------------------------------------------------------------
(* The tokens of a body: a scalar, the key of a member, the opening of an  *)
(* object or an array and its close, and an array of parts.  The stack has *)
(* the objects and arrays that are open, with the keys they have had and   *)
(* the context of the value that comes next.                               *)

IsSecurityFieldAlias == {<<"Model">>, <<"Stream">>}

Context(stack) == IF stack = <<>> THEN "root" ELSE Last(stack).child

ChildContext(context, key) ==
  CASE context = "root" /\ key = <<"messages">> -> "messages"
    [] context = "message" /\ key = <<"content">> -> "content"
    [] OTHER -> "generic"

Frame(context, child) == [context |-> context, seen |-> {}, child |-> child]

(* A result with the stack after it, and with the tokens to put back.      *)
Token(result, stack, back) ==
  [err |-> result.err, found |-> result.found, out |-> result.out, stack |-> stack, back |-> back]

ProcessObject(mode, stack, v) ==
  LET top == Last(stack)
      aliases == IF Len(stack) = 1 THEN IsSecurityFieldAlias ELSE {}
      opened == [context |-> top.context, seen |-> top.seen \cup {v.text},
                 child |-> ChildContext(top.context, v.text)]
  IN CASE v.kind = "object" ->
            Token(Written(FALSE, <<>>), Append(stack, Frame(Context(stack), "generic")), <<>>)
       [] v.kind = "key" ->
            Token(IF Cardinality(top.seen) = MaxMembers THEN Refused("limit")
                  ELSE ProcessKey(mode, v.text, top.seen, aliases),
                  Append(Front(stack), opened), <<>>)

ProcessArray(stack) ==
  LET child == IF Context(stack) = "messages" THEN "message" ELSE "generic"
  IN Token(Written(FALSE, <<>>), Append(stack, Frame(Context(stack), child)), <<>>)

Opening(kind) == [kind |-> kind]

(* The tokens of an array of parts that is not the content of a message.   *)
Tokens(parts) ==
  <<Opening("array")>>
    \o FlattenSeq([k \in 1 .. Len(parts) |->
         <<Opening("object")>>
           \o FlattenSeq([i \in 1 .. Len(parts[k]) |->
                <<[kind |-> "key", text |-> parts[k][i].name], parts[k][i].value>>])
           \o <<Opening("close")>>])
    \o <<Opening("close")>>

ProcessValue(mode, stack, v) ==
  CASE v.kind \notin {"key", "close"} /\ Len(stack) > MaxDepth -> Token(Refused("limit"), stack, <<>>)
    [] v.kind \in {"object", "key"} -> ProcessObject(mode, stack, v)
    [] v.kind = "array" -> ProcessArray(stack)
    [] v.kind = "close" -> Token(Written(FALSE, <<>>), Front(stack), <<>>)
    [] v.kind = "parts" ->
         IF Context(stack) = "content"
         THEN Token(ProcessContentPartsArray(mode, v.parts), stack, <<>>)
         ELSE Token(Written(FALSE, <<>>), stack, Tokens(v.parts))
    [] OTHER -> Token(ProcessScalar(mode, v), stack, <<>>)

(* What a token counts, and what it adds to the output; brackets, commas   *)
(* and the quotes of a string are left out.                                *)
Values(stack, v) ==
  CASE v.kind \in {"key", "close"} -> 0
    [] v.kind = "parts" ->
         IF Context(stack) # "content" THEN 0
         ELSE 1 + Len(v.parts) + Len(FlattenSeq(v.parts))
    [] OTHER -> 1

Size(stack, v, out) ==
  IF v.kind = "parts" /\ Context(stack) = "content"
  THEN Len(FlattenSeq(v.parts)) + Len(FlattenSeq(FlattenSeq(out)))
  ELSE Len(out)
=============================================================================
