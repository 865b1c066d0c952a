----------------------------- MODULE FieldNames -----------------------------
(***************************************************************************)
(* The names of fields: how JSON dot notation is split into keys, and how  *)
(* keys are printed.  A text, and a key, is a sequence of characters; the  *)
(* prefixes body, attributes and resource are one character, `p'.          *)
(***************************************************************************)
EXTENDS Integers, Sequences, SequencesExt

CONSTANTS
  Chars,     \* characters of texts
  MaxLength  \* bound: characters of a text

VARIABLE text

Begin == [state |-> "Begin", quote |-> "", token |-> <<>>, fields |-> <<>>]

Error == [state |-> "Error", quote |-> "", token |-> <<>>, fields |-> <<>>]

\* The token, from tokenStart on, is a field.
Ended(s, state) == [s EXCEPT !.fields = Append(@, s.token), !.token = <<>>, !.state = state]

Longer(s, c, state) == [s EXCEPT !.token = Append(@, c), !.state = state]

Is(s, state) == [s EXCEPT !.state = state]

\* One turn of the loop of fromJSONDot.
Scan(s, c) ==
  CASE s.state = "Begin" ->
         IF c = "[" THEN Is(s, "InBracket") ELSE Longer(s, c, "InUnbracketedToken")
    [] s.state = "InBracket" ->
         IF c \in {"'", "\""} THEN [s EXCEPT !.quote = c, !.state = "InQuote"] ELSE Error
    [] s.state = "InQuote" ->
         IF c = s.quote THEN Ended(s, "OutQuote") ELSE Longer(s, c, "InQuote")
    [] s.state = "OutQuote" ->
         IF c = "]" THEN Is(s, "OutBracket") ELSE Error
    [] s.state = "OutBracket" ->
         IF c = "." THEN Is(s, "InUnbracketedToken")
         ELSE IF c = "[" THEN Is(s, "InBracket") ELSE Error
    [] s.state = "InUnbracketedToken" ->
         IF c = "." THEN Ended(s, "InUnbracketedToken")
         ELSE IF c = "[" THEN Ended(s, "InBracket")
         ELSE Longer(s, c, "InUnbracketedToken")
    [] s.state = "Error" -> s

\* The keys a text stands for; none if it is refused.
fromJSONDot(t) ==
  LET s == FoldLeft(Scan, Begin, t) IN
  CASE s.state = "InUnbracketedToken" -> Append(s.fields, s.token)
    [] s.state = "OutBracket" -> s.fields
    [] OTHER -> <<>>

Has(keys, c) == \E i \in DOMAIN keys : c \in Range(keys[i])

\* Mutant: only the last key is looked at.
MutContainsDots(keys) == "." \in Range(Last(keys))

containsDots(keys) == Has(keys, ".")

toJSONDot(prefix, keys) ==
  prefix \o
  IF keys # <<>> /\ containsDots(keys)
  THEN FlattenSeq([i \in DOMAIN keys |-> <<"[", "'">> \o keys[i] \o <<"'", "]">>])
  ELSE FlattenSeq([i \in DOMAIN keys |-> <<".">> \o keys[i]])

\* NewField takes the text as a field, with these keys below the prefix.
IsField(t) == fromJSONDot(t) # <<>> /\ fromJSONDot(t)[1] = <<"p">>

Keys(t) == Tail(fromJSONDot(t))

\* The two ways to write the prefix.
Init == text \in {<<"p">>, <<"[", "'", "p", "'", "]">>}

Next == \E c \in Chars : Len(text) < MaxLength /\ text' = Append(text, c)

Spec == Init /\ [][Next]_text

-----------------------------------------------------------------------------
\* The text that String and the marshallers give for a field names the same
\* field again, except for keys toJSONDot has no notation for: a key with a
\* quote beside a key with a dot, and a key with a bracket and no key with a
\* dot.
RoundTrip ==
  IsField(text) =>
    LET again == toJSONDot(<<"p">>, Keys(text))
        unprintable == Has(Keys(text), IF Has(Keys(text), ".") THEN "'" ELSE "[")
    IN  unprintable # (IsField(again) /\ Keys(again) = Keys(text))

=============================================================================
