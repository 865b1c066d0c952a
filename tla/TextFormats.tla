---------------------------- MODULE TextFormats -----------------------------
(***************************************************************************)
(* The parse functions of csv_parser and key_value_parser that are the     *)
(* repository's own: csv_parser joins the records that the csv reader finds *)
(* in one entry, key_value_parser cuts a text into pairs.                  *)
(*                                                                         *)
(* Abstraction.  A text is a sequence of characters; in a csv text "q" is  *)
(* a letter with a quote after it.  The result of a parse function is a    *)
(* record: its kind, and the value if it is "ok".                          *)
(***************************************************************************)
EXTENDS Integers, Sequences, SequencesExt, FiniteSetsExt

CONSTANTS
  MaxText,     \* length of a csv text
  KVValues,    \* the values of the pairs, texts
  MaxPairs

VARIABLES doc    \* a text for csv_parser, or pairs that a program writes, as it grows

Newline == "\n"
Failed(why) == [kind |-> why, value |-> <<>>]
Parsed(v) == [kind |-> "ok", value |-> v]

\* strings.Split by one character
Split(text, sep) ==
  FoldLeft(LAMBDA parts, c : IF c = sep THEN Append(parts, <<>>)
                             ELSE [parts EXCEPT ![Len(parts)] = Append(@, c)],
           <<<<>>>>, text)

-----------------------------------------------------------------------------
(* csv_parser: generateParseFunc *)

Broken(field, lazy) == ~lazy /\ Contains(field, "q")

\* The reader of encoding/csv: a line of text is a record and a blank one is
\* not; a record with a quote where none may be ends before that field.
ReadAll(text, lazy) ==
  LET lines == SelectSeq(Split(text, Newline), LAMBDA l : l # <<>>)
      Record(l) ==
        LET fields == Split(l, ",")
            bad == {i \in DOMAIN fields : Broken(fields[i], lazy)}
        IN IF bad = {} THEN fields ELSE SubSeq(fields, 1, Min(bad) - 1)
  IN [i \in DOMAIN lines |-> Record(lines[i])]

\* Mutant: the next record starts a field of its own.
MutJoin(joined, next) == joined \o next

\* The first field of a record goes on where the last one of the record before
\* it stopped.
Join(joined, next) ==
  [joined EXCEPT ![Len(joined)] = @ \o <<Newline>> \o Head(next)] \o Tail(next)

\* An error of the reader counts only if there is no field before it; the rest
\* of that record is gone.  lines[0] of a text without records panics.
parse(c) ==
  LET records == ReadAll(c.text, c.lazy)
  IN IF \E i \in DOMAIN records : records[i] = <<>> THEN Failed("error")
     ELSE IF records = <<>> THEN Failed("panic")
     ELSE LET joined == FoldLeft(Join, Head(records), Tail(records))
          IN IF Len(joined) = c.headers THEN Parsed(joined) ELSE Failed("error")

-----------------------------------------------------------------------------
(* key_value_parser *)

Quotes == {"\"", "'"}

Trim(text, chars) ==
  LET kept == {i \in DOMAIN text : text[i] \notin chars}
  IN IF kept = {} THEN <<>> ELSE SubSeq(text, Min(kept), Max(kept))

\* strings.FieldsFunc with a function that turns over `quoted' at each quote,
\* of either kind; empty parts are left out.
splitStringByWhitespace(input) ==
  LET Step(acc, c) ==
        LET quoted == IF c \in Quotes THEN ~acc.quoted ELSE acc.quoted
        IN [quoted |-> quoted,
            parts |-> IF ~quoted /\ c = " " THEN Append(acc.parts, <<>>)
                      ELSE [acc.parts EXCEPT ![Len(acc.parts)] = Append(@, c)]]
  IN SelectSeq(FoldLeft(Step, [quoted |-> FALSE, parts |-> <<<<>>>>], input).parts,
               LAMBDA p : p # <<>>)

pairSplitFunc(input, delimiter) ==
  IF delimiter = "" THEN splitStringByWhitespace(input) ELSE Split(input, delimiter)

\* The last of equal keys counts; one part that is not a pair spoils the text.
parser(input, delimiter) ==
  LET parts == pairSplitFunc(input, delimiter)
      m == [i \in DOMAIN parts |-> Split(parts[i], "=")]
      Clean(t) == Trim(Trim(t, Quotes), {" "})
      keys == {Clean(m[i][1]) : i \in DOMAIN m}
  IN IF input = <<>> \/ \E i \in DOMAIN m : Len(m[i]) # 2 THEN Failed("error")
     ELSE Parsed([k \in keys |-> Clean(m[Max({i \in DOMAIN m : Clean(m[i][1]) = k})][2])])

-----------------------------------------------------------------------------
\* The empty text for every header, and no pairs.
Docs ==
  [format : {"csv"}, text : {<<>>}, headers : 1..3, lazy : BOOLEAN]
  \cup [format : {"kv"}, pairs : {<<>>}, delimiter : {"", ";"}]

Init == doc \in Docs

Write(c) ==
  /\ doc.format = "csv" /\ Len(doc.text) < MaxText
  /\ doc' = [doc EXCEPT !.text = Append(@, c)]

WritePair(k, v) ==
  /\ doc.format = "kv" /\ Len(doc.pairs) < MaxPairs
  /\ doc' = [doc EXCEPT !.pairs = Append(@, [key |-> k, value |-> v])]

Next ==
  \/ \E c \in {"x", "q", ",", Newline} : Write(c)
  \/ \E k \in {<<"a">>, <<"b">>}, v \in KVValues : WritePair(k, v)

-----------------------------------------------------------------------------
\* The fields of the whole text, where a line break is a character like another
\* and blank lines are gone.
Fields(text) ==
  LET Blank(i) == text[i] = Newline /\ (i = 1 \/ text[i - 1] = Newline)
      AtEnd(i) == \A j \in i..Len(text) : text[j] = Newline
      kept == SetToSortSeq({i \in DOMAIN text : ~Blank(i) /\ ~AtEnd(i)}, <)
  IN Split([i \in DOMAIN kept |-> text[kept[i]]], ",")

\* csv_parser returns the fields of the whole text, whatever lines they are on,
\* or refuses a text with another number of them.  It panics on a text without
\* any line; fields after a misplaced quote are lost.
CsvJoined ==
  LET blank == \A i \in DOMAIN doc.text : doc.text[i] = Newline
  IN doc.format = "csv" =>
     /\ parse(doc).kind = "panic" <=> blank
     /\ ~blank /\ ~Broken(doc.text, doc.lazy) =>
          parse(doc) = IF Len(Fields(doc.text)) = doc.headers
                       THEN Parsed(Fields(doc.text)) ELSE Failed("error")

\* The pairs as a program writes them: every value in quotes.
Written(pairs, delimiter) ==
  LET Text(p) == p.key \o <<"=", "\"">> \o p.value \o <<"\"">>
      sep == IF delimiter = "" THEN " " ELSE delimiter
  IN FoldLeft(LAMBDA text, p : IF text = <<>> THEN Text(p) ELSE text \o <<sep>> \o Text(p),
              <<>>, pairs)

\* key_value_parser returns the pairs that were written, their values trimmed, or
\* refuses the text: no value is cut short or given to another key.  It refuses
\* only texts with an apostrophe or a delimiter in a value, or without pairs.
\* A value with an apostrophe and a blank is left out: the apostrophe turns the
\* quoting over, and the parser finds other pairs.
PairsReadBack ==
  LET pairs == doc.pairs
      values == {pairs[i].value : i \in DOMAIN pairs}
      LastOf(k) == Max({i \in DOMAIN pairs : pairs[i].key = k})
      result == parser(Written(pairs, doc.delimiter), doc.delimiter)
  IN (doc.format = "kv" /\ \A v \in values : ~Contains(v, doc.delimiter)
                                             /\ ~(Contains(v, "'") /\ Contains(v, " "))) =>
     /\ result.kind = "ok" =>
          result.value = [k \in {pairs[i].key : i \in DOMAIN pairs} |->
                            Trim(Trim(pairs[LastOf(k)].value, Quotes), {" "})]
     /\ result.kind # "ok" =>
          pairs = <<>> \/ \E v \in values : Contains(v, "'") \/ Contains(v, "=")

\* The parse functions of csv_parser and key_value_parser read what was written.
FormatsRight == CsvJoined /\ PairsReadBack

=============================================================================
