------------------------------ MODULE Splitter ------------------------------
(***************************************************************************)
(* The split functions of helper/multiline.go, which cut a stream of bytes *)
(* into log entries, and the flusher that may be wrapped around them.      *)
(*                                                                         *)
(* Abstraction.  A cell is a newline, a piece of text that the multiline   *)
(* pattern matches (a mark), or other text.  Every piece of text has an    *)
(* identity of its own, so an entry shows which part of the stream it is.  *)
(* A match is a single cell: a match that grows with more data is not      *)
(* modelled.  Newlines are the only white space.                           *)
(***************************************************************************)
EXTENDS Integers, Sequences, SequencesExt

CONSTANTS
  MaxCells,      \* bound: cells of a stream
  MaxLogSize     \* max_log_size, and the size the scanner's buffer grows to

ASSUME SplitterAssumption == MaxCells \in Nat /\ MaxLogSize \in Nat \ {0}

NL       == 0
Text(i)  == i
Mark(i)  == MaxCells + i
Cells    == 0..(2 * MaxCells)

IsNewline(c) == c = NL
IsMark(c)    == c > MaxCells

\* What a split function returns: how far to advance and the token, where the
\* empty token stands for nil.
Result(n, t) == [advance |-> n, token |-> t]
ReadMore     == Result(0, <<>>)

\* The positions of data that satisfy P.
Where(P(_), data) == {i \in 1..Len(data) : P(data[i])}

\* trimWhitespaces
trimWhitespaces(data) ==
  LET text == Where(LAMBDA c : ~IsNewline(c), data)
  IN  IF text = {} THEN <<>> ELSE SubSeq(data, Min(text), Max(text))

\* Everything that is there, as one token.
Everything(data) == Result(Len(data), trimWhitespaces(data))

\* Mutant: like bufio.ScanLines, the end of the file ends a line.
MutNewlineSplit(data, atEOF, flushAtEOF) ==
  LET nls == Where(IsNewline, data) IN
  IF nls # {}
  THEN Result(Min(nls), trimWhitespaces(SubSeq(data, 1, Min(nls) - 1)))
  ELSE IF atEOF THEN Everything(data) ELSE ReadMore

\* NewNewlineSplitFunc
NewlineSplit(data, atEOF, flushAtEOF) ==
  LET nls == Where(IsNewline, data) IN
  IF nls # {}
  THEN Result(Min(nls), trimWhitespaces(SubSeq(data, 1, Min(nls) - 1)))
  ELSE IF atEOF /\ flushAtEOF THEN Everything(data) ELSE ReadMore

\* Mutant: it waits for another read at the end of the file, too.
MutLineEndSplit(data, atEOF, flushAtEOF) ==
  LET marks == Where(IsMark, data) IN
  IF marks = {}
  THEN IF atEOF /\ flushAtEOF THEN Everything(data) ELSE ReadMore
  ELSE IF Min(marks) = Len(data) - 1
  THEN ReadMore
  ELSE Result(Min(marks), trimWhitespaces(SubSeq(data, 1, Min(marks))))

\* NewLineEndSplitFunc: a match that ends one cell before the end of the data
\* waits for another read.
LineEndSplit(data, atEOF, flushAtEOF) ==
  LET marks == Where(IsMark, data) IN
  IF marks = {}
  THEN IF atEOF /\ flushAtEOF THEN Everything(data) ELSE ReadMore
  ELSE IF Min(marks) = Len(data) - 1 /\ ~atEOF
  THEN ReadMore
  ELSE Result(Min(marks), trimWhitespaces(SubSeq(data, 1, Min(marks))))

\* Mutant: text before the first match is skipped.
MutLineStartSplit(data, atEOF, flushAtEOF) ==
  LET marks  == Where(IsMark, data)
      second == {i \in marks : i > Min(marks) + 1}
  IN  IF marks = {} \/ second = {}
      THEN ReadMore
      ELSE Result(Min(second) - 1,
                  trimWhitespaces(SubSeq(data, Min(marks), Min(second) - 1)))

\* NewLineStartSplitFunc: text before the first match is an entry of its own;
\* the second match is looked for from one cell after the first one on.
LineStartSplit(data, atEOF, flushAtEOF) ==
  LET marks  == Where(IsMark, data)
      before == trimWhitespaces(SubSeq(data, 1, Min(marks) - 1))
      second == {i \in marks : i > Min(marks) + 1}
  IN  IF marks = {}
      THEN IF atEOF /\ flushAtEOF THEN Everything(data) ELSE ReadMore
      ELSE IF before # <<>>
      THEN Result(Min(marks) - 1, before)
      ELSE IF Min(marks) = Len(data)
      THEN ReadMore
      ELSE IF atEOF /\ flushAtEOF
      THEN Everything(data)
      ELSE IF second = {}
      THEN ReadMore
      ELSE Result(Min(second) - 1,
                  trimWhitespaces(SubSeq(data, Min(marks), Min(second) - 1)))

\* SplitNone, for the nop encoding.
SplitNone(data, atEOF) ==
  IF Len(data) >= MaxLogSize
  THEN Result(MaxLogSize, SubSeq(data, 1, MaxLogSize))
  ELSE IF atEOF THEN Result(Len(data), data) ELSE ReadMore

Modes == {"newline", "line_end", "line_start", "nop"}

\* MultilineConfig.getSplitFunc, without the flusher.
SplitFunc(mode, data, atEOF, flushAtEOF) ==
  CASE mode = "newline"    -> NewlineSplit(data, atEOF, flushAtEOF)
    [] mode = "line_end"   -> LineEndSplit(data, atEOF, flushAtEOF)
    [] mode = "line_start" -> LineStartSplit(data, atEOF, flushAtEOF)
    [] mode = "nop"        -> SplitNone(data, atEOF)

-----------------------------------------------------------------------------
(* Flusher: the length it saw last and how long ago that last changed.      *)

NewFlusher == [previousDataLength |-> 0, age |-> 0]

UpdateDataChangeTime(f, length) ==
  IF length > 0 /\ length = f.previousDataLength
  THEN f
  ELSE [previousDataLength |-> length, age |-> 0]

\* forcePeriod is counted in polls; zero never forces.
ShouldFlush(f, forcePeriod) ==
  forcePeriod > 0 /\ f.age >= forcePeriod /\ f.previousDataLength > 0

\* Flusher.SplitFunc: the result and the flusher after it.
Flushing(f, forcePeriod, data, result) ==
  IF result.token # <<>>
  THEN [result |-> result, flusher |-> UpdateDataChangeTime(f, 0)]
  ELSE IF ShouldFlush(f, forcePeriod)
  THEN [result |-> Everything(data), flusher |-> UpdateDataChangeTime(f, 0)]
  ELSE [result |-> result, flusher |-> UpdateDataChangeTime(f, Len(data))]

-----------------------------------------------------------------------------
(* What the entries of a stream should be *)

\* The cell ends a record: it, or the one after it, is the boundary.
Ends(mode, data, i) ==
  CASE mode = "newline"    -> IsNewline(data[i])
    [] mode = "line_end"   -> IsMark(data[i])
    [] mode = "line_start" -> i < Len(data) /\ IsMark(data[i + 1])
    [] mode = "nop"        -> TRUE

\* The cells from i to j are a record: from after one boundary to the next.
IsRecord(mode, data, i, j) ==
  /\ i <= j
  /\ i > 1 => Ends(mode, data, i - 1)
  /\ Ends(mode, data, j)
  /\ mode # "nop" => \A k \in i..(j - 1) : ~Ends(mode, data, k)

\* The complete records of a stream, trimmed; blank ones are none.
Records(mode, data) ==
  LET spans == {p \in (1..Len(data)) \X (1..Len(data)) : IsRecord(mode, data, p[1], p[2])}
  IN  {trimWhitespaces(SubSeq(data, p[1], p[2])) : p \in spans} \ {<<>>}

=============================================================================
