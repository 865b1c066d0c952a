-------------------------- MODULE FileReaderProofs --------------------------
(***************************************************************************)
(* What is proved of FileReader for a file of any length, any sizes of the *)
(* scanner's buffer and of the fingerprint, any flush period and any       *)
(* number of polls and restarts: no reader passes text that was not        *)
(* delivered, and without a forced flush an entry is a complete record.    *)
(***************************************************************************)
EXTENDS FileReader, SequenceTheorems, WellFoundedInduction, TLAPS

\* A cell says where it is in the file; newlines are all the same.
CellsInPlace ==
  /\ file \in Seq(Int) /\ Len(file) <= MaxCells
  /\ \A i \in 1..Len(file) : file[i] \in {NL, Text(i), Mark(i)}
  /\ delivered \in [1..MaxCells -> 0..2]

\* Nothing before the n-th cell is left to deliver.
DoneUpto(n) == \A i \in 1..n : file[i] = NL \/ delivered[i] > 0

\* A place in the file where a reader may go on.
Reached(n) == n \in Nat /\ n <= Len(file) /\ DoneUpto(n)

IsReader(r) == r = [arr |-> r.arr, len |-> r.len, off |-> r.off, splitter |-> r.splitter]

ReachedBy(readers) ==
  /\ \E S : readers \in Seq(S)
  /\ \A k \in 1..Len(readers) : IsReader(readers[k]) /\ Reached(readers[k].off)

\* The scanner's buffer is what the file has from its position on.
BufferInPlace ==
  /\ buf \in Seq(Int) /\ Reached(pos) /\ pos + Len(buf) <= Len(file)
  /\ \A k \in 1..Len(buf) : buf[k] = file[pos + k]

\* The readers that the steps of a poll rely on are there.
ReadersThere ==
  /\ nOld = 1 => known # <<>>
  /\ phase = "lost" => known # <<>> /\ fresh # <<>>

ReaderInv ==
  /\ mode \in Modes /\ CellsInPlace /\ BufferInPlace /\ ReadersThere
  /\ ReachedBy(known) /\ ReachedBy(fresh) /\ ReachedBy(<<active>>)

-----------------------------------------------------------------------------
\* What the modes write: newlines are text of the newline mode, matches of the
\* line modes, where they do not touch.
FileOfMode ==
  \A i \in 1..Len(file) :
    /\ file[i] = NL => mode = "newline"
    /\ IsMark(file[i]) =>
         mode \in {"line_end", "line_start"} /\ (i > 1 => ~IsMark(file[i - 1]))

\* A place between two records.
Boundary(n) == n > 0 => Ends(mode, file, n)

\* Without a forced flush every reader is between two records.
AtBoundaries ==
  force = 0 =>
    /\ Boundary(pos) /\ Boundary(active.off)
    /\ \A k \in 1..Len(known) : Boundary(known[k].off)
    /\ \A k \in 1..Len(fresh) : Boundary(fresh[k].off)

RecordInv == ReaderInv /\ FileOfMode /\ AtBoundaries

-----------------------------------------------------------------------------
(* Sets of positions *)

\* A set of numbers that is not empty has a least one.
LEMMA LeastNumber ==
  ASSUME NEW T, T \subseteq Nat, T # {}
  PROVE  \E x \in T : \A y \in T : x <= y
<1>1. \E x \in T : \A y \in T : ~(<<y, x>> \in OpToRel(<, Nat))
  BY NatLessThanWellFounded, WFMin
<1>2. PICK x \in T : \A y \in T : ~(y < x)
  BY <1>1 DEF OpToRel
<1>3. \A y \in T : x \in Nat /\ y \in Nat
  OBVIOUS
<1> QED
  BY <1>2, <1>3

\* Positions have a first one.
LEMMA MinPosition ==
  ASSUME NEW n \in Nat, NEW T, T \subseteq 1..n, T # {}
  PROVE  Min(T) \in T /\ Min(T) \in 1..n /\ \A y \in T : Min(T) <= y
<1>1. T \subseteq Nat
  OBVIOUS
<1>2. \E x \in T : \A y \in T : x <= y
  BY <1>1, LeastNumber
<1> QED
  BY <1>2 DEF Min

\* Positions have a last one: the first, counted from the end.
LEMMA MaxPosition ==
  ASSUME NEW n \in Nat, NEW T, T \subseteq 1..n, T # {}
  PROVE  Max(T) \in T /\ Max(T) \in 1..n /\ \A y \in T : Max(T) >= y
<1> DEFINE U == {n - y : y \in T}
<1>1. U \subseteq Nat /\ U # {}
  <2>1. \A y \in T : n - y \in Nat
    OBVIOUS
  <2> QED
    BY <2>1
<1>2. PICK u \in U : \A v \in U : u <= v
  BY <1>1, LeastNumber
<1>3. PICK x \in T : u = n - x
  BY <1>2
<1>4. \A y \in T : x \in Nat /\ y \in Nat /\ n - x <= n - y
  BY <1>2, <1>3
<1>5. \A y \in T : x >= y
  BY <1>4
<1> QED
  BY <1>5 DEF Max

-----------------------------------------------------------------------------
(* Tokens *)

\* A part of a sequence.
LEMMA PartOf ==
  ASSUME NEW data \in Seq(Int), NEW a \in 1..(Len(data) + 1), NEW b \in 0..Len(data),
         a <= b + 1
  PROVE  /\ SubSeq(data, a, b) \in Seq(Int) /\ Len(SubSeq(data, a, b)) = b - a + 1
         /\ \A i \in 1..(b - a + 1) : SubSeq(data, a, b)[i] = data[a + i - 1]
<1>1. Len(data) \in Nat /\ \A i \in a..b : data[i] \in Int
  BY LenProperties
<1>2. a \in Int /\ b \in Int /\ (IF a <= b THEN b - a + 1 ELSE 0) = b - a + 1
  BY <1>1
<1> QED
  BY <1>1, <1>2, SubSeqProperties

\* trimWhitespaces loses newlines only.
LEMMA Trimmed ==
  ASSUME NEW data \in Seq(Int)
  PROVE  /\ trimWhitespaces(data) \in Seq(Int)
         /\ \A k \in 1..Len(data) :
              data[k] = NL \/ \E j \in 1..Len(trimWhitespaces(data)) :
                                trimWhitespaces(data)[j] = data[k]
<1> DEFINE text == {i \in 1..Len(data) : ~IsNewline(data[i])}
<1>0. Len(data) \in Nat
  BY LenProperties
<1>1. trimWhitespaces(data) = IF text = {} THEN <<>> ELSE SubSeq(data, Min(text), Max(text))
  BY DEF trimWhitespaces, Where
<1>2. \A k \in 1..Len(data) : data[k] # NL => k \in text
  BY DEF IsNewline
<1> HIDE DEF text
<1>3. text \subseteq 1..Len(data)
  BY DEF text
<1>4. CASE text = {}
  BY <1>1, <1>2, <1>4, EmptySeq
<1>5. CASE text # {}
  <2> DEFINE a == Min(text)
             b == Max(text)
             t == SubSeq(data, a, b)
  <2>1. a \in 1..Len(data) /\ b \in 1..Len(data) /\ a <= b
        /\ \A k \in text : a <= k /\ k <= b
    <3>1. /\ a \in text /\ a \in 1..Len(data) /\ \A k \in text : a <= k
          /\ b \in text /\ b \in 1..Len(data) /\ \A k \in text : b >= k
      BY <1>0, <1>3, <1>5, MinPosition, MaxPosition
    <3> HIDE DEF a, b
    <3> QED
      BY <1>0, <1>3, <3>1
  <2> HIDE DEF a, b
  <2>2. /\ t \in Seq(Int) /\ Len(t) = b - a + 1
        /\ \A i \in 1..(b - a + 1) : t[i] = data[a + i - 1]
    BY <1>0, <2>1, PartOf
  <2>3. t = trimWhitespaces(data)
    BY <1>1, <1>5 DEF a, b
  <2> HIDE DEF t
  <2>4. ASSUME NEW k \in 1..Len(data), data[k] # NL
        PROVE  \E j \in 1..Len(t) : t[j] = data[k]
    <3>1. k >= a /\ k <= b /\ k \in Nat
      BY <1>2, <2>1, <2>4
    <3>2. k - a + 1 \in 1..Len(t) /\ a + (k - a + 1) - 1 = k
      BY SMTT(30), <2>1, <2>2, <3>1
    <3> QED
      BY <2>2, <3>2
  <2> QED
    BY <2>2, <2>3, <2>4
<1> QED
  BY <1>4, <1>5

\* Only newlines are trimmed to nothing.
LEMMA BlankOrToken ==
  ASSUME NEW data \in Seq(Int), trimWhitespaces(data) = <<>>
  PROVE  \A k \in 1..Len(data) : data[k] = NL
<1>1. \A j \in 1..Len(<<>>) : FALSE
  BY EmptySeq
<1>2. \A k \in 1..Len(data) :
        data[k] = NL \/ \E j \in 1..Len(<<>>) : <<>>[j] = data[k]
  BY Trimmed
<1> QED
  BY <1>1, <1>2

\* A split function steps over newlines and over what it returns.
Consumes(data, result) ==
  /\ result.advance \in 0..Len(data)
  /\ result.token \in Seq(Int)
  /\ \A k \in 1..result.advance :
       data[k] = NL \/ \E j \in 1..Len(result.token) : result.token[j] = data[k]

\* A token that is the beginning of the data, trimmed, up to or just before
\* the cells that are stepped over.
LEMMA ConsumesTrimmed ==
  ASSUME NEW data \in Seq(Int), NEW a \in 1..(Len(data) + 1), NEW b \in 0..Len(data),
         NEW n \in 0..Len(data), a <= b + 1, n <= b \/ (n = b + 1 /\ data[n] = NL),
         \A k \in 1..(a - 1) : data[k] = NL
  PROVE  Consumes(data, Result(n, trimWhitespaces(SubSeq(data, a, b))))
<1> DEFINE part == SubSeq(data, a, b)
           token == trimWhitespaces(part)
<1>0. Len(data) \in Nat
  BY LenProperties
<1>1. /\ part \in Seq(Int) /\ Len(part) = b - a + 1
      /\ \A i \in 1..(b - a + 1) : part[i] = data[a + i - 1]
  BY <1>0, PartOf
<1> HIDE DEF part
<1>2. /\ token \in Seq(Int)
      /\ \A k \in 1..Len(part) :
           part[k] = NL \/ \E j \in 1..Len(token) : token[j] = part[k]
  BY <1>1, Trimmed
<1> HIDE DEF token
<1>3. ASSUME NEW k \in 1..n
      PROVE  data[k] = NL \/ \E j \in 1..Len(token) : token[j] = data[k]
  <2>1. CASE k < a
    BY <1>0, <2>1
  <2>2. CASE k >= a /\ k <= b
    <3>1. k - a + 1 \in 1..Len(part) /\ a + (k - a + 1) - 1 = k /\ k - a + 1 \in 1..(b - a + 1)
      BY <1>0, <1>1, <2>2
    <3>2. part[k - a + 1] = data[k]
      BY <1>1, <3>1
    <3> QED
      BY <1>2, <3>1, <3>2
  <2>3. CASE k > b
    <3>1. k = n
      BY <1>0, <2>3
    <3> QED
      BY <1>0, <2>3, <3>1
  <2> QED
    BY <1>0, <2>1, <2>2, <2>3
<1> QED
  BY <1>2, <1>3 DEF Consumes, Result, part, token

\* The positions of some cells, and the first of them.
LEMMA FirstOf ==
  ASSUME NEW data \in Seq(Int), NEW T, T \subseteq 1..Len(data), T # {}
  PROVE  /\ Min(T) \in T /\ Min(T) \in 1..Len(data) /\ \A y \in T : Min(T) <= y
         /\ Len(data) \in Nat
<1>1. Len(data) \in Nat
  BY LenProperties
<1> QED
  BY <1>1, MinPosition

\* Nothing is consumed until more has been read.
LEMMA ReadMoreConsumes ==
  ASSUME NEW data \in Seq(Int)
  PROVE  Consumes(data, ReadMore)
<1>1. Len(data) \in Nat /\ <<>> \in Seq(Int)
  BY LenProperties, EmptySeq
<1> QED
  BY <1>1 DEF Consumes, ReadMore, Result

\* All there is, as one token.
LEMMA EverythingConsumes ==
  ASSUME NEW data \in Seq(Int)
  PROVE  Consumes(data, Everything(data))
<1>1. Len(data) \in Nat
  BY LenProperties
<1>2. /\ trimWhitespaces(data) \in Seq(Int)
      /\ \A k \in 1..Len(data) :
           data[k] = NL \/ \E j \in 1..Len(trimWhitespaces(data)) :
                             trimWhitespaces(data)[j] = data[k]
  BY Trimmed
<1> QED
  BY <1>1, <1>2 DEF Consumes, Everything, Result

\* NewNewlineSplitFunc
LEMMA NewlineConsumes ==
  ASSUME NEW data \in Seq(Int), NEW atEOF, NEW flushAtEOF
  PROVE  Consumes(data, NewlineSplit(data, atEOF, flushAtEOF))
<1> DEFINE nls == {i \in 1..Len(data) : IsNewline(data[i])}
           n == Min(nls)
<1>1. CASE nls # {}
  <2>1. n \in nls /\ n \in 1..Len(data) /\ Len(data) \in Nat
    BY <1>1, FirstOf
  <2>2. data[n] = NL
    BY <2>1 DEF IsNewline
  <2>3. NewlineSplit(data, atEOF, flushAtEOF) = Result(n, trimWhitespaces(SubSeq(data, 1, n - 1)))
    BY <1>1 DEF NewlineSplit, Where
  <2> HIDE DEF n
  <2>4. /\ 1 \in 1..(Len(data) + 1) /\ n - 1 \in 0..Len(data) /\ n \in 0..Len(data)
        /\ 1 <= (n - 1) + 1 /\ n = (n - 1) + 1 /\ \A k \in 1..(1 - 1) : data[k] = NL
    BY <2>1
  <2> QED
    BY <2>2, <2>3, <2>4, ConsumesTrimmed
<1>2. CASE nls = {}
  <2>1. NewlineSplit(data, atEOF, flushAtEOF) \in {Everything(data), ReadMore}
    BY <1>2 DEF NewlineSplit, Where
  <2> QED
    BY <2>1, EverythingConsumes, ReadMoreConsumes
<1> QED
  BY <1>1, <1>2

\* NewLineEndSplitFunc
LEMMA LineEndConsumes ==
  ASSUME NEW data \in Seq(Int), NEW atEOF, NEW flushAtEOF
  PROVE  Consumes(data, LineEndSplit(data, atEOF, flushAtEOF))
<1> DEFINE marks == {i \in 1..Len(data) : IsMark(data[i])}
           n == Min(marks)
           result == Result(n, trimWhitespaces(SubSeq(data, 1, n)))
<1>1. marks = {} => LineEndSplit(data, atEOF, flushAtEOF) \in {Everything(data), ReadMore}
  BY DEF LineEndSplit, Where
<1>2. marks # {} => LineEndSplit(data, atEOF, flushAtEOF) \in {result, ReadMore}
  BY DEF LineEndSplit, Where
<1>3. ASSUME marks # {} PROVE Consumes(data, result)
  <2>1. n \in 1..Len(data) /\ Len(data) \in Nat
    BY <1>3, FirstOf
  <2> HIDE DEF n
  <2>2. /\ 1 \in 1..(Len(data) + 1) /\ n \in 0..Len(data) /\ 1 <= n + 1 /\ n <= n
        /\ \A k \in 1..(1 - 1) : data[k] = NL
    BY <2>1
  <2> QED
    BY <2>2, ConsumesTrimmed
<1> HIDE DEF marks, result
<1> QED
  BY <1>1, <1>2, <1>3, EverythingConsumes, ReadMoreConsumes

\* NewLineStartSplitFunc
LEMMA LineStartConsumes ==
  ASSUME NEW data \in Seq(Int), NEW atEOF, NEW flushAtEOF
  PROVE  Consumes(data, LineStartSplit(data, atEOF, flushAtEOF))
<1> DEFINE marks == {i \in 1..Len(data) : IsMark(data[i])}
           m == Min(marks)
           before == trimWhitespaces(SubSeq(data, 1, m - 1))
           second == {i \in marks : i > m + 1}
           n == Min(second)
           first == Result(m - 1, before)
           result == Result(n - 1, trimWhitespaces(SubSeq(data, m, n - 1)))
<1>0. LineStartSplit(data, atEOF, flushAtEOF) =
        IF marks = {}
        THEN IF atEOF /\ flushAtEOF THEN Everything(data) ELSE ReadMore
        ELSE IF before # <<>> THEN first
        ELSE IF m = Len(data) THEN ReadMore
        ELSE IF atEOF /\ flushAtEOF THEN Everything(data)
        ELSE IF second = {} THEN ReadMore ELSE result
  BY DEF LineStartSplit, Where
<1>1. ASSUME marks # {}
      PROVE  /\ m \in marks /\ m \in 1..Len(data) /\ Len(data) \in Nat
             /\ 1 \in 1..(Len(data) + 1) /\ m - 1 \in 0..Len(data) /\ 1 <= (m - 1) + 1
             /\ \A k \in 1..(1 - 1) : data[k] = NL
  <2>1. m \in marks /\ m \in 1..Len(data) /\ Len(data) \in Nat
    BY <1>1, FirstOf
  <2> HIDE DEF m
  <2> QED
    BY <2>1
<1>2. ASSUME marks # {} PROVE Consumes(data, first)
  <2> HIDE DEF m
  <2>1. m - 1 <= m - 1
    BY <1>1, <1>2
  <2> QED
    BY <1>1, <1>2, <2>1, ConsumesTrimmed
<1>3. ASSUME marks # {}, before = <<>>, second # {}
      PROVE  Consumes(data, result)
  <2>1. second \subseteq 1..Len(data)
    OBVIOUS
  <2>2. n \in second /\ n \in 1..Len(data)
    BY <1>3, <2>1, FirstOf
  <2>3. n > m + 1
    BY <2>2
  <2> HIDE DEF m, n, marks, second
  <2>4. \A k \in 1..(m - 1) : data[k] = NL
    <3> DEFINE part == SubSeq(data, 1, m - 1)
    <3>1. /\ part \in Seq(Int) /\ Len(part) = (m - 1) - 1 + 1
          /\ \A i \in 1..((m - 1) - 1 + 1) : part[i] = data[1 + i - 1]
      BY <1>1, <1>3, PartOf
    <3> HIDE DEF part
    <3>2. \A k \in 1..Len(part) : part[k] = NL
      <4>1. trimWhitespaces(part) = <<>>
        BY <1>3 DEF part
      <4> QED
        BY <3>1, <4>1, BlankOrToken
    <3>3. ASSUME NEW k \in 1..(m - 1) PROVE data[k] = NL
      <4>1. k \in 1..Len(part) /\ k \in 1..((m - 1) - 1 + 1) /\ 1 + k - 1 = k
        BY <1>1, <1>3, <3>1
      <4> QED
        BY <3>1, <3>2, <4>1
    <3> QED
      BY <3>3
  <2>5. /\ m \in 1..(Len(data) + 1) /\ n - 1 \in 0..Len(data) /\ m <= (n - 1) + 1
        /\ n - 1 <= n - 1
    BY <1>1, <1>3, <2>2, <2>3
  <2> QED
    BY <2>4, <2>5, ConsumesTrimmed
<1> HIDE DEF marks, before, second, m, first, result
<1> QED
  BY <1>0, <1>2, <1>3, EverythingConsumes, ReadMoreConsumes

\* SplitNone
LEMMA NoneConsumes ==
  ASSUME NEW data \in Seq(Int), NEW atEOF
  PROVE  Consumes(data, SplitNone(data, atEOF))
<1>0. Len(data) \in Nat /\ MaxLogSize \in Nat /\ MaxLogSize >= 1
  BY LenProperties, SplitterAssumption
<1>1. CASE Len(data) >= MaxLogSize
  <2> DEFINE token == SubSeq(data, 1, MaxLogSize)
  <2>1. /\ 1 \in 1..(Len(data) + 1) /\ MaxLogSize \in 0..Len(data) /\ 1 <= MaxLogSize + 1
        /\ MaxLogSize - 1 + 1 = MaxLogSize
    BY <1>0, <1>1
  <2>2. /\ token \in Seq(Int) /\ Len(token) = MaxLogSize
        /\ \A i \in 1..MaxLogSize : token[i] = data[1 + i - 1]
    BY <2>1, PartOf
  <2>3. SplitNone(data, atEOF) = Result(MaxLogSize, token)
    BY <1>1 DEF SplitNone
  <2> HIDE DEF token
  <2>4. \A k \in 1..MaxLogSize : k \in 1..Len(token) /\ token[k] = data[k]
    BY <1>0, <2>2
  <2> QED
    BY <2>1, <2>2, <2>3, <2>4 DEF Consumes, Result
<1>2. CASE ~(Len(data) >= MaxLogSize) /\ atEOF
  BY <1>0, <1>2 DEF SplitNone, Consumes, Result
<1>3. CASE ~(Len(data) >= MaxLogSize) /\ ~atEOF
  <2>1. SplitNone(data, atEOF) = ReadMore
    BY <1>3 DEF SplitNone
  <2> QED
    BY <2>1, ReadMoreConsumes
<1> QED
  BY <1>1, <1>2, <1>3

\* A split function, with or without the flusher, steps over newlines and over
\* what it returns.
LEMMA SplitConsumes ==
  ASSUME mode \in Modes, buf \in Seq(Int)
  PROVE  Consumes(buf, Split.result)
<1> DEFINE result == SplitFunc(mode, buf, eof, FALSE)
           f == flushers[active.splitter]
<1>1. Consumes(buf, result)
  <2>1. CASE mode = "newline"
    BY <2>1, NewlineConsumes DEF SplitFunc
  <2>2. CASE mode = "line_end"
    BY <2>2, LineEndConsumes DEF SplitFunc
  <2>3. CASE mode = "line_start"
    BY <2>3, LineStartConsumes DEF SplitFunc
  <2>4. CASE mode = "nop"
    BY <2>4, NoneConsumes DEF SplitFunc
  <2> QED
    BY <2>1, <2>2, <2>3, <2>4 DEF Modes
<1>2. Split.result \in {result, Everything(buf)}
  BY DEF Split, Flushing
<1> HIDE DEF result
<1> QED
  BY <1>1, <1>2, EverythingConsumes

-----------------------------------------------------------------------------
(* What readers have reached *)

\* The file only grows, and what was delivered stays delivered.
Grows ==
  /\ Len(file) \in Nat /\ Len(file') \in Nat /\ Len(file) <= Len(file')
  /\ \A i \in 1..Len(file) :
       file'[i] = file[i] /\ (delivered[i] > 0 => delivered'[i] > 0)

\* What was reached stays so.
LEMMA ReachedStays ==
  ASSUME Grows, NEW n, Reached(n)
  PROVE  Reached(n)'
<1>1. n \in Nat /\ n <= Len(file) /\ Len(file) \in Nat /\ Len(file') \in Nat
      /\ Len(file) <= Len(file')
  BY DEF Reached, Grows
<1>2. \A i \in 1..n : i \in 1..Len(file)
  BY <1>1
<1>3. DoneUpto(n)'
  BY <1>2 DEF Reached, DoneUpto, Grows
<1> QED
  BY <1>1, <1>3 DEF Reached

\* So it does for all readers of a list.
LEMMA ReachedByStays ==
  ASSUME Grows, NEW readers, ReachedBy(readers)
  PROVE  /\ \E S : readers \in Seq(S)
         /\ \A k \in 1..Len(readers) : IsReader(readers[k]) /\ Reached(readers[k].off)'
  BY ReachedStays DEF ReachedBy

\* Nothing changes that the invariant is about.
LEMMA NothingGrows ==
  ASSUME CellsInPlace, UNCHANGED <<file, delivered>>
  PROVE  Grows
<1>1. Len(file) \in Nat
  BY LenProperties DEF CellsInPlace
<1> QED
  BY <1>1 DEF Grows

\* A list of one reader.
LEMMA OneReader ==
  ASSUME NEW r
  PROVE  ReachedBy(<<r>>) <=> IsReader(r) /\ Reached(r.off)
<1>1. <<r>> \in Seq({r}) /\ Len(<<r>>) = 1 /\ <<r>>[1] = r
  OBVIOUS
<1>2. \A k \in 1..1 : k = 1
  OBVIOUS
<1>3. 1 \in 1..1
  OBVIOUS
<1> QED
  BY <1>1, <1>2, <1>3 DEF ReachedBy

\* Read, Copy and the scan for the end of a line leave Offset alone.
LEMMA SameOffset ==
  ASSUME NEW r, IsReader(r)
  PROVE  /\ \A chunk : IsReader(Updated(r, chunk)) /\ Updated(r, chunk).off = r.off
         /\ IsReader(CopyOf(r)) /\ CopyOf(r).off = r.off
         /\ \A n : IsReader([r EXCEPT !.off = n]) /\ [r EXCEPT !.off = n].off = n
<1>1. ASSUME NEW chunk PROVE IsReader(Updated(r, chunk)) /\ Updated(r, chunk).off = r.off
  BY DEF IsReader, Updated
<1>2. IsReader(CopyOf(r)) /\ CopyOf(r).off = r.off
  BY DEF IsReader, CopyOf
<1>3. ASSUME NEW n PROVE IsReader([r EXCEPT !.off = n]) /\ [r EXCEPT !.off = n].off = n
  BY DEF IsReader
<1> QED
  BY <1>1, <1>2, <1>3

\* So does loading a checkpoint.
LEMMA LoadedOffset ==
  ASSUME NEW r, IsReader(r), NEW a, NEW s
  PROVE  /\ IsReader([r EXCEPT !.arr = a, !.splitter = s])
         /\ [r EXCEPT !.arr = a, !.splitter = s].off = r.off
<1>1. PICK x, y, z, w : r = [arr |-> x, len |-> y, off |-> z, splitter |-> w]
  BY DEF IsReader
<1>2. [r EXCEPT !.arr = a, !.splitter = s] = [arr |-> a, len |-> y, off |-> z, splitter |-> s]
  <2> DEFINE q == [r EXCEPT !.arr = a]
  <2>1. q = [arr |-> a, len |-> y, off |-> z, splitter |-> w]
    BY <1>1
  <2> HIDE DEF q
  <2>2. [q EXCEPT !.splitter = s] = [arr |-> a, len |-> y, off |-> z, splitter |-> s]
    BY <2>1
  <2>3. [r EXCEPT !.arr = a, !.splitter = s] = [q EXCEPT !.splitter = s]
    BY Zenon DEF q
  <2> QED
    BY <2>2, <2>3
<1>3. r.off = z
  BY <1>1
<1>4. /\ IsReader([arr |-> a, len |-> y, off |-> z, splitter |-> s])
      /\ [arr |-> a, len |-> y, off |-> z, splitter |-> s].off = z
  BY DEF IsReader
<1> QED
  BY <1>2, <1>3, <1>4

\* The beginning of a file is always reached.
LEMMA StartReached ==
  ASSUME Len(file) \in Nat
  PROVE  Reached(0) /\ ReachedBy(<<>>)
<1>1. Reached(0)
  BY DEF Reached, DoneUpto
<1>2. <<>> \in Seq({}) /\ Len(<<>>) = 0
  BY EmptySeq
<1> QED
  BY <1>1, <1>2 DEF ReachedBy

\* Two lists that have reached their places, one after the other.
LEMMA AppendReached ==
  ASSUME NEW readers, ReachedBy(readers), NEW r, IsReader(r), Reached(r.off)
  PROVE  ReachedBy(Append(readers, r)) /\ Append(readers, r) # <<>>
<1>1. PICK S : readers \in Seq(S)
  BY DEF ReachedBy
<1> DEFINE T == S \cup {r}
<1>2. readers \in Seq(T)
  BY <1>1, SeqMonotonic
<1>3. /\ Append(readers, r) \in Seq(T) /\ Append(readers, r) # <<>>
      /\ Len(Append(readers, r)) = Len(readers) + 1 /\ Len(readers) \in Nat
      /\ \A i \in 1..Len(readers) : Append(readers, r)[i] = readers[i]
      /\ Append(readers, r)[Len(readers) + 1] = r
  BY <1>2, AppendProperties, LenProperties
<1>4. \A k \in 1..(Len(readers) + 1) : k \in 1..Len(readers) \/ k = Len(readers) + 1
  BY <1>3
<1> QED
  BY <1>3, <1>4 DEF ReachedBy

\* Every reader of a list is one of another list.
Among(part, readers) == \A k \in 1..Len(part) : \E j \in 1..Len(readers) : part[k] = readers[j]

\* A part of a list that has reached its places.
LEMMA PartReached ==
  ASSUME NEW readers, ReachedBy(readers), NEW a \in 1..(Len(readers) + 1),
         NEW b \in 0..Len(readers), a <= b + 1
  PROVE  /\ ReachedBy(SubSeq(readers, a, b))
         /\ a <= b => SubSeq(readers, a, b) # <<>>
         /\ Among(SubSeq(readers, a, b), readers)
<1> DEFINE part == SubSeq(readers, a, b)
<1>1. PICK S : readers \in Seq(S)
  BY DEF ReachedBy
<1>2. Len(readers) \in Nat /\ \A i \in a..b : i \in 1..Len(readers) /\ readers[i] \in S
  <2>1. Len(readers) \in Nat
    BY <1>1, LenProperties
  <2>2. \A i \in a..b : i \in 1..Len(readers)
    BY <2>1
  <2> QED
    BY <1>1, <2>1, <2>2, ElementOfSeq
<1>3. a \in Int /\ b \in Int /\ (IF a <= b THEN b - a + 1 ELSE 0) = b - a + 1
  BY <1>2
<1>4. /\ part \in Seq(S) /\ Len(part) = b - a + 1
      /\ \A i \in 1..(b - a + 1) : part[i] = readers[a + i - 1]
  BY <1>2, <1>3, SubSeqProperties
<1>5. \A i \in 1..(b - a + 1) : a + i - 1 \in 1..Len(readers)
  BY <1>2, <1>3
<1> HIDE DEF part
<1>6. ReachedBy(part)
  BY <1>4, <1>5 DEF ReachedBy
<1>7. a <= b => part # <<>>
  <2>1. part = <<>> => b - a + 1 = 0
    BY <1>4, EmptySeq
  <2> QED
    BY <1>3, <2>1
<1>8. Among(part, readers)
  BY <1>4, <1>5 DEF Among
<1> QED
  BY <1>6, <1>7, <1>8 DEF part

\* The readers that saveCurrent keeps.
LEMMA LatestReached ==
  ASSUME NEW readers, ReachedBy(readers), readers # <<>>
  PROVE  /\ ReachedBy(Latest(readers)) /\ Latest(readers) # <<>>
         /\ Among(Latest(readers), readers)
<1> DEFINE n == Len(readers)
           a == IF n > MaxKnown THEN n - MaxKnown + 1 ELSE 1
<1>1. n \in Nat /\ n >= 1
  BY LenProperties, EmptySeq DEF ReachedBy
<1>2. a \in 1..(n + 1) /\ n \in 0..n /\ a <= n + 1 /\ a <= n
  BY <1>1, ReaderAssumption
<1>3. Latest(readers) = SubSeq(readers, a, n)
  BY DEF Latest
<1> HIDE DEF a
<1>4. PICK b : b = n
  OBVIOUS
<1>5. a \in 1..(Len(readers) + 1) /\ b \in 0..Len(readers) /\ a <= b + 1 /\ a <= b
  BY <1>2, <1>4
<1>6. /\ ReachedBy(SubSeq(readers, a, b)) /\ SubSeq(readers, a, b) # <<>>
      /\ Among(SubSeq(readers, a, b), readers)
  BY <1>5, PartReached
<1> QED
  BY <1>3, <1>4, <1>6

-----------------------------------------------------------------------------
(* No reader passes text that was not delivered *)

\* A step that leaves the file, the buffer and every reader alone.
LEMMA SameReaders ==
  ASSUME ReaderInv,
         UNCHANGED <<mode, file, delivered, buf, pos, known, nOld, fresh, phase, active>>
  PROVE  ReaderInv'
  BY DEF ReaderInv, CellsInPlace, BufferInPlace, ReadersThere, ReachedBy, Reached, DoneUpto

\* At the start there is nothing to pass.
LEMMA InitReached == Init => ReaderInv
<1> SUFFICES ASSUME Init PROVE ReaderInv
  OBVIOUS
<1>1. file = <<>> /\ file \in Seq(Int) /\ Len(file) = 0 /\ 0 <= MaxCells /\ MaxCells \in Nat
  BY EmptySeq, SplitterAssumption DEF Init
<1>2. CellsInPlace
  BY <1>1 DEF Init, CellsInPlace
<1>3. Reached(0) /\ ReachedBy(<<>>)
  BY <1>1, StartReached
<1>4. BufferInPlace
  BY <1>1, <1>3 DEF Init, BufferInPlace
<1>5. ReachedBy(<<active>>)
  <2>1. IsReader(active) /\ active.off = 0
    BY DEF Init, Nothing, IsReader
  <2> QED
    BY <1>3, <2>1, OneReader
<1>6. mode \in Modes /\ ReadersThere
  BY ReaderAssumption DEF Init, ReadersThere
<1> QED
  BY <1>2, <1>3, <1>4, <1>5, <1>6 DEF Init, ReaderInv

\* The writer appends a cell.
LEMMA WriteReached ==
  ASSUME ReaderInv, Write
  PROVE  ReaderInv'
<1>1. /\ file \in Seq(Int) /\ Len(file) \in Nat /\ Len(file) < MaxCells /\ MaxCells \in Nat
      /\ delivered \in [1..MaxCells -> 0..2]
  BY LenProperties, SplitterAssumption DEF ReaderInv, CellsInPlace, Write
<1>2. PICK c \in NextCells : file' = Append(file, c)
  BY DEF Write
<1>3. c \in {NL, Text(Len(file) + 1), Mark(Len(file) + 1)} /\ c \in Int
  BY <1>1 DEF NextCells, NL, Text, Mark
<1>4. /\ file' \in Seq(Int) /\ Len(file') = Len(file) + 1
      /\ \A i \in 1..Len(file) : file'[i] = file[i]
      /\ file'[Len(file) + 1] = c
  BY <1>1, <1>2, <1>3, AppendProperties
<1>5. /\ delivered' = delivered /\ buf' = buf /\ pos' = pos
      /\ UNCHANGED <<mode, known, nOld, fresh, phase, active>>
  BY DEF Write, config, scanVars
<1>6. \A i \in 1..Len(file') : i \in 1..Len(file) \/ i = Len(file) + 1
  BY <1>1, <1>4
<1>7. CellsInPlace'
  <2>1. ASSUME NEW i \in 1..Len(file') PROVE file'[i] \in {NL, Text(i), Mark(i)}
    <3>1. CASE i \in 1..Len(file)
      BY <1>4, <3>1 DEF ReaderInv, CellsInPlace
    <3>2. CASE i = Len(file) + 1
      BY <1>3, <1>4, <3>2
    <3> QED
      BY <1>6, <3>1, <3>2
  <2>2. Len(file') <= MaxCells
    BY <1>1, <1>4
  <2> QED
    BY <1>1, <1>4, <1>5, <2>1, <2>2 DEF CellsInPlace
<1>8. Grows
  BY <1>1, <1>4, <1>5 DEF Grows
<1>9. BufferInPlace'
  <2>1. buf \in Seq(Int) /\ pos \in Nat /\ Len(buf) \in Nat /\ pos + Len(buf) <= Len(file)
    BY LenProperties DEF ReaderInv, BufferInPlace, Reached
  <2>2. \A k \in 1..Len(buf) : pos + k \in 1..Len(file)
    BY <1>1, <2>1
  <2>3. Reached(pos)'
    BY <1>5, <1>8, ReachedStays DEF ReaderInv, BufferInPlace
  <2>4. buf' = buf /\ pos' = pos /\ Len(file) <= Len(file') /\ Len(file) \in Nat /\ Len(file') \in Nat
    BY <1>1, <1>4, <1>5
  <2>5. \A k \in 1..Len(buf) : buf[k] = file'[pos + k]
    BY <1>4, <2>2 DEF ReaderInv, BufferInPlace
  <2> QED
    BY <2>1, <2>3, <2>4, <2>5 DEF BufferInPlace
<1>10. ReachedBy(known)' /\ ReachedBy(fresh)' /\ ReachedBy(<<active>>)'
  BY <1>5, <1>8, ReachedByStays DEF ReaderInv, ReachedBy
<1> QED
  BY <1>5, <1>7, <1>9, <1>10 DEF ReaderInv, ReadersThere

\* A read takes what follows the buffer in the file.
LEMMA ReadReached ==
  ASSUME ReaderInv, Read
  PROVE  ReaderInv'
<1> DEFINE n == Len(buf)
           end == Upto(Len(file), pos + n + MaxLogSize - n)
<1>1. /\ file \in Seq(Int) /\ Len(file) \in Nat /\ buf \in Seq(Int) /\ n \in Nat
      /\ pos \in Nat /\ pos + n <= Len(file) /\ n < MaxLogSize /\ MaxLogSize \in Nat
      /\ \A k \in 1..n : buf[k] = file[pos + k]
  BY LenProperties, SplitterAssumption
     DEF ReaderInv, CellsInPlace, BufferInPlace, Reached, Read
<1>2. /\ buf' = buf \o Chunk /\ active' = Updated(active, Chunk)
      /\ UNCHANGED <<mode, file, delivered, pos, known, nOld, fresh, phase>>
  BY DEF Read, config
<1>3. Chunk = SubSeq(file, pos + n + 1, end)
  BY DEF Chunk
<1>4. pos + n + 1 \in 1..(Len(file) + 1) /\ end \in 0..Len(file) /\ pos + n + 1 <= end + 1
  BY <1>1 DEF Upto
<1> HIDE DEF end
<1>5. /\ Chunk \in Seq(Int) /\ Len(Chunk) = end - (pos + n + 1) + 1
      /\ \A i \in 1..(end - (pos + n + 1) + 1) : Chunk[i] = file[pos + n + 1 + i - 1]
  BY <1>1, <1>3, <1>4, PartOf
<1> HIDE DEF n
<1>6. Len(Chunk) = end - (pos + n) /\ Len(Chunk) \in Nat
      /\ \A i \in 1..Len(Chunk) : Chunk[i] = file[pos + n + i]
  <2>1. end - (pos + n + 1) + 1 = end - (pos + n) /\ end - (pos + n) \in Nat
    BY <1>1, <1>4
  <2>2. ASSUME NEW i \in 1..Len(Chunk) PROVE Chunk[i] = file[pos + n + i]
    <3>1. i \in 1..(end - (pos + n + 1) + 1) /\ pos + n + 1 + i - 1 = pos + n + i
      BY <1>1, <1>5, <2>1
    <3> QED
      BY <1>5, <3>1
  <2> QED
    BY <1>5, <2>1, <2>2
<1>7. /\ buf' \in Seq(Int) /\ Len(buf') = n + Len(Chunk)
      /\ \A i \in 1..(n + Len(Chunk)) : buf'[i] = IF i <= n THEN buf[i] ELSE Chunk[i - n]
  <2>1. /\ buf \o Chunk \in Seq(Int) /\ Len(buf \o Chunk) = Len(buf) + Len(Chunk)
        /\ \A i \in 1..(Len(buf) + Len(Chunk)) : (buf \o Chunk)[i] =
             IF i <= Len(buf) THEN buf[i] ELSE Chunk[i - Len(buf)]
    <3>1. buf \in Seq(Int) /\ Chunk \in Seq(Int)
      BY <1>1, <1>5
    <3> QED
      BY <3>1, ConcatProperties
  <2> QED
    BY <1>2, <2>1 DEF n
<1>8. ASSUME NEW k \in 1..Len(buf') PROVE buf'[k] = file[pos + k]
  <2>1. CASE k <= n
    <3>1. k \in 1..n /\ k \in 1..(n + Len(Chunk))
      BY <1>1, <1>6, <1>7, <2>1
    <3> QED
      BY <1>1, <1>7, <2>1, <3>1
  <2>2. CASE k > n
    <3>1. /\ k - n \in 1..Len(Chunk) /\ k \in 1..(n + Len(Chunk)) /\ ~(k <= n)
          /\ pos + n + (k - n) = pos + k
      BY <1>1, <1>6, <1>7, <2>2
    <3>2. buf'[k] = Chunk[k - n]
      BY <1>7, <3>1
    <3> QED
      BY <1>6, <3>1, <3>2
  <2> QED
    BY <1>1, <1>6, <1>7, <2>1, <2>2
<1>9. pos + Len(buf') <= Len(file)
  <2>1. pos + (n + (end - (pos + n))) = end /\ end <= Len(file)
    BY <1>1, <1>4
  <2> QED
    BY <1>6, <1>7, <2>1
<1>10. BufferInPlace'
  BY <1>2, <1>7, <1>8, <1>9 DEF ReaderInv, BufferInPlace, Reached, DoneUpto
<1>11. ReachedBy(<<active>>)'
  <2>1. IsReader(active) /\ Reached(active.off)
    BY OneReader DEF ReaderInv
  <2>2. IsReader(active') /\ active'.off = active.off
    BY <1>2, <2>1, SameOffset
  <2>3. ReachedBy(<<active'>>)
    BY <2>1, <2>2, OneReader
  <2> QED
    BY <1>2, <2>3 DEF ReachedBy, Reached, DoneUpto
<1> QED
  BY <1>2, <1>10, <1>11
     DEF ReaderInv, CellsInPlace, ReadersThere, ReachedBy, Reached, DoneUpto

\* The scanner steps over n cells of its buffer.
LEMMA SteppedOver ==
  ASSUME CellsInPlace, BufferInPlace, NEW n \in 0..Len(buf)
  PROVE  LET rest == SubSeq(buf, n + 1, Len(buf)) IN
         /\ rest \in Seq(Int) /\ Len(rest) = Len(buf) - n /\ Len(buf) \in Nat
         /\ pos + n + Len(rest) <= Len(file) /\ pos + n \in Nat /\ pos + n <= Len(file)
         /\ \A k \in 1..Len(rest) : rest[k] = file[pos + n + k]
<1> DEFINE rest == SubSeq(buf, n + 1, Len(buf))
<1>1. /\ buf \in Seq(Int) /\ Len(buf) \in Nat /\ pos \in Nat /\ Len(file) \in Nat
      /\ pos + Len(buf) <= Len(file) /\ \A k \in 1..Len(buf) : buf[k] = file[pos + k]
  BY LenProperties DEF CellsInPlace, BufferInPlace, Reached
<1>2. /\ n + 1 \in 1..(Len(buf) + 1) /\ Len(buf) \in 0..Len(buf) /\ n + 1 <= Len(buf) + 1
      /\ Len(buf) - (n + 1) + 1 = Len(buf) - n
  BY <1>1
<1>3. /\ rest \in Seq(Int) /\ Len(rest) = Len(buf) - n
      /\ \A i \in 1..(Len(buf) - n) : rest[i] = buf[n + 1 + i - 1]
  <2>1. buf \in Seq(Int) /\ n + 1 \in 1..(Len(buf) + 1) /\ Len(buf) \in 0..Len(buf)
    BY <1>1, <1>2
  <2>2. /\ rest \in Seq(Int) /\ Len(rest) = Len(buf) - (n + 1) + 1
        /\ \A i \in 1..(Len(buf) - (n + 1) + 1) : rest[i] = buf[n + 1 + i - 1]
    BY <1>2, <2>1, PartOf
  <2> HIDE DEF rest
  <2> QED
    BY <1>2, <2>2
<1> HIDE DEF rest
<1>4. ASSUME NEW k \in 1..Len(rest) PROVE rest[k] = file[pos + n + k]
  <2>1. /\ k \in 1..(Len(buf) - n) /\ n + k \in 1..Len(buf) /\ n + 1 + k - 1 = n + k
        /\ pos + (n + k) = pos + n + k
    BY <1>1, <1>3
  <2>2. rest[k] = buf[n + k]
    BY <1>3, <2>1
  <2> QED
    BY <1>1, <2>1, <2>2
<1>5. pos + n + Len(rest) <= Len(file) /\ pos + n \in Nat /\ pos + n <= Len(file)
  BY <1>1, <1>3
<1> QED
  BY <1>1, <1>3, <1>4, <1>5 DEF rest

\* What Scan steps over has been delivered by then, or is a newline.
LEMMA ScanDelivers ==
  ASSUME ReaderInv, Scan
  PROVE  /\ Grows /\ CellsInPlace' /\ BufferInPlace'
         /\ active' = active \/ active' = [active EXCEPT !.off = pos']
         /\ pos' = pos + Split.result.advance
<1> DEFINE result == Split.result
           n == result.advance
           token == result.token
<1>0. mode \in Modes /\ CellsInPlace /\ BufferInPlace
  BY DEF ReaderInv
<1>1. /\ Consumes(buf, result) /\ buf \in Seq(Int) /\ Len(buf) \in Nat /\ pos \in Nat
      /\ Len(file) \in Nat /\ Len(file) <= MaxCells /\ MaxCells \in Nat
  BY <1>0, SplitConsumes, LenProperties, SplitterAssumption
     DEF CellsInPlace, BufferInPlace, Reached
<1>2. /\ file' = file /\ pos' = pos + n /\ buf' = SubSeq(buf, n + 1, Len(buf))
      /\ Token(Split) \/ NoToken(Split)
  BY DEF Scan, Token, NoToken, Advance
<1>3. n \in 0..Len(buf) /\ token \in Seq(Int)
  BY <1>1 DEF Consumes
<1>4. /\ delivered' \in [1..MaxCells -> 0..2]
      /\ \A i \in 1..MaxCells : delivered[i] > 0 => delivered'[i] > 0
      /\ \A i \in 1..MaxCells : (Text(i) \in Range(token) \/ Mark(i) \in Range(token))
           => delivered'[i] > 0
  <2>0. delivered \in [1..MaxCells -> 0..2]
    BY <1>0 DEF CellsInPlace
  <2>1. CASE Token(Split)
    <3>1. delivered' = [i \in 1..MaxCells |->
            IF Text(i) \in Range(token) \/ Mark(i) \in Range(token)
            THEN Upto(delivered[i] + 1, 2) ELSE delivered[i]]
      BY <2>1 DEF Token
    <3>2. \A i \in 1..MaxCells : Upto(delivered[i] + 1, 2) \in 1..2 /\ delivered[i] \in 0..2
      BY <2>0 DEF Upto
    <3> HIDE DEF token
    <3> QED
      BY <3>1, <3>2
  <2>2. CASE NoToken(Split)
    <3>1. delivered' = delivered /\ token = <<>>
      BY <2>2 DEF NoToken
    <3>2. Range(<<>>) = {}
      BY EmptySeq DEF Range
    <3> QED
      BY <2>0, <3>1, <3>2
  <2> QED
    BY <1>2, <2>1, <2>2
<1>5. Grows
  BY <1>1, <1>2, <1>4 DEF Grows
<1>6. CellsInPlace'
  BY <1>0, <1>2, <1>4 DEF CellsInPlace
<1>7. /\ buf' \in Seq(Int) /\ pos' + Len(buf') <= Len(file) /\ pos' \in Nat /\ pos' <= Len(file)
      /\ \A k \in 1..Len(buf') : buf'[k] = file[pos' + k]
  <2> HIDE DEF n
  <2> QED
    BY <1>0, <1>2, <1>3, SteppedOver
<1>8. ASSUME NEW i \in 1..pos' PROVE file[i] = NL \/ delivered'[i] > 0
  <2>0. i \in 1..MaxCells /\ i \in 1..Len(file)
    BY <1>1, <1>7
  <2>1. CASE i <= pos
    BY <1>0, <1>1, <1>4, <2>0, <2>1 DEF BufferInPlace, Reached, DoneUpto
  <2>2. CASE i > pos
    <3> DEFINE k == i - pos
    <3>1. k \in 1..n /\ k \in 1..Len(buf) /\ pos + k = i
      <4> HIDE DEF n
      <4> QED
        BY <1>1, <1>2, <1>3, <2>2
    <3> HIDE DEF k
    <3>2. buf[k] = file[i]
      BY <1>0, <3>1 DEF BufferInPlace
    <3>3. buf[k] = NL \/ \E j \in 1..Len(token) : token[j] = buf[k]
      BY <1>1, <3>1 DEF Consumes
    <3>4. ASSUME file[i] # NL PROVE file[i] \in Range(token)
      <4>1. PICK j \in 1..Len(token) : token[j] = file[i]
        BY <3>2, <3>3, <3>4
      <4>2. j \in DOMAIN token
        BY <1>3, <4>1
      <4> QED
        BY <4>1, <4>2 DEF Range
    <3>5. file[i] \in {NL, Text(i), Mark(i)}
      BY <1>0, <2>0 DEF CellsInPlace
    <3> HIDE DEF token
    <3> QED
      BY <1>4, <2>0, <3>4, <3>5
  <2> QED
    BY <1>1, <2>0, <2>1, <2>2
<1>9. BufferInPlace'
  BY <1>2, <1>7, <1>8 DEF BufferInPlace, Reached, DoneUpto
<1>10. active' = active \/ active' = [active EXCEPT !.off = pos']
  BY <1>2 DEF Token, NoToken
<1> QED
  BY <1>2, <1>5, <1>6, <1>9, <1>10

\* So Offset may follow.
LEMMA ScanReached ==
  ASSUME ReaderInv, Scan
  PROVE  ReaderInv'
<1>1. /\ Grows /\ CellsInPlace' /\ BufferInPlace'
      /\ active' = active \/ active' = [active EXCEPT !.off = pos']
  BY ScanDelivers
<1>2. UNCHANGED <<mode, known, nOld, fresh, phase>>
  BY DEF Scan, Token, NoToken, Advance, config
<1>3. ReachedBy(known)' /\ ReachedBy(fresh)'
  BY <1>1, <1>2, ReachedByStays DEF ReaderInv, ReachedBy
<1>4. IsReader(active) /\ Reached(active.off)
  BY OneReader DEF ReaderInv
<1>5. IsReader(active') /\ Reached(active.off)'
  <2>1. CASE active' = active
    BY <1>1, <1>4, <2>1, ReachedStays
  <2>2. CASE active' = [active EXCEPT !.off = pos']
    <3>1. IsReader(active') /\ active'.off = pos'
      BY <1>4, <2>2, SameOffset
    <3> QED
      BY <1>1, <3>1 DEF BufferInPlace
  <2> QED
    BY <1>1, <2>1, <2>2
<1>6. ReachedBy(<<active>>)'
  <2>1. <<active'>> \in Seq({active'}) /\ Len(<<active'>>) = 1 /\ <<active'>>[1] = active'
    OBVIOUS
  <2>2. \A k \in 1..1 : k = 1
    OBVIOUS
  <2> QED
    BY <1>5, <2>1, <2>2 DEF ReachedBy
<1> QED
  BY <1>1, <1>2, <1>3, <1>6 DEF ReaderInv, ReadersThere

\* A reader is scanned from its Offset.
LEMMA ScanningReached ==
  ASSUME ReaderInv, NEW r, IsReader(r), Reached(r.off), Scanning(r),
         UNCHANGED <<file, delivered>>
  PROVE  BufferInPlace' /\ ReachedBy(<<active>>)'
<1>1. active' = r /\ buf' = <<>> /\ pos' = r.off
  BY DEF Scanning
<1>2. buf' \in Seq(Int) /\ Len(buf') = 0 /\ pos' + 0 = pos' /\ r.off \in Nat
  BY <1>1, EmptySeq DEF Reached
<1>3. BufferInPlace'
  BY <1>1, <1>2 DEF BufferInPlace, Reached, DoneUpto
<1>4. ReachedBy(<<r>>)
  BY OneReader
<1> QED
  BY <1>1, <1>3, <1>4 DEF ReachedBy, Reached, DoneUpto

\* A poll starts with a copy of a known reader, or at the beginning.
LEMMA PollReached ==
  ASSUME ReaderInv, PollKnown \/ PollNew
  PROVE  ReaderInv'
<1>1. UNCHANGED <<mode, file, delivered, known, nOld, fresh>> /\ phase' = "read"
  BY DEF PollKnown, PollNew, config
<1>2. CASE PollKnown
  <2> DEFINE i == Max(Found)
  <2>1. Found \subseteq 1..Len(known) /\ Found # {} /\ Len(known) \in Nat
    BY <1>2, LenProperties DEF PollKnown, Found, ReaderInv, ReachedBy
  <2>2. i \in 1..Len(known)
    BY <2>1, MaxPosition
  <2> HIDE DEF i
  <2>3. IsReader(known[i]) /\ Reached(known[i].off)
    BY <2>2 DEF ReaderInv, ReachedBy
  <2>4. IsReader(CopyOf(known[i])) /\ Reached(CopyOf(known[i]).off)
    BY <2>3, SameOffset
  <2>5. Scanning(CopyOf(known[i]))
    BY <1>2 DEF PollKnown, i
  <2> QED
    BY <1>1, <2>4, <2>5, ScanningReached
       DEF ReaderInv, CellsInPlace, ReadersThere, ReachedBy, Reached, DoneUpto
<1>3. CASE PollNew
  <2>1. PICK s : Scanning(NewReader(s))
    BY <1>3 DEF PollNew
  <2>2. IsReader(NewReader(s)) /\ NewReader(s).off = 0
    BY DEF IsReader, NewReader
  <2>3. Reached(0)
    BY StartReached, LenProperties DEF ReaderInv, CellsInPlace
  <2> QED
    BY <1>1, <2>1, <2>2, <2>3, ScanningReached
       DEF ReaderInv, CellsInPlace, ReadersThere, ReachedBy, Reached, DoneUpto
<1> QED
  BY <1>2, <1>3

\* The reader that counts as lost goes on where it was.
LEMMA RollReached ==
  ASSUME ReaderInv, RollLost
  PROVE  ReaderInv'
<1>1. /\ UNCHANGED <<mode, file, delivered, known, nOld>> /\ phase' = "lost"
      /\ fresh' = <<active>> /\ Scanning(Last(known)) /\ nOld = 1
  BY DEF RollLost, Lost, config
<1>2. known # <<>>
  BY <1>1 DEF ReaderInv, ReadersThere
<1>3. PICK S : known \in Seq(S)
  BY DEF ReaderInv, ReachedBy
<1>4. Len(known) \in 1..Len(known) /\ Last(known) = known[Len(known)]
  <2>1. Len(known) \in Nat \ {0}
    BY <1>2, <1>3, EmptySeq
  <2> QED
    BY <2>1 DEF Last
<1>5. IsReader(Last(known)) /\ Reached(Last(known).off)
  BY <1>4 DEF ReaderInv, ReachedBy
<1>6. BufferInPlace' /\ ReachedBy(<<active>>)'
  BY <1>1, <1>5, ScanningReached
<1>7. ReachedBy(fresh)'
  BY <1>1 DEF ReaderInv, ReachedBy, Reached, DoneUpto
<1>8. fresh' # <<>>
  BY <1>1
<1> QED
  BY <1>1, <1>2, <1>6, <1>7, <1>8
     DEF ReaderInv, CellsInPlace, ReadersThere, ReachedBy, Reached, DoneUpto

\* saveCurrent keeps readers as they are.
LEMMA SaveReached ==
  ASSUME ReaderInv, NEW readers, ReachedBy(readers), readers # <<>>, Save(readers)
  PROVE  ReaderInv'
<1>1. /\ UNCHANGED <<mode, file, delivered>> /\ phase' = "idle" /\ known' = Latest(readers)
      /\ nOld' = 1 /\ fresh' = <<>> /\ active' = Nothing /\ buf' = <<>> /\ pos' = 0
  BY DEF Save, config
<1>2. ReachedBy(Latest(readers)) /\ Latest(readers) # <<>>
  BY LatestReached
<1>3. Len(file) \in Nat
  BY LenProperties DEF ReaderInv, CellsInPlace
<1>4. Reached(0) /\ ReachedBy(<<>>)
  BY <1>3, StartReached
<1>5. ReachedBy(<<Nothing>>)
  <2>1. IsReader(Nothing) /\ Nothing.off = 0
    BY DEF Nothing, IsReader
  <2> QED
    BY <1>4, <2>1, OneReader
<1>6. BufferInPlace'
  <2>1. buf' \in Seq(Int) /\ Len(buf') = 0
    BY <1>1, EmptySeq
  <2> QED
    BY <1>1, <1>3, <1>4, <2>1 DEF BufferInPlace, Reached, DoneUpto
<1>7. ReachedBy(known)' /\ ReachedBy(fresh)' /\ ReachedBy(<<active>>)'
  BY <1>1, <1>2, <1>4, <1>5 DEF ReachedBy, Reached, DoneUpto
<1> QED
  BY <1>1, <1>2, <1>6, <1>7 DEF ReaderInv, CellsInPlace, ReadersThere

\* The readers a poll saves: the known ones with the active one, which takes the
\* place of the lost one.
LEMMA SavedReached ==
  ASSUME ReaderInv, SaveFound \/ SaveLost
  PROVE  \E readers :
           /\ ReachedBy(readers) /\ readers # <<>> /\ Save(readers)
           /\ \A k \in 1..Len(readers) :
                \/ readers[k] = active
                \/ \E j \in 1..Len(known) : readers[k] = known[j]
                \/ \E j \in 1..Len(fresh) : readers[k] = fresh[j]
<1>0. IsReader(active) /\ Reached(active.off) /\ ReachedBy(known) /\ ReachedBy(fresh)
  BY OneReader DEF ReaderInv
<1>1. ASSUME NEW readers, ReachedBy(readers), NEW r
      PROVE  \A k \in 1..Len(Append(readers, r)) :
               Append(readers, r)[k] = r \/ \E j \in 1..Len(readers) : Append(readers, r)[k] = readers[j]
  <2>1. PICK S : readers \in Seq(S)
    BY <1>1 DEF ReachedBy
  <2>2. readers \in Seq(S \cup {r})
    BY <2>1, SeqMonotonic
  <2>3. /\ Len(Append(readers, r)) = Len(readers) + 1 /\ Len(readers) \in Nat
        /\ \A i \in 1..Len(readers) : Append(readers, r)[i] = readers[i]
        /\ Append(readers, r)[Len(readers) + 1] = r
    BY <2>2, AppendProperties, LenProperties
  <2>4. \A k \in 1..(Len(readers) + 1) : k \in 1..Len(readers) \/ k = Len(readers) + 1
    BY <2>3
  <2> QED
    BY <2>3, <2>4
<1>2. CASE SaveFound
  <2>1. Save(Append(known, active))
    BY <1>2 DEF SaveFound
  <2>2. ReachedBy(Append(known, active)) /\ Append(known, active) # <<>>
    BY <1>0, AppendReached
  <2> DEFINE all == Append(known, active)
  <2>3. \A k \in 1..Len(all) : all[k] = active \/ \E j \in 1..Len(known) : all[k] = known[j]
    BY <1>0, <1>1
  <2> HIDE DEF all
  <2> QED
    BY <2>1, <2>2, <2>3 DEF all
<1>3. CASE SaveLost
  <2> DEFINE kept == Front(known)
             two == Append(kept, active)
  <2>1. known # <<>> /\ fresh # <<>>
    BY <1>3 DEF SaveLost, ReaderInv, ReadersThere
  <2>2. Len(known) \in Nat \ {0} /\ Len(fresh) \in Nat \ {0}
    BY <1>0, <2>1, EmptySeq DEF ReachedBy
  <2>3. kept = SubSeq(known, 1, Len(known) - 1)
    BY DEF Front
  <2>4. /\ 1 \in 1..(Len(known) + 1) /\ Len(known) - 1 \in 0..Len(known)
        /\ 1 <= Len(known) - 1 + 1
    BY <2>2
  <2>5. /\ ReachedBy(kept)
        /\ \A k \in 1..Len(kept) : \E j \in 1..Len(known) : kept[k] = known[j]
    BY <1>0, <2>3, <2>4, PartReached
  <2> HIDE DEF kept
  <2>6. /\ ReachedBy(two)
        /\ \A k \in 1..Len(two) : two[k] = active \/ \E j \in 1..Len(kept) : two[k] = kept[j]
    BY <1>0, <1>1, <2>5, AppendReached
  <2>7. 1 \in 1..Len(fresh) /\ IsReader(fresh[1]) /\ Reached(fresh[1].off)
    BY <1>0, <2>2 DEF ReachedBy
  <2>8. Save(Append(two, fresh[1]))
    BY <1>3 DEF SaveLost, kept
  <2> HIDE DEF two
  <2> DEFINE all == Append(two, fresh[1])
  <2>9. /\ ReachedBy(all) /\ all # <<>>
        /\ \A k \in 1..Len(all) : all[k] = fresh[1] \/ \E j \in 1..Len(two) : all[k] = two[j]
    BY <1>1, <2>6, <2>7, AppendReached
  <2> HIDE DEF all
  <2>10. \A k \in 1..Len(all) :
           \/ all[k] = active
           \/ \E j \in 1..Len(known) : all[k] = known[j]
           \/ \E j \in 1..Len(fresh) : all[k] = fresh[j]
    BY <2>5, <2>6, <2>7, <2>9
  <2> QED
    BY <2>8, <2>9, <2>10 DEF all
<1> QED
  BY <1>2, <1>3

\* A checkpoint has the readers' offsets as they are.
LEMMA RestartReached ==
  ASSUME ReaderInv, Restart
  PROVE  /\ ReaderInv' /\ Len(known') = Len(known)
         /\ \A k \in 1..Len(known) : known'[k].off = known[k].off
<1> DEFINE loaded(i) == [known[i] EXCEPT !.arr = FirstBytes(known[i]), !.splitter = i]
<1>1. /\ known' = [i \in 1..Len(known) |-> loaded(i)] /\ nOld' = 0
      /\ phase = "idle" /\ phase' = phase
      /\ UNCHANGED <<mode, file, delivered, buf, pos, fresh, active>>
  BY DEF Restart, config, scanVars
<1>2. Len(known) \in Nat
  BY LenProperties DEF ReaderInv, ReachedBy
<1>3. ASSUME NEW i \in 1..Len(known)
      PROVE  IsReader(loaded(i)) /\ loaded(i).off = known[i].off
  <2>1. IsReader(known[i])
    BY DEF ReaderInv, ReachedBy
  <2> QED
    BY <2>1, LoadedOffset
<1> DEFINE T == {loaded(i) : i \in 1..Len(known)}
<1>4. \A i \in 1..Len(known) : loaded(i) \in T
  OBVIOUS
<1> HIDE DEF T, loaded
<1>5. known' \in Seq(T) /\ Len(known') = Len(known)
      /\ \A k \in 1..Len(known) : known'[k] = loaded(k)
  BY <1>1, <1>2, <1>4
<1>6. \A k \in 1..Len(known') : IsReader(known'[k]) /\ Reached(known'[k].off)
  BY <1>3, <1>5 DEF ReaderInv, ReachedBy
<1>7. ReachedBy(known)'
  BY <1>1, <1>5, <1>6 DEF ReachedBy, Reached, DoneUpto
<1>8. ReaderInv'
  <2>1. CellsInPlace' /\ BufferInPlace'
    BY <1>1 DEF ReaderInv, CellsInPlace, BufferInPlace, Reached, DoneUpto
  <2>2. ReachedBy(fresh)' /\ ReachedBy(<<active>>)'
    BY <1>1 DEF ReaderInv, ReachedBy, Reached, DoneUpto
  <2>3. ReadersThere'
    BY <1>1 DEF ReadersThere
  <2> QED
    BY <1>1, <1>7, <2>1, <2>2, <2>3 DEF ReaderInv
<1> QED
  BY <1>3, <1>5, <1>8

\* Whatever happens, no reader is beyond what was delivered.
LEMMA ReaderStep == ReaderInv /\ [Next]_vars => ReaderInv'
<1> SUFFICES ASSUME ReaderInv, [Next]_vars PROVE ReaderInv'
  OBVIOUS
<1>1. CASE Write
  BY <1>1, WriteReached
<1>2. CASE TooLong
  BY <1>2, SameReaders DEF TooLong, config
<1>3. CASE Read
  BY <1>3, ReadReached
<1>4. CASE Panic
  BY <1>4, SameReaders DEF Panic, config
<1>5. CASE Scan
  BY <1>5, ScanReached
<1>6. CASE PollKnown \/ PollNew
  BY <1>6, PollReached
<1>7. CASE RollLost
  BY <1>7, RollReached
<1>8. CASE SaveFound \/ SaveLost
  BY <1>8, SavedReached, SaveReached
<1>9. CASE Restart
  BY <1>9, RestartReached
<1>10. CASE UNCHANGED vars
  BY <1>10, SameReaders DEF vars, config, scanVars
<1> QED
  BY <1>1, <1>2, <1>3, <1>4, <1>5, <1>6, <1>7, <1>8, <1>9, <1>10
     DEF Next, ReadToEnd, Poll

\* The invariant says what OffsetsDelivered says.
LEMMA ReachedDelivered == ReaderInv => OffsetsDelivered
<1> SUFFICES ASSUME ReaderInv, NEW r \in Readers, NEW i \in 1..Upto(r.off, Len(file))
             PROVE  file[i] = NL \/ delivered[i] > 0
  BY DEF OffsetsDelivered
<1>1. Reached(r.off)
  <2>1. CASE r \in Range(known)
    <3>1. PICK k \in DOMAIN known : r = known[k]
      BY <2>1 DEF Range
    <3>2. k \in 1..Len(known)
      BY <3>1, LenProperties DEF ReaderInv, ReachedBy
    <3> QED
      BY <3>1, <3>2 DEF ReaderInv, ReachedBy
  <2>2. CASE r \in Range(fresh)
    <3>1. PICK k \in DOMAIN fresh : r = fresh[k]
      BY <2>2 DEF Range
    <3>2. k \in 1..Len(fresh)
      BY <3>1, LenProperties DEF ReaderInv, ReachedBy
    <3> QED
      BY <3>1, <3>2 DEF ReaderInv, ReachedBy
  <2>3. CASE r = active
    BY <2>3, OneReader DEF ReaderInv
  <2> QED
    BY <2>1, <2>2, <2>3 DEF Readers
<1>2. r.off \in Nat /\ Upto(r.off, Len(file)) = r.off
  BY <1>1 DEF Reached, Upto
<1> QED
  BY <1>1, <1>2 DEF Reached, DoneUpto

\* No reader ever skips text: what lies before an Offset was delivered, for files
\* of any length, every split function and every interleaving of writes, reads,
\* polls, lost readers and restarts.
THEOREM OffsetsDeliveredCorrect == Spec => []OffsetsDelivered
<1>1. Init => ReaderInv
  BY InitReached
<1>2. ReaderInv /\ [Next]_vars => ReaderInv'
  BY ReaderStep
<1>3. ReaderInv => OffsetsDelivered
  BY ReachedDelivered
<1> QED
  BY <1>1, <1>2, <1>3, PTL DEF Spec

-----------------------------------------------------------------------------
(* Without a forced flush an entry is a record *)

\* Newlines at the end are trimmed.
LEMMA SameText ==
  ASSUME NEW s \in Seq(Int), NEW t \in Seq(Int), Len(s) <= Len(t),
         \A i \in 1..Len(s) : t[i] = s[i],
         \A i \in (Len(s) + 1)..Len(t) : t[i] = NL
  PROVE  trimWhitespaces(s) = trimWhitespaces(t)
<1> DEFINE text == {i \in 1..Len(s) : ~IsNewline(s[i])}
<1>0. Len(s) \in Nat /\ Len(t) \in Nat
  BY LenProperties
<1>1. {i \in 1..Len(t) : ~IsNewline(t[i])} = text
  <2>1. \A i \in 1..Len(t) : i \in 1..Len(s) \/ i \in (Len(s) + 1)..Len(t)
    BY <1>0
  <2>2. \A i \in 1..Len(s) : i \in 1..Len(t)
    BY <1>0
  <2> QED
    BY <2>1, <2>2 DEF IsNewline
<1>2. /\ trimWhitespaces(s) = IF text = {} THEN <<>> ELSE SubSeq(s, Min(text), Max(text))
      /\ trimWhitespaces(t) = IF text = {} THEN <<>> ELSE SubSeq(t, Min(text), Max(text))
  BY <1>1 DEF trimWhitespaces, Where
<1>3. CASE text = {}
  BY <1>2, <1>3
<1>4. CASE text # {}
  <2> DEFINE a == Min(text)
             b == Max(text)
             u == SubSeq(s, a, b)
             v == SubSeq(t, a, b)
  <2>0. text \subseteq 1..Len(s)
    OBVIOUS
  <2>1. a \in 1..Len(s) /\ b \in 1..Len(s) /\ a <= b
    <3>1. a \in 1..Len(s) /\ b \in text /\ b \in 1..Len(s) /\ \A y \in text : a <= y
      <4> HIDE DEF text
      <4> QED
        BY <1>0, <1>4, <2>0, MinPosition, MaxPosition
    <3> HIDE DEF a, b
    <3> QED
      BY <3>1
  <2> HIDE DEF text, a, b
  <2>2. /\ u \in Seq(Int) /\ Len(u) = b - a + 1 /\ v \in Seq(Int) /\ Len(v) = b - a + 1
        /\ \A i \in 1..(b - a + 1) : u[i] = s[a + i - 1]
        /\ \A i \in 1..(b - a + 1) : v[i] = t[a + i - 1]
    <3>1. /\ a \in 1..(Len(s) + 1) /\ b \in 0..Len(s) /\ a <= b + 1
          /\ a \in 1..(Len(t) + 1) /\ b \in 0..Len(t)
      BY <1>0, <2>1
    <3> QED
      BY <3>1, PartOf
  <2>3. \A i \in 1..(b - a + 1) : a + i - 1 \in 1..Len(s)
    BY <1>0, <2>1
  <2>4. Len(u) = Len(v) /\ \A i \in 1..Len(u) : u[i] = v[i]
    BY <2>2, <2>3
  <2>5. u = v
    <3> HIDE DEF u, v
    <3> QED
      BY <2>2, <2>4, SeqEqual
  <2> QED
    BY <1>2, <1>4, <2>5 DEF a, b
<1> QED
  BY <1>3, <1>4

\* Text without newlines is not trimmed.
LEMMA NothingTrimmed ==
  ASSUME NEW data \in Seq(Int), \A k \in 1..Len(data) : data[k] # NL
  PROVE  trimWhitespaces(data) = data
<1> DEFINE text == {i \in 1..Len(data) : ~IsNewline(data[i])}
           n == Len(data)
<1>0. n \in Nat
  BY LenProperties
<1>1. text = 1..n
  BY DEF IsNewline
<1>2. trimWhitespaces(data) = IF text = {} THEN <<>> ELSE SubSeq(data, Min(text), Max(text))
  BY DEF trimWhitespaces, Where
<1>3. CASE n = 0
  <2>1. text = {}
    BY <1>1, <1>3
  <2>2. data = <<>>
    BY <1>3, EmptySeq
  <2> QED
    BY <1>2, <2>1, <2>2
<1>4. CASE n # 0
  <2> HIDE DEF text, n
  <2>1. 1 \in text /\ n \in text /\ text \subseteq 1..n
    BY <1>0, <1>1, <1>4
  <2>2. /\ Min(text) \in 1..n /\ \A y \in text : Min(text) <= y
        /\ Max(text) \in 1..n /\ \A y \in text : Max(text) >= y
    BY <1>0, <2>1, MinPosition, MaxPosition
  <2>3. Min(text) = 1 /\ Max(text) = n
    BY <1>0, <2>1, <2>2
  <2>4. 1 \in 1..(n + 1) /\ n \in 0..n /\ 1 <= n + 1 /\ n - 1 + 1 = n
    BY <1>0
  <2>5. /\ SubSeq(data, 1, n) \in Seq(Int) /\ Len(SubSeq(data, 1, n)) = n
        /\ \A i \in 1..n : SubSeq(data, 1, n)[i] = data[1 + i - 1]
    BY <2>4, PartOf DEF n
  <2>6. \A i \in 1..n : SubSeq(data, 1, n)[i] = data[i]
    BY <1>0, <2>5
  <2>7. SubSeq(data, 1, n) = data
    BY <2>5, <2>6, SeqEqual DEF n
  <2> QED
    BY <1>2, <2>1, <2>3, <2>7
<1> QED
  BY <1>3, <1>4

\* The beginning of the buffer, when it is a record but for newlines at its end.
LEMMA BufferedRecord ==
  ASSUME CellsInPlace, BufferInPlace, NEW n \in 1..Len(buf), NEW b \in 0..n,
         \A k \in (b + 1)..n : buf[k] = NL, IsRecord(mode, file, pos + 1, pos + n),
         trimWhitespaces(SubSeq(buf, 1, b)) # <<>>
  PROVE  trimWhitespaces(SubSeq(buf, 1, b)) \in Records(mode, file)
<1> DEFINE s == SubSeq(buf, 1, b)
           t == SubSeq(file, pos + 1, pos + n)
<1>1. /\ buf \in Seq(Int) /\ Len(buf) \in Nat /\ pos \in Nat /\ file \in Seq(Int)
      /\ Len(file) \in Nat /\ pos + Len(buf) <= Len(file)
      /\ \A k \in 1..Len(buf) : buf[k] = file[pos + k]
  BY LenProperties DEF CellsInPlace, BufferInPlace, Reached
<1>2. /\ 1 \in 1..(Len(buf) + 1) /\ b \in 0..Len(buf) /\ 1 <= b + 1 /\ b - 1 + 1 = b
      /\ pos + 1 \in 1..(Len(file) + 1) /\ pos + n \in 0..Len(file)
      /\ pos + 1 <= pos + n + 1 /\ (pos + n) - (pos + 1) + 1 = n
      /\ pos + 1 \in 1..Len(file) /\ pos + n \in 1..Len(file)
  BY SMTT(30), <1>1
<1>3. s \in Seq(Int) /\ Len(s) = b /\ \A i \in 1..b : s[i] = buf[1 + i - 1]
  BY SMTT(30), <1>1, <1>2, PartOf
<1>4. t \in Seq(Int) /\ Len(t) = n /\ \A i \in 1..n : t[i] = file[pos + 1 + i - 1]
  <2>1. /\ t \in Seq(Int) /\ Len(t) = (pos + n) - (pos + 1) + 1
        /\ \A i \in 1..((pos + n) - (pos + 1) + 1) : t[i] = file[pos + 1 + i - 1]
    BY <1>1, <1>2, PartOf
  <2> HIDE DEF t
  <2> QED
    BY <1>2, <2>1
<1>5. \A i \in 1..n : t[i] = buf[i]
  <2>1. \A i \in 1..n : pos + 1 + i - 1 = pos + i /\ i \in 1..Len(buf)
    BY <1>1
  <2> HIDE DEF t
  <2> QED
    BY <1>1, <1>4, <2>1
<1>6. \A i \in 1..b : i \in 1..n /\ s[i] = buf[i]
  <2>1. \A i \in 1..b : i \in 1..n /\ 1 + i - 1 = i
    BY <1>1
  <2> HIDE DEF s
  <2> QED
    BY <1>3, <2>1
<1>7. \A i \in (b + 1)..n : i \in 1..n
  BY <1>1
<1>8. trimWhitespaces(s) = trimWhitespaces(t)
  <2> HIDE DEF s, t
  <2>1. Len(s) <= Len(t)
    BY <1>3, <1>4
  <2>2. \A i \in 1..Len(s) : t[i] = s[i]
    BY <1>3, <1>5, <1>6
  <2>3. \A i \in (Len(s) + 1)..Len(t) : t[i] = NL
    BY <1>3, <1>4, <1>5, <1>7
  <2> QED
    BY <1>3, <1>4, <2>1, <2>2, <2>3, SameText
<1> DEFINE spans == {p \in (1..Len(file)) \X (1..Len(file)) : IsRecord(mode, file, p[1], p[2])}
           p0 == <<pos + 1, pos + n>>
<1>9. p0 \in spans /\ p0[1] = pos + 1 /\ p0[2] = pos + n
  BY <1>2
<1>10. Records(mode, file) = {trimWhitespaces(SubSeq(file, p[1], p[2])) : p \in spans} \ {<<>>}
  BY DEF Records
<1> HIDE DEF spans, p0, s
<1> QED
  BY <1>8, <1>9, <1>10 DEF s

\* What ends a record in each mode.
LEMMA EndsOf ==
  ASSUME NEW m, NEW data, NEW i
  PROVE  /\ m = "newline" => (Ends(m, data, i) <=> data[i] = NL)
         /\ m = "line_end" => (Ends(m, data, i) <=> IsMark(data[i]))
         /\ m = "line_start" => (Ends(m, data, i) <=> i < Len(data) /\ IsMark(data[i + 1]))
         /\ m = "nop" => Ends(m, data, i)
  BY DEF Ends, IsNewline

\* From one boundary to the next there is a record.
LEMMA RecordBetween ==
  ASSUME pos \in Nat, NEW n \in Nat, n >= 1, Boundary(pos), Ends(mode, file, pos + n),
         mode # "nop" => \A k \in 1..(n - 1) : ~Ends(mode, file, pos + k)
  PROVE  IsRecord(mode, file, pos + 1, pos + n)
<1>1. pos + 1 <= pos + n /\ pos + 1 - 1 = pos /\ (pos + 1 > 1 => pos > 0)
  OBVIOUS
<1>2. pos + 1 > 1 => Ends(mode, file, pos + 1 - 1)
  BY <1>1 DEF Boundary
<1>3. ASSUME mode # "nop", NEW k \in (pos + 1)..(pos + n - 1)
      PROVE  ~Ends(mode, file, k)
  <2>1. k - pos \in 1..(n - 1) /\ pos + (k - pos) = k
    OBVIOUS
  <2> QED
    BY <1>3, <2>1
<1> QED
  BY <1>1, <1>2, <1>3 DEF IsRecord

\* What the split functions return where records begin: nothing, or a record, and
\* then the scanner is where the next one begins.
EndsRecord(result) ==
  /\ Boundary(pos + result.advance)
  /\ result.token # <<>> => result.token \in Records(mode, file)

\* The cells of the buffer are those of the file.
LEMMA BufferCells ==
  ASSUME CellsInPlace, BufferInPlace
  PROVE  /\ buf \in Seq(Int) /\ Len(buf) \in Nat /\ pos \in Nat /\ file \in Seq(Int)
         /\ Len(file) \in Nat /\ pos + Len(buf) <= Len(file)
         /\ \A k \in 1..Len(buf) : buf[k] = file[pos + k] /\ pos + k \in 1..Len(file)
<1>1. /\ buf \in Seq(Int) /\ Len(buf) \in Nat /\ pos \in Nat /\ file \in Seq(Int)
      /\ Len(file) \in Nat /\ pos + Len(buf) <= Len(file)
      /\ \A k \in 1..Len(buf) : buf[k] = file[pos + k]
  BY LenProperties DEF CellsInPlace, BufferInPlace, Reached
<1>2. \A k \in 1..Len(buf) : pos + k \in 1..Len(file)
  BY <1>1
<1> QED
  BY <1>1, <1>2

\* Nothing was split off.
LEMMA ReadMoreRecord ==
  ASSUME pos \in Nat, Boundary(pos)
  PROVE  EndsRecord(ReadMore)
<1>1. pos + 0 = pos
  OBVIOUS
<1> QED
  BY <1>1 DEF EndsRecord, ReadMore, Result

\* NewNewlineSplitFunc: a record ends with the first newline.
LEMMA NewlineRecord ==
  ASSUME CellsInPlace, BufferInPlace, Boundary(pos), mode = "newline"
  PROVE  EndsRecord(NewlineSplit(buf, eof, FALSE))
<1> DEFINE nls == {i \in 1..Len(buf) : IsNewline(buf[i])}
           n == Min(nls)
<1>0. /\ buf \in Seq(Int) /\ Len(buf) \in Nat /\ pos \in Nat
      /\ \A k \in 1..Len(buf) : buf[k] = file[pos + k] /\ pos + k \in 1..Len(file)
  BY BufferCells
<1>1. CASE nls = {}
  <2>1. NewlineSplit(buf, eof, FALSE) = ReadMore
    BY <1>1 DEF NewlineSplit, Where
  <2> QED
    BY <1>0, <2>1, ReadMoreRecord
<1>2. CASE nls # {}
  <2>1. n \in nls /\ n \in 1..Len(buf) /\ \A y \in nls : n <= y
    BY <1>0, <1>2, FirstOf
  <2>2. buf[n] = NL /\ \A k \in 1..Len(buf) : buf[k] = NL => k \in nls
    BY <2>1 DEF IsNewline
  <2>3. NewlineSplit(buf, eof, FALSE) = Result(n, trimWhitespaces(SubSeq(buf, 1, n - 1)))
    BY <1>2 DEF NewlineSplit, Where
  <2> HIDE DEF nls, n
  <2>4. Ends(mode, file, pos + n)
    BY <1>0, <2>1, <2>2, EndsOf
  <2>5. ASSUME NEW k \in 1..(n - 1) PROVE ~Ends(mode, file, pos + k)
    <3>1. k \in 1..Len(buf) /\ ~(n <= k)
      BY <1>0, <2>1
    <3>2. file[pos + k] # NL
      BY <1>0, <2>1, <2>2, <3>1
    <3> QED
      BY <3>2, EndsOf
  <2>6. n \in Nat /\ n >= 1 /\ n - 1 \in 0..n /\ \A k \in (n - 1 + 1)..n : k = n
    BY <2>1
  <2>7. IsRecord(mode, file, pos + 1, pos + n)
    BY <1>0, <2>4, <2>5, <2>6, RecordBetween
  <2> DEFINE token == trimWhitespaces(SubSeq(buf, 1, n - 1))
  <2>8. token # <<>> => token \in Records(mode, file)
    BY <2>1, <2>2, <2>6, <2>7, BufferedRecord
  <2>9. NewlineSplit(buf, eof, FALSE) = Result(n, token)
    BY <2>3
  <2> HIDE DEF token
  <2>10. EndsRecord(Result(n, token))
    BY <2>4, <2>8 DEF EndsRecord, Boundary, Result
  <2> QED
    BY <2>9, <2>10
<1> QED
  BY <1>1, <1>2

\* NewLineEndSplitFunc: a record ends with the first match.
LEMMA LineEndRecord ==
  ASSUME CellsInPlace, BufferInPlace, Boundary(pos), mode = "line_end"
  PROVE  EndsRecord(LineEndSplit(buf, eof, FALSE))
<1> DEFINE marks == {i \in 1..Len(buf) : IsMark(buf[i])}
           n == Min(marks)
           token == trimWhitespaces(SubSeq(buf, 1, n))
<1>0. /\ buf \in Seq(Int) /\ Len(buf) \in Nat /\ pos \in Nat
      /\ \A k \in 1..Len(buf) : buf[k] = file[pos + k] /\ pos + k \in 1..Len(file)
  BY BufferCells
<1>1. \/ LineEndSplit(buf, eof, FALSE) = ReadMore
      \/ marks # {} /\ LineEndSplit(buf, eof, FALSE) = Result(n, token)
  BY DEF LineEndSplit, Where
<1>2. ASSUME marks # {} PROVE EndsRecord(Result(n, token))
  <2>1. n \in marks /\ n \in 1..Len(buf) /\ \A y \in marks : n <= y
    BY <1>0, <1>2, FirstOf
  <2>2. IsMark(buf[n]) /\ \A k \in 1..Len(buf) : IsMark(buf[k]) => k \in marks
    BY <2>1
  <2> HIDE DEF marks, n
  <2>3. Ends(mode, file, pos + n)
    BY <1>0, <2>1, <2>2, EndsOf
  <2>4. ASSUME NEW k \in 1..(n - 1) PROVE ~Ends(mode, file, pos + k)
    <3>1. k \in 1..Len(buf) /\ ~(n <= k)
      BY <1>0, <2>1
    <3>2. ~IsMark(file[pos + k])
      BY <1>0, <2>1, <2>2, <3>1
    <3> QED
      BY <3>2, EndsOf
  <2>5. n \in Nat /\ n >= 1 /\ n \in 0..n /\ \A k \in (n + 1)..n : FALSE
    BY <2>1
  <2>6. IsRecord(mode, file, pos + 1, pos + n)
    BY <1>0, <2>3, <2>4, <2>5, RecordBetween
  <2>7. token # <<>> => token \in Records(mode, file)
    BY <2>1, <2>5, <2>6, BufferedRecord
  <2> HIDE DEF token
  <2> QED
    BY <2>3, <2>7 DEF EndsRecord, Boundary, Result
<1> HIDE DEF marks, n, token
<1> QED
  BY <1>0, <1>1, <1>2, ReadMoreRecord

\* NewLineStartSplitFunc: a record ends before the next match.
LEMMA LineStartRecord ==
  ASSUME CellsInPlace, BufferInPlace, FileOfMode, Boundary(pos), mode = "line_start"
  PROVE  EndsRecord(LineStartSplit(buf, eof, FALSE))
<1> DEFINE marks == {i \in 1..Len(buf) : IsMark(buf[i])}
           m == Min(marks)
           before == trimWhitespaces(SubSeq(buf, 1, m - 1))
           second == {i \in marks : i > m + 1}
           n == Min(second)
           first == Result(m - 1, before)
           token == trimWhitespaces(SubSeq(buf, m, n - 1))
           result == Result(n - 1, token)
<1>0. /\ buf \in Seq(Int) /\ Len(buf) \in Nat /\ pos \in Nat /\ Len(file) \in Nat
      /\ \A k \in 1..Len(buf) : buf[k] = file[pos + k] /\ pos + k \in 1..Len(file)
  BY BufferCells
<1>1. \/ LineStartSplit(buf, eof, FALSE) = ReadMore
      \/ marks # {} /\ before # <<>> /\ LineStartSplit(buf, eof, FALSE) = first
      \/ marks # {} /\ before = <<>> /\ second # {} /\ LineStartSplit(buf, eof, FALSE) = result
  BY DEF LineStartSplit, Where
<1>2. /\ \A k \in marks : k \in 1..Len(buf) /\ IsMark(buf[k])
      /\ \A k \in 1..Len(buf) : IsMark(buf[k]) => k \in marks
      /\ marks \subseteq 1..Len(buf)
  OBVIOUS
<1>3. \A k \in second : k \in marks /\ k > m + 1
  OBVIOUS
<1>4. \A k \in marks : k > m + 1 => k \in second
  OBVIOUS
<1>5. marks # {} => m \in marks /\ \A y \in marks : m <= y
  <2> HIDE DEF marks
  <2> QED
    BY <1>0, <1>2, FirstOf
\* Before a match a record ends.
<1>6. ASSUME NEW k \in 1..Len(buf) PROVE Ends(mode, file, pos + (k - 1)) <=> IsMark(buf[k])
  <2>1. /\ pos + (k - 1) + 1 = pos + k /\ pos + k <= Len(file) /\ pos + (k - 1) < Len(file)
    BY <1>0, <1>6
  <2> QED
    BY SMTT(30), <1>0, <2>1, EndsOf
<1> HIDE DEF marks
\* There are no newlines.
<1>7. \A k \in 1..Len(buf) : buf[k] # NL
  BY <1>0 DEF FileOfMode
<1>8. ASSUME marks # {}, before # <<>> PROVE EndsRecord(first)
  <2>1. m \in 1..Len(buf) /\ \A y \in marks : m <= y
    BY <1>2, <1>5, <1>8
  <2>2. m > 1
    <3>1. ASSUME m = 1 PROVE FALSE
      <4> DEFINE part == SubSeq(buf, 1, 0)
      <4>1. /\ 1 \in 1..(Len(buf) + 1) /\ 0 \in 0..Len(buf) /\ 1 <= 0 + 1 /\ 0 - 1 + 1 = 0
        BY <1>0
      <4>2. part \in Seq(Int) /\ Len(part) = 0 - 1 + 1
        BY <1>0, <4>1, PartOf
      <4>3. part = <<>>
        <5> HIDE DEF part
        <5> QED
          BY <4>1, <4>2, EmptySeq
      <4>4. trimWhitespaces(<<>>) = <<>>
        <5>1. <<>> \in Seq(Int) /\ \A k \in 1..Len(<<>>) : <<>>[k] # NL
          BY EmptySeq
        <5> QED
          BY <5>1, NothingTrimmed
      <4>5. m - 1 = 0
        BY <3>1
      <4> HIDE DEF m
      <4> QED
        BY <1>8, <4>3, <4>4, <4>5
    <3> HIDE DEF m
    <3> QED
      BY <2>1, <3>1
  <2> HIDE DEF m
  <2>3. m \in 1..Len(buf) /\ m - 1 \in Nat /\ m - 1 >= 1 /\ m - 1 \in 1..Len(buf)
        /\ m - 1 \in 0..(m - 1) /\ \A k \in ((m - 1) + 1)..(m - 1) : FALSE
    BY <1>0, <2>1, <2>2
  <2>4. Ends(mode, file, pos + (m - 1))
    BY <1>2, <1>5, <1>6, <1>8, <2>3
  <2>5. ASSUME NEW k \in 1..((m - 1) - 1) PROVE ~Ends(mode, file, pos + k)
    <3>1. k + 1 \in 1..Len(buf) /\ (k + 1) - 1 = k /\ ~(m <= k + 1)
      BY <1>0, <2>3
    <3>2. ~IsMark(buf[k + 1])
      BY <1>2, <2>1, <3>1
    <3> QED
      BY <1>6, <3>1, <3>2
  <2>6. IsRecord(mode, file, pos + 1, pos + (m - 1))
    BY <1>0, <2>3, <2>4, <2>5, RecordBetween
  <2>7. before \in Records(mode, file)
    BY <1>8, <2>3, <2>6, BufferedRecord
  <2>8. first.advance = m - 1 /\ first.token = before
    BY DEF Result
  <2> HIDE DEF first, before
  <2> QED
    BY <2>4, <2>7, <2>8 DEF EndsRecord, Boundary
<1>9. ASSUME marks # {}, before = <<>>, second # {} PROVE EndsRecord(result)
  <2>1. m \in marks /\ m \in 1..Len(buf) /\ \A y \in marks : m <= y
    BY <1>2, <1>5, <1>9
  <2>2. m = 1
    <3> DEFINE part == SubSeq(buf, 1, m - 1)
    <3>0. trimWhitespaces(part) = <<>>
      BY <1>9
    <3> HIDE DEF m
    <3>1. 1 \in 1..(Len(buf) + 1) /\ m - 1 \in 0..Len(buf) /\ 1 <= (m - 1) + 1
          /\ (m - 1) - 1 + 1 = m - 1
      BY <1>0, <2>1
    <3>2. /\ part \in Seq(Int) /\ Len(part) = (m - 1) - 1 + 1
          /\ \A i \in 1..((m - 1) - 1 + 1) : part[i] = buf[1 + i - 1]
      BY <1>0, <3>1, PartOf
    <3> HIDE DEF part
    <3>3. \A k \in 1..Len(part) : part[k] = NL
      BY <3>0, <3>2, BlankOrToken
    <3>4. ASSUME m # 1 PROVE FALSE
      <4>1. 1 \in 1..(m - 1) /\ 1 + 1 - 1 = 1 /\ 1 \in 1..Len(buf)
        BY <1>0, <2>1, <3>4
      <4>2. part[1] = buf[1] /\ part[1] = NL
        BY <3>1, <3>2, <3>3, <4>1
      <4> QED
        BY <1>7, <4>1, <4>2
    <3> QED
      BY <3>4
  <2>3. second \subseteq 1..Len(buf)
    BY <1>2, <1>3
  <2>4. n \in second /\ \A y \in second : n <= y
    <3> HIDE DEF second
    <3> QED
      BY <1>0, <1>9, <2>3, FirstOf
  <2>5. n \in marks /\ n \in 1..Len(buf) /\ n > m + 1
    BY <1>2, <1>3, <2>4
  <2> HIDE DEF second, n, m
  <2>6. n - 1 \in Nat /\ n - 1 >= 1 /\ n - 1 \in 1..Len(buf) /\ n - 1 \in 0..(n - 1)
        /\ \A k \in ((n - 1) + 1)..(n - 1) : FALSE
    BY <1>0, <2>2, <2>5
  <2>7. Ends(mode, file, pos + (n - 1))
    BY <1>2, <1>6, <2>5
  <2>8. ASSUME NEW k \in 1..((n - 1) - 1) PROVE ~Ends(mode, file, pos + k)
    <3>1. k \in 1..Len(buf) /\ k + 1 \in 1..Len(buf) /\ (k + 1) - 1 = k /\ ~(n <= k + 1)
      BY <1>0, <2>5, <2>8
    <3>2. ~IsMark(buf[k + 1])
      <4>1. CASE k = 1
        \* Matches do not touch.
        <5>1. IsMark(file[pos + k])
          BY <1>0, <1>2, <2>1, <2>2, <3>1, <4>1
        <5> DEFINE i == pos + (k + 1)
        <5>2. i \in 1..Len(file) /\ i > 1 /\ i - 1 = pos + k /\ buf[k + 1] = file[i]
          BY <1>0, <3>1, <4>1
        <5> HIDE DEF i
        <5>3. IsMark(file[i]) => ~IsMark(file[i - 1])
          BY <5>2 DEF FileOfMode
        <5> QED
          BY <5>1, <5>2, <5>3
      <4>2. CASE k # 1
        <5>1. k + 1 > m + 1
          BY <2>2, <3>1, <4>2
        <5> QED
          BY <1>2, <1>4, <2>4, <3>1, <5>1
      <4> QED
        BY <4>1, <4>2
    <3> QED
      BY <1>6, <3>1, <3>2
  <2>9. IsRecord(mode, file, pos + 1, pos + (n - 1))
    BY <1>0, <2>6, <2>7, <2>8, RecordBetween
  <2>10. token = trimWhitespaces(SubSeq(buf, 1, n - 1))
    BY <2>2
  <2>11. token # <<>> => token \in Records(mode, file)
    BY <2>6, <2>9, <2>10, BufferedRecord
  <2>12. result.advance = n - 1 /\ result.token = token
    BY DEF Result
  <2> HIDE DEF result, token
  <2> QED
    BY <2>7, <2>11, <2>12 DEF EndsRecord, Boundary
<1> HIDE DEF m, n, before, second, first, token, result
<1> QED
  BY <1>0, <1>1, <1>8, <1>9, ReadMoreRecord

\* SplitNone: any part of the file is a record.
LEMMA NoneRecord ==
  ASSUME CellsInPlace, BufferInPlace, FileOfMode, mode = "nop"
  PROVE  EndsRecord(SplitNone(buf, eof))
<1>0. /\ buf \in Seq(Int) /\ Len(buf) \in Nat /\ pos \in Nat /\ MaxLogSize \in Nat /\ MaxLogSize >= 1
      /\ \A k \in 1..Len(buf) : buf[k] = file[pos + k] /\ pos + k \in 1..Len(file)
  BY BufferCells, SplitterAssumption
<1>1. \A i : Boundary(i)
  BY EndsOf DEF Boundary
<1>2. ASSUME NEW n \in 0..Len(buf), NEW token, token = SubSeq(buf, 1, n)
      PROVE  EndsRecord(Result(n, token))
  <2>1. 1 \in 1..(Len(buf) + 1) /\ n \in 0..Len(buf) /\ 1 <= n + 1 /\ n - 1 + 1 = n
    BY <1>0
  <2>2. /\ token \in Seq(Int) /\ Len(token) = n
        /\ \A i \in 1..n : token[i] = buf[1 + i - 1]
    BY <1>0, <1>2, <2>1, PartOf
  <2>3. ASSUME NEW k \in 1..Len(token) PROVE token[k] # NL
    <3>1. k \in 1..n /\ 1 + k - 1 = k /\ k \in 1..Len(buf)
      BY <1>0, <2>2
    <3>2. token[k] = file[pos + k] /\ pos + k \in 1..Len(file)
      BY <1>0, <2>2, <3>1
    <3> QED
      BY <3>2 DEF FileOfMode
  <2>4. trimWhitespaces(token) = token
    BY <2>2, <2>3, NothingTrimmed
  <2>5. ASSUME token # <<>> PROVE token \in Records(mode, file)
    <3>1. n \in 1..Len(buf) /\ n \in Nat /\ n >= 1 /\ n \in 0..n /\ \A k \in (n + 1)..n : FALSE
      BY <1>0, <2>2, <2>5, EmptySeq
    <3>2. IsRecord(mode, file, pos + 1, pos + n)
      BY <1>0, <1>1, <3>1, EndsOf, RecordBetween
    <3> QED
      BY <1>2, <2>4, <2>5, <3>1, <3>2, BufferedRecord
  <2> QED
    BY <1>1, <2>5 DEF EndsRecord, Result
<1>3. CASE Len(buf) >= MaxLogSize
  <2>1. MaxLogSize \in 0..Len(buf)
    BY <1>0, <1>3
  <2>2. EndsRecord(Result(MaxLogSize, SubSeq(buf, 1, MaxLogSize)))
    BY <1>2, <2>1
  <2> QED
    BY <1>3, <2>2 DEF SplitNone
<1>4. CASE ~(Len(buf) >= MaxLogSize) /\ eof
  <2>1. Len(buf) \in 0..Len(buf) /\ buf = SubSeq(buf, 1, Len(buf))
    BY <1>0
  <2> QED
    BY <1>2, <1>4, <2>1 DEF SplitNone
<1>5. CASE ~(Len(buf) >= MaxLogSize) /\ ~eof
  BY <1>0, <1>1, <1>5, ReadMoreRecord DEF SplitNone
<1> QED
  BY <1>3, <1>4, <1>5

\* Without a forced flush the flusher returns what the split function does.
LEMMA SplitRecord ==
  ASSUME ReaderInv, FileOfMode, Boundary(pos), force = 0
  PROVE  EndsRecord(Split.result)
<1>0. mode \in Modes /\ CellsInPlace /\ BufferInPlace
  BY DEF ReaderInv
<1> DEFINE result == SplitFunc(mode, buf, eof, FALSE)
<1>1. EndsRecord(result)
  <2>1. CASE mode = "newline"
    BY <1>0, <2>1, NewlineRecord DEF SplitFunc
  <2>2. CASE mode = "line_end"
    BY <1>0, <2>2, LineEndRecord DEF SplitFunc
  <2>3. CASE mode = "line_start"
    BY <1>0, <2>3, LineStartRecord DEF SplitFunc
  <2>4. CASE mode = "nop"
    BY <1>0, <2>4, NoneRecord DEF SplitFunc
  <2> QED
    BY <1>0, <2>1, <2>2, <2>3, <2>4 DEF Modes
<1>2. \A f : ~ShouldFlush(f, force)
  BY DEF ShouldFlush
<1>3. Split.result = result
  <2> HIDE DEF result
  <2>1. \A f : Flushing(f, force, buf, result).result = result
    BY <1>2 DEF Flushing
  <2>2. Split = IF mode = "nop" THEN [result |-> result, flusher |-> flushers[active.splitter]]
                ELSE Flushing(flushers[active.splitter], force, buf, result)
    BY DEF Split, result
  <2> QED
    BY <2>1, <2>2
<1> HIDE DEF result
<1> QED
  BY <1>1, <1>3

\* A boundary stays one when the file grows.
LEMMA BoundaryStays ==
  ASSUME Grows, mode' = mode, mode \in Modes, NEW n \in Nat, n <= Len(file), Boundary(n)
  PROVE  Boundary(n)'
<1> SUFFICES ASSUME n > 0 PROVE Ends(mode', file', n)
  BY DEF Boundary
<1>1. Ends(mode, file, n)
  BY DEF Boundary
<1>2. /\ Len(file) \in Nat /\ Len(file') \in Nat /\ Len(file) <= Len(file')
      /\ \A i \in 1..Len(file) : file'[i] = file[i]
  BY DEF Grows
<1>3. n \in 1..Len(file) /\ (n < Len(file) => n + 1 \in 1..Len(file) /\ n < Len(file'))
  BY <1>2
<1>4. CASE mode = "newline"
  BY <1>1, <1>2, <1>3, <1>4, EndsOf
<1>5. CASE mode = "line_end"
  BY <1>1, <1>2, <1>3, <1>5, EndsOf
<1>6. CASE mode = "line_start"
  BY <1>1, <1>2, <1>3, <1>6, EndsOf
<1>7. CASE mode = "nop"
  BY <1>7, EndsOf
<1> QED
  BY <1>4, <1>5, <1>6, <1>7 DEF Modes

\* What the writer appends fits the mode.
LEMMA WriteOfMode ==
  ASSUME ReaderInv, FileOfMode, Write
  PROVE  FileOfMode'
<1>1. /\ file \in Seq(Int) /\ Len(file) \in Nat /\ Len(file) < MaxCells /\ MaxCells \in Nat
  BY LenProperties, SplitterAssumption DEF ReaderInv, CellsInPlace, Write
<1> DEFINE n == Len(file) + 1
<1>2. PICK c \in NextCells : file' = Append(file, c)
  BY DEF Write
<1>3. /\ c = NL => mode = "newline"
      /\ c = Text(n) \/ c = NL \/ c = Mark(n)
      /\ c = Mark(n) => mode \in {"line_end", "line_start"} /\ (n > 1 => ~IsMark(file[n - 1]))
  <2>1. n > 0 /\ Text(n) # NL /\ Mark(n) # NL /\ Text(n) # Mark(n)
    BY <1>1 DEF Text, Mark, NL
  <2> HIDE DEF n
  <2>2. \/ c = Text(n)
        \/ mode = "newline" /\ c = NL
        \/ mode \in {"line_end", "line_start"} /\ ~(n > 1 /\ IsMark(file[n - 1])) /\ c = Mark(n)
    BY <1>2 DEF NextCells, n
  <2> QED
    BY <2>1, <2>2
<1>4. c \in Int /\ (IsMark(c) => c = Mark(n))
  BY <1>1, <1>3 DEF NL, Text, Mark, IsMark
<1>5. /\ Len(file') = n /\ \A i \in 1..Len(file) : file'[i] = file[i]
      /\ file'[n] = c
  BY <1>1, <1>2, <1>4, AppendProperties
<1>6. mode' = mode
  BY DEF Write, config
<1>7. ASSUME NEW i \in 1..Len(file')
      PROVE  /\ file'[i] = NL => mode' = "newline"
             /\ IsMark(file'[i]) =>
                  mode' \in {"line_end", "line_start"} /\ (i > 1 => ~IsMark(file'[i - 1]))
  <2>1. i > 1 => i - 1 \in 1..Len(file)
    BY <1>1, <1>5
  <2>2. i > 1 => file'[i - 1] = file[i - 1]
    BY <1>5, <2>1
  <2>3. CASE i \in 1..Len(file)
    BY <1>5, <1>6, <2>2, <2>3 DEF FileOfMode
  <2>4. CASE i = n
    <3>1. IsMark(c) => mode \in {"line_end", "line_start"} /\ (n > 1 => ~IsMark(file[n - 1]))
      BY <1>3, <1>4
    <3> HIDE DEF n
    <3> QED
      BY <1>3, <1>5, <1>6, <2>2, <2>4, <3>1
  <2>5. i \in 1..Len(file) \/ i = n
    BY <1>1, <1>5
  <2> QED
    BY <2>3, <2>4, <2>5
<1> QED
  BY <1>7 DEF FileOfMode

\* The offsets that the scanner and the readers have.
Offsets ==
  {0, pos, active.off} \cup {known[k].off : k \in 1..Len(known)}
    \cup {fresh[k].off : k \in 1..Len(fresh)}

\* A step that leaves them at offsets they had.
LEMMA BoundariesKept ==
  ASSUME RecordInv, Grows, mode' = mode, force' = force,
         pos' \in Offsets, active'.off \in Offsets,
         \A k \in 1..Len(known') : known'[k].off \in Offsets,
         \A k \in 1..Len(fresh') : fresh'[k].off \in Offsets
  PROVE  AtBoundaries'
<1>1. ASSUME force = 0, NEW n \in Offsets PROVE Boundary(n)'
  <2>0. ReachedBy(known) /\ ReachedBy(fresh) /\ Reached(active.off) /\ Reached(pos)
        /\ mode \in Modes
    BY OneReader DEF RecordInv, ReaderInv, BufferInPlace
  <2>1. Reached(n)
    <3>1. Reached(0)
      BY StartReached DEF Grows
    <3> QED
      BY <1>1, <2>0, <3>1 DEF ReachedBy, Offsets
  <2>2. Boundary(n)
    BY <1>1 DEF RecordInv, AtBoundaries, Boundary, Offsets
  <2> QED
    BY <2>0, <2>1, <2>2, BoundaryStays DEF Reached
<1> QED
  BY <1>1 DEF AtBoundaries

\* The scanner is where the record ends that it split off, and so is Offset.
LEMMA ScanBoundary ==
  ASSUME RecordInv, Scan
  PROVE  AtBoundaries'
<1>0. /\ active' = active \/ active' = [active EXCEPT !.off = pos']
      /\ pos' = pos + Split.result.advance /\ BufferInPlace'
  BY ScanDelivers DEF RecordInv
<1>1. UNCHANGED <<mode, force, file, known, fresh>>
  BY DEF Scan, Token, NoToken, Advance, config
<1>2. \A n : Boundary(n) => Boundary(n)'
  BY <1>1 DEF Boundary
<1>3. ASSUME force = 0 PROVE Boundary(pos)'
  <2>1. Boundary(pos)
    BY <1>3 DEF RecordInv, AtBoundaries
  <2>2. EndsRecord(Split.result)
    BY <1>3, <2>1, SplitRecord DEF RecordInv
  <2>3. Boundary(pos + Split.result.advance)
    BY <2>2 DEF EndsRecord
  <2> QED
    BY <1>0, <1>1, <2>3 DEF Boundary
<1>4. ASSUME force = 0 PROVE Boundary(active.off)'
  <2>1. IsReader(active)
    BY OneReader DEF RecordInv, ReaderInv
  <2>2. CASE active' = active
    BY <1>2, <1>4, <2>2 DEF RecordInv, AtBoundaries, Boundary
  <2>3. CASE active' = [active EXCEPT !.off = pos']
    <3>1. active'.off = pos'
      BY <2>1, <2>3, SameOffset
    <3> QED
      BY <1>3, <1>4, <3>1 DEF Boundary
  <2> QED
    BY <1>0, <2>2, <2>3
<1> QED
  BY <1>1, <1>2, <1>3, <1>4 DEF RecordInv, AtBoundaries, Boundary

\* Every other step leaves scanner and readers at offsets that they had.
LEMMA OffsetsKept ==
  ASSUME RecordInv, [Next]_vars, ~Scan
  PROVE  /\ Grows /\ mode' = mode /\ force' = force
         /\ pos' \in Offsets /\ active'.off \in Offsets
         /\ \A k \in 1..Len(known') : known'[k].off \in Offsets
         /\ \A k \in 1..Len(fresh') : fresh'[k].off \in Offsets
<1>0. ReaderInv /\ CellsInPlace /\ IsReader(active)
  BY OneReader DEF RecordInv, ReaderInv
<1>1. mode' = mode /\ force' = force
  BY DEF Next, ReadToEnd, Poll, Write, TooLong, Read, Panic, PollKnown, PollNew, RollLost,
         SaveFound, SaveLost, Save, Restart, vars, config
<1>2. Write \/ UNCHANGED <<file, delivered>>
  BY DEF Next, ReadToEnd, Poll, TooLong, Read, Panic, PollKnown, PollNew, RollLost,
         SaveFound, SaveLost, Save, Restart, vars
<1>3. Grows
  <2>1. CASE Write
    <3>1. file \in Seq(Int) /\ Len(file) \in Nat /\ delivered' = delivered /\ MaxCells \in Nat
      BY <1>0, <2>1, LenProperties, SplitterAssumption DEF CellsInPlace, Write
    <3>2. PICK c \in NextCells : file' = Append(file, c)
      BY <2>1 DEF Write
    <3>3. c \in Int
      BY <3>1, <3>2 DEF NextCells, NL, Text, Mark
    <3>4. Len(file') = Len(file) + 1 /\ \A i \in 1..Len(file) : file'[i] = file[i]
      BY <3>1, <3>2, <3>3, AppendProperties
    <3> QED
      BY <3>1, <3>4 DEF Grows
  <2> QED
    BY <1>0, <1>2, <2>1, NothingGrows
\* These are offsets.
<1>4. /\ 0 \in Offsets /\ pos \in Offsets /\ active.off \in Offsets
      /\ \A k \in 1..Len(known) : known[k].off \in Offsets
      /\ \A k \in 1..Len(fresh) : fresh[k].off \in Offsets
  BY DEF Offsets
\* A reader is scanned from its Offset.
<1>5. \A r : Scanning(r) => active' = r /\ pos' = r.off
  BY DEF Scanning
<1>6. CASE Write \/ TooLong \/ Panic \/ UNCHANGED vars
  BY <1>1, <1>3, <1>4, <1>6 DEF Write, TooLong, Panic, vars, scanVars
<1>7. CASE Read
  <2>1. active'.off = active.off /\ UNCHANGED <<pos, known, fresh>>
    BY <1>0, <1>7, SameOffset DEF Read
  <2> QED
    BY <1>1, <1>3, <1>4, <2>1
<1>8. CASE PollKnown
  <2> DEFINE i == Max(Found)
  <2>1. Found \subseteq 1..Len(known) /\ Found # {} /\ Len(known) \in Nat
    BY <1>0, <1>8, LenProperties DEF PollKnown, Found, ReaderInv, ReachedBy
  <2>2. i \in 1..Len(known)
    BY <2>1, MaxPosition
  <2>3. Scanning(CopyOf(known[i])) /\ UNCHANGED <<known, fresh>>
    BY <1>8 DEF PollKnown
  <2> HIDE DEF i
  <2>4. CopyOf(known[i]).off = known[i].off
    BY <1>0, <2>2, SameOffset DEF ReaderInv, ReachedBy
  <2> QED
    BY <1>1, <1>3, <1>4, <1>5, <2>2, <2>3, <2>4
<1>9. CASE PollNew
  <2>1. PICK s : Scanning(NewReader(s))
    BY <1>9 DEF PollNew
  <2>2. NewReader(s).off = 0 /\ UNCHANGED <<known, fresh>>
    BY <1>9 DEF NewReader, PollNew
  <2> QED
    BY <1>1, <1>3, <1>4, <1>5, <2>1, <2>2
<1>10. CASE RollLost
  <2>1. known' = known /\ fresh' = <<active>> /\ Scanning(Last(known)) /\ known # <<>>
    BY <1>0, <1>10 DEF RollLost, Lost, ReaderInv, ReadersThere
  <2>2. Len(known) \in Nat \ {0}
    BY <1>0, <2>1, EmptySeq DEF ReaderInv, ReachedBy
  <2>3. Len(known) \in 1..Len(known) /\ Last(known) = known[Len(known)]
    BY <2>2 DEF Last
  <2>4. \A k \in 1..Len(fresh') : fresh'[k] = active
    <3>1. Len(<<active>>) = 1 /\ <<active>>[1] = active /\ \A k \in 1..1 : k = 1
      OBVIOUS
    <3> QED
      BY <2>1, <3>1
  <2> QED
    BY <1>1, <1>3, <1>4, <1>5, <2>1, <2>3, <2>4
<1>11. CASE SaveFound \/ SaveLost
  <2>1. PICK readers :
          /\ ReachedBy(readers) /\ readers # <<>> /\ Save(readers)
          /\ \A k \in 1..Len(readers) :
               \/ readers[k] = active
               \/ \E j \in 1..Len(known) : readers[k] = known[j]
               \/ \E j \in 1..Len(fresh) : readers[k] = fresh[j]
    BY <1>0, <1>11, SavedReached
  <2>2. known' = Latest(readers) /\ fresh' = <<>> /\ active' = Nothing /\ pos' = 0
    BY <2>1 DEF Save
  <2>3. \A k \in 1..Len(known') : \E j \in 1..Len(readers) : known'[k] = readers[j]
    BY <2>1, <2>2, LatestReached DEF Among
  <2>4. Nothing.off = 0 /\ \A k \in 1..Len(<<>>) : FALSE
    BY EmptySeq DEF Nothing
  <2> QED
    BY <1>1, <1>3, <1>4, <2>1, <2>2, <2>3, <2>4
<1>12. CASE Restart
  <2>1. Len(known') = Len(known) /\ \A k \in 1..Len(known) : known'[k].off = known[k].off
    BY <1>0, <1>12, RestartReached
  <2>2. UNCHANGED <<pos, active, fresh>>
    BY <1>12 DEF Restart, scanVars
  <2> QED
    BY <1>1, <1>3, <1>4, <2>1, <2>2
<1> QED
  BY <1>1, <1>3, <1>6, <1>7, <1>8, <1>9, <1>10, <1>11, <1>12
     DEF Next, ReadToEnd, Poll

\* The invariant of the records.
LEMMA RecordStep == RecordInv /\ [Next]_vars => RecordInv'
<1> SUFFICES ASSUME RecordInv, [Next]_vars PROVE RecordInv'
  OBVIOUS
<1>1. ReaderInv'
  BY ReaderStep DEF RecordInv
<1>2. FileOfMode'
  <2>1. CASE Write
    BY <2>1, WriteOfMode DEF RecordInv
  <2>2. CASE ~Write
    <3>1. UNCHANGED <<mode, file>>
      BY <2>2 DEF Next, ReadToEnd, Poll, TooLong, Read, Panic, Scan, Token, NoToken, Advance,
                  PollKnown, PollNew, RollLost, SaveFound, SaveLost, Save, Restart, vars, config
    <3> QED
      BY <3>1 DEF RecordInv, FileOfMode
  <2> QED
    BY <2>1, <2>2
<1>3. AtBoundaries'
  <2>1. CASE Scan
    BY <2>1, ScanBoundary
  <2>2. CASE ~Scan
    BY <2>2, OffsetsKept, BoundariesKept
  <2> QED
    BY <2>1, <2>2
<1> QED
  BY <1>1, <1>2, <1>3 DEF RecordInv

\* Without a forced flush every entry is a complete record of the file, never a
\* part of one or two of them together: for files of any length, buffers of any
\* size, every split function and every interleaving of writes with reads.
THEOREM EntriesAreRecordsCorrect == Spec => []EntriesAreRecords
<1>1. Init => RecordInv
  <2> SUFFICES ASSUME Init PROVE RecordInv
    OBVIOUS
  <2>1. ReaderInv
    BY InitReached
  <2>2. \A i \in 1..Len(<<>>) : FALSE
    BY EmptySeq
  <2>3. FileOfMode
    BY <2>2 DEF Init, FileOfMode
  <2>4. AtBoundaries
    BY <2>2 DEF Init, AtBoundaries, Boundary, Nothing
  <2> QED
    BY <2>1, <2>3, <2>4 DEF RecordInv
<1>2. RecordInv /\ [Next]_vars => RecordInv'
  BY RecordStep
<1>3. RecordInv => EntriesAreRecords
  <2> SUFFICES ASSUME RecordInv, force = 0, Split.result.token # <<>>
               PROVE  Split.result.token \in Records(mode, file)
    BY DEF EntriesAreRecords
  <2>1. EndsRecord(Split.result)
    BY SplitRecord DEF RecordInv, AtBoundaries
  <2> QED
    BY <2>1 DEF EndsRecord
<1> QED
  BY <1>1, <1>2, <1>3, PTL DEF Spec

=============================================================================
