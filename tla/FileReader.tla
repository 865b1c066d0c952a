----------------------------- MODULE FileReader -----------------------------
(***************************************************************************)
(* One file and the readers of file_input that follow it, byte by byte: a  *)
(* writer that appends at any moment, also in the middle of a line; the    *)
(* bufio.Scanner that ReadToEnd drives, with its buffer and its end of     *)
(* file; the fingerprint that Read keeps up to date; and the polls, which  *)
(* find the reader of the file again by its fingerprint.                   *)
(*                                                                         *)
(* Module FileInput has the other side: many files, batches, rotation,     *)
(* stops and crashes, with whole lines.                                    *)
(***************************************************************************)
EXTENDS Splitter

CONSTANTS
  FingerprintSize,   \* fingerprint_size
  ForcePeriods,      \* values of force_flush_period, in polls; zero is never
  MaxKnown,          \* polls for which a reader stays known (4)
  MaxRestarts,       \* bound: restarts of the operator
  MaxBlanks,         \* bound: empty lines in a row
  SplitModes         \* the split functions, a subset of Modes

ASSUME ReaderAssumption ==
  /\ {MaxRestarts, MaxBlanks} \cup ForcePeriods \subseteq Nat
  /\ FingerprintSize \in Nat \ {0} /\ MaxKnown \in Nat \ {0}
  /\ SplitModes \subseteq Modes

\* arr is the backing array of Fingerprint.FirstBytes, len its length, off the
\* Offset, and splitter names the splitter, which copies of a reader share.
VARIABLES
  mode,       \* the configured split function
  force,      \* the configured force_flush_period
  file,       \* the file
  phase,      \* idle, read (this poll's reader) or lost (the old one)
  st,         \* of the active reader: about to read or to split, or done
  active,     \* the reader whose ReadToEnd runs
  buf,        \* the scanner's buffer
  pos,        \* the scanner's position, where buf begins
  eof,        \* the scanner has met the end of the file
  fresh,      \* this poll's reader, once it is done; <<>> if there is none
  known,      \* knownFiles, oldest first
  nOld,       \* how many of them, at the end, the roller keeps open
  flushers,   \* the flusher of each splitter
  restarts, panicked,
  delivered   \* how often each cell was part of an entry (2: twice or more)

config   == <<mode, force>>
scanVars == <<st, active, buf, pos, eof>>
vars == <<config, file, phase, scanVars, fresh, known, nOld, flushers, restarts,
          panicked, delivered>>

Splitters == 1..(MaxKnown + 1)
Nothing   == [arr |-> <<>>, len |-> 0, off |-> 0, splitter |-> 1]

Init ==
  /\ mode \in SplitModes /\ force \in ForcePeriods
  /\ file = <<>>
  /\ phase = "idle" /\ st = "done" /\ active = Nothing
  /\ buf = <<>> /\ pos = 0 /\ eof = FALSE
  /\ fresh = <<>> /\ known = <<>> /\ nOld = 0
  /\ flushers = [s \in Splitters |-> NewFlusher]
  /\ restarts = 0 /\ panicked = FALSE
  /\ delivered = [i \in 1..MaxCells |-> 0]

-----------------------------------------------------------------------------
(* The writer *)

IsEmptyLine(i) == file[i] = NL /\ (i = 1 \/ file[i - 1] = NL)

\* The last n cells of the file are empty lines.
EmptyLines(n) ==
  n <= Len(file) /\ \A i \in (Len(file) - n + 1)..Len(file) : IsEmptyLine(i)

\* What may come next in the file: matches do not touch, and no more than
\* MaxBlanks empty lines follow each other.
NextCells ==
  LET i == Len(file) + 1
      atStart == i = 1 \/ file[i - 1] = NL
  IN  {Text(i)}
      \cup (IF mode = "newline" /\ ~(atStart /\ EmptyLines(MaxBlanks))
            THEN {NL} ELSE {})
      \cup (IF mode \in {"line_end", "line_start"} /\ ~(i > 1 /\ IsMark(file[i - 1]))
            THEN {Mark(i)} ELSE {})

Write ==
  /\ Len(file) < MaxCells
  /\ \E c \in NextCells : file' = Append(file, c)
  /\ UNCHANGED <<config, phase, scanVars, fresh, known, nOld, flushers, restarts,
                 panicked, delivered>>

-----------------------------------------------------------------------------
(* Fingerprints *)

Upto(a, b) == IF a <= b THEN a ELSE b

FirstBytes(r) == SubSeq(r.arr, 1, r.len)

\* (Fingerprint).StartsWith
StartsWith(new, old) ==
  old # <<>> /\ Len(old) <= Len(new) /\ SubSeq(new, 1, Len(old)) = old

Zero == -1     \* a byte of an array that nothing was written to

\* An array of the given capacity that begins with s.
Padded(s, capacity) ==
  [i \in 1..capacity |-> IF i <= Len(s) THEN s[i] ELSE Zero]

\* (Reader).Copy, with its own array, the same capacity and the same splitter.
CopyOf(r) == [r EXCEPT !.arr = Padded(FirstBytes(r), Len(r.arr))]

\* FirstBytes[:Offset] panics.
OutOfRange(r) == r.len # FingerprintSize /\ r.off > Len(r.arr)

\* (Reader).Read has read chunk: append(FirstBytes[:Offset], dst[:appendCount]...)
\* overwrites the array in place, or is given a larger one.
Updated(r, chunk) ==
  LET n == Upto(Len(chunk), IF r.off > FingerprintSize THEN 0
                            ELSE FingerprintSize - r.off)
      whole == SubSeq(r.arr, 1, r.off) \o SubSeq(chunk, 1, n)
  IN  IF r.len = FingerprintSize
      THEN r
      ELSE [r EXCEPT !.len = Len(whole),
                     !.arr = whole \o SubSeq(r.arr, Len(whole) + 1, Len(r.arr))]

-----------------------------------------------------------------------------
(* ReadToEnd *)

\* Seek and NewPositionalScanner.
Scanning(r) ==
  /\ active' = r /\ st' = "read" /\ buf' = <<>> /\ pos' = r.off /\ eof' = FALSE

\* The scanner's buffer is full and holds no entry: ErrTooLong.
TooLong ==
  /\ st = "read" /\ Len(buf) >= MaxLogSize
  /\ st' = "done"
  /\ UNCHANGED <<config, file, phase, active, buf, pos, eof, fresh, known, nOld,
                 flushers, restarts, panicked, delivered>>

\* What the next read returns: nothing at the end of the file.
Chunk ==
  LET from == pos + Len(buf)
  IN  SubSeq(file, from + 1, Upto(Len(file), from + MaxLogSize - Len(buf)))

Read ==
  /\ st = "read" /\ Len(buf) < MaxLogSize /\ ~OutOfRange(active)
  /\ active' = Updated(active, Chunk)
  /\ buf' = buf \o Chunk
  /\ eof' = (Chunk = <<>>)
  /\ st' = "split"
  /\ UNCHANGED <<config, file, phase, pos, fresh, known, nOld, flushers, restarts,
                 panicked, delivered>>

\* The slice expression panics; the process is started again, if it is, with
\* nothing but the last checkpoint.  The model ends here.
Panic ==
  /\ st = "read" /\ Len(buf) < MaxLogSize /\ OutOfRange(active)
  /\ panicked' = TRUE /\ st' = "panicked"
  /\ UNCHANGED <<config, file, phase, active, buf, pos, eof, fresh, known, nOld,
                 flushers, restarts, delivered>>

\* The split function of this reader, and its flusher unless it is SplitNone.
Split ==
  LET result == SplitFunc(mode, buf, eof, FALSE)
      f      == flushers[active.splitter]
  IN  IF mode = "nop"
      THEN [result |-> result, flusher |-> f]
      ELSE Flushing(f, force, buf, result)

\* The scanner steps over what the split function consumed.
Advance(split) ==
  /\ st = "split"
  /\ flushers' = [flushers EXCEPT ![active.splitter] = split.flusher]
  /\ pos' = pos + split.result.advance
  /\ buf' = SubSeq(buf, split.result.advance + 1, Len(buf))
  /\ UNCHANGED <<config, file, phase, eof, fresh, known, nOld, restarts, panicked>>

\* scanner.Scan returned true: the entry is emitted and Offset moves.
Token(split) ==
  /\ Advance(split)
  /\ split.result.token # <<>>
  /\ LET seen == Range(split.result.token) IN
     delivered' = [i \in 1..MaxCells |->
       IF Text(i) \in seen \/ Mark(i) \in seen
       THEN Upto(delivered[i] + 1, 2) ELSE delivered[i]]
  /\ active' = [active EXCEPT !.off = pos']
  /\ st' = IF buf' = <<>> /\ ~eof THEN "read" ELSE "split"

\* No token: the scanner reads more, or, at the end of the file, Scan returns
\* false even if there is more to split.  Offset stays where the last entry ended.
NoToken(split) ==
  /\ Advance(split)
  /\ split.result.token = <<>>
  /\ st' = IF eof THEN "done" ELSE "read"
  /\ UNCHANGED <<active, delivered>>

Scan == st = "split" /\ LET split == Split IN Token(split) \/ NoToken(split)

-----------------------------------------------------------------------------
(* poll *)

Matches(i) == StartsWith(SubSeq(file, 1, Upto(Len(file), FingerprintSize)),
                         FirstBytes(known[i]))

\* The newest known reader the new fingerprint starts with.
Found == {i \in 1..Len(known) : Matches(i)}

\* A reader from scratch, with a splitter no known reader has.
NewReader(s) ==
  LET first == SubSeq(file, 1, Upto(Len(file), FingerprintSize))
  IN  [arr |-> Padded(first, FingerprintSize), len |-> Len(first), off |-> 0,
       splitter |-> s]

Unused == Splitters \ {known[i].splitter : i \in 1..Len(known)}

\* Time passes from one poll to the next.
Older == [s \in Splitters |->
            [flushers[s] EXCEPT !.age = Upto(@ + 1, force)]]

\* The file is matched with a known reader.
PollKnown ==
  /\ phase = "idle" /\ Found # {}
  /\ phase' = "read"
  /\ Scanning(CopyOf(known[Max(Found)]))
  /\ flushers' = Older
  /\ UNCHANGED <<config, file, fresh, known, nOld, restarts, panicked, delivered>>

\* It is not: newReader starts at the beginning.
PollNew ==
  /\ phase = "idle" /\ Found = {} /\ file # <<>>
  /\ phase' = "read"
  /\ LET s == Min(Unused) IN
       /\ Scanning(NewReader(s))
       /\ flushers' = [Older EXCEPT ![s] = NewFlusher]
  /\ UNCHANGED <<config, file, fresh, known, nOld, restarts, panicked, delivered>>

\* The old reader was not found again: it counts as lost and is drained.
Lost == nOld = 1 /\ ~StartsWith(FirstBytes(active), FirstBytes(Last(known)))

RollLost ==
  /\ phase = "read" /\ st = "done" /\ Lost
  /\ phase' = "lost"
  /\ fresh' = <<active>>
  /\ Scanning(Last(known))
  /\ UNCHANGED <<config, file, known, nOld, flushers, restarts, panicked, delivered>>

Latest(s) == SubSeq(s, IF Len(s) > MaxKnown THEN Len(s) - MaxKnown + 1 ELSE 1, Len(s))

\* saveCurrent: the readers of the last polls are kept.
Save(readers) ==
  /\ st = "done"
  /\ phase' = "idle"
  /\ known' = Latest(readers)
  /\ nOld' = 1
  /\ fresh' = <<>> /\ active' = Nothing /\ buf' = <<>> /\ pos' = 0 /\ eof' = FALSE
  /\ UNCHANGED <<config, file, st, flushers, restarts, panicked, delivered>>

SaveFound == phase = "read" /\ ~Lost /\ Save(Append(known, active))
SaveLost  == phase = "lost" /\ Save(Append(Append(Front(known), active), fresh[1]))

\* The operator is stopped and a new one loads the checkpoint: the fingerprints
\* have no spare capacity and every reader has a splitter of its own.
Restart ==
  /\ phase = "idle" /\ restarts < MaxRestarts
  /\ restarts' = restarts + 1
  /\ known' = [i \in 1..Len(known) |->
                 [known[i] EXCEPT !.arr = FirstBytes(known[i]), !.splitter = i]]
  /\ flushers' = [s \in Splitters |-> NewFlusher]
  /\ nOld' = 0
  /\ UNCHANGED <<config, file, phase, scanVars, fresh, panicked, delivered>>

-----------------------------------------------------------------------------
ReadToEnd == TooLong \/ Read \/ Panic \/ Scan
Poll == PollKnown \/ PollNew \/ RollLost \/ SaveFound \/ SaveLost

Next == Write \/ ReadToEnd \/ Poll \/ Restart

\* The poller keeps running: a ticker drives it and file reads do not block.
Spec == Init /\ [][Next]_vars /\ WF_vars(ReadToEnd \/ Poll)

\* The poller has something to do unless the file is empty or it panicked.
Runnable == file # <<>> /\ ~panicked

\* The same with Runnable for ENABLED, which TLC is slow to evaluate.
SpecRunnable ==
  Init /\ [][Next]_vars /\ ([]<>~Runnable \/ []<><<ReadToEnd \/ Poll>>_vars)

-----------------------------------------------------------------------------
(* Properties *)

Readers == Range(known) \cup Range(fresh) \cup {active}

\* No reader ever skips text: whatever lies before an Offset was delivered,
\* however writes, reads, polls and restarts interleave.
OffsetsDelivered ==
  \A r \in Readers : \A i \in 1..Upto(r.off, Len(file)) :
    file[i] = NL \/ delivered[i] > 0

\* Without a forced flush every entry is a complete record of the file, never a
\* part of one or two of them together.
EntriesAreRecords ==
  st = "split" /\ force = 0 =>
    LET token == Split.result.token
    IN  token # <<>> => token \in Records(mode, file)

\* A record, or what there is of one, fills the scanner's buffer.
Overlong ==
  LET n == CASE mode = "newline"    -> MaxLogSize
             [] mode = "line_start" -> MaxLogSize - 1
             [] mode = "line_end"   -> MaxLogSize - 2
             [] mode = "nop"        -> MaxCells + 1
  IN  \E i \in 1..(Len(file) - n + 1) :
        \A k \in i..(i + n - 1) : ~Ends(mode, file, k)

\* The text of complete records that no entry has held yet.
Behind ==
  {i \in 1..Len(file) :
     /\ file[i] # NL /\ delivered[i] = 0
     /\ \E j \in i..Len(file) : mode # "nop" /\ Ends(mode, file, j)}

\* Every complete record is delivered in the end, if no record is too long and
\* the process does not die: however far behind, the operator catches up.
RecordsDelivered == []<>(Behind = {} \/ panicked \/ Overlong)

=============================================================================
