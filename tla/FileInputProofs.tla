-------------------------- MODULE FileInputProofs --------------------------
(***************************************************************************)
(* What is proved of FileInput for every number of paths, files, lines and *)
(* operations, every configuration and both rollers.                       *)
(***************************************************************************)
EXTENDS FileInput, SequenceTheorems, TLAPS

-----------------------------------------------------------------------------
(* Sequences and records *)

\* A function on 1..n is a sequence of length n.
LEMMA FunctionIsSeq ==
  ASSUME NEW S, NEW n \in Nat, NEW f \in [1..n -> S]
  PROVE  f \in Seq(S) /\ Len(f) = n
  OBVIOUS

\* The first n elements of a sequence.
LEMMA FirstType ==
  ASSUME NEW S, NEW s \in Seq(S), NEW n \in Nat
  PROVE  /\ First(s, n) \in Seq(S)
         /\ Len(First(s, n)) = Least(n, Len(s))
         /\ \A i \in 1..Len(First(s, n)) : First(s, n)[i] = s[i]
  BY DEF First, Least

\* What follows the first n elements of a sequence.
LEMMA RestType ==
  ASSUME NEW S, NEW s \in Seq(S), NEW n \in 0..Len(s)
  PROVE  SubSeq(s, n + 1, Len(s)) \in Seq(S)
  OBVIOUS

\* Reslicing yields the asked length, padded with zero cells.
LEMMA ReslicedType ==
  ASSUME NEW s \in Bytes, NEW n \in Nat
  PROVE  Resliced(s, n) \in Bytes /\ Len(Resliced(s, n)) = n
<1> USE BoundsAssumption DEF Bytes, Cells
<1>1. MaxLines \in Nat
  BY BoundsAssumption
<1>2. Resliced(s, n) \in [1..n -> Cells]
  BY <1>1 DEF Resliced
<1> QED
  BY <1>2, FunctionIsSeq

\* Lines are cells.
LEMMA LinesAreCells == Logs \subseteq Bytes
<1>1. Lines \subseteq Cells
  BY BoundsAssumption DEF Lines, Cells
<1> QED
  BY <1>1 DEF Bytes, Logs

-----------------------------------------------------------------------------
(* Readers *)

\* A read of a well-typed file finds lines.
LEMMA ContentsType ==
  ASSUME TypeOK, NEW h
  PROVE  Contents(h) \in Logs
  BY DEF TypeOK, FilesystemOK, Contents, Logs

\* What is left of a file after a reader's offset.
LEMMA UnconsumedType ==
  ASSUME TypeOK, NEW r \in Reader
  PROVE  Unconsumed(r) \in Logs
<1>1. Contents(r.file) \in Logs /\ r.off \in Nat
  BY ContentsType DEF Reader
<1>2. CASE r.off < Len(Contents(r.file))
  <2>1. r.off \in 0..Len(Contents(r.file))
    BY <1>1, <1>2 DEF Logs
  <2> QED
    BY <1>1, <1>2, <2>1, RestType DEF Unconsumed, Logs
<1>3. CASE ~(r.off < Len(Contents(r.file)))
  BY <1>3 DEF Unconsumed, Logs
<1> QED
  BY <1>2, <1>3

\* What the scanner returns next is made of lines.
LEMMA PendingType ==
  ASSUME TypeOK, NEW r \in Reader
  PROVE  Pending(r) \in Logs
  BY UnconsumedType DEF Pending, Reader

\* A read leaves a fingerprint of cells, no longer than fingerprint_size when
\* the capacity is not.
LEMMA FirstBytesType ==
  ASSUME NEW r \in Reader, NEW chunk \in Logs
  PROVE  /\ FirstBytesAfter(r, chunk) \in Bytes
         /\ /\ ~OutOfRange(r)
            /\ r.cap <= FingerprintSize
            /\ Len(r.fp) <= FingerprintSize
            => Len(FirstBytesAfter(r, chunk)) <= FingerprintSize
<1> DEFINE room == Most(0, FingerprintSize - r.off)
           old  == Resliced(r.fp, r.off)
           new  == First(chunk, room)
<1>1. r.fp \in Bytes /\ r.off \in Nat /\ r.cap \in Nat /\ FingerprintSize \in Nat
  BY ConfigAssumption DEF Reader
<1>2. room \in Nat
  BY <1>1 DEF Most
<1>3. old \in Bytes /\ Len(old) = r.off
  BY <1>1, ReslicedType
<1>4. new \in Bytes /\ Len(new) = Least(room, Len(chunk))
  BY <1>2, FirstType, LinesAreCells DEF Logs
<1> HIDE DEF room, old, new
<1>5. (old \o new) \in Bytes /\ Len(old \o new) = Len(old) + Len(new)
  <2>1. old \in Seq(Cells) /\ new \in Seq(Cells)
    BY <1>3, <1>4 DEF Bytes
  <2> QED
    BY <2>1, ConcatProperties DEF Bytes
<1>6. FirstBytesAfter(r, chunk)
        = IF Len(r.fp) = FingerprintSize THEN r.fp ELSE old \o new
  BY DEF FirstBytesAfter, old, new, room
<1>7. ASSUME r.off <= FingerprintSize
      PROVE  Len(old \o new) <= FingerprintSize
  <2>1. room = FingerprintSize - r.off
    BY <1>1, <1>7 DEF room, Most
  <2>2. Len(chunk) \in Nat
    BY DEF Logs
  <2> QED
    BY <1>1, <1>3, <1>4, <1>5, <1>7, <2>1, <2>2 DEF Least
<1>8. ASSUME ~OutOfRange(r), r.cap <= FingerprintSize, Len(r.fp) # FingerprintSize
      PROVE  r.off <= FingerprintSize
  BY <1>1, <1>8 DEF OutOfRange
<1> QED
  BY <1>1, <1>5, <1>6, <1>7, <1>8

\* One turn of ReadToEnd leaves a reader of the same file and generation.
LEMMA ScannedType ==
  ASSUME TypeOK, NEW r \in Reader
  PROVE  /\ Scanned(r) \in Reader
         /\ Scanned(r).gen = r.gen /\ Scanned(r).file = r.file
<1> DEFINE fp  == IF r.buf = <<>> THEN FirstBytesAfter(r, Unconsumed(r)) ELSE r.fp
           cap == Most(r.cap, Len(fp))
<1>1. fp \in Bytes
  BY UnconsumedType, FirstBytesType DEF Reader
<1>2. r.cap \in Nat /\ r.off + 1 \in Nat
  BY DEF Reader
<1>3. cap \in Nat
  BY <1>1, <1>2 DEF Most, Bytes
<1>4. <<>> \in Logs
  BY DEF Logs
<1>5. Pending(r) # <<>> => Tail(Pending(r)) \in Logs
  BY PendingType DEF Logs
<1>6. CASE cancelled
  <2>1. Scanned(r) = [r EXCEPT !.st = "done", !.buf = <<>>]
    BY <1>6 DEF Scanned
  <2>2. Scanned(r) \in Reader
    BY <1>4, <2>1 DEF Reader
  <2> QED
    BY <2>1, <2>2 DEF Reader
<1>7. CASE ~cancelled /\ Pending(r) = <<>>
  <2>1. Scanned(r) = [r EXCEPT !.fp = fp, !.cap = cap, !.st = "done"]
    BY <1>7 DEF Scanned
  <2> HIDE DEF fp, cap
  <2>2. Scanned(r) \in Reader
    BY <1>1, <1>3, <2>1 DEF Reader
  <2> QED
    BY <2>1, <2>2 DEF Reader
<1>8. CASE ~cancelled /\ Pending(r) # <<>>
  <2>1. Scanned(r) = [r EXCEPT !.fp = fp, !.cap = cap, !.off = r.off + 1,
                               !.buf = Tail(Pending(r))]
    BY <1>8 DEF Scanned
  <2> HIDE DEF fp, cap
  <2>2. Scanned(r) \in Reader
    BY <1>1, <1>2, <1>3, <1>5, <1>8, <2>1 DEF Reader
  <2> QED
    BY <2>1, <2>2 DEF Reader
<1> QED
  BY <1>6, <1>7, <1>8

\* Emitting keeps the counts of deliveries well formed.
LEMMA EmitType ==
  ASSUME TypeOK, NEW r \in Reader, emit(r)
  PROVE  emitted' \in [Lines -> 0..2]
<1>1. Pending(r) \in Logs
  BY PendingType
<1>2. CASE cancelled \/ Pending(r) = <<>>
  BY <1>2 DEF emit, TypeOK, ReadersOK
<1>3. CASE ~(cancelled \/ Pending(r) = <<>>)
  <2>1. Head(Pending(r)) \in Lines
    BY <1>1, <1>3 DEF Logs
  <2>2. emitted[Head(Pending(r))] \in 0..2
    BY <2>1 DEF TypeOK, ReadersOK
  <2>3. Least(emitted[Head(Pending(r))] + 1, 2) \in 0..2
    BY <2>2 DEF Least
  <2> QED
    BY <1>3, <2>1, <2>3 DEF emit, TypeOK, ReadersOK
<1> QED
  BY <1>2, <1>3

-----------------------------------------------------------------------------
(* Types.  That Head(files) exists wherever makeReaders pairs a file with a  *)
(* fingerprint, that a stopped operator has no old readers, and that this    *)
(* poll's readers are of generation 0, is part of what makes the type        *)
(* invariant inductive.                                                      *)

Shape ==
  /\ phase # "make" =>
       matches = <<>> /\ files = <<>> /\ unread = <<>> /\ fps = <<>>
  /\ phase \in {"stopped", "idle"} => readers = <<>>
  /\ phase = "stopped" => nOld = 0
  /\ Len(unread) + Len(fps) <= Len(files)
  /\ \A i \in 1..Len(readers) : readers[i].gen = 0

Typing == TypeOK /\ Shape

\* The bounds and the configuration are numbers.
LEMMA Numbers ==
  /\ NumPaths \in Nat /\ MaxInodes \in Nat /\ MaxLines \in Nat
  /\ MaxOps \in Nat /\ MaxStarts \in Nat
  /\ FingerprintSize \in Nat /\ MaxConcurrentFiles \in Nat /\ MaxGeneration \in Nat
  BY BoundsAssumption, ConfigAssumption

\* The empty sequence and the handle of no file have their types.
LEMMA Empty ==
  /\ <<>> \in Logs /\ <<>> \in Bytes
  /\ NoFile \in Handles /\ Dir \in Handles /\ Inodes \subseteq Handles
  /\ 0 \in 0..(MaxGeneration + 1)
  BY Numbers DEF Logs, Bytes, NoFile, Handles, Dir, Inodes

\* The operator starts well formed.
LEMMA InitTyping == Init => Typing
<1> SUFFICES ASSUME Init PROVE Typing
  OBVIOUS
<1> USE DEF Init
<1>1. FilesystemOK
  <2>1. fs \in [Paths -> Handles]
    BY Empty
  <2> QED
    BY <2>1, Empty, Numbers DEF FilesystemOK
<1>2. ControlOK
  BY DEF ControlOK
<1>3. CountersOK
  BY Numbers DEF CountersOK, MaxLeaked
<1>4. MakeReadersOK
  BY DEF MakeReadersOK
<1>5. ReadersOK
  BY DEF ReadersOK
<1>6. Shape
  BY DEF Shape
<1> QED
  BY <1>1, <1>2, <1>3, <1>4, <1>5, <1>6 DEF Typing, TypeOK

\* Start.
LEMMA StartTyping ==
  ASSUME Typing, Start
  PROVE  Typing'
<1> USE DEF Typing, TypeOK, Start
<1>1. ASSUME NEW i \in 1..Len(persisted)
      PROVE  Loaded(persisted[i]) \in Reader
  <2>1. persisted[i] \in Encodings
    BY DEF ReadersOK
  <2>2. /\ persisted[i].fp \in Bytes /\ persisted[i].off \in Nat
        /\ Len(persisted[i].fp) \in Nat
    BY <2>1 DEF Encodings, Bytes
  <2> QED
    BY <2>2, Empty DEF Loaded, Reader
<1>2. known' \in [1..Len(persisted) -> Reader] /\ Len(persisted) \in Nat
  BY <1>1 DEF ReadersOK
<1>3. known' \in Seq(Reader)
  BY <1>2, FunctionIsSeq
<1>4. FilesystemOK'
  BY DEF FilesystemOK, fsVars
<1>5. ControlOK'
  BY DEF ControlOK
<1>6. CountersOK'
  BY Numbers DEF CountersOK, FilesystemOK
<1>7. MakeReadersOK'
  <2>1. CASE queued' = queued
    BY <2>1 DEF MakeReadersOK, makeVars
  <2>2. CASE queued' = <<>>
    BY <2>2 DEF MakeReadersOK, makeVars
  <2> QED
    BY <2>1, <2>2
<1>8. ReadersOK'
  BY <1>3 DEF ReadersOK, Shape
<1>9. Shape'
  BY DEF Shape, makeVars
<1> QED
  BY <1>4, <1>5, <1>6, <1>7, <1>8, <1>9

\* Stop and the end of the process.
LEMMA StopTyping ==
  ASSUME Typing, Cancel \/ Stopped \/ Crash \/ Panic
  PROVE  Typing'
<1> USE DEF Typing, TypeOK
<1>1. CASE Cancel
  BY <1>1 DEF Cancel, FilesystemOK, ControlOK, CountersOK, MakeReadersOK,
              ReadersOK, Shape, fsVars, makeVars, ghosts
<1>2. CASE Stopped
  BY <1>2 DEF Stopped, FilesystemOK, ControlOK, CountersOK, MakeReadersOK,
              ReadersOK, Shape, fsVars, makeVars, ghosts
<1>3. ASSUME Die, panicked' \in BOOLEAN
      PROVE  Typing'
  <2>1. CountersOK'
    BY <1>3, Numbers DEF Die, CountersOK, MaxLeaked
  <2>2. FilesystemOK' /\ ControlOK'
    BY <1>3 DEF Die, FilesystemOK, ControlOK, fsVars
  <2>3. MakeReadersOK'
    BY <1>3 DEF Die, MakeReadersOK
  <2>4. ReadersOK' /\ Shape'
    BY <1>3 DEF Die, ReadersOK, Shape
  <2> QED
    BY <2>1, <2>2, <2>3, <2>4
<1>4. CASE Crash
  BY <1>3, <1>4 DEF Crash, ControlOK
<1>5. CASE Panic
  BY <1>3, <1>5 DEF Panic
<1> QED
  BY <1>1, <1>2, <1>4, <1>5

\* The updates of a reader other than a turn of ReadToEnd.
LEMMA UpdateTypes ==
  ASSUME NEW r \in Reader
  PROVE  /\ Aged(r) \in Reader
         /\ Reading(r) \in Reader
         /\ Closed(r) \in Reader
<1>1. r.gen \in 0..(MaxGeneration + 1)
  BY DEF Reader
<1>2. Least(r.gen + 1, MaxGeneration + 1) \in 0..(MaxGeneration + 1)
  BY <1>1, Numbers DEF Least
<1>3. Aged(r) \in Reader
  BY <1>2 DEF Aged, Reader
<1>4. Reading(r) \in Reader
  BY DEF Reading, Reader
<1>5. Closed(r) \in Reader
  BY Empty DEF Closed, Reader
<1> QED
  BY <1>3, <1>4, <1>5

\* The two ways to begin a poll.
LEMMA PollTyping ==
  ASSUME Typing, PollQueued \/ PollListing
  PROVE  Typing'
<1> USE DEF Typing, TypeOK
<1>0. maxBatchFiles \in Nat
  BY Numbers DEF maxBatchFiles
<1>1. CASE PollQueued
  <2> USE <1>1 DEF PollQueued
  <2>1. queued \in Seq(Paths)
    BY DEF MakeReadersOK
  <2>2. /\ First(queued, maxBatchFiles) \in Seq(Paths)
        /\ Len(First(queued, maxBatchFiles)) \in 0..Len(queued)
    BY <1>0, <2>1, FirstType DEF Least
  <2>3. queued' \in Seq(Paths)
    BY <2>1, <2>2, RestType
  <2>4. FilesystemOK' /\ ControlOK' /\ CountersOK'
    BY DEF FilesystemOK, ControlOK, CountersOK, fsVars, ghosts
  <2>5. MakeReadersOK'
    BY <2>2, <2>3 DEF MakeReadersOK
  <2>6. ReadersOK' /\ Shape'
    BY DEF ReadersOK, Shape
  <2> QED
    BY <2>4, <2>5, <2>6
<1>2. CASE PollListing
  <2>1. ASSUME NEW i \in 1..Len(known)
        PROVE  Aged(known[i]) \in Reader
    BY UpdateTypes DEF ReadersOK
  <2>2. known' = [i \in 1..Len(known) |-> Aged(known[i])]
    BY <1>2 DEF PollListing
  <2>3. known' \in [1..Len(known) -> Reader] /\ Len(known) \in Nat
    BY <2>1, <2>2 DEF ReadersOK
  <2>4. known' \in Seq(Reader) /\ Len(known') = Len(known)
    BY <2>3, FunctionIsSeq
  <2>5. \E n \in 0..NumPaths : \E m \in [1..n -> Paths] :
          /\ matches' = First(m, maxBatchFiles)
          /\ queued' = Queued(m)
    BY <1>2 DEF PollListing
  <2>5a. PICK n \in 0..NumPaths : \E m \in [1..n -> Paths] :
          /\ matches' = First(m, maxBatchFiles)
          /\ queued' = Queued(m)
    BY <2>5
  <2>6. PICK m \in [1..n -> Paths] :
          /\ matches' = First(m, maxBatchFiles)
          /\ queued' = Queued(m)
    BY <2>5a
  <2>7. n \in Nat
    BY Numbers
  <2>8. m \in Seq(Paths) /\ Len(m) = n
    BY <2>7, FunctionIsSeq
  <2>9. /\ First(m, maxBatchFiles) \in Seq(Paths)
        /\ Len(First(m, maxBatchFiles)) \in 0..Len(m)
    BY <1>0, <2>8, FirstType DEF Least
  <2>10. matches' \in Seq(Paths) /\ queued' \in Seq(Paths)
    BY <2>6, <2>8, <2>9, RestType DEF Queued
  <2>11. /\ UNCHANGED <<fsVars, files, unread, fps, ghosts, cancelled, firstCheck,
                        nOld, readers, leaked, persisted, emitted>>
         /\ phase = "idle" /\ phase' = "make"
    BY <1>2 DEF PollListing
  <2>12. FilesystemOK' /\ ControlOK' /\ CountersOK'
    BY <2>11 DEF FilesystemOK, ControlOK, CountersOK, fsVars, ghosts
  <2>13. MakeReadersOK'
    BY <2>10, <2>11 DEF MakeReadersOK
  <2>14. ReadersOK' /\ Shape'
    BY <2>4, <2>11 DEF ReadersOK, Shape
  <2> QED
    BY <2>12, <2>13, <2>14
<1> QED
  BY <1>1, <1>2

\* What every step of makeReaders leaves alone.
LEMMA MakeFrame ==
  ASSUME Typing,
         UNCHANGED <<fsVars, ghosts, phase, cancelled, firstCheck, leaked>>
  PROVE  FilesystemOK' /\ ControlOK' /\ CountersOK'
  BY DEF Typing, TypeOK, FilesystemOK, ControlOK, CountersOK, fsVars, ghosts

\* Opening and fingerprinting.
LEMMA OpenTyping ==
  ASSUME Typing, OpenFile \/ NewFingerprint \/ ExcludeFile
  PROVE  Typing'
<1> USE DEF Typing, TypeOK
<1>1. CASE OpenFile
  <2> USE <1>1 DEF OpenFile
  <2>1. Head(matches) \in Paths /\ Tail(matches) \in Seq(Paths)
    BY DEF MakeReadersOK
  <2>2. fs[Head(matches)] \in Handles
    BY <2>1 DEF FilesystemOK
  <2>3. FilesystemOK' /\ ControlOK' /\ CountersOK'
    BY MakeFrame
  <2>4. MakeReadersOK' /\ Len(unread') + Len(fps') <= Len(files')
    <3>1. CASE fs[Head(matches)] = NoFile
      BY <2>1, <3>1 DEF MakeReadersOK, Shape
    <3>2. CASE fs[Head(matches)] # NoFile
      <4>1. /\ files' = Append(files, fs[Head(matches)])
            /\ unread' = Append(unread, fs[Head(matches)])
            /\ files \in Seq(Handles) /\ unread \in Seq(Handles)
        BY <3>2 DEF MakeReadersOK
      <4>2. /\ files' \in Seq(Handles) /\ Len(files') = Len(files) + 1
            /\ unread' \in Seq(Handles) /\ Len(unread') = Len(unread) + 1
        <5> HIDE <1>1
        <5> QED
          BY <2>2, <4>1, AppendProperties
      <4> QED
        BY <2>1, <4>2 DEF MakeReadersOK, Shape
    <3> QED
      BY <3>1, <3>2
  <2>5. ReadersOK' /\ Shape'
    BY <2>4 DEF ReadersOK, Shape
  <2> QED
    BY <2>3, <2>4, <2>5
<1>2. CASE NewFingerprint
  <2> USE <1>2 DEF NewFingerprint
  <2>1. Tail(unread) \in Seq(Handles) /\ Len(Tail(unread)) = Len(unread) - 1
    BY DEF MakeReadersOK
  <2>2. First(Contents(Head(unread)), FingerprintSize) \in Bytes
    BY ContentsType, FirstType, Numbers, LinesAreCells DEF Logs
  <2>3. FilesystemOK' /\ ControlOK' /\ CountersOK'
    BY MakeFrame
  <2>4. fps' \in Seq(Bytes) /\ Len(fps') <= Len(fps) + 1
    BY <2>2 DEF MakeReadersOK
  <2>5. MakeReadersOK' /\ Len(unread') + Len(fps') <= Len(files')
    BY <2>1, <2>4 DEF MakeReadersOK, Shape
  <2>6. ReadersOK' /\ Shape'
    BY <2>5 DEF ReadersOK, Shape
  <2> QED
    BY <2>3, <2>5, <2>6
<1>3. CASE ExcludeFile
  <2> USE <1>3 DEF ExcludeFile, Pairing
  <2>1. files # <<>>
    BY DEF Shape, MakeReadersOK
  <2>2. FilesystemOK' /\ ControlOK' /\ CountersOK'
    BY MakeFrame
  <2>3. MakeReadersOK' /\ Len(unread') + Len(fps') <= Len(files')
    BY <2>1 DEF MakeReadersOK, Shape
  <2>4. ReadersOK' /\ Shape'
    BY <2>3 DEF ReadersOK, Shape
  <2> QED
    BY <2>2, <2>3, <2>4
<1> QED
  BY <1>1, <1>2, <1>3

\* A reader is made of the first file and the first fingerprint.
LEMMA NewReaderTyping ==
  ASSUME Typing, MatchedReader \/ FreshReader
  PROVE  Typing'
<1> USE DEF Typing, TypeOK
<1>1. /\ Pairing
      /\ files' = Tail(files) /\ fps' = Tail(fps)
      /\ UNCHANGED <<fsVars, matches, unread, ghosts, phase, cancelled, firstCheck,
                     queued, known, nOld, leaked, persisted, emitted>>
  BY DEF MatchedReader, FreshReader
<1>2. files # <<>> /\ fps # <<>> /\ phase = "make"
  BY <1>1 DEF Pairing, Shape, MakeReadersOK
<1>3. Head(files) \in Handles /\ Head(fps) \in Bytes
  BY <1>2 DEF MakeReadersOK
<1>4. \E r \in Reader : readers' = Append(readers, r) /\ r.gen = 0
  <2>1. CASE MatchedReader
    <3>1. PICK i \in 1..Len(known) :
            readers' = Append(readers, CopyOf(known[i], Head(files)))
      BY <2>1 DEF MatchedReader
    <3>2. known[i] \in Reader
      BY DEF ReadersOK
    <3>3. CopyOf(known[i], Head(files)) \in Reader
      BY <1>3, <3>2, Empty DEF CopyOf, Reader
    <3>4. CopyOf(known[i], Head(files)).gen = 0
      BY DEF CopyOf
    <3> QED
      BY <3>1, <3>3, <3>4
  <2>2. CASE FreshReader
    <3> DEFINE r == [file |-> Head(files), fp |-> Head(fps), cap |-> FingerprintSize,
                     off |-> InitializeOffset, gen |-> 0, st |-> "ready",
                     buf |-> <<>>]
    <3>1. InitializeOffset \in Nat
      BY ContentsType, BoundsAssumption DEF InitializeOffset, Size, Logs
    <3>2. r \in Reader
      BY <1>3, <3>1, Empty, Numbers DEF Reader
    <3>3. readers' = Append(readers, r)
      BY <2>2 DEF FreshReader
    <3> QED
      BY <3>2, <3>3
  <2> QED
    BY <2>1, <2>2
<1>5. /\ readers' \in Seq(Reader)
      /\ \A i \in 1..Len(readers') : readers'[i].gen = 0
  <2>1. PICK r \in Reader : readers' = Append(readers, r) /\ r.gen = 0
    BY <1>4
  <2>2. readers \in Seq(Reader) /\ \A i \in 1..Len(readers) : readers[i].gen = 0
    BY DEF ReadersOK, Shape
  <2>3. /\ readers' \in Seq(Reader) /\ Len(readers') = Len(readers) + 1
        /\ \A i \in 1..Len(readers) : readers'[i] = readers[i]
        /\ readers'[Len(readers) + 1] = r
    BY <2>1, <2>2, AppendProperties
  <2> QED
    BY <2>1, <2>2, <2>3
<1>6. FilesystemOK' /\ ControlOK' /\ CountersOK'
  BY <1>1, MakeFrame
<1>7. MakeReadersOK' /\ Len(unread') + Len(fps') <= Len(files')
  BY <1>1, <1>2 DEF MakeReadersOK, Shape
<1>8. ReadersOK' /\ Shape'
  BY <1>1, <1>2, <1>5, <1>7 DEF ReadersOK, Shape
<1> QED
  BY <1>6, <1>7, <1>8

\* makeReaders returns, and lost handles are collected.
LEMMA StartReadingTyping ==
  ASSUME Typing, StartReading \/ CollectGarbage
  PROVE  Typing'
<1> USE DEF Typing, TypeOK
<1>1. CASE StartReading
  <2>1. /\ phase = "make" /\ matches = <<>> /\ unread = <<>> /\ fps = <<>>
        /\ phase' = "read" /\ files' = <<>> /\ firstCheck' = FALSE
        /\ leaked' = Least(leaked + Len(files), MaxLeaked)
        /\ readers' = [i \in 1..Len(readers) |-> Reading(readers[i])]
        /\ UNCHANGED <<fsVars, matches, unread, fps, ghosts, cancelled, queued,
                       known, nOld, persisted, emitted>>
    BY <1>1 DEF StartReading
  <2>2. ASSUME NEW i \in 1..Len(readers)
        PROVE  Reading(readers[i]) \in Reader /\ Reading(readers[i]).gen = 0
    <3>1. readers[i] \in Reader /\ readers[i].gen = 0
      BY DEF ReadersOK, Shape
    <3>2. Reading(readers[i]).gen = readers[i].gen
      BY <3>1 DEF Reading, Reader
    <3> QED
      BY <3>1, <3>2, UpdateTypes
  <2>3. readers' \in [1..Len(readers) -> Reader] /\ Len(readers) \in Nat
    BY <2>1, <2>2 DEF ReadersOK
  <2>4. readers' \in Seq(Reader) /\ Len(readers') = Len(readers)
    BY <2>3, FunctionIsSeq
  <2>4a. \A i \in 1..Len(readers') : readers'[i].gen = 0
    BY <2>1, <2>2, <2>4
  <2>5. CountersOK'
    BY <2>1, Numbers DEF CountersOK, MaxLeaked, Least, ghosts, MakeReadersOK
  <2>6. FilesystemOK' /\ ControlOK'
    BY <2>1 DEF FilesystemOK, ControlOK, fsVars, ghosts
  <2>7. MakeReadersOK'
    BY <2>1 DEF MakeReadersOK
  <2>8. ReadersOK'
    BY <2>1, <2>4 DEF ReadersOK
  <2>9. Shape'
    <3>1. /\ phase' = "read"
          /\ matches' = <<>> /\ files' = <<>> /\ unread' = <<>> /\ fps' = <<>>
      BY <2>1
    <3> QED
      BY <2>4a, <3>1 DEF Shape
  <2> QED
    BY <2>5, <2>6, <2>7, <2>8, <2>9
<1>2. CASE CollectGarbage
  <2> USE <1>2 DEF CollectGarbage
  <2>1. CountersOK'
    BY Numbers DEF CountersOK, MaxLeaked, ghosts
  <2>2. FilesystemOK' /\ ControlOK'
    BY DEF FilesystemOK, ControlOK, fsVars, ghosts
  <2>3. MakeReadersOK' /\ ReadersOK' /\ Shape'
    BY DEF MakeReadersOK, ReadersOK, Shape, makeVars
  <2> QED
    BY <2>1, <2>2, <2>3
<1> QED
  BY <1>1, <1>2

\* What reading leaves alone.
LEMMA ReadFrame ==
  ASSUME Typing,
         UNCHANGED <<fsVars, makeVars, ghosts, phase, cancelled, firstCheck,
                     queued, leaked>>
  PROVE  FilesystemOK' /\ ControlOK' /\ CountersOK' /\ MakeReadersOK'
  BY DEF Typing, TypeOK, FilesystemOK, ControlOK, CountersOK, MakeReadersOK,
         fsVars, makeVars, ghosts

\* One turn of a reader of this poll.
LEMMA ReadTyping ==
  ASSUME Typing, NEW i \in 1..Len(readers), ReadToEnd(i)
  PROVE  Typing'
<1> USE DEF Typing, TypeOK
<1>1. readers[i] \in Reader
  BY DEF ReadersOK
<1>2. Scanned(readers[i]) \in Reader /\ Scanned(readers[i]).gen = 0
  BY <1>1, ScannedType DEF Shape
<1>3. emitted' \in [Lines -> 0..2]
  BY <1>1, EmitType DEF ReadToEnd
<1>4. /\ phase = "read"
      /\ readers' = [readers EXCEPT ![i] = Scanned(readers[i])]
      /\ UNCHANGED <<fsVars, makeVars, ghosts, phase, cancelled, firstCheck, queued,
                     known, nOld, leaked, persisted>>
  BY DEF ReadToEnd
<1>5. readers' \in Seq(Reader) /\ Len(readers') = Len(readers)
  BY <1>2, <1>4 DEF ReadersOK
<1>5a. \A j \in 1..Len(readers') : readers'[j].gen = 0
  BY <1>2, <1>4, <1>5 DEF ReadersOK, Shape
<1>6. FilesystemOK' /\ ControlOK' /\ CountersOK' /\ MakeReadersOK'
  BY <1>4, ReadFrame
<1>7. ReadersOK' /\ Shape'
  BY <1>3, <1>4, <1>5, <1>5a DEF ReadersOK, Shape, makeVars
<1> QED
  BY <1>6, <1>7

\* One turn of a lost reader.
LEMMA ReadLostTyping ==
  ASSUME Typing, NEW i \in 1..Len(known), ReadLost(i)
  PROVE  Typing'
<1> USE DEF Typing, TypeOK
<1>1. known[i] \in Reader
  BY DEF ReadersOK
<1>2. Scanned(known[i]) \in Reader
  BY <1>1, ScannedType
<1>3. emitted' \in [Lines -> 0..2]
  BY <1>1, EmitType DEF ReadLost
<1>4. /\ phase = "lost"
      /\ known' = [known EXCEPT ![i] = Scanned(known[i])]
      /\ UNCHANGED <<fsVars, makeVars, ghosts, phase, cancelled, firstCheck, queued,
                     nOld, readers, leaked, persisted>>
  BY DEF ReadLost
<1>5. known' \in Seq(Reader) /\ Len(known') = Len(known)
  BY <1>2, <1>4 DEF ReadersOK
<1>6. FilesystemOK' /\ ControlOK' /\ CountersOK' /\ MakeReadersOK'
  BY <1>4, ReadFrame
<1>7. ReadersOK' /\ Shape'
  BY <1>3, <1>4, <1>5 DEF ReadersOK, Shape, makeVars
<1> QED
  BY <1>6, <1>7

\* The lost readers are set reading.
LEMMA RollTyping ==
  ASSUME Typing, Roll
  PROVE  Typing'
<1> USE DEF Typing, TypeOK
<1>1. /\ phase = "read" /\ phase' = "lost"
      /\ known' = [i \in 1..Len(known) |->
                     IF IsLost(i) THEN Reading(known[i]) ELSE known[i]]
      /\ UNCHANGED <<fsVars, makeVars, ghosts, cancelled, firstCheck, queued, nOld,
                     readers, leaked, persisted, emitted>>
  BY DEF Roll
<1>2. ASSUME NEW i \in 1..Len(known)
      PROVE  known[i] \in Reader /\ Reading(known[i]) \in Reader
  BY UpdateTypes DEF ReadersOK
<1>3. known' \in [1..Len(known) -> Reader] /\ Len(known) \in Nat
  BY <1>1, <1>2 DEF ReadersOK
<1>4. known' \in Seq(Reader) /\ Len(known') = Len(known)
  BY <1>3, FunctionIsSeq
<1>5. FilesystemOK' /\ ControlOK' /\ CountersOK'
  BY <1>1 DEF FilesystemOK, ControlOK, CountersOK, fsVars, ghosts
<1>6. MakeReadersOK' /\ Shape'
  BY <1>1 DEF MakeReadersOK, Shape, makeVars
<1>7. ReadersOK'
  BY <1>1, <1>4 DEF ReadersOK
<1> QED
  BY <1>5, <1>6, <1>7

\* knownFiles with this poll's readers behind it.
LEMMA RolledType ==
  ASSUME Typing
  PROVE  /\ Rolled \in Seq(Reader)
         /\ Len(Rolled) = Len(known) + Len(readers)
         /\ \A i \in 1..Len(known) :
              Rolled[i] = IF IsOld(i) THEN Closed(known[i]) ELSE known[i]
         /\ \A i \in 1..Len(readers) :
              Rolled[Len(known) + i]
                = IF DetectLost THEN readers[i] ELSE Closed(readers[i])
<1> DEFINE old == [i \in 1..Len(known) |->
                     IF IsOld(i) THEN Closed(known[i]) ELSE known[i]]
           new == [i \in 1..Len(readers) |->
                     IF DetectLost THEN readers[i] ELSE Closed(readers[i])]
<1>1. Len(known) \in Nat /\ Len(readers) \in Nat
  BY DEF Typing, TypeOK, ReadersOK
<1>2. ASSUME NEW i \in 1..Len(known)
      PROVE  known[i] \in Reader /\ Closed(known[i]) \in Reader
  BY UpdateTypes DEF Typing, TypeOK, ReadersOK
<1>3. ASSUME NEW i \in 1..Len(readers)
      PROVE  readers[i] \in Reader /\ Closed(readers[i]) \in Reader
  BY UpdateTypes DEF Typing, TypeOK, ReadersOK
<1>4. old \in [1..Len(known) -> Reader]
  BY <1>2
<1>5. new \in [1..Len(readers) -> Reader]
  BY <1>3
<1>6. old \in Seq(Reader) /\ Len(old) = Len(known)
  BY <1>1, <1>4, FunctionIsSeq
<1>7. new \in Seq(Reader) /\ Len(new) = Len(readers)
  BY <1>1, <1>5, FunctionIsSeq
<1>8. Rolled = old \o new
  BY DEF Rolled
<1>9. /\ \A i \in 1..Len(known) :
           old[i] = IF IsOld(i) THEN Closed(known[i]) ELSE known[i]
      /\ \A i \in 1..Len(readers) :
           new[i] = IF DetectLost THEN readers[i] ELSE Closed(readers[i])
  OBVIOUS
<1> HIDE DEF old, new
<1>10. /\ Rolled \in Seq(Reader)
       /\ Len(Rolled) = Len(known) + Len(readers)
       /\ \A i \in 1..(Len(known) + Len(readers)) :
            Rolled[i] = IF i <= Len(known) THEN old[i] ELSE new[i - Len(known)]
  <2>1. /\ old \o new \in Seq(Reader)
        /\ Len(old \o new) = Len(old) + Len(new)
        /\ \A i \in 1..(Len(old) + Len(new)) :
             (old \o new)[i] = IF i <= Len(old) THEN old[i] ELSE new[i - Len(old)]
    BY <1>6, <1>7, ConcatProperties
  <2> QED
    BY <1>6, <1>7, <1>8, <2>1, Zenon
<1>11. ASSUME NEW i \in 1..Len(known) PROVE Rolled[i] = old[i]
  BY <1>1, <1>10
<1>12. ASSUME NEW i \in 1..Len(readers) PROVE Rolled[Len(known) + i] = new[i]
  <2>1. /\ Len(known) + i \in 1..(Len(known) + Len(readers))
        /\ ~(Len(known) + i <= Len(known))
        /\ (Len(known) + i) - Len(known) = i
    BY <1>1
  <2> QED
    BY <1>10, <2>1
<1> QED
  BY <1>9, <1>10, <1>11, <1>12

\* What is kept is a suffix of that, which holds all of this poll's readers
\* because they are of generation 0.
LEMMA KeptType ==
  ASSUME Typing, NEW k \in 1..(Len(Rolled) + 1),
         \A j \in 1..(k - 1) : Rolled[j].gen > MaxGeneration
  PROVE  /\ KeptFrom(k) \in Seq(Reader)
         /\ Len(readers) <= Len(KeptFrom(k))
         /\ \E d \in 0..Len(Rolled) :
              /\ Len(KeptFrom(k)) = Len(Rolled) - d
              /\ \A i \in 1..Len(KeptFrom(k)) : KeptFrom(k)[i] = Rolled[i + d]
<1>1. /\ Rolled \in Seq(Reader) /\ Len(Rolled) = Len(known) + Len(readers)
      /\ Len(known) \in Nat /\ Len(readers) \in Nat /\ k \in Nat /\ k > 0
  BY RolledType DEF Typing, TypeOK, ReadersOK
<1>2. ASSUME NEW i \in 1..Len(readers) PROVE Rolled[Len(known) + i].gen = 0
  <2>1. readers[i] \in Reader
    BY DEF Typing, TypeOK, ReadersOK
  <2>2. Closed(readers[i]).gen = readers[i].gen
    BY <2>1 DEF Closed, Reader
  <2>3. readers[i].gen = 0
    BY DEF Typing, Shape
  <2> QED
    BY <2>2, <2>3, RolledType
<1>3. ASSUME Len(readers) > 0 PROVE k <= Len(known) + 1
  <2> SUFFICES ASSUME k > Len(known) + 1 PROVE FALSE
    BY <1>1
  <2>1. Len(known) + 1 \in 1..(k - 1) /\ 1 \in 1..Len(readers)
    BY <1>1, <1>3
  <2>2. Rolled[Len(known) + 1].gen = 0
    BY <1>2, <2>1
  <2> QED
    BY <2>1, <2>2, Numbers
<1>4. CASE k <= Len(Rolled)
  <2>1. KeptFrom(k) = SubSeq(Rolled, k, Len(Rolled))
    BY <1>4 DEF KeptFrom
  <2>2. /\ KeptFrom(k) \in Seq(Reader)
        /\ Len(KeptFrom(k)) = Len(Rolled) - (k - 1)
        /\ \A i \in 1..Len(KeptFrom(k)) : KeptFrom(k)[i] = Rolled[i + (k - 1)]
    BY <1>1, <1>4, <2>1
  <2>3. k - 1 \in 0..Len(Rolled)
    BY <1>1, <1>4
  <2>4. Len(readers) <= Len(KeptFrom(k))
    BY <1>1, <1>3, <1>4, <2>2
  <2> QED
    BY <2>2, <2>3, <2>4
<1>5. CASE k > Len(Rolled)
  <2>1. KeptFrom(k) = Rolled
    BY <1>1, <1>5 DEF KeptFrom
  <2>2. /\ 0 \in 0..Len(Rolled)
        /\ Len(KeptFrom(k)) = Len(Rolled) - 0
        /\ \A i \in 1..Len(KeptFrom(k)) : KeptFrom(k)[i] = Rolled[i + 0]
    BY <1>1, <2>1
  <2>3. KeptFrom(k) \in Seq(Reader) /\ Len(readers) <= Len(KeptFrom(k))
    BY <1>1, <2>1
  <2> QED
    BY <2>2, <2>3, Zenon
<1>6. k <= Len(Rolled) \/ k > Len(Rolled)
  BY <1>1
<1> QED
  BY <1>4, <1>5, <1>6, Zenon

\* The end of a poll.
LEMMA SaveTyping ==
  ASSUME Typing, SaveCurrent
  PROVE  Typing'
<1> USE DEF Typing, TypeOK
<1>1. PICK k \in 1..(Len(Rolled) + 1) :
        /\ \A j \in 1..(k - 1) : Rolled[j].gen > MaxGeneration
        /\ known' = KeptFrom(k)
  BY DEF SaveCurrent
<1>2. known' \in Seq(Reader) /\ Len(readers) <= Len(known')
  BY <1>1, KeptType
<1>3. /\ phase = "lost" /\ phase' = "idle"
      /\ nOld' = IF DetectLost THEN Len(readers) ELSE 0
      /\ readers' = <<>>
      /\ UNCHANGED <<fsVars, makeVars, cancelled, firstCheck, queued, leaked,
                     starts, panicked, emitted>>
  BY DEF SaveCurrent
<1>4. nOld' \in 0..Len(known')
  BY <1>2, <1>3 DEF ReadersOK
<1>5. persisted' \in Seq(Encodings) /\ lossy' \in BOOLEAN
  <2>1. CASE /\ persisted' = [i \in 1..Len(known') |-> Encoded(known'[i])]
             /\ UNCHANGED lossy
    <3>1. ASSUME NEW i \in 1..Len(known') PROVE Encoded(known'[i]) \in Encodings
      <4>1. known'[i] \in Reader
        BY <1>2
      <4> QED
        BY <4>1 DEF Encoded, Encodings, Reader
    <3>2. persisted' \in [1..Len(known') -> Encodings] /\ Len(known') \in Nat
      BY <1>2, <2>1, <3>1
    <3> QED
      BY <2>1, <3>2, FunctionIsSeq DEF ControlOK
  <2>2. CASE lossy' = TRUE /\ UNCHANGED persisted
    BY <2>2 DEF ReadersOK
  <2> QED
    BY <2>1, <2>2 DEF SaveCurrent
<1>6. FilesystemOK'
  BY <1>3 DEF FilesystemOK, fsVars
<1>7. ControlOK' /\ CountersOK'
  BY <1>3, <1>5 DEF ControlOK, CountersOK
<1>8. MakeReadersOK'
  BY <1>3 DEF MakeReadersOK, makeVars
<1>9. ReadersOK'
  BY <1>2, <1>3, <1>4, <1>5 DEF ReadersOK
<1>10. Shape'
  BY <1>3 DEF Shape, makeVars
<1> QED
  BY <1>6, <1>7, <1>8, <1>9, <1>10

\* The filesystem changes underneath.
LEMMA FilesystemTyping ==
  ASSUME Typing, Filesystem
  PROVE  Typing' /\ UNCHANGED opVars
<1> USE DEF Typing, TypeOK
<1>1. UNCHANGED opVars
  BY DEF Filesystem, CreateFile, RemoveFile, TruncateFile, WriteLine, MoveFile,
         CopyFile
<1>a. lossy' \in BOOLEAN
  <2>1. lossy' = lossy \/ lossy' = TRUE
    BY DEF Filesystem, CreateFile, RemoveFile, TruncateFile, WriteLine, MoveFile,
           CopyFile
  <2> QED
    BY <2>1 DEF ControlOK
<1>2. ControlOK' /\ CountersOK' /\ MakeReadersOK' /\ ReadersOK' /\ Shape'
  BY <1>1, <1>a DEF opVars, makeVars, ControlOK, CountersOK, MakeReadersOK,
                    ReadersOK, Shape
<1>3. FilesystemOK'
  <2> USE DEF FilesystemOK
  <2>1. ASSUME NEW p \in Paths, CreateFile(p)
        PROVE  FilesystemOK'
    <3>1. nextIno \in Handles
      BY <2>1, Empty DEF CreateFile, Inodes
    <3> QED
      BY <2>1, <3>1, Numbers DEF CreateFile
  <2>2. ASSUME NEW p \in Paths, RemoveFile(p)
        PROVE  FilesystemOK'
    BY <2>2, Empty, Numbers DEF RemoveFile, Operation
  <2>3. ASSUME NEW p \in Paths, TruncateFile(p)
        PROVE  FilesystemOK'
    BY <2>3, Empty, Numbers DEF TruncateFile, Operation
  <2>4. ASSUME NEW i \in Inodes, WriteLine(i)
        PROVE  FilesystemOK'
    <3>1. nextLine \in Lines /\ data[i] \in Seq(Lines)
      BY <2>4, Numbers DEF WriteLine, Lines, Logs
    <3>2. Append(data[i], nextLine) \in Logs
      BY <3>1, AppendProperties DEF Logs
    <3> QED
      BY <2>4, <3>2, Numbers DEF WriteLine
  <2>5. ASSUME NEW p \in Paths, NEW q \in Paths, MoveFile(p, q)
        PROVE  FilesystemOK'
    BY <2>5, Empty, Numbers DEF MoveFile, Operation
  <2>6. ASSUME NEW p \in Paths, NEW q \in Paths, CopyFile(p, q)
        PROVE  FilesystemOK'
    <3>1. nextIno \in Inodes /\ nextIno \in Handles
      BY <2>6, Empty, Numbers DEF CopyFile, Inodes
    <3>2. data[fs[p]] \in Logs
      BY <2>6 DEF CopyFile
    <3> QED
      BY <2>6, <3>1, <3>2, Numbers DEF CopyFile, Operation
  <2> QED
    BY <2>1, <2>2, <2>3, <2>4, <2>5, <2>6 DEF Filesystem
<1> QED
  BY <1>1, <1>2, <1>3

\* A stuttering step changes nothing.
LEMMA StutterTyping ==
  ASSUME Typing, UNCHANGED vars
  PROVE  Typing'
  BY DEF Typing, TypeOK, FilesystemOK, ControlOK, CountersOK, MakeReadersOK,
         ReadersOK, Shape, vars, fsVars, makeVars, ghosts

\* Typing is inductive.
LEMMA NextTyping == Typing /\ [Next]_vars => Typing'
<1> SUFFICES ASSUME Typing, [Next]_vars PROVE Typing'
  OBVIOUS
<1>1. CASE Poller
  BY <1>1, PollTyping, OpenTyping, NewReaderTyping, StartReadingTyping, ReadTyping,
     RollTyping, ReadLostTyping, StopTyping, SaveTyping
     DEF Poller, makeReaders
<1> QED
  BY <1>1, StartTyping, StopTyping, StartReadingTyping, FilesystemTyping,
     StutterTyping DEF Next

\* The type invariant with its strengthening.
THEOREM TypingCorrect == Spec => []Typing
  BY InitTyping, NextTyping, PTL DEF Spec

\* Every reachable state of the file input is well formed: the old readers are
\* always known readers, and makeReaders never runs out of files to pair.
THEOREM TypeCorrect == Spec => []TypeOK
<1>1. Typing => TypeOK
  BY DEF Typing
<1> QED
  BY <1>1, TypingCorrect, PTL

-----------------------------------------------------------------------------
(* Open files.  A poll works on one batch, the old readers are the ones of   *)
(* the batch before, and a batch is half of max_concurrent_files.            *)

Batched ==
  /\ Len(matches) + Len(files) + Len(readers) <= maxBatchFiles
  /\ nOld <= maxBatchFiles

\* Half of the limit, twice, is within the limit.
LEMMA BatchSize ==
  maxBatchFiles \in Nat /\ 2 * maxBatchFiles <= MaxConcurrentFiles
  BY Numbers DEF maxBatchFiles

\* The lengths of the sequences a batch is counted in.
LEMMA Lengths ==
  ASSUME Typing
  PROVE  /\ Len(matches) \in Nat /\ Len(files) \in Nat /\ Len(readers) \in Nat
         /\ Len(unread) \in Nat /\ Len(fps) \in Nat /\ nOld \in Nat
  BY DEF Typing, TypeOK, MakeReadersOK, ReadersOK

\* Beginning a poll takes at most a batch.
LEMMA PollBatched ==
  ASSUME Typing, Batched, PollQueued \/ PollListing
  PROVE  Batched'
<1>1. files' = <<>> /\ readers' = <<>> /\ nOld' = nOld
  BY DEF Typing, Shape, PollQueued, PollListing
<1>2. Len(matches') \in Nat /\ Len(matches') <= maxBatchFiles
  <2>1. CASE PollQueued
    <3>1. queued \in Seq(Paths) /\ matches' = First(queued, maxBatchFiles)
      BY <2>1 DEF Typing, TypeOK, MakeReadersOK, PollQueued
    <3> QED
      BY <3>1, BatchSize, FirstType DEF Least
  <2>2. CASE PollListing
    <3>1. \E n \in 0..NumPaths : \E m \in [1..n -> Paths] :
            matches' = First(m, maxBatchFiles)
      BY <2>2 DEF PollListing
    <3>2. PICK n \in 0..NumPaths : \E m \in [1..n -> Paths] :
            matches' = First(m, maxBatchFiles)
      BY <3>1
    <3>3. PICK m \in [1..n -> Paths] : matches' = First(m, maxBatchFiles)
      BY <3>2
    <3>4. m \in Seq(Paths)
      BY Numbers, FunctionIsSeq
    <3> QED
      BY <3>3, <3>4, BatchSize, FirstType DEF Least
  <2> QED
    BY <2>1, <2>2
<1> QED
  BY <1>1, <1>2, BatchSize DEF Batched

\* Making readers moves a file from matches to files to readers.
LEMMA MakeBatched ==
  ASSUME Typing, Batched, makeReaders \/ StartReading
  PROVE  Batched'
<1> USE Lengths, BatchSize DEF Batched
<1>1. matches \in Seq(Paths) /\ files \in Seq(Handles) /\ fps \in Seq(Bytes)
      /\ readers \in Seq(Reader)
  BY DEF Typing, TypeOK, MakeReadersOK, ReadersOK
<1>2. CASE OpenFile
  <2>1. /\ matches # <<>> /\ matches' = Tail(matches)
        /\ readers' = readers /\ nOld' = nOld
        /\ files' = files \/ files' = Append(files, fs[Head(matches)])
    BY <1>2 DEF OpenFile
  <2>2. Len(matches') = Len(matches) - 1 /\ Len(files') <= Len(files) + 1
        /\ Len(files') \in Nat
    BY <1>1, <2>1
  <2> QED
    BY <2>1, <2>2
<1>3. CASE NewFingerprint
  BY <1>3 DEF NewFingerprint
<1>4. CASE ExcludeFile \/ MatchedReader \/ FreshReader
  <2>1. files # <<>> /\ files' = Tail(files)
        /\ matches' = matches /\ nOld' = nOld
    BY <1>1, <1>4 DEF ExcludeFile, MatchedReader, FreshReader, Pairing, Typing, Shape
  <2>2. Len(files') = Len(files) - 1
    BY <1>1, <2>1
  <2>3. Len(readers') \in Nat /\ Len(readers') <= Len(readers) + 1
    <3>1. readers' = readers \/ \E r : readers' = Append(readers, r)
      BY <1>4 DEF ExcludeFile, MatchedReader, FreshReader
    <3> QED
      BY <1>1, <3>1
  <2> QED
    BY <2>1, <2>2, <2>3
<1>5. CASE StartReading
  <2>1. /\ matches' = matches /\ files' = <<>> /\ nOld' = nOld
        /\ readers' = [i \in 1..Len(readers) |-> Reading(readers[i])]
    BY <1>5 DEF StartReading
  <2>2. Len(readers') = Len(readers)
    BY <2>1
  <2> QED
    BY <2>1, <2>2
<1> QED
  BY <1>2, <1>3, <1>4, <1>5 DEF makeReaders

\* No step exceeds a batch.
LEMMA NextBatched == Typing /\ Batched /\ [Next]_vars => Batched'
<1> SUFFICES ASSUME Typing, Batched, [Next]_vars PROVE Batched'
  OBVIOUS
<1> USE Lengths, BatchSize
<1>1. CASE Start \/ Cancel \/ CollectGarbage \/ UNCHANGED vars
  BY <1>1 DEF Start, Cancel, CollectGarbage, vars, makeVars, Batched
<1>2. CASE Stopped
  BY <1>2 DEF Stopped, makeVars, Batched
<1>3. CASE Crash \/ Panic
  BY <1>3 DEF Crash, Panic, Die, Batched
<1>4. CASE PollQueued \/ PollListing
  BY <1>4, PollBatched
<1>5. CASE makeReaders \/ StartReading
  BY <1>5, MakeBatched
<1>6. ASSUME NEW i \in 1..Len(readers), ReadToEnd(i)
      PROVE  Batched'
  <2>1. /\ readers' = [readers EXCEPT ![i] = Scanned(readers[i])]
        /\ UNCHANGED <<makeVars, nOld>>
    BY <1>6 DEF ReadToEnd
  <2>2. Len(readers') = Len(readers)
    BY <2>1 DEF Typing, TypeOK, ReadersOK
  <2> QED
    BY <2>1, <2>2 DEF Batched, makeVars
<1>7. CASE Roll
  BY <1>7 DEF Roll, Batched, makeVars
<1>8. ASSUME NEW i \in 1..Len(known), ReadLost(i)
      PROVE  Batched'
  BY <1>8 DEF ReadLost, Batched, makeVars
<1>9. CASE SaveCurrent
  <2>1. /\ readers' = <<>> /\ nOld' = IF DetectLost THEN Len(readers) ELSE 0
        /\ UNCHANGED makeVars
    BY <1>9 DEF SaveCurrent
  <2> QED
    BY <2>1 DEF Batched, makeVars
<1>10. CASE Filesystem
  BY <1>10, FilesystemTyping DEF opVars, makeVars, Batched
<1> QED
  BY <1>1, <1>2, <1>3, <1>4, <1>5, <1>6, <1>7, <1>8, <1>9, <1>10 DEF Next, Poller

\* At every moment of every poll the files the operator works with, the old
\* batch included, are within max_concurrent_files: whatever the paths name,
\* however files are renamed or removed between the listing and the opening.
THEOREM TrackedHandlesCorrect == Spec => []TrackedHandlesBounded
<1>1. Init => Batched
  BY BatchSize DEF Init, Batched
<1>2. Spec => []Batched
  BY <1>1, NextBatched, TypingCorrect, PTL DEF Spec
<1>3. Typing /\ Batched => TrackedHandlesBounded
  BY Lengths, BatchSize, Numbers DEF Batched, TrackedHandlesBounded, TrackedHandles
<1> QED
  BY <1>2, <1>3, TypingCorrect, PTL

-----------------------------------------------------------------------------
(* The order of knownFiles.  Typing knows that this poll's readers are of     *)
(* generation 0, and they are put last.                                       *)

\* Closing a file or starting to read it leaves a reader's generation alone.
LEMMA GenerationKept ==
  ASSUME NEW r \in Reader
  PROVE  /\ Closed(r).gen = r.gen /\ Reading(r).gen = r.gen
         /\ r.gen \in Nat
         /\ Aged(r).gen = Least(r.gen + 1, MaxGeneration + 1)
  BY DEF Closed, Reading, Aged, Reader

\* The order is kept if no reader's place or generation changes.
LEMMA SameGenerations ==
  ASSUME OldestFirst, Len(known') = Len(known),
         \A i \in 1..Len(known) : known'[i].gen = known[i].gen
  PROVE  OldestFirst'
  BY DEF OldestFirst

\* Readers that get older by one, up to the same limit, stay in order.
LEMMA AgingSorted ==
  ASSUME Typing, OldestFirst, PollListing
  PROVE  OldestFirst'
<1>1. known' = [i \in 1..Len(known) |-> Aged(known[i])] /\ known \in Seq(Reader)
  BY DEF PollListing, Typing, TypeOK, ReadersOK
<1>2. Len(known') = Len(known)
  BY <1>1
<1> SUFFICES ASSUME NEW i \in 1..Len(known), NEW j \in 1..Len(known), i <= j
             PROVE  known'[i].gen >= known'[j].gen
  BY <1>2 DEF OldestFirst
<1>3. known[i] \in Reader /\ known[j] \in Reader
  BY <1>1
<1>4. known[i].gen >= known[j].gen
  BY DEF OldestFirst
<1>5. known'[i].gen = Least(known[i].gen + 1, MaxGeneration + 1)
  BY <1>1, <1>3, GenerationKept
<1>6. known'[j].gen = Least(known[j].gen + 1, MaxGeneration + 1)
  BY <1>1, <1>3, GenerationKept
<1>7. known[i].gen \in Nat /\ known[j].gen \in Nat /\ MaxGeneration + 1 \in Nat
  BY <1>3, GenerationKept, Numbers
<1>8. \A a, b, m \in Nat : a >= b => Least(a + 1, m) >= Least(b + 1, m)
  BY DEF Least
<1> QED
  BY <1>4, <1>5, <1>6, <1>7, <1>8

\* The generations of knownFiles with this poll's readers.
LEMMA RolledSorted ==
  ASSUME Typing, OldestFirst,
         NEW i \in 1..Len(Rolled), NEW j \in 1..Len(Rolled), i <= j
  PROVE  Rolled[i].gen >= Rolled[j].gen
<1>1. /\ Len(Rolled) = Len(known) + Len(readers)
      /\ Len(known) \in Nat /\ Len(readers) \in Nat
  BY RolledType DEF Typing, TypeOK, ReadersOK
<1>2. ASSUME NEW k \in 1..Len(known)
      PROVE  Rolled[k].gen = known[k].gen /\ known[k].gen \in Nat
  <2>1. known[k] \in Reader
    BY DEF Typing, TypeOK, ReadersOK
  <2>2. Rolled[k] = known[k] \/ Rolled[k] = Closed(known[k])
    BY RolledType
  <2> QED
    BY <2>1, <2>2, GenerationKept
<1>3. ASSUME NEW k \in 1..Len(readers)
      PROVE  Rolled[Len(known) + k].gen = 0
  <2>1. readers[k] \in Reader
    BY DEF Typing, TypeOK, ReadersOK
  <2>2. Rolled[Len(known) + k] = readers[k] \/ Rolled[Len(known) + k] = Closed(readers[k])
    BY RolledType
  <2>3. readers[k].gen = 0
    BY DEF Typing, Shape
  <2> QED
    BY <2>1, <2>2, <2>3, GenerationKept
<1>4. CASE j <= Len(known)
  <2>1. i \in 1..Len(known) /\ j \in 1..Len(known)
    BY <1>1, <1>4
  <2> QED
    BY <1>2, <2>1 DEF OldestFirst
<1>5. CASE j > Len(known)
  <2>1. j - Len(known) \in 1..Len(readers) /\ Len(known) + (j - Len(known)) = j
    BY <1>1, <1>5
  <2>2. Rolled[j].gen = 0
    BY <1>3, <2>1
  <2>3. CASE i <= Len(known)
    <3>1. i \in 1..Len(known)
      BY <1>1, <2>3
    <3> QED
      BY <1>2, <2>2, <3>1
  <2>4. CASE i > Len(known)
    <3>1. i - Len(known) \in 1..Len(readers) /\ Len(known) + (i - Len(known)) = i
      BY <1>1, <2>4
    <3>2. Rolled[i].gen = 0
      BY <1>3, <3>1
    <3> QED
      BY <2>2, <3>2
  <2> QED
    BY <1>1, <2>3, <2>4
<1> QED
  BY <1>1, <1>4, <1>5

\* The end of a poll keeps a suffix of that.
LEMMA SaveSorted ==
  ASSUME Typing, OldestFirst, SaveCurrent
  PROVE  OldestFirst'
<1>1. PICK k \in 1..(Len(Rolled) + 1) :
        /\ \A j \in 1..(k - 1) : Rolled[j].gen > MaxGeneration
        /\ known' = KeptFrom(k)
  BY DEF SaveCurrent
<1>2. PICK d \in 0..Len(Rolled) :
        /\ Len(KeptFrom(k)) = Len(Rolled) - d
        /\ \A i \in 1..Len(KeptFrom(k)) : KeptFrom(k)[i] = Rolled[i + d]
  BY <1>1, KeptType
<1>3. Len(Rolled) \in Nat
  BY RolledType DEF Typing, TypeOK, ReadersOK
<1> SUFFICES ASSUME NEW i \in 1..Len(known'), NEW j \in 1..Len(known'), i <= j
             PROVE  known'[i].gen >= known'[j].gen
  BY DEF OldestFirst
<1>4. /\ i + d \in 1..Len(Rolled) /\ j + d \in 1..Len(Rolled) /\ i + d <= j + d
      /\ known'[i] = Rolled[i + d] /\ known'[j] = Rolled[j + d]
  BY <1>1, <1>2, <1>3
<1> QED
  BY <1>4, RolledSorted

\* No step puts a reader behind a younger one.
LEMMA NextSorted == Typing /\ OldestFirst /\ [Next]_vars => OldestFirst'
<1> SUFFICES ASSUME Typing, OldestFirst, [Next]_vars PROVE OldestFirst'
  OBVIOUS
<1>0. known \in Seq(Reader)
  BY DEF Typing, TypeOK, ReadersOK
<1>1. CASE Start
  <2>1. /\ known' = [i \in 1..Len(persisted) |-> Loaded(persisted[i])]
        /\ Len(persisted) \in Nat
    BY <1>1 DEF Start, Typing, TypeOK, ReadersOK
  <2>2. Len(known') = Len(persisted)
    BY <2>1
  <2>3. \A i \in 1..Len(known') : known'[i].gen = 0
    BY <2>1, <2>2 DEF Loaded
  <2> QED
    BY <2>3 DEF OldestFirst
<1>2. CASE Stopped \/ Crash \/ Panic
  <2>1. known' = <<>>
    BY <1>2 DEF Stopped, Crash, Panic, Die
  <2> QED
    BY <2>1 DEF OldestFirst
<1>3. CASE PollListing
  BY <1>3, AgingSorted
<1>4. CASE Roll
  <2>1. known' = [i \in 1..Len(known) |-> IF IsLost(i) THEN Reading(known[i]) ELSE known[i]]
    BY <1>4 DEF Roll
  <2>2. Len(known') = Len(known)
    BY <1>0, <2>1
  <2>3. ASSUME NEW i \in 1..Len(known) PROVE known'[i].gen = known[i].gen
    <3>1. known[i] \in Reader
      BY <1>0
    <3>2. known'[i] = Reading(known[i]) \/ known'[i] = known[i]
      BY <2>1
    <3> QED
      BY <3>1, <3>2, GenerationKept
  <2> QED
    BY <2>2, <2>3, SameGenerations
<1>5. ASSUME NEW n \in 1..Len(known), ReadLost(n) PROVE OldestFirst'
  <2>1. known' = [known EXCEPT ![n] = Scanned(known[n])]
    BY <1>5 DEF ReadLost
  <2>2. Len(known') = Len(known)
    BY <1>0, <2>1
  <2>3. ASSUME NEW i \in 1..Len(known) PROVE known'[i].gen = known[i].gen
    <3>1. known[n] \in Reader
      BY <1>0
    <3>2. Scanned(known[n]).gen = known[n].gen
      BY <3>1, ScannedType DEF Typing
    <3> QED
      BY <1>0, <2>1, <3>2
  <2> QED
    BY <2>2, <2>3, SameGenerations
<1>6. CASE SaveCurrent
  BY <1>6, SaveSorted
<1>7. CASE known' = known
  BY <1>7 DEF OldestFirst
<1>8. CASE Cancel \/ PollQueued \/ makeReaders \/ StartReading \/ CollectGarbage
           \/ UNCHANGED vars
  BY <1>7, <1>8 DEF Cancel, PollQueued, makeReaders, OpenFile, NewFingerprint,
     ExcludeFile, MatchedReader, FreshReader, StartReading, CollectGarbage, vars
<1>9. ASSUME NEW i \in 1..Len(readers), ReadToEnd(i) PROVE OldestFirst'
  BY <1>7, <1>9 DEF ReadToEnd
<1>10. CASE Filesystem
  BY <1>7, <1>10, FilesystemTyping DEF opVars
<1> QED
  BY <1>1, <1>2, <1>3, <1>4, <1>5, <1>6, <1>8, <1>9, <1>10 DEF Next, Poller

\* saveCurrent may cut knownFiles at the first young reader: the list is sorted
\* oldest first after any sequence of polls, stops, crashes and restarts.
THEOREM OldestFirstCorrect == Spec => []OldestFirst
<1>1. Init => OldestFirst
  BY DEF Init, OldestFirst
<1> QED
  BY <1>1, NextSorted, TypingCorrect, PTL DEF Spec

-----------------------------------------------------------------------------
(* The size of fingerprints.  A fingerprint that Read extends ends where the  *)
(* configured size ends only if its capacity, which decides how far it may be *)
(* resliced, is not larger either; and the checkpoint gives both back.        *)

Small(r) == Len(r.fp) <= FingerprintSize /\ r.cap <= FingerprintSize

SmallReaders ==
  /\ \A i \in 1..Len(known) : Small(known[i])
  /\ \A i \in 1..Len(readers) : Small(readers[i])

SmallStored ==
  /\ \A i \in 1..Len(persisted) : Len(persisted[i].fp) <= FingerprintSize
  /\ \A i \in 1..Len(fps) : Len(fps[i]) <= FingerprintSize

AllSmall == SmallReaders /\ SmallStored

\* Copying, closing, ageing and starting to read leave the fingerprint alone.
LEMMA SmallKept ==
  ASSUME NEW r \in Reader, Small(r), NEW h
  PROVE  Small(Closed(r)) /\ Small(Reading(r)) /\ Small(Aged(r)) /\ Small(CopyOf(r, h))
  BY DEF Small, Closed, Reading, Aged, CopyOf, Reader

\* One turn of ReadToEnd that does not panic.
LEMMA SmallScanned ==
  ASSUME TypeOK, NEW r \in Reader, Small(r), r.st = "reading", ~Panics(r)
  PROVE  Small(Scanned(r))
<1> DEFINE fp  == IF r.buf = <<>> THEN FirstBytesAfter(r, Unconsumed(r)) ELSE r.fp
           cap == Most(r.cap, Len(fp))
<1>1. CASE cancelled
  <2>1. Scanned(r) = [r EXCEPT !.st = "done", !.buf = <<>>]
    BY <1>1 DEF Scanned
  <2> QED
    BY <2>1 DEF Small, Reader
<1>2. CASE ~cancelled
  <2>1. fp \in Bytes /\ Len(fp) <= FingerprintSize
    <3>1. r.buf = <<>> => ~OutOfRange(r)
      BY <1>2 DEF Panics
    <3>2. r.fp \in Bytes /\ r.cap <= FingerprintSize /\ Len(r.fp) <= FingerprintSize
      BY DEF Small, Reader
    <3>3. Unconsumed(r) \in Logs
      BY UnconsumedType
    <3>4. CASE r.buf = <<>>
      BY <3>1, <3>2, <3>3, <3>4, FirstBytesType
    <3>5. CASE r.buf # <<>>
      BY <3>2, <3>5
    <3> QED
      BY <3>4, <3>5
  <2> HIDE DEF fp
  <2>2. cap <= FingerprintSize
    <3>1. r.cap \in Nat /\ r.cap <= FingerprintSize /\ Len(fp) \in Nat
      BY <2>1 DEF Small, Reader, Bytes
    <3> QED
      BY <2>1, <3>1 DEF Most
  <2>3. Scanned(r) = [r EXCEPT !.fp = fp, !.cap = cap, !.st = "done"]
        \/ Scanned(r) = [r EXCEPT !.fp = fp, !.cap = cap, !.off = r.off + 1,
                                  !.buf = Tail(Pending(r))]
    BY <1>2 DEF Scanned, fp
  <2> HIDE DEF cap
  <2>4. Scanned(r).fp = fp /\ Scanned(r).cap = cap
    BY <2>3 DEF Reader
  <2> QED
    BY <2>1, <2>2, <2>4 DEF Small
<1> QED
  BY <1>1, <1>2

\* Making readers of the files of a batch.
LEMMA MakeSmall ==
  ASSUME Typing, AllSmall, NewFingerprint \/ ExcludeFile \/ MatchedReader \/ FreshReader
  PROVE  AllSmall'
<1>1. known' = known /\ persisted' = persisted
  BY DEF NewFingerprint, ExcludeFile, MatchedReader, FreshReader
<1>2. fps \in Seq(Bytes) /\ readers \in Seq(Reader) /\ known \in Seq(Reader)
  BY DEF Typing, TypeOK, MakeReadersOK, ReadersOK
<1>3. CASE NewFingerprint
  <2> DEFINE new == First(Contents(Head(unread)), FingerprintSize)
  <2>1. new \in Bytes /\ Len(new) <= FingerprintSize
    <3>1. Contents(Head(unread)) \in Seq(Lines)
      BY ContentsType DEF Typing, Logs
    <3>2. new \in Seq(Lines) /\ Len(new) = Least(FingerprintSize, Len(Contents(Head(unread))))
      BY <3>1, FirstType, Numbers
    <3>3. Len(new) <= FingerprintSize
      BY <3>1, <3>2, Numbers DEF Least
    <3> QED
      BY <3>2, <3>3, LinesAreCells DEF Logs
  <2>2. readers' = readers /\ (fps' = fps \/ fps' = Append(fps, new))
    BY <1>3 DEF NewFingerprint
  <2> HIDE DEF new
  <2>3. \A i \in 1..Len(fps') : Len(fps'[i]) <= FingerprintSize
    <3>1. \A i \in 1..Len(fps) : Len(fps[i]) <= FingerprintSize
      BY DEF AllSmall, SmallStored
    <3>2. CASE fps' = fps
      BY <3>1, <3>2
    <3>3. CASE fps' = Append(fps, new)
      <4>1. /\ Len(fps') = Len(fps) + 1 /\ Len(fps) \in Nat
            /\ \A i \in 1..Len(fps) : fps'[i] = fps[i]
            /\ fps'[Len(fps) + 1] = new
        BY <1>2, <2>1, <3>3, AppendProperties
      <4>2. ASSUME NEW i \in 1..Len(fps') PROVE Len(fps'[i]) <= FingerprintSize
        <5>1. i \in 1..Len(fps) \/ i = Len(fps) + 1
          BY <4>1
        <5> QED
          BY <2>1, <3>1, <4>1, <5>1
      <4> QED
        BY <4>2
    <3> QED
      BY <2>2, <3>2, <3>3
  <2> QED
    BY <1>1, <2>2, <2>3 DEF AllSmall, SmallReaders, SmallStored
<1>4. CASE ExcludeFile \/ MatchedReader \/ FreshReader
  <2>1. fps # <<>> /\ fps' = Tail(fps)
    BY <1>4 DEF ExcludeFile, MatchedReader, FreshReader, Pairing
  <2>2. \A i \in 1..Len(fps') : Len(fps'[i]) <= FingerprintSize
    <3>1. Len(fps') = Len(fps) - 1 /\ \A i \in 1..Len(fps') : fps'[i] = fps[i + 1]
      BY <1>2, <2>1
    <3>2. \A i \in 1..Len(fps') : i + 1 \in 1..Len(fps)
      BY <1>2, <3>1
    <3> QED
      BY <3>1, <3>2 DEF AllSmall, SmallStored
  <2>3. readers' = readers \/ \E r \in Reader : readers' = Append(readers, r) /\ Small(r)
    <3>1. CASE ExcludeFile
      BY <3>1 DEF ExcludeFile
    <3>2. Head(files) \in Handles /\ Head(fps) \in Bytes
      <4>1. files \in Seq(Handles) /\ files # <<>>
        BY <1>2, <1>4, <2>1 DEF Typing, TypeOK, MakeReadersOK, Shape
      <4> QED
        BY <1>2, <2>1, <4>1
    <3>3. CASE MatchedReader
      <4>1. PICK i \in 1..Len(known) :
              readers' = Append(readers, CopyOf(known[i], Head(files)))
        BY <3>3 DEF MatchedReader
      <4>2. known[i] \in Reader /\ Small(known[i])
        BY <1>2 DEF AllSmall, SmallReaders
      <4>3. CopyOf(known[i], Head(files)) \in Reader
        BY <3>2, <4>2, Empty DEF CopyOf, Reader
      <4> QED
        BY <4>1, <4>2, <4>3, SmallKept
    <3>4. CASE FreshReader
      <4> DEFINE r == [file |-> Head(files), fp |-> Head(fps), cap |-> FingerprintSize,
                       off |-> InitializeOffset, gen |-> 0, st |-> "ready",
                       buf |-> <<>>]
      <4>1. InitializeOffset \in Nat
        BY ContentsType, BoundsAssumption DEF InitializeOffset, Size, Logs, Typing
      <4>2. r \in Reader
        BY <3>2, <4>1, Empty, Numbers DEF Reader
      <4>3. Len(Head(fps)) <= FingerprintSize
        <5>1. 1 \in 1..Len(fps) /\ Head(fps) = fps[1]
          BY <1>2, <2>1
        <5> QED
          BY <5>1 DEF AllSmall, SmallStored
      <4>4. Small(r)
        BY <4>3, Numbers DEF Small
      <4>5. readers' = Append(readers, r)
        BY <3>4 DEF FreshReader
      <4> QED
        BY <4>2, <4>4, <4>5
    <3> QED
      BY <1>4, <3>1, <3>3, <3>4
  <2>4. \A i \in 1..Len(readers') : Small(readers'[i])
    <3>1. CASE readers' = readers
      BY <3>1 DEF AllSmall, SmallReaders
    <3>2. ASSUME NEW r \in Reader, readers' = Append(readers, r), Small(r)
          PROVE  \A i \in 1..Len(readers') : Small(readers'[i])
      <4>1. /\ Len(readers') = Len(readers) + 1 /\ Len(readers) \in Nat
            /\ \A i \in 1..Len(readers) : readers'[i] = readers[i]
            /\ readers'[Len(readers) + 1] = r
        BY <1>2, <3>2, AppendProperties
      <4>2. ASSUME NEW i \in 1..Len(readers') PROVE Small(readers'[i])
        <5>1. i \in 1..Len(readers) \/ i = Len(readers) + 1
          BY <4>1
        <5> QED
          BY <3>2, <4>1, <5>1 DEF AllSmall, SmallReaders
      <4> QED
        BY <4>2
    <3> QED
      BY <2>3, <3>1, <3>2
  <2> QED
    BY <1>1, <2>2, <2>4 DEF AllSmall, SmallReaders, SmallStored
<1> QED
  BY <1>3, <1>4

\* What is kept, and what is stored of it.
LEMMA SaveSmall ==
  ASSUME Typing, AllSmall, SaveCurrent
  PROVE  AllSmall'
<1>1. PICK k \in 1..(Len(Rolled) + 1) :
        /\ \A j \in 1..(k - 1) : Rolled[j].gen > MaxGeneration
        /\ known' = KeptFrom(k)
  BY DEF SaveCurrent
<1>2. PICK d \in 0..Len(Rolled) :
        /\ Len(KeptFrom(k)) = Len(Rolled) - d
        /\ \A i \in 1..Len(KeptFrom(k)) : KeptFrom(k)[i] = Rolled[i + d]
  BY <1>1, KeptType
<1>3. /\ Len(Rolled) = Len(known) + Len(readers)
      /\ Len(known) \in Nat /\ Len(readers) \in Nat /\ known' \in Seq(Reader)
  BY <1>1, KeptType, RolledType DEF Typing, TypeOK, ReadersOK
<1>4. ASSUME NEW i \in 1..Len(Rolled) PROVE Small(Rolled[i])
  <2>1. CASE i <= Len(known)
    <3>1. i \in 1..Len(known)
      BY <1>3, <2>1
    <3>2. known[i] \in Reader /\ Small(known[i])
      BY <3>1 DEF Typing, TypeOK, ReadersOK, AllSmall, SmallReaders
    <3>3. Rolled[i] = known[i] \/ Rolled[i] = Closed(known[i])
      BY <3>1, RolledType
    <3> QED
      BY <3>2, <3>3, SmallKept
  <2>2. CASE i > Len(known)
    <3>1. i - Len(known) \in 1..Len(readers) /\ Len(known) + (i - Len(known)) = i
      BY <1>3, <2>2
    <3>2. PICK j \in 1..Len(readers) : i = Len(known) + j
      BY <3>1
    <3>3. readers[j] \in Reader /\ Small(readers[j])
      BY DEF Typing, TypeOK, ReadersOK, AllSmall, SmallReaders
    <3>4. Rolled[i] = readers[j] \/ Rolled[i] = Closed(readers[j])
      BY <3>2, RolledType
    <3> QED
      BY <3>3, <3>4, SmallKept
  <2> QED
    BY <1>3, <2>1, <2>2
<1>5. ASSUME NEW i \in 1..Len(known') PROVE Small(known'[i])
  <2>1. i + d \in 1..Len(Rolled) /\ known'[i] = Rolled[i + d]
    BY <1>1, <1>2, <1>3
  <2> QED
    BY <1>4, <2>1
<1>6. readers' = <<>> /\ fps' = fps
  BY DEF SaveCurrent, makeVars
<1>7. \A i \in 1..Len(persisted') : Len(persisted'[i].fp) <= FingerprintSize
  <2>1. CASE persisted' = [i \in 1..Len(known') |-> Encoded(known'[i])]
    <3>1. Len(persisted') = Len(known')
      BY <1>3, <2>1
    <3>2. ASSUME NEW i \in 1..Len(known') PROVE persisted'[i].fp = known'[i].fp
      BY <2>1 DEF Encoded
    <3> QED
      BY <1>5, <3>1, <3>2 DEF Small
  <2>2. CASE persisted' = persisted
    BY <2>2 DEF AllSmall, SmallStored
  <2> QED
    BY <2>1, <2>2 DEF SaveCurrent
<1> QED
  BY <1>5, <1>6, <1>7 DEF AllSmall, SmallReaders, SmallStored

\* No step makes a fingerprint or its capacity too large.
LEMMA NextSmall == Typing /\ AllSmall /\ [Next]_vars => AllSmall'
<1> SUFFICES ASSUME Typing, AllSmall, [Next]_vars PROVE AllSmall'
  OBVIOUS
<1>0. known \in Seq(Reader) /\ readers \in Seq(Reader) /\ persisted \in Seq(Encodings)
  BY DEF Typing, TypeOK, ReadersOK
<1> USE DEF AllSmall, SmallReaders, SmallStored
<1>1. CASE Start
  <2>1. /\ known' = [i \in 1..Len(persisted) |-> Loaded(persisted[i])]
        /\ readers' = readers /\ fps' = fps /\ persisted' = persisted
    BY <1>1 DEF Start, makeVars
  <2>2. Len(known') = Len(persisted)
    BY <1>0, <2>1
  <2>3. ASSUME NEW i \in 1..Len(persisted) PROVE Small(known'[i])
    <3>1. known'[i] = Loaded(persisted[i]) /\ Len(persisted[i].fp) <= FingerprintSize
      BY <2>1
    <3> QED
      BY <3>1 DEF Loaded, Small
  <2> QED
    BY <2>1, <2>2, <2>3
<1>2. CASE Stopped \/ Crash \/ Panic
  <2>1. known' = <<>> /\ (readers' = readers \/ readers' = <<>>)
        /\ (fps' = fps \/ fps' = <<>>) /\ persisted' = persisted
    BY <1>2 DEF Stopped, Crash, Panic, Die, makeVars
  <2> QED
    BY <2>1
<1>3. CASE PollListing
  <2>1. /\ known' = [i \in 1..Len(known) |-> Aged(known[i])]
        /\ UNCHANGED <<readers, fps, persisted>>
    BY <1>3 DEF PollListing
  <2>2. Len(known') = Len(known)
    BY <1>0, <2>1
  <2>3. ASSUME NEW i \in 1..Len(known) PROVE Small(known'[i])
    <3>1. known[i] \in Reader /\ Small(known[i])
      BY <1>0
    <3>2. known'[i] = Aged(known[i])
      BY <2>1
    <3> QED
      BY <3>1, <3>2, SmallKept
  <2> QED
    BY <2>1, <2>2, <2>3
<1>4. CASE Roll
  <2>1. /\ known' = [i \in 1..Len(known) |->
                       IF IsLost(i) THEN Reading(known[i]) ELSE known[i]]
        /\ UNCHANGED <<readers, fps, persisted>>
    BY <1>4 DEF Roll, makeVars
  <2>2. Len(known') = Len(known)
    BY <1>0, <2>1
  <2>3. ASSUME NEW i \in 1..Len(known) PROVE Small(known'[i])
    <3>1. known[i] \in Reader /\ Small(known[i])
      BY <1>0
    <3>2. known'[i] = Reading(known[i]) \/ known'[i] = known[i]
      BY <2>1
    <3> QED
      BY <3>1, <3>2, SmallKept
  <2> QED
    BY <2>1, <2>2, <2>3
<1>5. ASSUME NEW n \in 1..Len(known), ReadLost(n) PROVE AllSmall'
  <2>1. /\ known' = [known EXCEPT ![n] = Scanned(known[n])]
        /\ UNCHANGED <<readers, fps, persisted>>
        /\ known[n].st = "reading" /\ ~Panics(known[n])
    BY <1>5 DEF ReadLost, makeVars
  <2>2. known[n] \in Reader /\ Small(known[n])
    BY <1>0
  <2>3. Small(Scanned(known[n]))
    BY <2>1, <2>2, SmallScanned DEF Typing
  <2> QED
    BY <1>0, <2>1, <2>3
<1>6. ASSUME NEW n \in 1..Len(readers), ReadToEnd(n) PROVE AllSmall'
  <2>1. /\ readers' = [readers EXCEPT ![n] = Scanned(readers[n])]
        /\ UNCHANGED <<known, fps, persisted>>
        /\ readers[n].st = "reading" /\ ~Panics(readers[n])
    BY <1>6 DEF ReadToEnd, makeVars
  <2>2. readers[n] \in Reader /\ Small(readers[n])
    BY <1>0
  <2>3. Small(Scanned(readers[n]))
    BY <2>1, <2>2, SmallScanned DEF Typing
  <2> QED
    BY <1>0, <2>1, <2>3
<1>7. CASE StartReading
  <2>1. /\ readers' = [i \in 1..Len(readers) |-> Reading(readers[i])]
        /\ UNCHANGED <<known, fps, persisted>>
    BY <1>7 DEF StartReading
  <2>2. Len(readers') = Len(readers)
    BY <1>0, <2>1
  <2>3. ASSUME NEW i \in 1..Len(readers) PROVE Small(readers'[i])
    <3>1. readers[i] \in Reader /\ Small(readers[i])
      BY <1>0
    <3>2. readers'[i] = Reading(readers[i])
      BY <2>1
    <3> QED
      BY <3>1, <3>2, SmallKept
  <2> QED
    BY <2>1, <2>2, <2>3
<1>8. CASE SaveCurrent
  BY <1>8, SaveSmall
<1>9. CASE UNCHANGED <<known, readers, fps, persisted>>
  BY <1>9
<1>10. CASE Cancel \/ PollQueued \/ OpenFile \/ CollectGarbage \/ UNCHANGED vars
  BY <1>9, <1>10 DEF Cancel, PollQueued, OpenFile, CollectGarbage, makeVars, vars
<1>11. CASE Filesystem
  BY <1>9, <1>11, FilesystemTyping DEF opVars, makeVars
<1>12. CASE NewFingerprint \/ ExcludeFile \/ MatchedReader \/ FreshReader
  BY <1>12, MakeSmall
<1> QED
  BY <1>1, <1>2, <1>3, <1>4, <1>5, <1>6, <1>7, <1>8, <1>10, <1>11, <1>12
     DEF Next, Poller, makeReaders

\* No reader ever holds more than fingerprint_size of a file, whatever files are
\* copied, truncated or confused, wherever readers start and however often their
\* fingerprints went through a checkpoint.
THEOREM FingerprintsBoundedCorrect == Spec => []FingerprintsBounded
<1>1. Init => AllSmall
  BY DEF Init, AllSmall, SmallReaders, SmallStored
<1>2. AllSmall => FingerprintsBounded
  BY DEF AllSmall, SmallReaders, Small, FingerprintsBounded
<1> QED
  BY <1>1, <1>2, NextSmall, TypingCorrect, PTL DEF Spec

-----------------------------------------------------------------------------
(* All open files.  If no directory matches, every file of a batch gets its   *)
(* fingerprint, the two lists of makeReaders stay in step, and no handle is   *)
(* lost track of.                                                             *)

NoDirectory ==
  /\ \A p \in Paths : fs[p] # Dir
  /\ \A i \in 1..Len(unread) : unread[i] # Dir

InStep == Len(unread) + Len(fps) = Len(files)

NothingLeaked == NoDirectory /\ InStep /\ leaked = 0

\* A file is not a directory, and neither is nothing.
LEMMA FilesNotDir == NoFile # Dir /\ \A i \in Inodes : i # Dir
  BY Numbers DEF NoFile, Dir, Inodes

\* The filesystem makes no directories.
LEMMA FilesystemNoDir ==
  ASSUME Typing, \A p \in Paths : fs[p] # Dir, Filesystem
  PROVE  \A p \in Paths : fs'[p] # Dir
<1>1. fs \in [Paths -> Handles] /\ nextIno \in 1..(MaxInodes + 1)
  BY DEF Typing, TypeOK, FilesystemOK
<1>2. ASSUME nextIno <= MaxInodes PROVE nextIno # Dir
  BY <1>1, <1>2, Numbers DEF Dir
<1>3. ASSUME NEW p \in Paths, CreateFile(p)
      PROVE  \A q \in Paths : fs'[q] # Dir
  BY <1>1, <1>2, <1>3 DEF CreateFile
<1>4. ASSUME NEW p \in Paths, RemoveFile(p)
      PROVE  \A q \in Paths : fs'[q] # Dir
  BY <1>1, <1>4, FilesNotDir DEF RemoveFile
<1>5. ASSUME NEW p \in Paths, TruncateFile(p)
      PROVE  \A q \in Paths : fs'[q] # Dir
  BY <1>5 DEF TruncateFile
<1>6. ASSUME NEW i \in Inodes, WriteLine(i)
      PROVE  \A q \in Paths : fs'[q] # Dir
  BY <1>6 DEF WriteLine
<1>7. ASSUME NEW p \in Paths, NEW q \in Paths, MoveFile(p, q)
      PROVE  \A x \in Paths : fs'[x] # Dir
  BY <1>1, <1>7, FilesNotDir DEF MoveFile
<1>8. ASSUME NEW p \in Paths, NEW q \in Paths, CopyFile(p, q)
      PROVE  \A x \in Paths : fs'[x] # Dir
  BY <1>1, <1>2, <1>8 DEF CopyFile
<1> QED
  BY <1>3, <1>4, <1>5, <1>6, <1>7, <1>8 DEF Filesystem

\* makeReaders takes from and adds to both lists alike.
LEMMA MakeInStep ==
  ASSUME Typing, NothingLeaked, makeReaders
  PROVE  NothingLeaked'
<1>1. /\ matches \in Seq(Paths) /\ files \in Seq(Handles) /\ unread \in Seq(Handles)
      /\ fps \in Seq(Bytes)
  BY DEF Typing, TypeOK, MakeReadersOK
<1>2. fs' = fs /\ leaked' = 0
  BY DEF makeReaders, OpenFile, NewFingerprint, ExcludeFile, MatchedReader, FreshReader,
         fsVars, NothingLeaked
<1>3. CASE OpenFile
  <2>1. fps' = fps /\ matches # <<>>
    BY <1>3 DEF OpenFile
  <2>2. CASE files' = files /\ unread' = unread
    BY <1>2, <2>1, <2>2 DEF NothingLeaked, NoDirectory, InStep
  <2>3. CASE /\ files' = Append(files, fs[Head(matches)])
             /\ unread' = Append(unread, fs[Head(matches)])
    <3>1. fs[Head(matches)] \in Handles /\ fs[Head(matches)] # Dir
      <4>1. Head(matches) \in Paths
        BY <1>1, <2>1
      <4> QED
        BY <4>1 DEF NothingLeaked, NoDirectory, Typing, TypeOK, FilesystemOK
    <3>2. /\ Len(unread') = Len(unread) + 1 /\ Len(files') = Len(files) + 1
          /\ \A i \in 1..Len(unread) : unread'[i] = unread[i]
          /\ unread'[Len(unread) + 1] = fs[Head(matches)]
          /\ Len(unread) \in Nat /\ Len(files) \in Nat /\ Len(fps) \in Nat
      BY <1>1, <2>3, <3>1, AppendProperties
    <3>3. ASSUME NEW i \in 1..Len(unread') PROVE unread'[i] # Dir
      <4>1. i \in 1..Len(unread) \/ i = Len(unread) + 1
        BY <3>2
      <4> QED
        BY <3>1, <3>2, <4>1 DEF NothingLeaked, NoDirectory
    <3> QED
      BY <1>2, <2>1, <3>2, <3>3 DEF NothingLeaked, NoDirectory, InStep
  <2> QED
    BY <1>3, <2>2, <2>3 DEF OpenFile
<1>4. CASE NewFingerprint
  <2>1. unread # <<>> /\ unread' = Tail(unread) /\ files' = files
    BY <1>4 DEF NewFingerprint
  <2>2. 1 \in 1..Len(unread) /\ Head(unread) = unread[1]
    BY <1>1, <2>1
  <2>3. Head(unread) # Dir
    BY <2>2 DEF NothingLeaked, NoDirectory
  <2>4. fps' = Append(fps, First(Contents(Head(unread)), FingerprintSize))
    BY <1>4, <2>3 DEF NewFingerprint
  <2>5. Len(fps') = Len(fps) + 1
    BY <1>1, <2>4
  <2>6. /\ Len(unread') = Len(unread) - 1
        /\ \A i \in 1..Len(unread') : unread'[i] = unread[i + 1]
    BY <1>1, <2>1
  <2>7. /\ \A i \in 1..Len(unread') : i + 1 \in 1..Len(unread)
        /\ Len(unread) \in Nat /\ Len(files) \in Nat /\ Len(fps) \in Nat
    BY <1>1, <2>6
  <2>8. \A i \in 1..Len(unread') : unread'[i] # Dir
    BY <2>6, <2>7 DEF NothingLeaked, NoDirectory
  <2> QED
    BY <1>2, <2>1, <2>5, <2>6, <2>7, <2>8 DEF NothingLeaked, NoDirectory, InStep
<1>5. CASE ExcludeFile \/ MatchedReader \/ FreshReader
  <2>1. /\ unread = <<>> /\ fps # <<>> /\ unread' = unread
        /\ files' = Tail(files) /\ fps' = Tail(fps)
    BY <1>5 DEF ExcludeFile, MatchedReader, FreshReader, Pairing
  <2>2. Len(fps) = Len(files) /\ files # <<>>
    BY <1>1, <2>1 DEF NothingLeaked, InStep
  <2>3. Len(fps') = Len(fps) - 1 /\ Len(files') = Len(files) - 1
    BY <1>1, <2>1, <2>2
  <2>4. Len(unread') + Len(fps') = Len(files')
    BY <1>1, <2>1, <2>2, <2>3
  <2> QED
    BY <1>2, <2>1, <2>4 DEF NothingLeaked, NoDirectory, InStep
<1> QED
  BY <1>3, <1>4, <1>5 DEF makeReaders

\* No step loses track of a handle.
LEMMA NextNothingLeaked == Typing /\ NothingLeaked /\ [Next]_vars => NothingLeaked'
<1> SUFFICES ASSUME Typing, NothingLeaked, [Next]_vars PROVE NothingLeaked'
  OBVIOUS
<1> USE DEF NothingLeaked, NoDirectory, InStep
<1>1. CASE UNCHANGED <<fs, files, unread, fps, leaked>>
  BY <1>1
<1>2. CASE Start \/ Cancel \/ Stopped \/ UNCHANGED vars
  BY <1>1, <1>2 DEF Start, Cancel, Stopped, vars, fsVars, makeVars
<1>3. CASE PollQueued \/ PollListing \/ Roll \/ SaveCurrent
  BY <1>1, <1>3 DEF PollQueued, PollListing, Roll, SaveCurrent, fsVars, makeVars
<1>4. ASSUME NEW i \in 1..Len(readers), ReadToEnd(i) PROVE NothingLeaked'
  BY <1>1, <1>4 DEF ReadToEnd, fsVars, makeVars
<1>5. ASSUME NEW i \in 1..Len(known), ReadLost(i) PROVE NothingLeaked'
  BY <1>1, <1>5 DEF ReadLost, fsVars, makeVars
<1>6. CASE Crash \/ Panic
  BY <1>6 DEF Crash, Panic, Die, fsVars
<1>7. CASE CollectGarbage
  BY <1>7 DEF CollectGarbage
<1>8. CASE makeReaders
  BY <1>8, MakeInStep
<1>9. CASE StartReading
  <2>1. /\ unread = <<>> /\ fps = <<>> /\ files' = <<>>
        /\ leaked' = Least(leaked + Len(files), MaxLeaked)
        /\ UNCHANGED <<fs, unread, fps>>
    BY <1>9 DEF StartReading, fsVars
  <2>2. leaked + Len(files) = 0
    BY <2>1
  <2>3. leaked' = 0
    BY <2>1, <2>2, Numbers DEF Least, MaxLeaked
  <2> QED
    BY <2>1, <2>3
<1>10. CASE Filesystem
  <2>1. UNCHANGED <<files, unread, fps, leaked>>
    BY <1>10, FilesystemTyping DEF opVars, makeVars
  <2> QED
    BY <1>10, <2>1, FilesystemNoDir
<1> QED
  BY <1>2, <1>3, <1>4, <1>5, <1>6, <1>7, <1>8, <1>9, <1>10 DEF Next, Poller

\* If no watched path names a directory, all the files the operator has open, at
\* any moment of any poll, are within max_concurrent_files.
THEOREM HandlesCorrect == DirPaths = {} => (Spec => []HandlesBounded)
<1> SUFFICES ASSUME DirPaths = {} PROVE Spec => []HandlesBounded
  OBVIOUS
<1>1. Init => NothingLeaked
  BY FilesNotDir DEF Init, NothingLeaked, NoDirectory, InStep
<1>2. Typing /\ TrackedHandlesBounded /\ NothingLeaked => HandlesBounded
  BY Lengths DEF NothingLeaked, HandlesBounded, TrackedHandlesBounded, TrackedHandles
<1> QED
  BY <1>1, <1>2, NextNothingLeaked, TypingCorrect, TrackedHandlesCorrect, PTL DEF Spec

=============================================================================
